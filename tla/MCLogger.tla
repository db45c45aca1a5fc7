------------------------------ MODULE MCLogger ------------------------------
(* Two names, two records, two failures.  The second row of a log leaves   *)
(* its directory entry; the third row of a detumbleLOG, of 3 cells,        *)
(* crosses a block of 8; those of a detumbleSTART, of 4, fill pages.       *)
EXTENDS Logger, TLC

CONSTANTS log1, log2, detumbleLOG, detumbleSTART, a, b

MCRowSize == detumbleLOG :> 3 @@ detumbleSTART :> 4

\* No property is one of liveness: names and records may be exchanged.
Sym == Permutations({log1, log2}) \cup Permutations({a, b})
=============================================================================
