--------------------------- MODULE MCRtcCallbacks ---------------------------
(***************************************************************************)
(* Small instances of RtcCallbacks: two slots, a day of a few seconds,     *)
(* requests that run once, that repeat, and one that deletes all entries.  *)
(***************************************************************************)
EXTENDS RtcCallbacks

Ask(delta, continuous, kills) == [delta |-> delta, continuous |-> continuous, kills |-> kills]
MCAsked == {Ask(1, FALSE, FALSE), Ask(2, TRUE, FALSE), Ask(2, FALSE, TRUE)}
MCOnce == {Ask(1, FALSE, FALSE)}
=============================================================================
