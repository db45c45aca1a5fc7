------------------------------ MODULE Journal ------------------------------
(***************************************************************************)
(* What the logger promises of its files, without pages, caches, flushes   *)
(* or formats: the open log is a transaction.  Nothing accepted for it is  *)
(* on the part before a commit, and a commit takes all of it or nothing.   *)
(* Logger implements it over a part that fails and with resets anywhere.   *)
(***************************************************************************)
EXTENDS Naturals, Sequences

CONSTANT Name

VARIABLES
  kept,      \* the logs the next boot finds, by name
  accepted,  \* all that was accepted for the open log, under its name
  fresh,     \* the open log was created and not committed yet
  sound      \* no call of the FLASH failed so far

vars == <<kept, accepted, fresh, sound>>

Nothing == [n \in {} |-> <<>>]
Put(n, cells) == [m \in DOMAIN kept \cup {n} |-> IF m = n THEN cells ELSE kept[m]]
IsExtension(old, new) == Len(old) <= Len(new) /\ \A i \in 1 .. Len(old) : new[i] = old[i]

Init ==
  /\ kept = Nothing /\ accepted = Nothing
  /\ fresh = FALSE /\ sound = TRUE

(* A part that failed, perhaps long ago, may be formatted at any boot. *)
Erase ==
  /\ accepted = Nothing /\ ~sound'
  /\ kept' = Nothing
  /\ UNCHANGED <<accepted, fresh>>

(* A new log is there at once, and empty; one that exists stays until the commit. *)
Create(n) ==
  /\ accepted = Nothing
  /\ \/ kept' = kept
     \/ n \notin DOMAIN kept /\ kept' = Put(n, <<>>)
  /\ \/ /\ n \in DOMAIN kept' /\ DOMAIN accepted' = {n}
        /\ fresh' = TRUE
     \/ ~sound' /\ UNCHANGED <<accepted, fresh>>

Open(n) ==
  /\ accepted = Nothing /\ n \in DOMAIN kept
  /\ accepted' = [m \in {n} |-> kept[n]]
  /\ UNCHANGED <<kept, fresh>>

Accept(n) ==
  /\ n \in DOMAIN accepted /\ ~fresh
  /\ DOMAIN accepted' = {n} /\ IsExtension(accepted[n], accepted'[n])
  /\ UNCHANGED <<kept, fresh>>

Commit(n) ==
  \/ kept' = Put(n, accepted[n])
  \/ kept' = kept /\ ~sound'

CommitCreated(n) ==
  /\ n \in DOMAIN accepted /\ fresh
  /\ Commit(n) /\ fresh' = FALSE
  /\ UNCHANGED accepted

Close(n) ==
  /\ n \in DOMAIN accepted /\ ~fresh
  /\ Commit(n) /\ accepted' = Nothing
  /\ UNCHANGED fresh

Reset ==
  /\ accepted' = Nothing /\ fresh' = FALSE
  /\ UNCHANGED kept

Fail ==
  /\ ~sound'
  /\ UNCHANGED <<kept, accepted, fresh>>

Next ==
  /\ sound' \in BOOLEAN /\ (sound' => sound)
  /\ \/ Erase \/ Reset \/ Fail
     \/ \E n \in Name :
          Create(n) \/ Open(n) \/ Accept(n) \/ CommitCreated(n) \/ Close(n)

Spec == Init /\ [][Next]_vars
=============================================================================
