----------------------------- MODULE Deployment -----------------------------
(***************************************************************************)
(* What the deployment sequence promises, without records, saves, boots,   *)
(* clocks or a radio: which burns may happen, after how much powered time, *)
(* and what ends them.  Startup implements it over a store whose updates   *)
(* may be lost and with resets anywhere.                                   *)
(***************************************************************************)
EXTENDS Naturals

CONSTANTS
  Limit,     \* attempts saturate here
  Interval   \* powered time owed after the burn of each attempt

VARIABLES
  stage,     \* how far the deployment has come, for every later boot
  attempts,  \* attempts consumed
  wire,      \* "off", "reserved" (its attempt is consumed) or "on"
  owed,      \* powered time to pass before the wire may be on again
  heard      \* tokens received from the ground

vars == <<stage, attempts, wire, owed, heard>>

Stages == {"unarmed", "inhibited", "deploying", "talking", "done"}

Init ==
  /\ stage \in Stages
  /\ attempts \in 0 .. Limit
  /\ wire = "off"
  /\ owed \in Nat
  /\ heard \subseteq {"START", "ACK"}

(* Powered time counts only while the wire is off; time without power does not. *)
Pass ==
  /\ wire = "off"
  /\ owed' \in 0 .. owed
  /\ UNCHANGED <<stage, attempts, wire, heard>>

EndInhibit ==
  /\ stage = "inhibited" /\ owed = 0
  /\ stage' = "deploying"
  /\ UNCHANGED <<attempts, wire, owed, heard>>

(* The attempt is consumed for good, whether the program still gets to burn or not. *)
Reserve ==
  /\ stage = "deploying" /\ wire = "off" /\ owed = 0
  /\ attempts' = IF attempts < Limit THEN attempts + 1 ELSE Limit
  /\ wire' \in {"off", "reserved"}
  /\ UNCHANGED <<stage, owed, heard>>

Burn ==
  /\ stage = "deploying" /\ wire = "reserved" /\ owed = 0
  /\ wire' = "on"
  /\ owed' = Interval[attempts]
  /\ UNCHANGED <<stage, attempts, heard>>

(* The burn is over, or a reset cut it or its reservation. *)
Off ==
  /\ wire' = "off"
  /\ UNCHANGED <<stage, attempts, owed, heard>>

(* A START calls off the burn that was about to begin. *)
HearStart ==
  /\ stage = "deploying" /\ wire # "on"
  /\ heard' = heard \cup {"START"}
  /\ wire' = "off"
  /\ UNCHANGED <<stage, attempts, owed>>

Talk ==
  /\ stage = "deploying" /\ wire = "off" /\ "START" \in heard
  /\ stage' = "talking"
  /\ UNCHANGED <<attempts, wire, owed, heard>>

HearAck ==
  /\ stage = "talking"
  /\ heard' = heard \cup {"ACK"}
  /\ UNCHANGED <<stage, attempts, wire, owed>>

Finish ==
  /\ stage = "talking" /\ "ACK" \in heard
  /\ stage' = "done"
  /\ UNCHANGED <<attempts, wire, owed, heard>>

Next ==
  \/ Pass \/ EndInhibit \/ Reserve \/ Burn \/ Off \/ HearStart \/ Talk \/ HearAck \/ Finish

Spec == Init /\ [][Next]_vars
=============================================================================
