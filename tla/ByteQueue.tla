----------------------------- MODULE ByteQueue -----------------------------
(***************************************************************************)
(* What a receive ring promises: bytes are taken in the order they came,   *)
(* each once; a byte that finds it full empties it, itself included.       *)
(***************************************************************************)
EXTENDS Naturals, Sequences

CONSTANTS Byte, Capacity, NoByte

VARIABLES
  queue,   \* bytes not taken yet
  taken    \* the byte taken last

vars == <<queue, taken>>

Init == queue = <<>> /\ taken = NoByte

Put(byte) ==
  /\ queue' = IF Len(queue) = Capacity THEN <<>> ELSE Append(queue, byte)
  /\ UNCHANGED taken

Take ==
  /\ queue # <<>>
  /\ taken' = Head(queue) /\ queue' = Tail(queue)

Next == Take \/ \E byte \in Byte : Put(byte)

Spec == Init /\ [][Next]_vars
=============================================================================
