--------------------------- MODULE CrcLink_proofs ---------------------------
(***************************************************************************)
(* Proofs about CrcLink, for any number of chunks, attempts, tries, calls  *)
(* and faults: its types, that every answer used is an answer given, that  *)
(* every step of a call brings its end nearer, the order of what the       *)
(* reader returns, and that without a late answer it comes of one transfer *)
(* and a transfer reported as transmitted was received.                    *)
(***************************************************************************)
EXTENDS CrcLink, FiniteSetTheorems, SequenceTheorems, TLAPS

-----------------------------------------------------------------------------
(* Counting the answers under way.                                         *)

As(s) == {n \in DOMAIN s : s[n] = "A"}

LEMMA AsFinite ==
  ASSUME NEW s \in Seq(Byte)
  PROVE  /\ IsFiniteSet(As(s)) /\ Cardinality(As(s)) \in Nat
<1>1. Len(s) \in Nat /\ DOMAIN s = 1 .. Len(s)
  OBVIOUS
<1>2. IsFiniteSet(1 .. Len(s))
  BY <1>1, FS_Interval
<1>3. As(s) \in SUBSET (1 .. Len(s))
  BY <1>1 DEF As
<1>4. IsFiniteSet(As(s))
  BY <1>2, <1>3, FS_Subset
<1> QED BY <1>4, FS_CardinalityType

\* An answer more.
LEMMA AsAppend ==
  ASSUME NEW s \in Seq(Byte)
  PROVE  Cardinality(As(Append(s, "A"))) = Cardinality(As(s)) + 1
<1>1. As(Append(s, "A")) = As(s) \cup {Len(s) + 1}
  BY DEF As
<1>2. Len(s) + 1 \notin As(s)
  BY DEF As
<1> QED BY <1>1, <1>2, AsFinite, FS_AddElement

\* A map that takes the answers of t to answers of s other than the n-th.
LEMMA AsFewer ==
  ASSUME NEW s \in Seq(Byte), NEW t \in Seq(Byte), NEW f, NEW n,
         f \in [As(t) -> As(s) \ {n}],
         \A a, b \in As(t) : f[a] = f[b] => a = b
  PROVE  Cardinality(As(t)) <= IF n \in As(s) THEN Cardinality(As(s)) - 1
                               ELSE Cardinality(As(s))
<1>1. IsFiniteSet(As(s) \ {n})
      /\ Cardinality(As(s) \ {n}) = IF n \in As(s) THEN Cardinality(As(s)) - 1
                                    ELSE Cardinality(As(s))
  BY AsFinite, FS_RemoveElement
<1>2. f \in Injection(As(t), As(s) \ {n})
  BY DEF Injection, IsInjective
<1>3. Cardinality(As(t)) <= Cardinality(As(s) \ {n})
  BY <1>1, <1>2, FS_Injection
<1> QED BY <1>1, <1>3

\* The first byte was taken.
LEMMA AsTail ==
  ASSUME NEW s \in Seq(Byte), s # <<>>
  PROVE  Cardinality(As(Tail(s))) <= IF Head(s) = "A" THEN Cardinality(As(s)) - 1
                                     ELSE Cardinality(As(s))
<1> DEFINE f == [n \in As(Tail(s)) |-> n + 1]
<1>1. /\ Tail(s) \in Seq(Byte) /\ Len(Tail(s)) = Len(s) - 1 /\ Len(s) \in Nat /\ Len(s) > 0
      /\ DOMAIN s = 1 .. Len(s) /\ DOMAIN Tail(s) = 1 .. Len(s) - 1
      /\ \A n \in 1 .. Len(s) - 1 : Tail(s)[n] = s[n + 1]
  OBVIOUS
<1>2. \A n \in As(Tail(s)) : n \in Nat /\ n + 1 \in As(s) /\ n + 1 # 1
  BY <1>1 DEF As
<1>3. f \in [As(Tail(s)) -> As(s) \ {1}]
  BY <1>2
<1>4. \A a, b \in As(Tail(s)) : f[a] = f[b] => a = b
  BY <1>2
<1>5. 1 \in As(s) <=> Head(s) = "A"
  BY <1>1 DEF As
<1> HIDE DEF f
<1> QED BY <1>1, <1>3, <1>4, <1>5, AsFewer

\* A sequence without its n-th element.
LEMMA RemovedAt ==
  ASSUME NEW S, NEW s \in Seq(S), NEW n \in DOMAIN s
  PROVE  /\ Len(s) \in Nat /\ n \in 1 .. Len(s)
         /\ RemoveAt(s, n) \in Seq(S) /\ Len(RemoveAt(s, n)) = Len(s) - 1
         /\ \A i \in 1 .. Len(s) - 1 :
              RemoveAt(s, n)[i] = s[IF i < n THEN i ELSE i + 1]
<1> DEFINE front == SubSeq(s, 1, n - 1)
           back == SubSeq(s, n + 1, Len(s))
<1>1. Len(s) \in Nat /\ n \in 1 .. Len(s) /\ DOMAIN s = 1 .. Len(s)
  OBVIOUS
<1>2. /\ front \in Seq(S) /\ Len(front) = n - 1
      /\ \A i \in 1 .. n - 1 : front[i] = s[i]
  BY <1>1
<1>3. /\ back \in Seq(S) /\ Len(back) = Len(s) - n
      /\ \A i \in 1 .. Len(s) - n : back[i] = s[n + i]
  BY <1>1
<1>4. RemoveAt(s, n) = front \o back
  BY DEF RemoveAt
<1> HIDE DEF front, back
<1>5. /\ front \o back \in Seq(S) /\ Len(front \o back) = Len(s) - 1
      /\ \A i \in 1 .. Len(s) - 1 :
           (front \o back)[i] = IF i <= n - 1 THEN front[i] ELSE back[i - (n - 1)]
  <2>1. /\ front \o back \in Seq(S) /\ Len(front \o back) = Len(front) + Len(back)
        /\ \A i \in 1 .. Len(front) + Len(back) :
             (front \o back)[i] = IF i <= Len(front) THEN front[i] ELSE back[i - Len(front)]
    BY <1>2, <1>3, ConcatProperties
  <2>2. Len(front) + Len(back) = Len(s) - 1
    BY <1>1, <1>2, <1>3
  <2> QED BY <1>2, <2>1, <2>2
<1>6. ASSUME NEW i \in 1 .. Len(s) - 1
      PROVE  (front \o back)[i] = s[IF i < n THEN i ELSE i + 1]
  <2>1. CASE i < n
    BY <1>1, <1>2, <1>5, <2>1
  <2>2. CASE ~(i < n)
    <3>1. i - (n - 1) \in 1 .. Len(s) - n /\ n + (i - (n - 1)) = i + 1
      BY <1>1, <2>2
    <3>2. (front \o back)[i] = back[i - (n - 1)]
      BY <1>1, <1>5, <2>2
    <3> QED BY <1>3, <2>2, <3>1, <3>2
  <2> QED BY <2>1, <2>2
<1> QED BY <1>1, <1>4, <1>5, <1>6

\* One answer was lost.
LEMMA AsRemove ==
  ASSUME NEW s \in Seq(Byte), NEW n \in DOMAIN s, s[n] = "A"
  PROVE  /\ RemoveAt(s, n) \in Seq(Byte)
         /\ Cardinality(As(RemoveAt(s, n))) <= Cardinality(As(s)) - 1
<1> DEFINE t == RemoveAt(s, n)
           f == [i \in As(t) |-> IF i < n THEN i ELSE i + 1]
<1>1. /\ Len(s) \in Nat /\ n \in 1 .. Len(s)
      /\ t \in Seq(Byte) /\ Len(t) = Len(s) - 1
      /\ \A i \in 1 .. Len(s) - 1 : t[i] = s[IF i < n THEN i ELSE i + 1]
  BY RemovedAt
<1>2. \A i \in As(t) : /\ i \in 1 .. Len(s) - 1
                       /\ (IF i < n THEN i ELSE i + 1) \in As(s) \ {n}
  BY <1>1 DEF As
<1>3. f \in [As(t) -> As(s) \ {n}]
  BY <1>2
<1>4. \A a, b \in As(t) : f[a] = f[b] => a = b
  BY <1>1, <1>2
<1>5. n \in As(s)
  BY DEF As
<1> HIDE DEF f
<1> QED BY <1>1, <1>3, <1>4, <1>5, AsFewer

\* One answer was garbled.
LEMMA AsGarble ==
  ASSUME NEW s \in Seq(Byte), NEW n \in DOMAIN s, s[n] = "A", NEW byte \in Byte \ {"A"}
  PROVE  /\ [s EXCEPT ![n] = byte] \in Seq(Byte)
         /\ Cardinality(As([s EXCEPT ![n] = byte])) <= Cardinality(As(s)) - 1
<1> DEFINE t == [s EXCEPT ![n] = byte]
           f == [i \in As(t) |-> i]
<1>1. t \in Seq(Byte)
  OBVIOUS
<1>2. As(t) \subseteq As(s) \ {n}
  BY DEF As
<1>3. f \in [As(t) -> As(s) \ {n}]
  BY <1>2
<1>4. \A a, b \in As(t) : f[a] = f[b] => a = b
  OBVIOUS
<1>5. n \in As(s)
  BY DEF As
<1> HIDE DEF f
<1> QED BY <1>1, <1>3, <1>4, <1>5, AsFewer

-----------------------------------------------------------------------------
(* The inductive invariant.                                                *)

\* The reader will not read again: what is under way is never answered.
Exhausted == reader.pc = "idle" /\ reader.calls = Reads

ISender ==
  /\ sender.pc # "idle" => sender.transfer >= 1
  /\ sender.pc = "send" => sender.attempts < Attempts

InOrder(got) == \A n \in 1 .. Len(got) : got[n][2] = n - 1

IReader ==
  /\ Len(reader.got) < Chunks /\ InOrder(reader.got)
  /\ \A got \in returned : Len(got) = Chunks /\ InOrder(got)

\* What is under way is the frame waited for or its answer, one of the two.
IPrompt ==
  /\ answers # <<>> =>
       /\ sender.pc = "wait" /\ Len(answers) = 1
       /\ answers[1] = "A" => frame \in received
       /\ frames = <<>> \/ Exhausted
  /\ \/ frames = <<>> \/ Exhausted
     \/ /\ sender.pc = "wait" /\ answers = <<>>
        /\ Len(frames) = 1 /\ frames[1] \in {frame, Garbled}

\* The chunks before the one being sent were received.
IProgress ==
  /\ sender.pc # "idle" =>
       \A chunk \in 0 .. sender.chunk - 1 : <<sender.transfer, chunk>> \in received
  /\ ReportedMeansReceived

IType == TypeOK /\ ISender /\ EveryBeliefAnswered
IOrder == IType /\ IReader
IInv == IOrder /\ (~late => IPrompt /\ IProgress)

-----------------------------------------------------------------------------
(* Types, and the answers used.                                            *)

LEMMA Bounds ==
  /\ Chunks \in Nat /\ Attempts \in Nat /\ Tries \in Nat /\ Transfers \in Nat
  /\ Reads \in Nat /\ Faults \in Nat
  /\ Chunks > 0 /\ Attempts > 0 /\ Tries > 0
BY LinkAssumption

\* What a typed state gives the steps.
LEMMA Types ==
  ASSUME TypeOK
  PROVE  /\ frames \in Seq(Frame \cup {Garbled}) /\ answers \in Seq(Byte)
         /\ sender.transfer \in 0 .. Transfers /\ sender.chunk \in 0 .. Chunks - 1
         /\ sender.attempts \in 0 .. Attempts /\ sender.tries \in 0 .. Tries - 1
         /\ reader.calls \in 0 .. Reads /\ reader.got \in Seq(Frame)
         /\ acks.intact \in Nat /\ acks.used \in Nat
         /\ Cardinality(As(answers)) \in Nat
BY AsFinite DEF TypeOK

\* Answers that are no more than before, without use or loss of one.
LEMMA BeliefKept ==
  ASSUME TypeOK, EveryBeliefAnswered,
         acks'.used = acks.used, acks'.intact = acks.intact, answers' = answers
  PROVE  EveryBeliefAnswered'
BY DEF EveryBeliefAnswered

\* The type of the sender, field by field.
SenderType == [pc : {"idle", "send", "wait"}, transfer : 0 .. Transfers, chunk : 0 .. Chunks - 1,
               attempts : 0 .. Attempts, tries : 0 .. Tries - 1]

LEMMA BeginTypes == ASSUME IType, Transmit \/ Read PROVE IType'
<1>0. TypeOK
  BY DEF IType
<1>1. CASE Transmit
  <2>1. /\ sender' = [pc |-> "send", transfer |-> sender.transfer + 1, chunk |-> 0,
                      attempts |-> 0, tries |-> 0]
        /\ UNCHANGED <<frames, answers, reader, reported, returned, received, acks, faults, late>>
    BY <1>1 DEF Transmit
  <2> DEFINE next == sender.transfer + 1
  <2>2. next \in 1 .. Transfers
    <3>1. sender.transfer \in 0 .. Transfers /\ sender.transfer < Transfers
      BY <1>0, <1>1, Types DEF Transmit
    <3> QED BY <3>1, Bounds
  <2> HIDE DEF next
  <2>3. sender' = [pc |-> "send", transfer |-> next, chunk |-> 0, attempts |-> 0, tries |-> 0]
    BY <2>1 DEF next
  <2>4. TypeOK'
    <3>1. sender' \in SenderType
      BY <2>2, <2>3, Bounds DEF SenderType
    <3> QED BY <1>0, <2>1, <3>1 DEF TypeOK, SenderType
  <2>5. ISender'
    BY <2>2, <2>3, Bounds DEF ISender
  <2>6. EveryBeliefAnswered'
    BY <1>1 DEF IType, EveryBeliefAnswered, Transmit
  <2> QED BY <2>4, <2>5, <2>6 DEF IType
<1>2. CASE Read
  <2>1. TypeOK'
    <3> DEFINE calls == reader.calls + 1
    <3>1. calls \in 0 .. Reads
      <4>1. reader.calls \in 0 .. Reads /\ reader.calls < Reads
        BY <1>0, <1>2, Types DEF Read
      <4> QED BY <4>1, Bounds
    <3>2. reader' = [pc |-> "read", calls |-> calls, got |-> <<>>]
      BY <1>2 DEF Read
    <3> HIDE DEF calls
    <3>3. reader' \in [pc : {"idle", "read"}, calls : 0 .. Reads, got : Seq(Frame)]
      BY <3>2, <3>1
    <3> QED BY <1>0, <1>2, <3>3 DEF TypeOK, Read
  <2>2. ISender' /\ EveryBeliefAnswered'
    BY <1>2 DEF IType, ISender, EveryBeliefAnswered, Read
  <2> QED BY <2>1, <2>2 DEF IType
<1> QED BY <1>1, <1>2

LEMMA SendTypes == ASSUME IType, Send PROVE IType'
<1>1. frame \in Frame
  BY Types DEF IType, ISender, Send, frame, Frame
<1>2. frames' \in Seq(Frame \cup {Garbled})
  BY <1>1, Types DEF IType, Send
<1>3. sender' \in SenderType
  <2>1. sender \in SenderType /\ sender.attempts < Attempts
    BY DEF IType, ISender, TypeOK, Send, SenderType
  <2>2. sender.attempts + 1 \in 0 .. Attempts /\ 0 \in 0 .. Tries - 1
    BY <2>1, Bounds DEF SenderType
  <2> QED BY <2>1, <2>2 DEF Send, SenderType
<1>4. TypeOK'
  BY <1>2, <1>3 DEF IType, TypeOK, Send, SenderType
<1>5. ISender'
  BY DEF IType, TypeOK, ISender, Send
<1>6. EveryBeliefAnswered'
  BY BeliefKept DEF IType, Send
<1> QED BY <1>4, <1>5, <1>6 DEF IType

\* The sender goes to the next chunk, retries, or gives up.
LEMMA SenderMoves ==
  ASSUME TypeOK, ISender, sender.pc = "wait",
         \/ NextChunk
         \/ sender.tries + 1 < Tries /\ sender' = used_try /\ UNCHANGED reported
         \/ may_retry /\ sender' = [sender EXCEPT !.pc = "send", !.tries = 0]
            /\ UNCHANGED reported
         \/ sender' = [sender EXCEPT !.pc = "idle", !.tries = 0] /\ UNCHANGED reported
  PROVE  /\ sender' \in SenderType
         /\ reported' \subseteq 1 .. Transfers
         /\ ISender'
<1>1. sender \in SenderType /\ reported \subseteq 1 .. Transfers /\ sender.transfer >= 1
  BY DEF TypeOK, SenderType, ISender
<1>2. /\ sender.transfer \in 1 .. Transfers /\ sender.chunk \in Nat /\ sender.attempts \in 0 .. Attempts
      /\ sender.tries \in Nat /\ 0 \in 0 .. Tries - 1 /\ 0 \in 0 .. Attempts /\ 0 < Attempts
  BY <1>1, Bounds, Types DEF SenderType
<1>3. CASE NextChunk /\ sender.chunk + 1 < Chunks
  <2>1. /\ sender' = [sender EXCEPT !.pc = "send", !.chunk = @ + 1, !.attempts = 0, !.tries = 0]
        /\ reported' = reported /\ sender.chunk + 1 \in 0 .. Chunks - 1
    BY <1>2, <1>3, Bounds DEF NextChunk
  <2> QED BY <1>1, <1>2, <2>1 DEF SenderType, ISender
<1>4. CASE NextChunk /\ ~(sender.chunk + 1 < Chunks)
  <2>1. /\ sender' = [sender EXCEPT !.pc = "idle", !.tries = 0]
        /\ reported' = reported \cup {sender.transfer}
    BY <1>4 DEF NextChunk
  <2> QED BY <1>1, <1>2, <2>1 DEF SenderType, ISender
<1>5. CASE sender.tries + 1 < Tries /\ sender' = used_try /\ UNCHANGED reported
  <2>1. sender.tries + 1 \in 0 .. Tries - 1
    BY <1>2, <1>5, Bounds
  <2> QED BY <1>1, <1>2, <1>5, <2>1 DEF SenderType, ISender, used_try
<1>6. CASE /\ may_retry /\ sender' = [sender EXCEPT !.pc = "send", !.tries = 0]
           /\ UNCHANGED reported
  BY <1>1, <1>2, <1>6 DEF SenderType, ISender, may_retry
<1>7. CASE sender' = [sender EXCEPT !.pc = "idle", !.tries = 0] /\ UNCHANGED reported
  BY <1>1, <1>2, <1>7 DEF SenderType, ISender
<1> QED BY <1>3, <1>4, <1>5, <1>6, <1>7

LEMMA WaitByteTypes == ASSUME IType, WaitByte PROVE IType'
<1>1. /\ TypeOK /\ ISender /\ sender.pc = "wait" /\ answers # <<>> /\ answers' = Tail(answers)
      /\ UNCHANGED <<frames, reader, returned, received, faults, late>>
  BY DEF IType, WaitByte
<1>2. answers' \in Seq(Byte) /\ Cardinality(As(answers')) \in Nat
  <2>1. Tail(answers) \in Seq(Byte)
    BY <1>1, Types
  <2> QED BY <1>1, <2>1, AsFinite
<1>3. Cardinality(As(answers')) <= IF Head(answers) = "A" THEN Cardinality(As(answers)) - 1
                                   ELSE Cardinality(As(answers))
  BY <1>1, Types, AsTail
<1>4. acks.used + Cardinality(As(answers)) <= acks.intact
  BY DEF IType, EveryBeliefAnswered, As
<1>5. /\ acks' \in [intact : Nat, used : Nat]
      /\ acks'.used + Cardinality(As(answers')) <= acks'.intact
  <2>1. CASE acked(Head(answers)) /\ Acknowledged
    <3>1. acks' = [acks EXCEPT !.used = @ + 1] /\ Head(answers) = "A"
      BY <2>1 DEF acked, Acknowledged
    <3>2. acks \in [intact : Nat, used : Nat]
      BY <1>1 DEF TypeOK
    <3>3. acks'.used = acks.used + 1 /\ acks'.intact = acks.intact
      BY <3>1, <3>2
    <3>4. acks.used \in Nat /\ acks.intact \in Nat /\ Cardinality(As(answers)) \in Nat
      BY <1>1, Types
    <3>5. acks'.used + Cardinality(As(answers')) <= acks'.intact
      BY <1>3, <1>4, <1>2, <3>1, <3>3, <3>4
    <3> QED BY <3>1, <3>2, <3>4, <3>5
  <2>2. CASE ~acked(Head(answers)) /\ UNCHANGED acks
    <3>1. acks' = acks /\ acks \in [intact : Nat, used : Nat]
      BY <1>1, <2>2 DEF TypeOK
    <3>2. acks.used \in Nat /\ acks.intact \in Nat /\ Cardinality(As(answers)) \in Nat
      BY <1>1, Types
    <3> QED BY <1>2, <1>3, <1>4, <3>1, <3>2
  <2> QED BY <2>1, <2>2 DEF WaitByte, TransmitFails
<1>6. /\ sender' \in SenderType
      /\ reported' \subseteq 1 .. Transfers
      /\ ISender'
  BY <1>1, SenderMoves DEF WaitByte, Acknowledged, TransmitFails
<1>7. TypeOK'
  BY <1>1, <1>2, <1>5, <1>6 DEF TypeOK, SenderType
<1>8. EveryBeliefAnswered'
  BY <1>5 DEF EveryBeliefAnswered, As
<1> QED BY <1>6, <1>7, <1>8 DEF IType

LEMMA WaitEmptyTypes == ASSUME IType, WaitEmpty PROVE IType'
<1>1. /\ TypeOK /\ ISender /\ EveryBeliefAnswered /\ sender.pc = "wait"
      /\ UNCHANGED <<frames, answers, reader, returned, received, faults, acks>>
      /\ late' = late \/ late' = (late \/ ~Quiet)
  BY DEF IType, WaitEmpty, TransmitFails
<1>2. /\ sender' \in SenderType
      /\ reported' \subseteq 1 .. Transfers
      /\ ISender'
  BY <1>1, SenderMoves DEF WaitEmpty, TransmitFails
<1>3. late' \in BOOLEAN
  BY <1>1 DEF TypeOK
<1>4. TypeOK'
  BY <1>1, <1>2, <1>3 DEF TypeOK, SenderType
<1>5. EveryBeliefAnswered'
  BY <1>1, BeliefKept
<1> QED BY <1>2, <1>4, <1>5 DEF IType

\* The reader takes a frame and answers it, or gives up.
LEMMA ReadFrameTypes == ASSUME IType, ReadFrame PROVE IType'
<1> DEFINE f == Head(frames)
           got == Append(reader.got, f)
<1>1. /\ TypeOK /\ ISender /\ frames # <<>> /\ f # Garbled /\ frames' = Tail(frames)
      /\ answers' = Append(answers, "A") /\ received' = received \cup {f}
      /\ acks' = [acks EXCEPT !.intact = @ + 1]
      /\ reader' \in {[reader EXCEPT !.got = got], [reader EXCEPT !.pc = "idle", !.got = <<>>]}
      /\ returned' \in {returned, returned \cup {got}}
      /\ UNCHANGED <<sender, reported, faults, late>>
  BY DEF IType, ReadFrame, Accept
<1>2. f \in Frame /\ frames' \in Seq(Frame \cup {Garbled})
  BY <1>1, Types
<1>3. got \in Seq(Frame)
  BY <1>1, <1>2, Types
<1> HIDE DEF f, got
<1>4. answers' \in Seq(Byte)
  <2>1. answers \in Seq(Byte)
    BY <1>1, Types
  <2>2. "A" \in Byte
    BY DEF Byte
  <2> QED BY <1>1, <2>1, <2>2
<1>5. /\ reader' \in [pc : {"idle", "read"}, calls : 0 .. Reads, got : Seq(Frame)]
      /\ returned' \subseteq Seq(Frame) /\ received' \subseteq Frame
  <2>1. <<>> \in Seq(Frame)
    OBVIOUS
  <2> QED BY <1>1, <1>2, <1>3, <2>1 DEF TypeOK
<1>6. acks' \in [intact : Nat, used : Nat] /\ acks'.intact = acks.intact + 1 /\ acks'.used = acks.used
  <2>1. acks \in [intact : Nat, used : Nat]
    BY <1>1 DEF TypeOK
  <2> QED BY <1>1, <2>1
<1>7. TypeOK'
  BY <1>1, <1>2, <1>4, <1>5, <1>6 DEF TypeOK
<1>8. Cardinality(As(answers')) = Cardinality(As(answers)) + 1
  BY <1>1, Types, AsAppend
<1>9. acks.used + Cardinality(As(answers)) <= acks.intact
  BY DEF IType, EveryBeliefAnswered, As
<1>10. acks'.used + Cardinality(As(answers')) <= acks'.intact
  BY <1>1, <1>6, <1>8, <1>9, Types
<1>11. EveryBeliefAnswered'
  BY <1>10 DEF EveryBeliefAnswered, As
<1>12. ISender'
  BY <1>1 DEF ISender
<1> QED BY <1>7, <1>11, <1>12 DEF IType

LEMMA ReadEndsTypes == ASSUME IType, ReadGarbled \/ ReadTimeout PROVE IType'
<1>1. /\ TypeOK /\ ISender /\ EveryBeliefAnswered
      /\ frames' = frames \/ (frames # <<>> /\ frames' = Tail(frames))
      /\ reader' = [reader EXCEPT !.pc = "idle", !.got = <<>>]
      /\ UNCHANGED <<answers, sender, reported, returned, received, acks, faults, late>>
  <2>1. TypeOK /\ ISender /\ EveryBeliefAnswered
    BY DEF IType
  <2>2. CASE ReadGarbled
    BY <2>1, <2>2 DEF ReadGarbled, ReadFails
  <2>3. CASE ReadTimeout
    BY <2>1, <2>3 DEF ReadTimeout, ReadFails
  <2> QED BY <2>2, <2>3
<1>2. frames' \in Seq(Frame \cup {Garbled})
  <2>1. frames \in Seq(Frame \cup {Garbled})
    BY <1>1, Types
  <2>2. frames # <<>> => Tail(frames) \in Seq(Frame \cup {Garbled})
    BY <2>1
  <2> QED BY <1>1, <2>1, <2>2
<1>3. reader' \in [pc : {"idle", "read"}, calls : 0 .. Reads, got : Seq(Frame)]
  <2>1. <<>> \in Seq(Frame)
    OBVIOUS
  <2> QED BY <1>1, <2>1 DEF TypeOK
<1>4. TypeOK'
  BY <1>1, <1>2, <1>3 DEF TypeOK
<1>5. EveryBeliefAnswered'
  BY <1>1, BeliefKept
<1>6. ISender'
  BY <1>1 DEF ISender
<1> QED BY <1>4, <1>5, <1>6 DEF IType

LEMMA SpoilTypes == ASSUME IType, Spoil PROVE IType'
<1>1. /\ TypeOK /\ ISender /\ EveryBeliefAnswered /\ faults < Faults /\ faults' = faults + 1
      /\ UNCHANGED <<sender, reader, reported, returned, received, late>>
  BY DEF IType, Spoil
<1>2. faults' \in 0 .. Faults
  BY <1>1, Bounds DEF TypeOK
<1>3. ISender'
  BY <1>1 DEF ISender
<1>4. CASE /\ \E n \in DOMAIN frames :
                frames' \in {RemoveAt(frames, n), [frames EXCEPT ![n] = Garbled]}
           /\ UNCHANGED <<answers, acks>>
  <2>1. PICK n \in DOMAIN frames :
                frames' \in {RemoveAt(frames, n), [frames EXCEPT ![n] = Garbled]}
    BY <1>4
  <2>2. frames' \in Seq(Frame \cup {Garbled})
    <3>1. CASE frames' = RemoveAt(frames, n)
      BY <1>1, <2>1, <3>1, Types, RemovedAt
    <3>2. CASE frames' = [frames EXCEPT ![n] = Garbled]
      BY <1>1, <2>1, <3>2, Types
    <3> QED BY <2>1, <3>1, <3>2
  <2>3. TypeOK'
    BY <1>1, <1>2, <1>4, <2>2 DEF TypeOK
  <2>4. EveryBeliefAnswered'
    BY <1>1, <1>4, BeliefKept
  <2> QED BY <1>3, <2>3, <2>4 DEF IType
<1>5. CASE /\ \E n \in DOMAIN answers :
                /\ answers[n] = "A"
                /\ answers' \in {RemoveAt(answers, n)}
                                  \cup {[answers EXCEPT ![n] = byte] : byte \in Byte \ {"A"}}
           /\ acks' = [acks EXCEPT !.intact = @ - 1]
           /\ UNCHANGED frames
  <2>1. PICK n \in DOMAIN answers :
                /\ answers[n] = "A"
                /\ answers' \in {RemoveAt(answers, n)}
                                  \cup {[answers EXCEPT ![n] = byte] : byte \in Byte \ {"A"}}
    BY <1>5
  <2>2. answers \in Seq(Byte)
    BY <1>1, Types
  <2>3. answers' \in Seq(Byte) /\ Cardinality(As(answers')) <= Cardinality(As(answers)) - 1
    <3>1. CASE answers' = RemoveAt(answers, n)
      BY <2>1, <2>2, <3>1, AsRemove
    <3>2. ASSUME NEW byte \in Byte \ {"A"}, answers' = [answers EXCEPT ![n] = byte]
          PROVE  answers' \in Seq(Byte) /\ Cardinality(As(answers')) <= Cardinality(As(answers)) - 1
      BY <2>1, <2>2, <3>2, AsGarble
    <3> QED BY <2>1, <3>1, <3>2
  <2>4. Cardinality(As(answers')) \in Nat
    BY <2>3, AsFinite
  <2>5. acks.used + Cardinality(As(answers)) <= acks.intact
    BY <1>1 DEF EveryBeliefAnswered, As
  <2>6. acks.intact - 1 \in Nat /\ acks.used + Cardinality(As(answers')) <= acks.intact - 1
    <3>1. /\ acks.intact \in Nat /\ acks.used \in Nat /\ Cardinality(As(answers)) \in Nat
      BY <1>1, Types
    <3> QED BY <2>3, <2>4, <2>5, <3>1
  <2>7. /\ acks' \in [intact : Nat, used : Nat]
        /\ acks'.used = acks.used /\ acks'.intact = acks.intact - 1
    BY <1>1, <1>5, <2>6 DEF TypeOK
  <2>8. TypeOK'
    BY <1>1, <1>2, <1>5, <2>3, <2>7 DEF TypeOK
  <2>9. acks'.used + Cardinality(As(answers')) <= acks'.intact
    BY <2>6, <2>7
  <2>10. EveryBeliefAnswered'
    BY <2>9 DEF EveryBeliefAnswered, As
  <2> QED BY <1>3, <2>8, <2>10 DEF IType
<1> QED BY <1>4, <1>5 DEF Spoil

LEMMA TypeStep == IType /\ [Next]_vars => IType'
<1> SUFFICES ASSUME IType, [Next]_vars PROVE IType'
  OBVIOUS
<1>1. CASE UNCHANGED vars
  BY <1>1 DEF IType, TypeOK, ISender, EveryBeliefAnswered, vars
<1> QED BY <1>1, BeginTypes, SendTypes, WaitByteTypes, WaitEmptyTypes, ReadFrameTypes,
           ReadEndsTypes, SpoilTypes DEF Next, Sender, Reader

-----------------------------------------------------------------------------
(* The order of what is returned.                                          *)

LEMMA OrderStep == IOrder /\ [Next]_vars => IOrder'
<1> SUFFICES ASSUME IOrder, [Next]_vars PROVE IOrder'
  OBVIOUS
<1>1. IType' /\ IType
  BY TypeStep DEF IOrder
<1>2. CASE ReadFrame
  <2> DEFINE got == Append(reader.got, Head(frames))
  <2>1. /\ reader.got \in Seq(Frame) /\ Head(frames) \in Frame
    BY <1>1, <1>2, Types DEF IType, ReadFrame
  <2>2. /\ Len(reader.got) \in Nat /\ got \in Seq(Frame) /\ Len(got) = Len(reader.got) + 1
        /\ got[Len(got)] = Head(frames)
        /\ \A n \in 1 .. Len(reader.got) : got[n] = reader.got[n]
    BY <2>1
  <2>3. /\ Len(reader.got) < Chunks /\ InOrder(reader.got)
        /\ \A g \in returned : Len(g) = Chunks /\ InOrder(g)
    BY DEF IOrder, IReader
  <2>4. expected(Head(frames)[2]) => InOrder(got)
    BY <2>2, <2>3 DEF expected, InOrder
  <2>5. /\ Len(<<>>) = 0 /\ InOrder(<<>>) /\ 0 < Chunks
    BY Bounds DEF InOrder
  <2>6. \/ /\ reader' = [reader EXCEPT !.got = got] /\ returned' = returned
           /\ expected(Head(frames)[2]) /\ Len(got) < Chunks
        \/ /\ reader' = [reader EXCEPT !.pc = "idle", !.got = <<>>]
           /\ returned' = returned \cup {got}
           /\ expected(Head(frames)[2]) /\ Len(got) = Chunks
        \/ /\ reader' = [reader EXCEPT !.pc = "idle", !.got = <<>>] /\ returned' = returned
    BY <1>2 DEF ReadFrame
  <2>7. reader \in [pc : {"idle", "read"}, calls : 0 .. Reads, got : Seq(Frame)]
    BY <1>1 DEF IType, TypeOK
  <2> HIDE DEF got
  <2>8. \/ reader'.got = got /\ returned' = returned /\ Len(got) < Chunks /\ InOrder(got)
        \/ reader'.got = <<>> /\ returned' = returned \cup {got} /\ Len(got) = Chunks /\ InOrder(got)
        \/ reader'.got = <<>> /\ returned' = returned
    BY <2>4, <2>6, <2>7
  <2>9. IReader'
    BY <2>3, <2>5, <2>8 DEF IReader
  <2> QED BY <1>1, <2>9 DEF IOrder
<1>3. CASE Read \/ ReadGarbled \/ ReadTimeout
  <2>1. reader'.got = <<>> /\ returned' = returned
    <3>1. reader \in [pc : {"idle", "read"}, calls : 0 .. Reads, got : Seq(Frame)]
      BY <1>1 DEF IType, TypeOK
    <3>2. CASE Read
      BY <3>2 DEF Read
    <3>3. CASE ReadGarbled \/ ReadTimeout
      BY <3>1, <3>3 DEF ReadGarbled, ReadTimeout, ReadFails
    <3> QED BY <1>3, <3>2, <3>3
  <2>2. /\ Len(<<>>) = 0 /\ InOrder(<<>>) /\ 0 < Chunks
    BY Bounds DEF InOrder
  <2> QED BY <1>1, <2>1, <2>2 DEF IOrder, IReader
<1>4. CASE \/ UNCHANGED vars
           \/ Transmit \/ Send \/ WaitByte \/ WaitEmpty \/ Spoil
  <2>1. reader' = reader /\ returned' = returned
    BY <1>4 DEF vars, Transmit, Send, WaitByte, WaitEmpty, Spoil
  <2> QED BY <1>1, <2>1 DEF IOrder, IReader
<1> QED BY <1>2, <1>3, <1>4 DEF Next, Sender, Reader

-----------------------------------------------------------------------------
(* Without a late answer.                                                  *)

\* What the invariant gives a step of a run without a late answer.
LEMMA Prompt ==
  ASSUME IInv, ~late
  PROVE  IPrompt /\ IProgress /\ IType
BY DEF IInv, IOrder

LEMMA TransmitPrompt ==
  ASSUME IInv, ~late, Transmit
  PROVE  IPrompt' /\ IProgress'
<1>1. /\ IPrompt /\ IProgress /\ IType
  BY Prompt
<1>2. /\ sender.pc = "idle" /\ sender'.chunk = 0
      /\ UNCHANGED <<frames, answers, reader, reported, returned, received>>
  BY DEF Transmit
<1>3. answers = <<>> /\ (frames = <<>> \/ Exhausted)
  BY <1>1, <1>2 DEF IPrompt
<1>4. IPrompt'
  BY <1>2, <1>3 DEF IPrompt, Exhausted
<1>5. IProgress'
  BY <1>1, <1>2 DEF IProgress, ReportedMeansReceived
<1> QED BY <1>4, <1>5

LEMMA SendPrompt ==
  ASSUME IInv, ~late, Send
  PROVE  IPrompt' /\ IProgress'
<1>1. /\ IPrompt /\ IProgress /\ IType
  BY Prompt
<1>2. /\ sender.pc = "send" /\ frames' = Append(frames, frame)
      /\ sender' = [sender EXCEPT !.pc = "wait", !.attempts = @ + 1, !.tries = 0]
      /\ UNCHANGED <<answers, reader, reported, returned, received>>
  BY DEF Send
<1>3. answers = <<>> /\ (frames = <<>> \/ Exhausted)
  BY <1>1, <1>2 DEF IPrompt
<1>4. /\ sender'.pc = "wait" /\ sender'.transfer = sender.transfer
      /\ sender'.chunk = sender.chunk
  BY <1>1, <1>2 DEF IType, TypeOK
<1>5. frame' = frame
  BY <1>4 DEF frame
<1>6. frames = <<>> => Len(frames') = 1 /\ frames'[1] = frame
  BY <1>2
<1>7. IPrompt'
  BY <1>2, <1>3, <1>4, <1>5, <1>6 DEF IPrompt, Exhausted
<1>8. IProgress'
  BY <1>1, <1>2, <1>4 DEF IProgress, ReportedMeansReceived
<1> QED BY <1>7, <1>8

\* The answer to the current chunk was used.
LEMMA ChunkDone ==
  ASSUME IType, IProgress, sender.pc = "wait", frame \in received, received' = received,
         NextChunk
  PROVE  IProgress'
<1>1. /\ sender.chunk \in 0 .. Chunks - 1 /\ Chunks \in Nat
      /\ \A chunk \in 0 .. sender.chunk - 1 : <<sender.transfer, chunk>> \in received
      /\ <<sender.transfer, sender.chunk>> \in received
      /\ ReportedMeansReceived
      /\ sender \in SenderType
  BY Bounds, Types DEF IType, TypeOK, IProgress, frame, SenderType
<1>2. \A chunk \in 0 .. sender.chunk : <<sender.transfer, chunk>> \in received
  BY <1>1
<1>3. CASE sender.chunk + 1 < Chunks
  <2>1. /\ sender' = [sender EXCEPT !.pc = "send", !.chunk = @ + 1, !.attempts = 0, !.tries = 0]
        /\ reported' = reported
    BY <1>3 DEF NextChunk
  <2>2. sender'.transfer = sender.transfer /\ sender'.chunk = sender.chunk + 1
    BY <1>1, <2>1 DEF SenderType
  <2> QED BY <1>1, <1>2, <2>1, <2>2 DEF IProgress, ReportedMeansReceived
<1>4. CASE ~(sender.chunk + 1 < Chunks)
  <2>1. /\ sender' = [sender EXCEPT !.pc = "idle", !.tries = 0]
        /\ reported' = reported \cup {sender.transfer}
    BY <1>4 DEF NextChunk
  <2>2. sender'.pc = "idle"
    BY <1>1, <2>1 DEF SenderType
  <2>3. \A chunk \in 0 .. Chunks - 1 : <<sender.transfer, chunk>> \in received
    BY <1>1, <1>2, <1>4
  <2> QED BY <1>1, <2>1, <2>2, <2>3 DEF IProgress, ReportedMeansReceived
<1> QED BY <1>3, <1>4

\* The sender stays with its chunk or gives the transfer up.
LEMMA SameChunk ==
  ASSUME IType, IProgress, received' = received, reported' = reported,
         \/ sender' = used_try
         \/ sender' = [sender EXCEPT !.pc = "send", !.tries = 0]
         \/ sender' = [sender EXCEPT !.pc = "idle", !.tries = 0],
         sender.pc = "wait"
  PROVE  IProgress'
<1>1. sender \in SenderType
  BY DEF IType, TypeOK, SenderType
<1>2. sender'.transfer = sender.transfer /\ sender'.chunk = sender.chunk
  BY <1>1 DEF SenderType, used_try
<1> QED BY <1>2 DEF IProgress, ReportedMeansReceived

LEMMA WaitBytePrompt ==
  ASSUME IInv, ~late, WaitByte
  PROVE  IPrompt' /\ IProgress'
<1>1. /\ IPrompt /\ IProgress /\ IType
  BY Prompt
<1>2. /\ sender.pc = "wait" /\ answers # <<>> /\ answers' = Tail(answers)
      /\ UNCHANGED <<frames, reader, received>>
  BY DEF WaitByte
<1>3. /\ Len(answers) = 1
      /\ frames = <<>> \/ Exhausted
      /\ Head(answers) = "A" => frame \in received
  BY <1>1, <1>2, Types DEF IPrompt, IType
<1>4. answers' = <<>>
  <2>1. answers \in Seq(Byte)
    BY <1>1, Types DEF IType
  <2>2. Tail(answers) \in Seq(Byte) /\ Len(Tail(answers)) = 0
    BY <1>2, <1>3, <2>1
  <2>3. Tail(answers) = <<>>
    BY <2>2, EmptySeq
  <2> QED BY <1>2, <2>3
<1>5. IPrompt'
  BY <1>2, <1>3, <1>4 DEF IPrompt, Exhausted
<1>6. CASE acked(Head(answers)) /\ Acknowledged
  <2>1. NextChunk /\ frame \in received
    BY <1>3, <1>6 DEF acked, Acknowledged
  <2> QED BY <1>1, <1>2, <1>5, <2>1, ChunkDone
<1>7. CASE TransmitFails \/ (sender' = used_try /\ UNCHANGED reported)
  <2>1. /\ reported' = reported
        /\ sender' = used_try \/ sender' = [sender EXCEPT !.pc = "idle", !.tries = 0]
    BY <1>7 DEF TransmitFails
  <2> QED BY <1>1, <1>2, <1>5, <2>1, SameChunk
<1> QED BY <1>5, <1>6, <1>7 DEF WaitByte

\* A wait that goes on leaves what is under way for its next read; one that
\* ends leaves nothing that will be answered.
LEMMA WaitEmptyPrompt ==
  ASSUME IInv, ~late, WaitEmpty, ~late'
  PROVE  IPrompt' /\ IProgress'
<1>1. /\ IPrompt /\ IProgress /\ IType
  BY Prompt
<1>2. /\ sender.pc = "wait" /\ sender \in SenderType
      /\ UNCHANGED <<frames, answers, reader, reported, received>>
  BY <1>1 DEF WaitEmpty, TransmitFails, IType, TypeOK, SenderType
<1>3. \/ sender' = used_try
      \/ /\ Quiet
         /\ \/ sender' = [sender EXCEPT !.pc = "send", !.tries = 0]
            \/ sender' = [sender EXCEPT !.pc = "idle", !.tries = 0]
  BY DEF WaitEmpty, TransmitFails
<1>4. CASE sender' = used_try
  <2>1. sender'.pc = "wait" /\ frame' = frame
    BY <1>2, <1>4 DEF used_try, frame, SenderType
  <2>2. IPrompt'
    BY <1>1, <1>2, <2>1 DEF IPrompt, Exhausted
  <2> QED BY <1>1, <1>2, <1>4, <2>2, SameChunk
<1>5. CASE Quiet /\ sender' # used_try
  <2>1. answers = <<>> /\ (frames = <<>> \/ Exhausted)
    BY <1>5 DEF Quiet, Exhausted
  <2>2. IPrompt'
    BY <1>2, <2>1 DEF IPrompt, Exhausted
  <2> QED BY <1>1, <1>2, <1>3, <1>5, <2>2, SameChunk
<1> QED BY <1>3, <1>4, <1>5

LEMMA ReaderPrompt ==
  ASSUME IInv, ~late, Read \/ ReadGarbled \/ ReadTimeout
  PROVE  IPrompt' /\ IProgress'
<1>1. /\ IPrompt /\ IProgress /\ IType
  BY Prompt
<1>2. UNCHANGED <<answers, sender, reported, received>>
  BY DEF Read, ReadGarbled, ReadTimeout, ReadFails
<1>3. IProgress'
  BY <1>1, <1>2 DEF IProgress, ReportedMeansReceived
<1>4. ~Exhausted
  <2>1. CASE Read
    BY <1>1, <2>1, Types DEF Read, Exhausted, IType
  <2>2. CASE ReadGarbled \/ ReadTimeout
    BY <2>2 DEF ReadGarbled, ReadTimeout, Exhausted
  <2> QED BY <2>1, <2>2
<1>5. answers # <<>> => /\ sender.pc = "wait" /\ Len(answers) = 1 /\ frames = <<>>
                        /\ answers[1] = "A" => frame \in received
  BY <1>1, <1>4 DEF IPrompt
<1>6. CASE frames' = frames
  <2>1. \/ frames = <<>>
        \/ /\ sender.pc = "wait" /\ answers = <<>>
           /\ Len(frames) = 1 /\ frames[1] \in {frame, Garbled}
    BY <1>1, <1>4 DEF IPrompt
  <2> QED BY <1>2, <1>3, <1>5, <1>6, <2>1 DEF IPrompt, frame
<1>7. CASE ReadGarbled
  <2>1. frames # <<>> /\ frames' = Tail(frames) /\ frames \in Seq(Frame \cup {Garbled})
    BY <1>1, <1>7, Types DEF ReadGarbled, IType
  <2>2. Len(frames) = 1
    BY <1>1, <1>4, <2>1 DEF IPrompt
  <2>3. frames' = <<>>
    BY <2>1, <2>2
  <2> QED BY <1>2, <1>3, <1>5, <2>1, <2>3 DEF IPrompt, frame
<1> QED BY <1>6, <1>7 DEF Read, ReadTimeout

LEMMA ReadFramePrompt ==
  ASSUME IInv, ~late, ReadFrame
  PROVE  IPrompt' /\ IProgress'
<1>1. /\ IPrompt /\ IProgress /\ IType
  BY Prompt
<1>2. /\ reader.pc = "read" /\ frames # <<>> /\ Head(frames) # Garbled
      /\ frames' = Tail(frames) /\ answers' = Append(answers, "A")
      /\ received' = received \cup {Head(frames)}
      /\ UNCHANGED <<sender, reported>>
  BY DEF ReadFrame, Accept
<1>3. /\ frames \in Seq(Frame \cup {Garbled})
      /\ sender.pc = "wait" /\ answers = <<>> /\ Len(frames) = 1 /\ frames[1] \in {frame, Garbled}
  BY <1>1, <1>2, Types DEF IPrompt, Exhausted, IType
<1>4. frames' = <<>> /\ Head(frames) = frame
  BY <1>2, <1>3
<1>5. Len(answers') = 1 /\ frame \in received'
  BY <1>2, <1>3, <1>4
<1>6. IPrompt'
  BY <1>2, <1>3, <1>4, <1>5 DEF IPrompt, frame
<1>7. IProgress'
  BY <1>1, <1>2 DEF IProgress, ReportedMeansReceived
<1> QED BY <1>6, <1>7

LEMMA SpoilPrompt ==
  ASSUME IInv, ~late, Spoil
  PROVE  IPrompt' /\ IProgress'
<1>1. /\ IPrompt /\ IProgress /\ IType
  BY Prompt
<1>2. UNCHANGED <<sender, reader, reported, received>>
  BY DEF Spoil
<1>3. IProgress'
  BY <1>1, <1>2 DEF IProgress, ReportedMeansReceived
<1>4. /\ frames \in Seq(Frame \cup {Garbled}) /\ answers \in Seq(Byte)
  BY <1>1, Types DEF IType
<1>5. CASE /\ \E n \in DOMAIN frames :
                frames' \in {RemoveAt(frames, n), [frames EXCEPT ![n] = Garbled]}
           /\ UNCHANGED answers
  <2>1. PICK n \in DOMAIN frames :
                frames' \in {RemoveAt(frames, n), [frames EXCEPT ![n] = Garbled]}
    BY <1>5
  <2>2. CASE Exhausted
    <3>1. Exhausted'
      BY <1>2, <2>2 DEF Exhausted
    <3>2. frame' = frame
      BY <1>2 DEF frame
    <3> QED BY <1>1, <1>2, <1>3, <1>5, <2>2, <3>1, <3>2 DEF IPrompt
  <2>3. CASE ~Exhausted
    <3>1. /\ sender.pc = "wait" /\ answers = <<>> /\ Len(frames) = 1
          /\ frames[1] \in {frame, Garbled}
      BY <1>1, <1>4, <2>1, <2>3 DEF IPrompt
    <3>2. n = 1
      BY <1>4, <3>1
    <3>3. CASE frames' = RemoveAt(frames, n)
      <4>1. Len(frames') = 0 /\ frames' \in Seq(Frame \cup {Garbled})
        BY <1>4, <3>1, <3>3, RemovedAt
      <4>2. frames' = <<>>
        BY <4>1
      <4>3. answers' = <<>>
        BY <1>5, <3>1
      <4> QED BY <1>3, <4>2, <4>3 DEF IPrompt
    <3>4. CASE frames' = [frames EXCEPT ![n] = Garbled]
      <4>1. Len(frames') = 1 /\ frames'[1] = Garbled
        BY <1>4, <3>1, <3>2, <3>4
      <4>2. answers' = <<>> /\ sender'.pc = "wait"
        BY <1>2, <1>5, <3>1
      <4> QED BY <1>3, <4>1, <4>2 DEF IPrompt
    <3> QED BY <2>1, <3>3, <3>4
  <2> QED BY <2>2, <2>3
<1>6. CASE /\ \E n \in DOMAIN answers :
                /\ answers[n] = "A"
                /\ answers' \in {RemoveAt(answers, n)}
                                  \cup {[answers EXCEPT ![n] = byte] : byte \in Byte \ {"A"}}
           /\ UNCHANGED frames
  <2>1. PICK n \in DOMAIN answers :
                /\ answers[n] = "A"
                /\ answers' \in {RemoveAt(answers, n)}
                                  \cup {[answers EXCEPT ![n] = byte] : byte \in Byte \ {"A"}}
    BY <1>6
  <2>2. answers # <<>>
    BY <1>4, <2>1
  <2>3. /\ sender.pc = "wait" /\ Len(answers) = 1
        /\ frames = <<>> \/ Exhausted
    BY <1>1, <2>2 DEF IPrompt
  <2>4. n = 1
    BY <1>4, <2>1, <2>3
  <2>5. CASE answers' = RemoveAt(answers, n)
    <3>1. Len(answers') = 0 /\ answers' \in Seq(Byte)
      <4>1. RemoveAt(answers, n) \in Seq(Byte) /\ Len(RemoveAt(answers, n)) = Len(answers) - 1
        BY <1>4, RemovedAt
      <4> QED BY <2>3, <2>5, <4>1
    <3>2. answers' = <<>>
      BY <3>1
    <3> QED BY <1>2, <1>3, <1>6, <2>3, <3>2 DEF IPrompt, Exhausted
  <2>6. ASSUME NEW byte \in Byte \ {"A"}, answers' = [answers EXCEPT ![n] = byte]
        PROVE  IPrompt'
    <3>1. Len(answers') = 1 /\ answers'[1] # "A"
      BY <1>4, <2>3, <2>4, <2>6
    <3> QED BY <1>2, <1>6, <2>3, <3>1 DEF IPrompt, Exhausted
  <2> QED BY <1>3, <2>1, <2>5, <2>6
<1> QED BY <1>5, <1>6 DEF Spoil

LEMMA InvStep == IInv /\ [Next]_vars => IInv'
<1> SUFFICES ASSUME IInv, [Next]_vars PROVE IInv'
  OBVIOUS
<1>1. IOrder'
  BY OrderStep DEF IInv
<1>2. ASSUME ~late' PROVE ~late
  <2>1. CASE WaitEmpty
    BY <1>2, <2>1 DEF WaitEmpty
  <2>2. CASE UNCHANGED late
    BY <1>2, <2>2
  <2> QED BY <2>1, <2>2 DEF Next, Sender, Reader, vars, Transmit, Read, Send, WaitByte,
                          ReadFrame, ReadGarbled, ReadTimeout, ReadFails, Spoil
<1>3. ASSUME ~late' PROVE IPrompt' /\ IProgress'
  <2>1. ~late
    BY <1>2, <1>3
  <2>2. CASE UNCHANGED vars
    BY <2>1, <2>2, Prompt
       DEF IPrompt, IProgress, ReportedMeansReceived, Exhausted, frame, vars
  <2> QED BY <1>3, <2>1, <2>2, TransmitPrompt, SendPrompt, WaitBytePrompt, WaitEmptyPrompt,
             ReaderPrompt, ReadFramePrompt, SpoilPrompt DEF Next, Sender, Reader
<1> QED BY <1>1, <1>3 DEF IInv

LEMMA InvInit == Init => IInv
<1> SUFFICES ASSUME Init PROVE IInv
  OBVIOUS
<1>1. /\ Len(<<>>) = 0 /\ <<>> \in Seq(Frame) /\ <<>> \in Seq(Byte)
      /\ <<>> \in Seq(Frame \cup {Garbled})
  OBVIOUS
<1>2. TypeOK
  <2>1. /\ 0 \in 0 .. Transfers /\ 0 \in 0 .. Chunks - 1 /\ 0 \in 0 .. Attempts
        /\ 0 \in 0 .. Tries - 1 /\ 0 \in 0 .. Reads /\ 0 \in 0 .. Faults
    BY Bounds
  <2>2. sender \in SenderType
    BY <2>1 DEF Init, SenderType
  <2>3. reader \in [pc : {"idle", "read"}, calls : 0 .. Reads, got : Seq(Frame)]
    BY <1>1, <2>1 DEF Init
  <2>4. acks \in [intact : Nat, used : Nat]
    BY DEF Init
  <2>5. late \in BOOLEAN
    BY DEF Init
  <2> QED BY <1>1, <2>1, <2>2, <2>3, <2>4, <2>5 DEF Init, TypeOK, SenderType
<1>3. ISender /\ IReader
  BY <1>1, Bounds DEF Init, ISender, IReader, InOrder
<1>4. EveryBeliefAnswered
  <2>1. As(answers) = {} /\ acks.used = 0 /\ acks.intact = 0
    BY DEF Init, As
  <2>2. acks.used + Cardinality(As(answers)) <= acks.intact
    BY <2>1, FS_EmptySet
  <2> QED BY <2>2 DEF EveryBeliefAnswered, As
<1>5. IPrompt /\ IProgress
  BY DEF Init, IPrompt, IProgress, ReportedMeansReceived
<1> QED BY <1>2, <1>3, <1>4, <1>5 DEF IInv, IOrder, IType

LEMMA Invariant == Spec => []IInv
BY InvInit, InvStep, PTL DEF Spec

-----------------------------------------------------------------------------
(* The state of both ends and of the line is typed; in particular a frame  *)
(* is sent at most Attempts times and every queue holds frames and bytes   *)
(* only.                                                                   *)
THEOREM LinkTypeCorrect == Spec => []TypeOK
<1>1. IInv => TypeOK
  BY DEF IInv, IOrder, IType
<1> QED BY <1>1, Invariant, PTL

(* crc_transmit takes a chunk for received only on an answer of its own.   *)
THEOREM LinkEveryBeliefAnswered == Spec => []EveryBeliefAnswered
<1>1. IInv => EveryBeliefAnswered
  BY DEF IInv, IOrder, IType
<1> QED BY <1>1, Invariant, PTL

(* As long as no wait of crc_wait ended with its answer still to come,     *)
(* every chunk of a transfer that crc_chunked_transmit reported was        *)
(* accepted by the reader.                                                 *)
THEOREM LinkPromptReportsAreTrue == Spec => []PromptReportsAreTrue
<1>1. IInv => PromptReportsAreTrue
  BY DEF IInv, IProgress, PromptReportsAreTrue
<1> QED BY <1>1, Invariant, PTL

-----------------------------------------------------------------------------
(* Without a late answer what is returned is one transfer.                 *)

OneTransfer(got) == \A n \in 1 .. Len(got) : got[n][1] = got[1][1]

\* What the reader holds is of the transfer being sent, or the sender has
\* still to learn of the first chunk of a later one: the reader drops what
\* it holds before it can answer that chunk.
IWhole ==
  /\ OneTransfer(reader.got)
  /\ \A got \in returned : OneTransfer(got)
  /\ reader.got # <<>> =>
       \/ reader.got[1][1] = sender.transfer
       \/ sender.chunk = 0 /\ (answers # <<>> => answers[1] # "A")

LEMMA WholeRead ==
  ASSUME IInv, ~late, IWhole, ReadFrame
  PROVE  IWhole'
<1> DEFINE got == Append(reader.got, Head(frames))
<1>1. IPrompt /\ IType /\ reader.got \in Seq(Frame)
  BY Prompt, Types DEF IType
<1>2. /\ reader.pc = "read" /\ frames # <<>> /\ Head(frames) # Garbled /\ sender' = sender
      /\ \/ /\ reader' = [reader EXCEPT !.got = got] /\ returned' = returned
            /\ expected(Head(frames)[2])
         \/ /\ reader' = [reader EXCEPT !.pc = "idle", !.got = <<>>]
            /\ returned' = returned \cup {got} /\ expected(Head(frames)[2])
         \/ /\ reader' = [reader EXCEPT !.pc = "idle", !.got = <<>>] /\ returned' = returned
  BY DEF ReadFrame
<1>3. /\ frames \in Seq(Frame \cup {Garbled}) /\ Head(frames) = frame
      /\ sender.transfer \in 0 .. Transfers /\ sender.chunk \in 0 .. Chunks - 1
  BY <1>1, <1>2, Types DEF IPrompt, Exhausted, IType
<1>4. frame \in Frame /\ frame[1] = sender.transfer /\ frame[2] = sender.chunk
  <2>1. frame[1] = sender.transfer /\ frame[2] = sender.chunk
    BY DEF frame
  <2>2. Head(frames) \in Frame
    BY <1>2, <1>3
  <2> QED BY <1>3, <2>1, <2>2
<1>5. /\ Len(reader.got) \in Nat /\ got \in Seq(Frame) /\ Len(got) = Len(reader.got) + 1
      /\ got[Len(got)] = frame
      /\ \A n \in 1 .. Len(reader.got) : got[n] = reader.got[n]
  BY <1>1, <1>3, <1>4
<1>6. ASSUME expected(Head(frames)[2])
      PROVE  OneTransfer(got) /\ got[1][1] = sender.transfer
  <2>1. sender.chunk = Len(reader.got)
    BY <1>3, <1>4, <1>6 DEF expected
  <2>2. CASE reader.got = <<>>
    BY <1>4, <1>5, <2>2 DEF OneTransfer
  <2>3. CASE reader.got # <<>>
    <3>1. Len(reader.got) # 0
      BY <1>1, <2>3
    <3>2. reader.got[1][1] = sender.transfer
      BY <2>1, <2>3, <3>1 DEF IWhole
    <3>3. \A n \in 1 .. Len(reader.got) : reader.got[n][1] = sender.transfer
      BY <3>2 DEF IWhole, OneTransfer
    <3> QED BY <1>4, <1>5, <3>1, <3>3 DEF OneTransfer
  <2> QED BY <2>2, <2>3
<1>7. reader \in [pc : {"idle", "read"}, calls : 0 .. Reads, got : Seq(Frame)]
  BY <1>1 DEF IType, TypeOK
<1> HIDE DEF got
<1>8. \/ reader'.got = got /\ returned' = returned /\ expected(Head(frames)[2])
      \/ /\ reader'.got = <<>> /\ returned' = returned \cup {got}
         /\ expected(Head(frames)[2])
      \/ reader'.got = <<>> /\ returned' = returned
  BY <1>2, <1>7
<1>9. OneTransfer(<<>>)
  BY DEF OneTransfer
<1> QED BY <1>2, <1>6, <1>8, <1>9 DEF IWhole

LEMMA WholeSend ==
  ASSUME IInv, ~late, IWhole, Transmit \/ Send \/ WaitByte \/ WaitEmpty
  PROVE  IWhole'
<1>1. IPrompt /\ IType /\ reader.got \in Seq(Frame) /\ sender \in SenderType
      /\ answers \in Seq(Byte)
  BY Prompt, Types DEF IType, TypeOK, SenderType
<1>2. reader' = reader /\ returned' = returned
  BY DEF Transmit, Send, WaitByte, WaitEmpty
<1>3. CASE Transmit
  <2>1. answers = <<>> /\ answers' = <<>> /\ sender'.chunk = 0
    BY <1>1, <1>3 DEF Transmit, IPrompt
  <2> QED BY <1>2, <2>1 DEF IWhole
<1>4. CASE Send \/ WaitEmpty
  <2>1. /\ answers' = answers /\ sender'.transfer = sender.transfer
        /\ sender'.chunk = sender.chunk
    BY <1>1, <1>4 DEF Send, WaitEmpty, TransmitFails, used_try, SenderType
  <2> QED BY <1>2, <2>1 DEF IWhole
<1>5. CASE WaitByte
  <2>1. answers # <<>> /\ answers' = Tail(answers) /\ Len(answers) = 1 /\ Head(answers) = answers[1]
    <3>1. answers # <<>> /\ answers' = Tail(answers)
      BY <1>5 DEF WaitByte
    <3>2. Len(answers) = 1
      BY <1>1, <3>1 DEF IPrompt
    <3> QED BY <1>1, <3>1, <3>2
  <2>2. answers' = <<>>
    <3>1. Tail(answers) \in Seq(Byte) /\ Len(Tail(answers)) = 0
      BY <1>1, <2>1
    <3> QED BY <2>1, <3>1, EmptySeq
  <2>3. sender'.transfer = sender.transfer
    BY <1>1, <1>5 DEF WaitByte, Acknowledged, NextChunk, TransmitFails, used_try, SenderType
  <2>4. answers[1] # "A" => sender'.chunk = sender.chunk
    BY <1>1, <1>5, <2>1 DEF WaitByte, acked, TransmitFails, used_try, SenderType
  <2>5. CASE answers[1] = "A"
    <3>1. reader.got # <<>> => reader.got[1][1] = sender.transfer
      BY <2>1, <2>5 DEF IWhole
    <3> QED BY <1>2, <2>3, <3>1 DEF IWhole
  <2>6. CASE answers[1] # "A"
    BY <1>2, <2>2, <2>3, <2>4, <2>6 DEF IWhole
  <2> QED BY <2>5, <2>6
<1> QED BY <1>3, <1>4, <1>5

LEMMA WholeRest ==
  ASSUME IInv, ~late, IWhole, Read \/ ReadGarbled \/ ReadTimeout \/ Spoil \/ UNCHANGED vars
  PROVE  IWhole'
<1>1. IPrompt /\ IType /\ answers \in Seq(Byte)
      /\ reader \in [pc : {"idle", "read"}, calls : 0 .. Reads, got : Seq(Frame)]
  BY Prompt, Types DEF IType, TypeOK
<1>2. returned' = returned /\ sender' = sender
  BY DEF Read, ReadGarbled, ReadTimeout, ReadFails, Spoil, vars
<1>3. CASE Read \/ ReadGarbled \/ ReadTimeout
  <2>1. reader'.got = <<>>
    <3>1. CASE Read
      BY <3>1 DEF Read
    <3>2. CASE ReadGarbled \/ ReadTimeout
      BY <1>1, <3>2 DEF ReadGarbled, ReadTimeout, ReadFails
    <3> QED BY <1>3, <3>1, <3>2
  <2> QED BY <1>2, <2>1 DEF IWhole, OneTransfer
<1>4. CASE Spoil \/ UNCHANGED vars
  <2>1. reader' = reader
    BY <1>4 DEF Spoil, vars
  <2>2. CASE answers' = answers
    BY <1>2, <2>1, <2>2 DEF IWhole
  <2>3. CASE answers' # answers
    <3>1. PICK n \in DOMAIN answers :
            /\ answers[n] = "A"
            /\ answers' \in {RemoveAt(answers, n)}
                              \cup {[answers EXCEPT ![n] = byte] : byte \in Byte \ {"A"}}
      BY <1>4, <2>3 DEF Spoil, vars
    <3>2. Len(answers) = 1
      BY <1>1, <3>1 DEF IPrompt
    <3>3. n = 1
      BY <1>1, <3>1, <3>2
    <3>4. answers' # <<>> => answers'[1] # "A"
      <4>1. CASE answers' = RemoveAt(answers, n)
        <5>1. RemoveAt(answers, n) \in Seq(Byte) /\ Len(RemoveAt(answers, n)) = Len(answers) - 1
          BY <1>1, <3>1, RemovedAt
        <5>2. answers' = <<>>
          BY <3>2, <4>1, <5>1, EmptySeq
        <5> QED BY <5>2
      <4>2. ASSUME NEW byte \in Byte \ {"A"}, answers' = [answers EXCEPT ![n] = byte]
            PROVE  answers'[1] # "A"
        BY <1>1, <3>1, <3>3, <4>2
      <4> QED BY <3>1, <4>1, <4>2
    <3>5. answers # <<>> /\ answers[1] = "A"
      BY <1>1, <3>1, <3>3
    <3>6. reader.got # <<>> => reader.got[1][1] = sender.transfer
      BY <3>5 DEF IWhole
    <3> QED BY <1>2, <2>1, <3>6 DEF IWhole
  <2> QED BY <2>2, <2>3
<1> QED BY <1>3, <1>4

LEMMA WholeStep == IInv /\ (~late => IWhole) /\ [Next]_vars => (~late => IWhole)'
<1> SUFFICES ASSUME IInv, ~late => IWhole, [Next]_vars, ~late' PROVE IWhole'
  OBVIOUS
<1>1. ~late
  BY DEF Next, Sender, Reader, vars, Transmit, Read, Send, WaitByte, WaitEmpty, ReadFrame,
         ReadGarbled, ReadTimeout, ReadFails, Spoil
<1> QED BY <1>1, WholeRead, WholeSend, WholeRest DEF Next, Sender, Reader

(* What crc_chunked_read returns as complete has every chunk in its place, *)
(* and without a late answer it is one transfer.                           *)
THEOREM LinkReturnedIntact == Spec => []ReturnedIntact
<1>1. Init => (~late => IWhole)
  BY DEF Init, IWhole, OneTransfer
<1>2. IInv /\ (~late => IWhole) => ReturnedIntact
  BY DEF IInv, IOrder, IReader, InOrder, IWhole, OneTransfer, ReturnedIntact
<1> QED BY <1>1, <1>2, WholeStep, Invariant, PTL DEF Spec

-----------------------------------------------------------------------------
(* Why both ends return (BothReturn, which needs fairness, stays with the  *)
(* model checker): a call only moves forward, in an order that the types   *)
(* make finite, and nothing the other end or the line does moves it back.  *)

\* How far a call of crc_chunked_transmit has come: chunk, then transmissions
\* of it, then reads of the wait that follows, then the next transmission.
SenderAdvances ==
  \/ sender'.pc = "idle"
  \/ sender'.chunk > sender.chunk
  \/ /\ sender'.chunk = sender.chunk
     /\ \/ sender'.attempts > sender.attempts
        \/ /\ sender'.attempts = sender.attempts /\ sender.pc = "wait"
           /\ sender'.pc = "send" \/ sender'.tries > sender.tries

ReaderAdvances ==
  \/ reader'.pc = "idle"
  \/ Len(reader'.got) = Len(reader.got) + 1 /\ Len(reader'.got) < Chunks

OnlyForward ==
  [][/\ sender.pc # "idle" /\ sender' # sender => Sender /\ SenderAdvances
     /\ reader.pc # "idle" /\ reader' # reader => Reader /\ ReaderAdvances
     /\ Sender => sender' # sender
     /\ Reader => reader' # reader]_vars

LEMMA SenderForward ==
  ASSUME IType, Sender
  PROVE  SenderAdvances /\ sender' # sender
<1>1. /\ sender \in SenderType /\ Chunks \in Nat /\ Attempts \in Nat /\ Tries \in Nat
      /\ sender.chunk \in Nat /\ sender.attempts \in Nat /\ sender.tries \in Nat
  BY Bounds, Types DEF IType, TypeOK, SenderType
<1>2. CASE Send
  <2>1. sender'.chunk = sender.chunk /\ sender'.attempts = sender.attempts + 1
    BY <1>1, <1>2 DEF Send, SenderType
  <2>2. sender'.attempts > sender.attempts
    BY <1>1, <2>1
  <2> QED BY <1>1, <2>1, <2>2 DEF SenderAdvances
<1>3. ASSUME sender.pc = "wait", NextChunk
      PROVE  SenderAdvances /\ sender' # sender
  <2>1. sender'.pc = "idle" \/ sender'.chunk = sender.chunk + 1
    BY <1>1, <1>3 DEF NextChunk, SenderType
  <2>2. sender'.pc = "idle" \/ sender'.chunk > sender.chunk
    BY <1>1, <2>1
  <2> QED BY <1>1, <1>3, <2>2 DEF SenderAdvances
<1>4. ASSUME sender.pc = "wait",
             \/ TransmitFails
             \/ sender' = used_try
             \/ sender' = [sender EXCEPT !.pc = "send", !.tries = 0]
      PROVE  SenderAdvances /\ sender' # sender
  <2>1. CASE TransmitFails \/ sender' = [sender EXCEPT !.pc = "send", !.tries = 0]
    <3>1. \/ sender'.pc = "idle"
          \/ /\ sender'.pc = "send" /\ sender'.chunk = sender.chunk
             /\ sender'.attempts = sender.attempts
      BY <1>1, <2>1 DEF TransmitFails, SenderType
    <3> QED BY <1>4, <3>1 DEF SenderAdvances
  <2>2. CASE sender' = used_try
    <3>1. /\ sender'.chunk = sender.chunk /\ sender'.attempts = sender.attempts
          /\ sender'.tries = sender.tries + 1
      BY <1>1, <2>2 DEF used_try, SenderType
    <3>2. sender'.tries > sender.tries
      BY <1>1, <3>1
    <3> QED BY <1>1, <1>4, <3>1, <3>2 DEF SenderAdvances
  <2> QED BY <1>4, <2>1, <2>2
<1>5. CASE WaitByte \/ WaitEmpty
  BY <1>3, <1>4, <1>5 DEF WaitByte, WaitEmpty, Acknowledged
<1> QED BY <1>2, <1>5 DEF Sender

LEMMA ReaderForward ==
  ASSUME IOrder, Reader
  PROVE  ReaderAdvances /\ reader' # reader
<1>1. /\ reader \in [pc : {"idle", "read"}, calls : 0 .. Reads, got : Seq(Frame)]
      /\ reader.got \in Seq(Frame) /\ IType
  BY DEF IOrder, IType, TypeOK
<1>2. CASE ReadGarbled \/ ReadTimeout
  BY <1>1, <1>2 DEF ReadGarbled, ReadTimeout, ReadFails, ReaderAdvances
<1>3. CASE ReadFrame
  <2> DEFINE got == Append(reader.got, Head(frames))
  <2>1. Len(got) = Len(reader.got) + 1 /\ Len(reader.got) \in Nat
    BY <1>1
  <2>2. \/ reader' = [reader EXCEPT !.got = got] /\ Len(got) < Chunks
        \/ reader' = [reader EXCEPT !.pc = "idle", !.got = <<>>]
    BY <1>3 DEF ReadFrame
  <2>3. reader.pc = "read"
    BY <1>3 DEF ReadFrame
  <2> HIDE DEF got
  <2>4. \/ reader'.got = got /\ Len(got) < Chunks
        \/ reader'.pc = "idle"
    BY <1>1, <2>2
  <2> QED BY <2>1, <2>3, <2>4 DEF ReaderAdvances
<1> QED BY <1>2, <1>3 DEF Reader

(* A call of crc_chunked_transmit makes at most Chunks * Attempts * (Tries *)
(* + 1) steps and a call of crc_chunked_read at most Chunks: each of their *)
(* own steps advances the call or ends it, and no other step touches it.   *)
THEOREM LinkOnlyForward == Spec => OnlyForward
<1>1. IInv /\ [Next]_vars =>
        [/\ sender.pc # "idle" /\ sender' # sender => Sender /\ SenderAdvances
         /\ reader.pc # "idle" /\ reader' # reader => Reader /\ ReaderAdvances
         /\ Sender => sender' # sender
         /\ Reader => reader' # reader]_vars
  <2> SUFFICES ASSUME IInv, Next
               PROVE  /\ sender.pc # "idle" /\ sender' # sender => Sender /\ SenderAdvances
                      /\ reader.pc # "idle" /\ reader' # reader => Reader /\ ReaderAdvances
                      /\ Sender => sender' # sender
                      /\ Reader => reader' # reader
    OBVIOUS
  <2>1. IOrder /\ IType
    BY DEF IInv, IOrder
  <2>2. sender.pc # "idle" /\ sender' # sender => Sender
    BY DEF Next, Transmit, Read, Reader, ReadFrame, ReadGarbled, ReadTimeout, ReadFails, Spoil
  <2>3. reader.pc # "idle" /\ reader' # reader => Reader
    BY DEF Next, Transmit, Read, Sender, Send, WaitByte, WaitEmpty, Spoil
  <2> QED BY <2>1, <2>2, <2>3, SenderForward, ReaderForward
<1> QED BY <1>1, Invariant, PTL DEF Spec, OnlyForward
=============================================================================
