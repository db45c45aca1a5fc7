------------------------------ MODULE CrcLink ------------------------------
(***************************************************************************)
(* crc.c: one end sends chunks (crc_chunked_transmit), the other reads     *)
(* them (crc_chunked_read); MCU and radio run the same code.               *)
(*                                                                         *)
(* A frame is <<transfer, chunk>>; a frame whose escapes, terminator or    *)
(* CRC do not hold is Garbled.  The answer is a single raw byte, 'A'.      *)
(* Bytes in flight and bytes in a receive ring are one queue: an empty     *)
(* read is a read that found nothing in time, so it may also happen with   *)
(* bytes under way.  late records a wait that ended that way: an empty     *)
(* read the same wait makes good by a later one leaves it alone.           *)
(***************************************************************************)
EXTENDS Naturals, Sequences, SequencesExt, FiniteSets

CONSTANTS
  Chunks,      \* frames of one transfer
  Attempts,    \* transmissions of one frame, 5 in the code
  Tries,       \* reads in one crc_wait, 10 in the code
  Transfers,   \* bound: calls of crc_chunked_transmit
  Reads,       \* bound: calls of crc_chunked_read
  Faults       \* bound: frames and answers lost or garbled

ASSUME LinkAssumption ==
  /\ {Chunks, Attempts, Tries, Transfers, Reads} \subseteq Nat \ {0}
  /\ Faults \in Nat

VARIABLES
  frames,     \* from the sender to the reader
  answers,    \* from the reader to the sender
  sender,     \* crc_chunked_transmit, crc_transmit and crc_wait
  reader,     \* crc_chunked_read
  reported,   \* history: transfers the sender reported as transmitted
  returned,   \* history: what the reader returned as complete
  received,   \* history: frames the reader's crc_read accepted
  acks,       \* history: answers sent and not spoiled, and answers the sender used
  faults,     \* faults so far
  late        \* history: a wait for an answer ended while one was still to come

vars == <<frames, answers, sender, reader, reported, returned, received, acks, faults, late>>

Frame == (1 .. Transfers) \X (0 .. Chunks - 1)
Garbled == <<>>
Byte == {"A", ";", "other"}

TypeOK ==
  /\ frames \in Seq(Frame \cup {Garbled})
  /\ answers \in Seq(Byte)
  /\ sender \in [pc : {"idle", "send", "wait"}, transfer : 0 .. Transfers,
                 chunk : 0 .. Chunks - 1, attempts : 0 .. Attempts, tries : 0 .. Tries - 1]
  /\ reader \in [pc : {"idle", "read"}, calls : 0 .. Reads, got : Seq(Frame)]
  /\ reported \subseteq 1 .. Transfers
  /\ returned \subseteq Seq(Frame)
  /\ received \subseteq Frame
  /\ acks \in [intact : Nat, used : Nat]
  /\ faults \in 0 .. Faults
  /\ late \in BOOLEAN

Init ==
  /\ frames = <<>> /\ answers = <<>>
  /\ sender = [pc |-> "idle", transfer |-> 0, chunk |-> 0, attempts |-> 0, tries |-> 0]
  /\ reader = [pc |-> "idle", calls |-> 0, got |-> <<>>]
  /\ reported = {} /\ returned = {} /\ received = {}
  /\ acks = [intact |-> 0, used |-> 0]
  /\ faults = 0
  /\ late = FALSE

----------------------------------------------------------------------------
(***************************************************************************)
(* The sender.                                                             *)
(***************************************************************************)
frame == <<sender.transfer, sender.chunk>>

(* mutant: the index outlives the call and is past the chunk that failed *)
Transmit_GoesOn ==
  /\ sender.pc = "idle" /\ sender.transfer < Transfers
  /\ sender' = [pc |-> "send", transfer |-> sender.transfer + 1,
                chunk |-> IF sender.transfer = 0 THEN 0 ELSE (sender.chunk + 1) % Chunks,
                attempts |-> 0, tries |-> 0]
  /\ UNCHANGED <<frames, answers, reader, reported, returned, received, acks, faults, late>>

Transmit ==
  /\ sender.pc = "idle" /\ sender.transfer < Transfers
  /\ sender' = [pc |-> "send", transfer |-> sender.transfer + 1, chunk |-> 0,
                attempts |-> 0, tries |-> 0]
  /\ UNCHANGED <<frames, answers, reader, reported, returned, received, acks, faults, late>>

Send ==
  /\ sender.pc = "send"
  /\ frames' = Append(frames, frame)
  /\ sender' = [sender EXCEPT !.pc = "wait", !.attempts = @ + 1, !.tries = 0]
  /\ UNCHANGED <<answers, reader, reported, returned, received, acks, faults, late>>

(* mutant: any byte that is not a terminator is an answer *)
acked_AnyByte(byte) == byte # ";"

acked(byte) == byte = "A"

(* the next chunk, or the end of the transfer *)
NextChunk ==
  IF sender.chunk + 1 < Chunks
  THEN /\ sender' = [sender EXCEPT !.pc = "send", !.chunk = @ + 1, !.attempts = 0, !.tries = 0]
       /\ UNCHANGED reported
  ELSE /\ sender' = [sender EXCEPT !.pc = "idle", !.tries = 0]
       /\ reported' = reported \cup {sender.transfer}

Acknowledged ==
  /\ acks' = [acks EXCEPT !.used = @ + 1]
  /\ NextChunk

(* mutant: the result of one chunk is ignored *)
TransmitFails_Ignored == NextChunk /\ UNCHANGED acks

TransmitFails ==
  /\ sender' = [sender EXCEPT !.pc = "idle", !.tries = 0]
  /\ UNCHANGED <<reported, acks>>

(* mutant: a read that found nothing is not counted *)
used_try_Uncounted == sender

used_try == [sender EXCEPT !.tries = @ + 1]

(* crc_wait reads a byte: 'A', the end of something else, or noise *)
WaitByte ==
  /\ sender.pc = "wait" /\ answers # <<>>
  /\ answers' = Tail(answers)
  /\ \/ acked(Head(answers)) /\ Acknowledged
     \/ /\ ~acked(Head(answers))
        /\ Head(answers) = ";" \/ sender.tries + 1 = Tries
        /\ TransmitFails
     \/ /\ ~acked(Head(answers))
        /\ Head(answers) # ";" /\ sender.tries + 1 < Tries
        /\ sender' = used_try
        /\ UNCHANGED <<reported, acks>>
  /\ UNCHANGED <<frames, reader, returned, received, faults, late>>

(* nothing is under way that is, or will be, answered *)
Quiet ==
  /\ answers = <<>>
  /\ frames = <<>> \/ (reader.pc = "idle" /\ reader.calls = Reads)

(* mutant: one transmission too many *)
may_retry_OneMore == sender.attempts <= Attempts

may_retry == sender.attempts < Attempts

(* crc_wait reads nothing; a wait that ends this way sends the frame again *)
WaitEmpty ==
  /\ sender.pc = "wait"
  /\ \/ /\ sender.tries + 1 < Tries
        /\ sender' = used_try
        /\ UNCHANGED <<reported, acks, late>>
     \/ /\ sender.tries + 1 = Tries /\ may_retry
        /\ sender' = [sender EXCEPT !.pc = "send", !.tries = 0]
        /\ late' = (late \/ ~Quiet)
        /\ UNCHANGED <<reported, acks>>
     \/ /\ sender.tries + 1 = Tries /\ ~may_retry
        /\ TransmitFails
        /\ late' = (late \/ ~Quiet)
  /\ UNCHANGED <<frames, answers, reader, returned, received, faults>>

----------------------------------------------------------------------------
(***************************************************************************)
(* The reader.                                                             *)
(***************************************************************************)
Read ==
  /\ reader.pc = "idle" /\ reader.calls < Reads
  /\ reader' = [pc |-> "read", calls |-> reader.calls + 1, got |-> <<>>]
  /\ UNCHANGED <<frames, answers, sender, reported, returned, received, acks, faults, late>>

(* mutant: chunks are stored as they come *)
expected_Any(chunk) == TRUE

expected(chunk) == chunk = Len(reader.got)

Accept(f) ==
  /\ answers' = Append(answers, "A")
  /\ acks' = [acks EXCEPT !.intact = @ + 1]
  /\ received' = received \cup {f}

(* crc_read accepts the frame and acknowledges it before its index is checked *)
ReadFrame ==
  /\ reader.pc = "read" /\ frames # <<>> /\ Head(frames) # Garbled
  /\ frames' = Tail(frames)
  /\ Accept(Head(frames))
  /\ LET got == Append(reader.got, Head(frames))
     IN \/ /\ expected(Head(frames)[2]) /\ Len(got) < Chunks
           /\ reader' = [reader EXCEPT !.got = got]
           /\ UNCHANGED returned
        \/ /\ expected(Head(frames)[2]) /\ Len(got) = Chunks
           /\ reader' = [reader EXCEPT !.pc = "idle", !.got = <<>>]
           /\ returned' = returned \cup {got}
        \/ /\ ~expected(Head(frames)[2])
           /\ reader' = [reader EXCEPT !.pc = "idle", !.got = <<>>]
           /\ UNCHANGED returned
  /\ UNCHANGED <<sender, reported, faults, late>>

ReadFails ==
  /\ reader' = [reader EXCEPT !.pc = "idle", !.got = <<>>]
  /\ UNCHANGED <<answers, sender, reported, returned, received, acks, faults, late>>

ReadGarbled ==
  /\ reader.pc = "read" /\ frames # <<>> /\ Head(frames) = Garbled
  /\ frames' = Tail(frames)
  /\ ReadFails

(* mutant: a frame that never ends is waited for *)
ReadTimeout_Waits == reader.pc = "read" /\ UNCHANGED vars

(* no byte within the timeout of one read *)
ReadTimeout ==
  /\ reader.pc = "read"
  /\ UNCHANGED frames
  /\ ReadFails

----------------------------------------------------------------------------
(* A frame or an answer is lost or garbled on the line. *)
Spoil ==
  /\ faults < Faults
  /\ faults' = faults + 1
  /\ \/ /\ \E n \in DOMAIN frames :
             frames' \in {RemoveAt(frames, n), [frames EXCEPT ![n] = Garbled]}
        /\ UNCHANGED <<answers, acks>>
     \/ /\ \E n \in DOMAIN answers :
             /\ answers[n] = "A"
             /\ answers' \in {RemoveAt(answers, n)}
                               \cup {[answers EXCEPT ![n] = byte] : byte \in Byte \ {"A"}}
        /\ acks' = [acks EXCEPT !.intact = @ - 1]
        /\ UNCHANGED frames
  /\ UNCHANGED <<sender, reader, reported, returned, received, late>>

Sender == Send \/ WaitByte \/ WaitEmpty
Reader == ReadFrame \/ ReadGarbled \/ ReadTimeout

Next == Transmit \/ Read \/ Sender \/ Reader \/ Spoil

Spec == Init /\ [][Next]_vars

(* Both ends are loops that keep running once called. *)
FairSpec == Spec /\ WF_vars(Sender) /\ WF_vars(Reader)

----------------------------------------------------------------------------
(* What the reader returns as complete has every chunk in its place,       *)
(* however frames were lost, repeated or garbled; and it is one transfer,  *)
(* as long as no wait for an answer ended with one still to come: only     *)
(* late answers can make it put chunks of two transfers together.          *)
ReturnedIntact ==
  \A got \in returned : \A n \in 1 .. Chunks :
    /\ got[n][2] = n - 1
    /\ ~late => got[n][1] = got[1][1]

(* A chunk is only taken for transmitted on an answer of its own: never on *)
(* noise, and never on an answer that was already used.                    *)
EveryBeliefAnswered ==
  acks.used + Cardinality({n \in DOMAIN answers : answers[n] = "A"}) <= acks.intact

(* "whether the message was received": every frame of a transfer reported  *)
(* as transmitted was accepted by the reader.                              *)
ReportedMeansReceived ==
  \A t \in reported : \A chunk \in 0 .. Chunks - 1 : <<t, chunk>> \in received

(* The same, as long as no wait for an answer ended with one still to come. *)
PromptReportsAreTrue == ~late => ReportedMeansReceived

(* Sender and reader always return, whatever the line does. *)
BothReturn ==
  /\ sender.pc # "idle" ~> sender.pc = "idle"
  /\ reader.pc # "idle" ~> reader.pc = "idle"
=============================================================================
