----------------------------- MODULE RadioUart -----------------------------
(***************************************************************************)
(* The radio's receive path: the USART1 interrupt of uart.c, which fills   *)
(* the ring and raises gotUplink, against the main thread, which on that   *)
(* flag reads packets with crc_read inside radio_uplink and clears it (the *)
(* loop of Radio_intercom_tester.c, the flag's only user).                 *)
(*                                                                         *)
(* A byte is a terminator, an escape or any other; the line may carry      *)
(* anything.  What a packet says is left out: radio_uplink may go on with  *)
(* another packet after any that was complete.  usart_receiveBytes checks  *)
(* the ring and loads the byte in one step; the interrupt comes between    *)
(* that and the advance of front, and anywhere else.                       *)
(***************************************************************************)
EXTENDS Naturals, Sequences

CONSTANTS
  ReceiveBufferLen,
  MAX_MESSAGE_BYTES,
  NoByte

ASSUME RingAssumption ==
  /\ ReceiveBufferLen \in Nat /\ ReceiveBufferLen > 1
  /\ MAX_MESSAGE_BYTES \in Nat \ {0}

Byte == {";", "\\", "x"}
Index == 0 .. ReceiveBufferLen - 1
\* A byte in the ring, with its place in a packet as the interrupt sees it
\* (history): a packet begins after the last one's end.
Cell == [byte : Byte \cup {NoByte}, begins : BOOLEAN, ends : BOOLEAN]

ASSUME NoByteAssumption == NoByte \notin Byte

VARIABLES
  buffer, front, rear,                    \* USART1_RxBuffer
  escaped, gotFullPacket, gotUplink,      \* the interrupt's flags
  communicatingWithRadio,
  pc,          \* the main thread
  temp,        \* the cell crc_read loaded
  escape,      \* crc_read's own escaped
  size,        \* crc_read's size
  insync,      \* history: crc_read and the interrupt agree on what is escaped
  stale,       \* history: gotFullPacket may stand for no packet in the ring
  broken       \* history: the packet the reader stands at lost its first bytes,
               \* to a crc_read that gave up or to an overrun

ring == <<buffer, front, rear>>
flags == <<escaped, gotFullPacket, gotUplink, communicatingWithRadio>>
reader == <<pc, temp, escape, size>>
vars == <<ring, flags, reader, insync, stale, broken>>

TypeOK ==
  /\ buffer \in [Index -> Cell] /\ front \in Index /\ rear \in Index
  /\ escaped \in BOOLEAN /\ gotFullPacket \in BOOLEAN /\ gotUplink \in BOOLEAN
  /\ communicatingWithRadio \in BOOLEAN
  /\ pc \in {"idle", "read", "got", "return", "clear"}
  /\ temp \in Cell
  /\ escape \in BOOLEAN
  /\ size \in 0 .. MAX_MESSAGE_BYTES
  /\ insync \in BOOLEAN /\ stale \in BOOLEAN /\ broken \in BOOLEAN

\* Before the first byte: what comes next begins a packet.
NoCell == [byte |-> NoByte, begins |-> FALSE, ends |-> TRUE]

Init ==
  /\ buffer = [i \in Index |-> NoCell] /\ front = 0 /\ rear = 0
  /\ escaped = FALSE /\ gotFullPacket = FALSE /\ gotUplink = FALSE
  /\ communicatingWithRadio = FALSE
  /\ pc = "idle" /\ temp = NoCell /\ escape = FALSE /\ size = 0
  /\ insync = TRUE /\ stale = FALSE /\ broken = FALSE

\* mutant: the index is not wrapped.
next_Unwrapped(i) == i + 1

next(i) == (i + 1) % ReceiveBufferLen

\* The first cell not taken: front is advanced after its cell was loaded.
start == IF pc = "got" THEN next(front) ELSE front
Unread == IF start <= rear THEN rear - start ELSE ReceiveBufferLen - start + rear
unread(i) == buffer[(start + i) % ReceiveBufferLen]

(* USART1_IRQHandler.                                                      *)

getLastFromBuffer(b, r) == b[(r - 1 + ReceiveBufferLen) % ReceiveBufferLen]

received(byte) ==
  [byte |-> byte, begins |-> getLastFromBuffer(buffer, rear).ends, ends |-> ~escaped /\ byte = ";"]

\* mutant: the macro's two statements change places.
enqueueBuffer_AfterRear(byte) == [buffer EXCEPT ![next(rear)] = received(byte)]

enqueueBuffer(byte) == [buffer EXCEPT ![rear] = received(byte)]

\* No check for a full ring: front = rear means empty, also after a lap.
overruns == next(rear) = start

full(currentChar) == gotFullPacket \/ (~escaped /\ currentChar = ";")

\* mutant: a report leaves gotFullPacket set.
keeps_Reported(f) == f

keeps(f) == f /\ communicatingWithRadio

\* mutant: the second of two escapes escapes again.
escapes_Always(currentChar) == currentChar = "\\"

escapes(currentChar) == ~escaped /\ currentChar = "\\"

Receive(byte) == LET currentChar == getLastFromBuffer(buffer', rear').byte IN
  /\ buffer' = enqueueBuffer(byte)
  /\ rear' = next(rear)
  /\ gotFullPacket' = keeps(full(currentChar))
  /\ gotUplink' = (gotUplink \/ (full(currentChar) /\ ~communicatingWithRadio))
  /\ escaped' = escapes(currentChar)
  /\ insync' = (insync /\ ~overruns)
  /\ stale' = (stale \/ overruns \/ (communicatingWithRadio /\ buffer'[rear].ends))
  /\ broken' = (broken \/ overruns)
  /\ UNCHANGED <<front, communicatingWithRadio, reader>>

(* The main thread.                                                        *)

\* A crc_read begins.
crc_read == pc' = "read" /\ escape' = FALSE /\ size' = 0

\* A crc_read was the last of this radio_uplink.
ends_uplink == pc' = "return" /\ escape' = FALSE /\ size' = 0

radio_uplink ==
  /\ pc = "idle" /\ gotUplink
  /\ communicatingWithRadio' = TRUE
  /\ crc_read
  /\ UNCHANGED <<ring, escaped, gotFullPacket, gotUplink, temp, insync, stale, broken>>

usart_receiveBytes ==
  /\ pc = "read" /\ size < MAX_MESSAGE_BYTES /\ front # rear
  /\ temp' = buffer[front] /\ pc' = "got"
  /\ insync' = (insync \/ temp'.ends) /\ broken' = (broken /\ ~temp'.ends)
  /\ UNCHANGED <<ring, flags, escape, size, stale>>

terminated == ~escape /\ temp.byte = ";"

next_byte ==
  /\ pc = "got" /\ ~terminated
  /\ front' = next(front)
  /\ escape' = (~escape /\ temp.byte = "\\")
  /\ size' = size + 1 /\ pc' = "read"
  /\ UNCHANGED <<buffer, rear, flags, temp, insync, stale, broken>>

\* The packet is complete: it is the last, or it is not accepted, or
\* crc_chunked_read goes on with the next.
packet_read ==
  /\ pc = "got" /\ terminated
  /\ front' = next(front)
  /\ crc_read \/ ends_uplink
  /\ UNCHANGED <<buffer, rear, flags, temp, insync, stale, broken>>

\* No byte in time, or MAX_MESSAGE_BYTES without a terminator.
packet_fails ==
  /\ pc = "read" /\ (front = rear \/ size = MAX_MESSAGE_BYTES)
  /\ ends_uplink
  /\ insync' = (insync /\ ~escape)
  /\ broken' = (broken \/ (size > 0 /\ ~temp.ends))
  /\ UNCHANGED <<ring, flags, temp, stale>>

\* radio_uplink ends with setCommunicatingRadio(false), whatever it returns.
setCommunicatingRadio ==
  /\ pc = "return" /\ pc' = "clear"
  /\ communicatingWithRadio' = FALSE
  /\ UNCHANGED <<ring, escaped, gotFullPacket, gotUplink, temp, escape, size, insync, stale, broken>>

clear_gotUplink ==
  /\ pc = "clear" /\ pc' = "idle"
  /\ gotUplink' = FALSE
  /\ stale' = (stale /\ gotFullPacket)
  /\ UNCHANGED <<ring, escaped, gotFullPacket, communicatingWithRadio, temp, escape, size,
                 insync, broken>>

Next ==
  \/ \E byte \in Byte : Receive(byte)
  \/ radio_uplink \/ usart_receiveBytes \/ next_byte \/ packet_read \/ packet_fails
  \/ setCommunicatingRadio \/ clear_gotUplink

Spec == Init /\ [][Next]_vars

(* Properties.                                                             *)

\* The ring is a queue of ReceiveBufferLen - 1 bytes that an overrun empties:
\* the interrupt moving rear and the reader moving front, each without a
\* lock, never give a byte twice, out of order or from before a lap.
Unread_bytes == [i \in 1 .. Unread |-> unread(i - 1).byte]
Abstract == INSTANCE ByteQueue WITH
  Capacity <- ReceiveBufferLen - 1,
  queue <- Unread_bytes,
  taken <- temp.byte
ImplementsByteQueue == Abstract!Spec

\* crc_read ends a packet exactly where the interrupt saw one end, as long
\* as no overrun lost bytes and no read gave up between an escape and the
\* byte it escapes; they agree again at the next packet's end.
BoundariesAgree ==
  [][pc = "read" /\ pc' = "got" /\ insync => temp'.ends = (~escape /\ temp'.byte = ";")]_vars

\* When the main thread looks, gotUplink means that a packet's end is in the
\* ring, and the packet is whole unless a crc_read gave up after its first
\* bytes or an overrun took them (broken); but for a report of a packet that
\* was completed during the last communication (and leaves gotFullPacket
\* behind for the next byte to report) or lost to an overrun (stale).
ReportsAreTrue ==
  pc = "idle" /\ gotUplink /\ ~stale =>
    \E last \in 0 .. Unread - 1 :
      /\ unread(last).ends
      /\ broken \/ \E first \in 0 .. last : unread(first).begins
=============================================================================
