-------------------------- MODULE RadioUart_proofs --------------------------
(***************************************************************************)
(* Proofs about RadioUart, for a ring and a packet of any size: its types, *)
(* that it implements ByteQueue, that its reports are true and that reader *)
(* and interrupt agree on where packets end.                               *)
(***************************************************************************)
EXTENDS RadioUart, SequenceTheorems, TLAPS

-----------------------------------------------------------------------------
(* Arithmetic of the ring.                                                 *)

\* The index after i is i + 1, or 0 after the last.
LEMMA NextIndex ==
  ASSUME NEW i \in Index
  PROVE  /\ next(i) \in Index
         /\ next(i) = IF i = ReceiveBufferLen - 1 THEN 0 ELSE i + 1
BY RingAssumption, SMT DEF next, Index

\* The i-th unread cell, with the lap written out.
LEMMA WrappedIndex ==
  ASSUME NEW s \in Index, NEW i \in Index
  PROVE  /\ (s + i) % ReceiveBufferLen \in Index
         /\ (s + i) % ReceiveBufferLen =
              IF s + i < ReceiveBufferLen THEN s + i ELSE s + i - ReceiveBufferLen
BY RingAssumption, SMT DEF Index

\* getLastFromBuffer finds the cell written last.
LEMMA LastIndex ==
  ASSUME NEW r \in Index
  PROVE  (next(r) - 1 + ReceiveBufferLen) % ReceiveBufferLen = r
<1>1. next(r) = IF r = ReceiveBufferLen - 1 THEN 0 ELSE r + 1
  BY NextIndex
<1>2. CASE r = ReceiveBufferLen - 1
  BY <1>1, <1>2, RingAssumption, SMT DEF Index
<1>3. CASE r # ReceiveBufferLen - 1
  BY <1>1, <1>3, RingAssumption, SMT DEF Index
<1> QED BY <1>2, <1>3

-----------------------------------------------------------------------------
(* Types.                                                                  *)

\* A byte was loaded only while the packet had room for it.
IType == TypeOK /\ (pc = "got" => size < MAX_MESSAGE_BYTES)

LEMMA ReceiveTypes ==
  ASSUME IType, NEW byte \in Byte, Receive(byte)
  PROVE  /\ IType'
         /\ buffer'[rear].byte = byte /\ (buffer'[rear].ends <=> ~escaped /\ byte = ";")
         /\ buffer'[rear].begins = getLastFromBuffer(buffer, rear).ends
         /\ getLastFromBuffer(buffer', rear') = buffer'[rear]
         /\ \A i \in Index \ {rear} : buffer'[i] = buffer[i]
         /\ getLastFromBuffer(buffer', rear').byte = byte
<1> DEFINE cell == received(byte)
<1>3. buffer \in [Index -> Cell] /\ rear \in Index
  BY DEF IType, TypeOK
<1>a. getLastFromBuffer(buffer, rear) \in Cell
  <2>1. (rear - 1 + ReceiveBufferLen) % ReceiveBufferLen \in Index
    BY <1>3, RingAssumption, SMT DEF Index
  <2> QED BY <1>3, <2>1 DEF getLastFromBuffer
<1>b. getLastFromBuffer(buffer, rear).ends \in BOOLEAN
  BY <1>a DEF Cell
<1>1. cell \in Cell /\ cell.byte = byte
  BY <1>b DEF Cell, received
<1>0. (cell.ends <=> ~escaped /\ byte = ";") /\ cell.begins = getLastFromBuffer(buffer, rear).ends
  BY DEF received
<1>2. buffer' = [buffer EXCEPT ![rear] = cell]
  BY DEF Receive, enqueueBuffer
<1> HIDE DEF cell
<1>4. buffer' \in [Index -> Cell] /\ buffer'[rear] = cell
      /\ \A i \in Index \ {rear} : buffer'[i] = buffer[i]
  BY <1>1, <1>2, <1>3
<1>5. rear' = next(rear) /\ rear' \in Index
  BY <1>3, NextIndex DEF Receive
<1>c. getLastFromBuffer(buffer', rear') = buffer'[rear]
  BY <1>3, <1>5, LastIndex DEF getLastFromBuffer
<1>6. getLastFromBuffer(buffer', rear').byte = byte
  BY <1>c, <1>1, <1>4
<1>7. gotFullPacket' \in BOOLEAN /\ gotUplink' \in BOOLEAN /\ escaped' \in BOOLEAN
      /\ insync' \in BOOLEAN /\ stale' \in BOOLEAN /\ broken' \in BOOLEAN
  BY Zenon DEF Receive, keeps, full, escapes, IType, TypeOK
<1>8. TypeOK'
  BY <1>4, <1>5, <1>7 DEF IType, TypeOK, Receive, reader
<1>9. (buffer'[rear].ends <=> ~escaped /\ byte = ";")
      /\ buffer'[rear].begins = getLastFromBuffer(buffer, rear).ends
  BY <1>0, <1>4, Zenon
<1> QED BY <1>c, <1>1, <1>4, <1>6, <1>8, <1>9 DEF IType, Receive, reader

LEMMA TypeInit == Init => IType
<1> SUFFICES ASSUME Init PROVE IType
  OBVIOUS
<1>1. NoCell \in Cell
  BY DEF NoCell, Cell
<1>2. 0 \in Index
  BY RingAssumption DEF Index
<1>3. 0 \in 0 .. MAX_MESSAGE_BYTES
  BY RingAssumption
<1>4. buffer \in [Index -> Cell]
  BY <1>1 DEF Init
<1> QED BY <1>1, <1>2, <1>3, <1>4 DEF Init, IType, TypeOK

LEMMA TypeStep == IType /\ [Next]_vars => IType'
<1> SUFFICES ASSUME IType, [Next]_vars PROVE IType'
  OBVIOUS
<1>0. 0 \in 0 .. MAX_MESSAGE_BYTES /\ MAX_MESSAGE_BYTES \in Nat \ {0}
  BY RingAssumption
<1>1. ASSUME NEW byte \in Byte, Receive(byte) PROVE IType'
  BY <1>1, ReceiveTypes
<1>2. CASE radio_uplink
  <2>1. size' \in 0 .. MAX_MESSAGE_BYTES /\ pc' = "read"
    BY <1>0, <1>2 DEF radio_uplink, crc_read
  <2>2. escape' \in BOOLEAN /\ communicatingWithRadio' \in BOOLEAN
    BY <1>2, Zenon DEF radio_uplink, crc_read
  <2> QED BY <1>2, <2>1, <2>2 DEF IType, TypeOK, radio_uplink, ring
<1>3. CASE usart_receiveBytes
  <2>1. temp' \in Cell
    BY <1>3 DEF IType, TypeOK, usart_receiveBytes
  <2>2. temp'.ends \in BOOLEAN
    BY <2>1 DEF Cell
  <2>3. insync' \in BOOLEAN /\ broken' \in BOOLEAN
    BY <1>3, <2>2, Zenon DEF usart_receiveBytes, IType, TypeOK
  <2>4. size < MAX_MESSAGE_BYTES
    BY <1>3 DEF usart_receiveBytes
  <2> QED BY <1>3, <2>1, <2>3, <2>4 DEF IType, TypeOK, usart_receiveBytes, ring, flags
<1>4. CASE next_byte
  <2>1. front' \in Index
    BY <1>4, NextIndex DEF IType, TypeOK, next_byte
  <2>2. size' \in 0 .. MAX_MESSAGE_BYTES
    BY <1>0, <1>4 DEF IType, TypeOK, next_byte
  <2>3. escape' \in BOOLEAN
    BY <1>4, Zenon DEF next_byte
  <2> QED BY <1>4, <2>1, <2>2, <2>3 DEF IType, TypeOK, next_byte, flags
<1>5. CASE packet_read
  <2>1. front' \in Index
    BY <1>5, NextIndex DEF IType, TypeOK, packet_read
  <2>2. size' \in 0 .. MAX_MESSAGE_BYTES /\ pc' \in {"read", "return"}
    BY <1>0, <1>5 DEF packet_read, crc_read, ends_uplink
  <2>3. escape' \in BOOLEAN
    BY <1>5, Zenon DEF packet_read, crc_read, ends_uplink
  <2> QED BY <1>5, <2>1, <2>2, <2>3 DEF IType, TypeOK, packet_read, flags
<1>6. CASE packet_fails
  <2>1. insync' \in BOOLEAN /\ broken' \in BOOLEAN
    BY <1>6, Zenon DEF packet_fails, IType, TypeOK
  <2>2. size' \in 0 .. MAX_MESSAGE_BYTES /\ pc' = "return"
    BY <1>0, <1>6 DEF packet_fails, ends_uplink
  <2>3. escape' \in BOOLEAN
    BY <1>6, Zenon DEF packet_fails, ends_uplink
  <2> QED BY <1>6, <2>1, <2>2, <2>3 DEF IType, TypeOK, packet_fails, ring, flags
<1>7. CASE setCommunicatingRadio
  BY <1>7 DEF IType, TypeOK, setCommunicatingRadio, ring
<1>8. CASE clear_gotUplink
  <2>1. stale' \in BOOLEAN
    BY <1>8, Zenon DEF clear_gotUplink, IType, TypeOK
  <2> QED BY <1>8, <2>1 DEF IType, TypeOK, clear_gotUplink, ring
<1>9. CASE UNCHANGED vars
  BY <1>9 DEF IType, TypeOK, vars, ring, flags, reader
<1> QED
  BY <1>1, <1>2, <1>3, <1>4, <1>5, <1>6, <1>7, <1>8, <1>9 DEF Next

\* The ring's indices stay inside it, a packet inside its buffer.
THEOREM RadioTypeCorrect == Spec => []TypeOK
<1>1. Init => IType
  BY TypeInit
<1>2. IType /\ [Next]_vars => IType'
  BY TypeStep
<1>3. IType => TypeOK
  BY DEF IType
<1> QED BY <1>1, <1>2, <1>3, PTL DEF Spec
-----------------------------------------------------------------------------
(* What each action does to the unread cells.                              *)

\* rear is where the first cell after the unread ones is.
LEMMA UnreadCells ==
  ASSUME IType
  PROVE  /\ start \in Index /\ rear \in Index /\ front \in Index
         /\ Unread \in Index
         /\ \A i \in Index : /\ (start + i) % ReceiveBufferLen \in Index
                             /\ (start + i) % ReceiveBufferLen = rear <=> i = Unread
         /\ overruns <=> Unread = ReceiveBufferLen - 1
<1>1. front \in Index /\ rear \in Index
  BY DEF IType, TypeOK
<1>2. start \in Index
  BY <1>1, NextIndex DEF start
<1>3. Unread \in Index
  BY <1>1, <1>2, RingAssumption, SMT DEF Unread, Index
<1>4. ASSUME NEW i \in Index
      PROVE  /\ (start + i) % ReceiveBufferLen \in Index
             /\ (start + i) % ReceiveBufferLen = rear <=> i = Unread
  <2>1. (start + i) % ReceiveBufferLen \in Index
        /\ (start + i) % ReceiveBufferLen =
             IF start + i < ReceiveBufferLen THEN start + i ELSE start + i - ReceiveBufferLen
    BY <1>2, WrappedIndex
  <2> QED BY <2>1, <1>1, <1>2, RingAssumption, SMT DEF Unread, Index
<1>5. overruns <=> Unread = ReceiveBufferLen - 1
  <2>1. next(rear) = IF rear = ReceiveBufferLen - 1 THEN 0 ELSE rear + 1
    BY <1>1, NextIndex
  <2> QED BY <2>1, <1>1, <1>2, RingAssumption, SMT DEF overruns, Unread, Index
<1> QED BY <1>1, <1>2, <1>3, <1>4, <1>5

LEMMA ReceiveCells ==
  ASSUME IType, NEW byte \in Byte, Receive(byte)
  PROVE  /\ overruns => Unread' = 0
         /\ ~overruns => Unread' = Unread + 1
         /\ \A i \in Index :
              /\ i = Unread => /\ unread(i)' = buffer'[rear]
                               /\ unread(i)'.byte = byte
                               /\ unread(i)'.ends <=> ~escaped /\ byte = ";"
              /\ i # Unread => unread(i)' = unread(i)
<1> DEFINE ends == ~escaped /\ byte = ";"
<1>1. /\ buffer'[rear].byte = byte /\ (buffer'[rear].ends <=> ends)
      /\ \A i \in Index \ {rear} : buffer'[i] = buffer[i]
  BY ReceiveTypes
<1> HIDE DEF ends
<1>2. rear' = next(rear) /\ start' = start
  BY DEF Receive, reader, start, next
<1>3. next(rear) = IF rear = ReceiveBufferLen - 1 THEN 0 ELSE rear + 1
  BY UnreadCells, NextIndex
<1>4. overruns => Unread' = 0
  BY <1>2, UnreadCells, RingAssumption, SMT DEF Unread, overruns, Index
<1>5. ~overruns => Unread' = Unread + 1
  BY <1>2, <1>3, UnreadCells, RingAssumption, SMT DEF Unread, overruns, Index
<1>6. ASSUME NEW i \in Index 
      PROVE  /\ i = Unread => /\ unread(i)' = buffer'[rear] /\ unread(i)'.byte = byte
                              /\ unread(i)'.ends <=> ends
             /\ i # Unread => unread(i)' = unread(i)
  <2>1. unread(i)' = buffer'[(start + i) % ReceiveBufferLen]
    BY <1>2 DEF unread
  <2>2. unread(i) = buffer[(start + i) % ReceiveBufferLen]
    BY DEF unread
  <2>3. /\ (start + i) % ReceiveBufferLen \in Index
        /\ (start + i) % ReceiveBufferLen = rear <=> i = Unread
    BY UnreadCells
  <2>4. CASE i = Unread
    BY <2>1, <2>3, <2>4, <1>1
  <2>5. CASE i # Unread
    BY <2>1, <2>2, <2>3, <2>5, <1>1
  <2> QED BY <2>4, <2>5
<1> QED BY <1>4, <1>5, <1>6 DEF ends

LEMMA TakeCells ==
  ASSUME IType, usart_receiveBytes
  PROVE  /\ Unread > 0 /\ temp' = unread(0)
         /\ Unread' = Unread - 1
         /\ \A i \in 0 .. Unread - 2 : unread(i)' = unread(i + 1)
<1>1. pc = "read" /\ pc' = "got" /\ front # rear /\ temp' = buffer[front]
      /\ front' = front /\ rear' = rear /\ buffer' = buffer
  BY DEF usart_receiveBytes, ring
<1>2. start = front /\ start' = next(front)
  BY <1>1 DEF start, next
<1>3. next(front) \in Index
      /\ next(front) = IF front = ReceiveBufferLen - 1 THEN 0 ELSE front + 1
  BY UnreadCells, NextIndex
<1>4. Unread > 0 /\ Unread' = Unread - 1
  BY <1>1, <1>2, <1>3, UnreadCells, RingAssumption, SMT DEF Unread, Index
<1>5. 0 \in Index /\ (front + 0) % ReceiveBufferLen = front
  <2>1. 0 \in Index /\ front \in Index
    BY UnreadCells, RingAssumption DEF Index
  <2>2. (front + 0) % ReceiveBufferLen =
          IF front + 0 < ReceiveBufferLen THEN front + 0 ELSE front + 0 - ReceiveBufferLen
    BY <2>1, WrappedIndex
  <2> QED BY <2>1, <2>2, RingAssumption DEF Index
<1>6. temp' = unread(0)
  BY <1>1, <1>2, <1>5 DEF unread
<1>7. ASSUME NEW i \in 0 .. Unread - 2 PROVE unread(i)' = unread(i + 1)
  <2>1. i \in Index /\ i + 1 \in Index
    BY UnreadCells, RingAssumption DEF Index
  <2>2. (next(front) + i) % ReceiveBufferLen = (front + (i + 1)) % ReceiveBufferLen
    <3>1. (next(front) + i) % ReceiveBufferLen =
            IF next(front) + i < ReceiveBufferLen THEN next(front) + i
            ELSE next(front) + i - ReceiveBufferLen
      BY <2>1, <1>3, WrappedIndex
    <3>2. (front + (i + 1)) % ReceiveBufferLen =
            IF front + (i + 1) < ReceiveBufferLen THEN front + (i + 1)
            ELSE front + (i + 1) - ReceiveBufferLen
      BY <2>1, UnreadCells, WrappedIndex
    <3> QED BY <3>1, <3>2, <2>1, <1>3, UnreadCells, RingAssumption, SMT DEF Index
  <2> QED BY <2>2, <1>1, <1>2 DEF unread
<1> QED BY <1>4, <1>6, <1>7

\* Moving front past the byte already loaded changes nothing unread, and so
\* does every step that leaves the ring alone.
LEMMA SameCells ==
  ASSUME UNCHANGED <<buffer, rear>>,
         \/ pc = "got" /\ pc' # "got" /\ front' = next(front)
         \/ (pc = "got" <=> pc' = "got") /\ UNCHANGED front
  PROVE  Unread' = Unread /\ \A i \in Index : unread(i)' = unread(i)
<1>1. start' = start
  BY DEF start, next
<1> QED BY <1>1 DEF Unread, unread
-----------------------------------------------------------------------------
(* The ring is a queue.                                                    *)

Bytes == Byte \cup {NoByte}

IsQueue ==
  /\ Unread_bytes \in Seq(Bytes) /\ Len(Unread_bytes) = Unread
  /\ \A i \in 1 .. Unread : Unread_bytes[i] = unread(i - 1).byte
  /\ Unread \in Nat /\ Unread < ReceiveBufferLen

LEMMA QueueShape == IType => IsQueue
<1> SUFFICES ASSUME IType PROVE IsQueue
  OBVIOUS
<1>1. Unread \in Nat /\ Unread < ReceiveBufferLen
  BY UnreadCells, RingAssumption DEF Index
<1>2. ASSUME NEW i \in 1 .. Unread PROVE unread(i - 1).byte \in Bytes
  <2>1. i - 1 \in Index
    BY <1>1, RingAssumption DEF Index
  <2>2. unread(i - 1) \in Cell
    BY <2>1, UnreadCells DEF unread, IType, TypeOK
  <2> QED BY <2>2 DEF Cell, Bytes
<1>3. Unread_bytes \in Seq(Bytes) /\ Len(Unread_bytes) = Unread
  BY <1>1, <1>2, SMT DEF Unread_bytes
<1>4. \A i \in 1 .. Unread : Unread_bytes[i] = unread(i - 1).byte
  BY DEF Unread_bytes
<1> QED BY <1>1, <1>3, <1>4 DEF IsQueue

LEMMA QueueInit == Init => Abstract!Init
<1> SUFFICES ASSUME Init PROVE Abstract!Init
  OBVIOUS
<1>1. Unread = 0
  BY RingAssumption, SMT DEF Init, Unread, start
<1>2. Unread_bytes = << >>
  BY <1>1, SMT DEF Unread_bytes
<1>3. temp.byte = NoByte
  BY DEF Init, NoCell
<1> QED BY <1>2, <1>3 DEF Abstract!Init

LEMMA QueueSame ==
  ASSUME IType, Unread' = Unread, \A i \in Index : unread(i)' = unread(i)
  PROVE  Unread_bytes' = Unread_bytes
<1>1. \A i \in 1 .. Unread : i - 1 \in Index
  BY UnreadCells, RingAssumption DEF Index
<1>2. Unread_bytes' = [i \in 1 .. Unread' |-> unread(i - 1)'.byte]
  BY DEF Unread_bytes
<1> QED BY <1>1, <1>2 DEF Unread_bytes

LEMMA QueuePut ==
  ASSUME IType, NEW byte \in Byte, Receive(byte)
  PROVE  Abstract!Put(byte)
<1>0. IType'
  BY ReceiveTypes
<1>1. /\ overruns => Unread' = 0
      /\ ~overruns => Unread' = Unread + 1
      /\ \A i \in Index :
           /\ i = Unread => unread(i)'.byte = byte
           /\ i # Unread => unread(i)' = unread(i)
  BY ReceiveCells
<1>2. overruns <=> Unread = ReceiveBufferLen - 1
  BY UnreadCells
<1>3. Unread_bytes \in Seq(Bytes) /\ Len(Unread_bytes) = Unread
      /\ \A i \in 1 .. Unread : Unread_bytes[i] = unread(i - 1).byte
  BY QueueShape DEF IsQueue
<1>4. Unread_bytes' \in Seq(Bytes) /\ Len(Unread_bytes') = Unread'
      /\ \A i \in 1 .. Unread' : Unread_bytes'[i] = unread(i - 1)'.byte
  <2>1. IsQueue'
    BY <1>0, QueueShape, PTL
  <2> QED BY <2>1 DEF IsQueue
<1>5. temp' = temp
  BY DEF Receive, reader
<1>6. CASE overruns
  <2>1. Unread_bytes' = << >>
    BY <1>1, <1>4, <1>6, EmptySeq
  <2> QED BY <2>1, <1>2, <1>3, <1>5, <1>6 DEF Abstract!Put
<1>7. CASE ~overruns
  <2>0. byte \in Bytes
    BY DEF Bytes
  <2>1. /\ Append(Unread_bytes, byte) \in Seq(Bytes)
        /\ Len(Append(Unread_bytes, byte)) = Unread + 1
        /\ \A i \in 1 .. Unread + 1 : Append(Unread_bytes, byte)[i] =
             IF i <= Unread THEN Unread_bytes[i] ELSE byte
    BY <2>0, <1>3, AppendProperties
  <2>2. ASSUME NEW i \in 1 .. Unread + 1
        PROVE  Unread_bytes'[i] = Append(Unread_bytes, byte)[i]
    <3>1. Unread \in Nat /\ Unread < ReceiveBufferLen
      BY QueueShape DEF IsQueue
    <3>2. i - 1 \in Index /\ i \in 1 .. Unread'
      BY <3>1, <1>1, <1>7, RingAssumption DEF Index
    <3>3. Unread_bytes'[i] = IF i - 1 = Unread THEN byte ELSE unread(i - 1).byte
      BY <3>2, <1>1, <1>4
    <3> QED BY <3>1, <3>3, <1>3, <2>1
  <2>3. Unread_bytes' = Append(Unread_bytes, byte)
    BY <2>1, <2>2, <1>1, <1>4, <1>7, SeqEqual
  <2> QED BY <2>3, <1>2, <1>3, <1>5, <1>7 DEF Abstract!Put
<1> QED BY <1>6, <1>7

LEMMA QueueTake ==
  ASSUME IType, usart_receiveBytes
  PROVE  Abstract!Take
<1>0. IType'
  BY TypeStep DEF Next
<1>1. /\ Unread > 0 /\ temp' = unread(0)
      /\ Unread' = Unread - 1
      /\ \A i \in 0 .. Unread - 2 : unread(i)' = unread(i + 1)
  BY TakeCells
<1>2. Unread_bytes \in Seq(Bytes) /\ Len(Unread_bytes) = Unread
      /\ (\A i \in 1 .. Unread : Unread_bytes[i] = unread(i - 1).byte)
      /\ Unread \in Nat
  BY QueueShape DEF IsQueue
<1>3. Unread_bytes' \in Seq(Bytes) /\ Len(Unread_bytes') = Unread'
      /\ \A i \in 1 .. Unread' : Unread_bytes'[i] = unread(i - 1)'.byte
  <2>1. IsQueue'
    BY <1>0, QueueShape, PTL
  <2> QED BY <2>1 DEF IsQueue
<1>4. Unread_bytes # << >>
  BY <1>1, <1>2, EmptySeq
<1>5. Head(Unread_bytes) = temp'.byte
  <2>1. Head(Unread_bytes) = Unread_bytes[1]
    BY <1>2, <1>4
  <2>2. Unread_bytes[1] = unread(0).byte
    BY <1>1, <1>2
  <2> QED BY <2>1, <2>2, <1>1
<1>6. /\ Tail(Unread_bytes) \in Seq(Bytes)
      /\ Len(Tail(Unread_bytes)) = Unread - 1
      /\ \A i \in 1 .. Unread - 1 : Tail(Unread_bytes)[i] = Unread_bytes[i + 1]
  BY <1>2, <1>4, HeadTailProperties
<1>7. ASSUME NEW i \in 1 .. Unread - 1
      PROVE  Unread_bytes'[i] = Tail(Unread_bytes)[i]
  <2>1. i - 1 \in 0 .. Unread - 2 /\ i + 1 \in 1 .. Unread /\ (i - 1) + 1 = (i + 1) - 1
    BY <1>2
  <2>2. unread(i - 1)' = unread((i + 1) - 1)
    BY <2>1, <1>1
  <2> QED BY <2>1, <2>2, <1>1, <1>2, <1>3, <1>6
<1>8. Unread_bytes' = Tail(Unread_bytes)
  BY <1>1, <1>3, <1>6, <1>7, SeqEqual
<1> QED BY <1>4, <1>5, <1>8 DEF Abstract!Take

LEMMA QueueStep == IType /\ [Next]_vars => [Abstract!Next]_Abstract!vars
<1> SUFFICES ASSUME IType, [Next]_vars
             PROVE  Abstract!Next \/ UNCHANGED Abstract!vars
  OBVIOUS
<1>1. ASSUME NEW byte \in Byte, Receive(byte) PROVE Abstract!Next
  BY <1>1, QueuePut DEF Abstract!Next
<1>2. CASE usart_receiveBytes
  BY <1>2, QueueTake DEF Abstract!Next
<1>3. ASSUME \/ radio_uplink \/ next_byte \/ packet_read \/ packet_fails
             \/ setCommunicatingRadio \/ clear_gotUplink \/ UNCHANGED vars
      PROVE  UNCHANGED Abstract!vars
  <2>1. UNCHANGED <<buffer, rear, temp>>
    BY <1>3 DEF radio_uplink, next_byte, packet_read, packet_fails, setCommunicatingRadio,
                clear_gotUplink, vars, ring, reader
  <2>2. \/ pc = "got" /\ pc' # "got" /\ front' = next(front)
        \/ (pc = "got" <=> pc' = "got") /\ UNCHANGED front
    BY <1>3 DEF radio_uplink, next_byte, packet_read, packet_fails, setCommunicatingRadio,
                clear_gotUplink, crc_read, ends_uplink, vars, ring, reader
  <2>3. Unread' = Unread /\ \A i \in Index : unread(i)' = unread(i)
    BY <2>1, <2>2, SameCells
  <2>4. Unread_bytes' = Unread_bytes
    BY <2>3, QueueSame
  <2> QED BY <2>1, <2>4 DEF Abstract!vars
<1> QED BY <1>1, <1>2, <1>3 DEF Next

\* Whatever the interrupt and the reader do to rear and front, the ring is a
\* queue of ReceiveBufferLen - 1 bytes that an overrun empties.
THEOREM RadioImplementsByteQueue == Spec => ImplementsByteQueue
<1>1. Init => IType /\ Abstract!Init
  BY TypeInit, QueueInit
<1>2. IType /\ [Next]_vars => IType' /\ [Abstract!Next]_Abstract!vars
  BY TypeStep, QueueStep
<1> QED BY <1>1, <1>2, PTL DEF Spec, ImplementsByteQueue, Abstract!Spec

-----------------------------------------------------------------------------
(* Packet boundaries.                                                      *)

\* E holds the places among the unread bytes that the interrupt took, or
\* will take the next one at, as escaped.
Chain(E) ==
  /\ Unread \in E <=> escaped
  /\ \A i \in 0 .. Unread - 1 :
       /\ unread(i).ends <=> i \notin E /\ unread(i).byte = ";"
       /\ i + 1 \in E <=> i \notin E /\ unread(i).byte = "\\"

\* crc_read's escape for the first unread byte.
NextEscape == IF pc = "got" THEN ~escape /\ temp.byte = "\\" ELSE escape

\* The interrupt's view of the unread bytes is one run of its rules, which
\* starts where the reader stands when the two agree; escape is only set
\* inside a packet.
IChain ==
  /\ IType
  /\ pc \notin {"read", "got"} => ~escape
  /\ \E E \in SUBSET Nat : Chain(E) /\ (insync => (0 \in E <=> NextEscape))

LEMMA ChainInit == Init => IChain
<1> SUFFICES ASSUME Init PROVE IChain
  OBVIOUS
<1>1. Unread = 0
  BY RingAssumption, SMT DEF Init, Unread, start
<1>2. Chain({})
  BY <1>1 DEF Init, Chain
<1>3. ~NextEscape /\ ~escape
  BY DEF Init, NextEscape
<1>4. {} \in SUBSET Nat
  OBVIOUS
<1> QED BY <1>2, <1>3, <1>4, TypeInit DEF IChain

\* A byte goes on with the run, or begins a new one after an overrun.
LEMMA ChainReceive ==
  ASSUME IChain, NEW byte \in Byte, Receive(byte)
  PROVE  \E E \in SUBSET Nat : Chain(E)' /\ (insync' => (0 \in E <=> NextEscape'))
<1> DEFINE ends == ~escaped /\ byte = ";"
<1>0. IType
  BY DEF IChain
<1>1. PICK E \in SUBSET Nat : Chain(E) /\ (insync => (0 \in E <=> NextEscape))
  BY DEF IChain
<1>2. Unread \in Nat /\ Unread < ReceiveBufferLen /\ ReceiveBufferLen \in Nat
      /\ Index = 0 .. ReceiveBufferLen - 1
  BY <1>0, QueueShape, RingAssumption DEF IsQueue, Index
<1>3. escaped' <=> ~escaped /\ byte = "\\"
  BY <1>0, ReceiveTypes, Zenon DEF Receive, escapes
<1>4. NextEscape' <=> NextEscape
  BY DEF Receive, reader, NextEscape
<1>5. CASE overruns
  <2>1. Unread' = 0
    BY <1>0, <1>5, ReceiveCells
  <2>2. ~insync'
    BY <1>5, Zenon DEF Receive
  <2>3. CASE escaped'
    <3>1. Chain({0})'
      BY <2>1, <2>3 DEF Chain
    <3> QED BY <3>1, <2>2
  <2>4. CASE ~escaped'
    <3>1. Chain({})'
      BY <2>1, <2>4 DEF Chain
    <3> QED BY <3>1, <2>2
  <2> QED BY <2>3, <2>4
<1>6. CASE ~overruns
  <2>0. PICK F \in SUBSET Nat :
          F = IF escaped' THEN (E \cap 0 .. Unread) \cup {Unread + 1} ELSE E \cap 0 .. Unread
    <3> DEFINE G == IF escaped' THEN (E \cap 0 .. Unread) \cup {Unread + 1} ELSE E \cap 0 .. Unread
    <3>1. G \in SUBSET Nat
      BY <1>2
    <3> HIDE DEF G
    <3>2. \E F \in SUBSET Nat : F = G
      BY <3>1
    <3> QED BY <3>2 DEF G
  <2>1. Unread' = Unread + 1
        /\ \A i \in Index : /\ i = Unread => /\ unread(i)'.byte = byte
                                             /\ unread(i)'.ends <=> ends
                            /\ i # Unread => unread(i)' = unread(i)
    BY <1>0, <1>6, ReceiveCells
  <2>2. Unread' = Unread + 1
    BY <2>1
  <2>3. \A i \in 0 .. Unread : i \in F <=> i \in E
    BY <1>2, <2>0
  <2>4. Unread + 1 \in F <=> escaped'
    BY <1>2, <2>0
  <2>5. Unread \in E <=> escaped
    BY <1>1 DEF Chain
  <2>6. ASSUME NEW i \in 0 .. Unread' - 1
        PROVE  /\ unread(i)'.ends <=> i \notin F /\ unread(i)'.byte = ";"
               /\ i + 1 \in F <=> i \notin F /\ unread(i)'.byte = "\\"
    <3>1. i \in Index /\ i \in 0 .. Unread
      BY <1>2, <2>2
    <3>2. CASE i = Unread
      BY <1>3, <2>1, <2>3, <2>4, <2>5, <3>1, <3>2
    <3>3. CASE i # Unread
      <4>1. i \in 0 .. Unread - 1 /\ i + 1 \in 0 .. Unread
        BY <1>2, <3>1, <3>3
      <4>2. /\ unread(i).ends <=> i \notin E /\ unread(i).byte = ";"
            /\ i + 1 \in E <=> i \notin E /\ unread(i).byte = "\\"
        BY <1>1, <4>1 DEF Chain
      <4>3. unread(i)' = unread(i)
        BY <2>1, <3>1, <3>3
      <4> QED BY <2>3, <3>1, <4>1, <4>2, <4>3
    <3> QED BY <3>2, <3>3
  <2>7. Chain(F)'
    BY <2>2, <2>4, <2>6 DEF Chain
  <2>8. 0 \in F <=> 0 \in E
    BY <1>2, <2>3
  <2>9. insync' => insync
    BY Zenon DEF Receive
  <2> QED BY <1>1, <1>4, <2>7, <2>8, <2>9
<1> QED BY <1>5, <1>6

\* Taking a byte leaves the rest of the run.
LEMMA ChainTake ==
  ASSUME IChain, usart_receiveBytes
  PROVE  /\ \E E \in SUBSET Nat : Chain(E)' /\ (insync' => (0 \in E <=> NextEscape'))
         /\ insync => (temp'.ends <=> ~escape /\ temp'.byte = ";")
         /\ temp'.ends => temp'.byte = ";"
<1>0. IType
  BY DEF IChain
<1>1. PICK E \in SUBSET Nat : Chain(E) /\ (insync => (0 \in E <=> NextEscape))
  BY DEF IChain
<1>2. Unread \in Nat
  BY <1>0, QueueShape DEF IsQueue
<1>3. /\ Unread > 0 /\ temp' = unread(0)
      /\ Unread' = Unread - 1
      /\ \A i \in 0 .. Unread - 2 : unread(i)' = unread(i + 1)
  BY <1>0, TakeCells
<1>4. pc = "read" /\ pc' = "got" /\ escape' = escape /\ escaped' = escaped
      /\ insync' = (insync \/ temp'.ends)
  BY DEF usart_receiveBytes, flags
<1>5. NextEscape = escape /\ NextEscape' = (~escape /\ temp'.byte = "\\")
  BY <1>4, Zenon DEF NextEscape
<1>6. /\ temp'.ends <=> 0 \notin E /\ temp'.byte = ";"
      /\ 1 \in E <=> 0 \notin E /\ temp'.byte = "\\"
  <2>1. 0 \in 0 .. Unread - 1 /\ 0 + 1 = 1
    BY <1>2, <1>3
  <2>2. /\ unread(0).ends <=> 0 \notin E /\ unread(0).byte = ";"
        /\ 0 + 1 \in E <=> 0 \notin E /\ unread(0).byte = "\\"
    BY <1>1, <2>1 DEF Chain
  <2> QED BY <1>3, <2>1, <2>2
<1>7. insync => (temp'.ends <=> ~escape /\ temp'.byte = ";")
  BY <1>1, <1>5, <1>6
<1> DEFINE F == {i \in Nat : i + 1 \in E}
<1>8. F \in SUBSET Nat /\ \A i \in Nat : i \in F <=> i + 1 \in E
  OBVIOUS
<1> HIDE DEF F
<1>9. Chain(F)'
  <2>1. Unread' \in F <=> escaped'
    <3>1. Unread' \in Nat /\ Unread' + 1 = Unread
      BY <1>2, <1>3
    <3>2. Unread \in E <=> escaped
      BY <1>1 DEF Chain
    <3> QED BY <1>4, <1>8, <3>1, <3>2
  <2>2. ASSUME NEW i \in 0 .. Unread' - 1
        PROVE  /\ unread(i)'.ends <=> i \notin F /\ unread(i)'.byte = ";"
               /\ i + 1 \in F <=> i \notin F /\ unread(i)'.byte = "\\"
    <3>1. i \in Nat /\ i + 1 \in Nat /\ i \in 0 .. Unread - 2 /\ i + 1 \in 0 .. Unread - 1
      BY <1>2, <1>3
    <3>2. /\ unread(i + 1).ends <=> i + 1 \notin E /\ unread(i + 1).byte = ";"
          /\ (i + 1) + 1 \in E <=> i + 1 \notin E /\ unread(i + 1).byte = "\\"
      BY <1>1, <3>1 DEF Chain
    <3>3. unread(i)' = unread(i + 1)
      BY <1>3, <3>1
    <3> QED BY <1>8, <3>1, <3>2, <3>3
  <2> QED BY <2>1, <2>2 DEF Chain
<1>10. insync' => (0 \in F <=> NextEscape')
  <2>1. 0 \in F <=> 1 \in E
    BY <1>8
  <2>2. CASE insync
    BY <1>1, <1>5, <1>6, <2>1, <2>2
  <2>3. CASE temp'.ends
    <3>1. temp'.byte # "\\"
      BY <1>6, <2>3
    <3> QED BY <1>5, <1>6, <2>1, <3>1
  <2> QED BY <1>4, <2>2, <2>3
<1> QED BY <1>6, <1>7, <1>8, <1>9, <1>10

\* No other step changes the run, or makes them agree when they do not.
LEMMA ChainSame ==
  ASSUME IChain, Unread' = Unread, \A i \in Index : unread(i)' = unread(i),
         escaped' = escaped, insync' => insync, insync' => (NextEscape' <=> NextEscape)
  PROVE  \E E \in SUBSET Nat : Chain(E)' /\ (insync' => (0 \in E <=> NextEscape'))
<1>1. PICK E \in SUBSET Nat : Chain(E) /\ (insync => (0 \in E <=> NextEscape))
  BY DEF IChain
<1>2. \A i \in 0 .. Unread - 1 : i \in Index
  BY QueueShape, RingAssumption DEF IsQueue, Index, IChain
<1>3. Chain(E)'
  BY <1>1, <1>2 DEF Chain
<1> QED BY <1>1, <1>3

LEMMA ChainStep == IChain /\ [Next]_vars => IChain'
<1> SUFFICES ASSUME IChain, [Next]_vars PROVE IChain'
  OBVIOUS
<1> DEFINE Run == \E E \in SUBSET Nat : Chain(E) /\ (insync => (0 \in E <=> NextEscape))
           Idle == pc \notin {"read", "got"} => ~escape
<1>0. IType' /\ Idle
  BY TypeStep DEF IChain
<1> SUFFICES Run' /\ Idle'
  BY <1>0 DEF IChain
<1>1. ASSUME NEW byte \in Byte, Receive(byte) PROVE Run' /\ Idle'
  <2>1. Run'
    BY <1>1, ChainReceive
  <2>2. Idle'
    BY <1>0, <1>1 DEF Receive, reader
  <2> QED BY <2>1, <2>2
<1>2. CASE usart_receiveBytes
  <2>1. Run'
    BY <1>2, ChainTake
  <2>2. Idle'
    BY <1>2 DEF usart_receiveBytes
  <2> QED BY <2>1, <2>2
<1>3. ASSUME \/ radio_uplink \/ next_byte \/ packet_read \/ packet_fails
             \/ setCommunicatingRadio \/ clear_gotUplink \/ UNCHANGED vars
      PROVE  Run' /\ Idle'
  <2>1. UNCHANGED <<buffer, rear, escaped>>
    BY <1>3 DEF radio_uplink, next_byte, packet_read, packet_fails, setCommunicatingRadio,
                clear_gotUplink, vars, ring, flags
  <2>2. \/ pc = "got" /\ pc' # "got" /\ front' = next(front)
        \/ (pc = "got" <=> pc' = "got") /\ UNCHANGED front
    BY <1>3 DEF radio_uplink, next_byte, packet_read, packet_fails, setCommunicatingRadio,
                clear_gotUplink, crc_read, ends_uplink, vars, ring, reader
  <2>3. Unread' = Unread /\ \A i \in Index : unread(i)' = unread(i)
    BY <2>1, <2>2, SameCells
  <2>4. insync' => insync
    BY <1>3, Zenon DEF radio_uplink, next_byte, packet_read, packet_fails,
                       setCommunicatingRadio, clear_gotUplink, vars
  <2>5. insync' => (NextEscape' <=> NextEscape)
    <3>1. CASE radio_uplink
      BY <1>0, <3>1 DEF radio_uplink, crc_read, NextEscape
    <3>2. CASE next_byte
      BY <3>2 DEF next_byte, NextEscape
    <3>3. CASE packet_read
      BY <3>3 DEF packet_read, crc_read, ends_uplink, terminated, NextEscape
    <3>4. CASE packet_fails
      BY <3>4 DEF packet_fails, ends_uplink, NextEscape
    <3>5. CASE setCommunicatingRadio \/ clear_gotUplink \/ UNCHANGED vars
      <4>1. escape' = escape /\ temp' = temp /\ (pc' = "got" <=> pc = "got")
        BY <3>5 DEF setCommunicatingRadio, clear_gotUplink, vars, reader
      <4> QED BY <4>1, Zenon DEF NextEscape
    <3> QED BY <1>3, <3>1, <3>2, <3>3, <3>4, <3>5
  <2>6. Run'
    BY <2>1, <2>3, <2>4, <2>5, ChainSame
  <2>7. Idle'
    BY <1>0, <1>3 DEF radio_uplink, next_byte, packet_read, packet_fails, setCommunicatingRadio,
                      clear_gotUplink, crc_read, ends_uplink, vars, reader
  <2> QED BY <2>6, <2>7
<1> QED BY <1>1, <1>2, <1>3 DEF Next

\* While they agree, crc_read ends a packet where the interrupt saw its end.
THEOREM RadioBoundariesAgree == Spec => BoundariesAgree
<1>1. IChain /\ [Next]_vars =>
        [pc = "read" /\ pc' = "got" /\ insync => temp'.ends = (~escape /\ temp'.byte = ";")]_vars
  <2> SUFFICES ASSUME IChain, [Next]_vars, pc = "read", pc' = "got", insync
               PROVE  temp'.ends = (~escape /\ temp'.byte = ";")
    OBVIOUS
  <2>1. usart_receiveBytes
    BY DEF Next, Receive, radio_uplink, next_byte, packet_read, packet_fails, crc_read,
           ends_uplink, setCommunicatingRadio, clear_gotUplink, vars, reader
  <2>2. temp'.ends <=> ~escape /\ temp'.byte = ";"
    BY <2>1, ChainTake
  <2>3. temp'.ends \in BOOLEAN
    <3>1. temp' \in Cell
      BY TypeStep DEF IChain, IType, TypeOK
    <3> QED BY <3>1 DEF Cell
  <2> QED BY <2>2, <2>3, Zenon
<1> QED BY ChainInit, ChainStep, <1>1, PTL DEF Spec, BoundariesAgree
-----------------------------------------------------------------------------
(* Reports.                                                                *)

\* A packet the interrupt kept to report later was completed out of turn; a
\* report has the end of a packet behind it.
Ended == pc = "idle" /\ gotUplink /\ ~stale => \E i \in 0 .. Unread - 1 : unread(i).ends
IReport == IType /\ (gotFullPacket => stale) /\ Ended

LEMMA ReportInit == Init => IReport
BY TypeInit, Zenon DEF Init, IReport, Ended

LEMMA ReportStep == IReport /\ [Next]_vars => IReport'
<1> SUFFICES ASSUME IReport, [Next]_vars PROVE (gotFullPacket => stale)' /\ Ended'
  BY TypeStep DEF IReport
<1> USE DEF IReport
<1>1. ASSUME NEW byte \in Byte, Receive(byte)
      PROVE  (gotFullPacket => stale)' /\ Ended'
  <2> DEFINE ends == ~escaped /\ byte = ";"
  <2>1. getLastFromBuffer(buffer', rear').byte = byte /\ (buffer'[rear].ends <=> ends)
    BY <1>1, ReceiveTypes
  <2>2. /\ gotFullPacket' = ((gotFullPacket \/ ends) /\ communicatingWithRadio)
        /\ gotUplink' = (gotUplink \/ ((gotFullPacket \/ ends) /\ ~communicatingWithRadio))
        /\ stale' = (stale \/ overruns \/ (communicatingWithRadio /\ buffer'[rear].ends))
        /\ pc' = pc
    BY <1>1, <2>1, Zenon DEF Receive, keeps, full, reader
  <2>3. (gotFullPacket => stale)'
    BY <2>1, <2>2, Zenon
  <2>4. ASSUME pc' = "idle", gotUplink', ~stale'
        PROVE  \E i \in 0 .. Unread' - 1 : unread(i)'.ends
    <3>1. ~stale /\ ~overruns /\ (gotUplink \/ ends) /\ pc = "idle"
      BY <2>1, <2>2, <2>4, Zenon
    <3>2. Unread' = Unread + 1 /\ Unread \in Index
      BY <1>1, <3>1, ReceiveCells, UnreadCells
    <3>3. \A i \in Index : i = Unread => (unread(i)'.ends <=> ends)
      BY <1>1, ReceiveCells
    <3>4. \A i \in Index : i # Unread => unread(i)' = unread(i)
      BY <1>1, ReceiveCells
    <3> HIDE DEF ends
    <3>5. CASE ends
      <4>1. PICK i \in Index : i = Unread
        BY <3>2
      <4>2. i \in 0 .. Unread' - 1 /\ unread(i)'.ends
        BY <3>2, <3>3, <3>5, <4>1 DEF Index
      <4> QED BY <4>2
    <3>6. CASE gotUplink
      <4>1. PICK i \in 0 .. Unread - 1 : unread(i).ends
        BY <3>1, <3>6 DEF Ended
      <4>2. i \in Index /\ i # Unread /\ i \in 0 .. Unread' - 1
        BY <3>2, RingAssumption DEF Index
      <4>3. unread(i)'.ends
        BY <4>1, <4>2, <3>4
      <4> QED BY <4>2, <4>3
    <3> QED BY <3>1, <3>5, <3>6
  <2> QED BY <2>3, <2>4 DEF Ended
<1>2. CASE clear_gotUplink
  <2>1. gotUplink' = FALSE /\ stale' = (stale /\ gotFullPacket) /\ gotFullPacket' = gotFullPacket
    BY <1>2 DEF clear_gotUplink
  <2>2. (gotFullPacket => stale)'
    BY <2>1, Zenon
  <2>3. Ended'
    BY <2>1, Zenon DEF Ended
  <2> QED BY <2>2, <2>3
<1>3. CASE radio_uplink \/ usart_receiveBytes \/ next_byte \/ packet_read \/ packet_fails
           \/ setCommunicatingRadio
  <2>1. pc' # "idle"
    BY <1>3 DEF radio_uplink, usart_receiveBytes, next_byte, packet_read, packet_fails,
                setCommunicatingRadio, crc_read, ends_uplink
  <2>2. gotFullPacket' = gotFullPacket /\ stale' = stale
    BY <1>3 DEF radio_uplink, usart_receiveBytes, next_byte, packet_read, packet_fails,
                setCommunicatingRadio, flags
  <2> QED BY <2>1, <2>2 DEF Ended
<1>4. CASE UNCHANGED vars
  BY <1>4 DEF vars, ring, flags, reader, Ended, Unread, unread, start, next
<1> QED BY <1>1, <1>2, <1>3, <1>4 DEF Next

\* The cell received last, and whether what the reader takes next begins a
\* packet.
Last == getLastFromBuffer(buffer, rear)
AtStart == IF Unread > 0 THEN \A i \in Index : i = 0 => unread(i).begins ELSE Last.ends

\* Each unread byte begins a packet when the one before it ended one.
ILinks ==
  /\ \A i \in Index : i + 1 = Unread => unread(i) = Last
  /\ \A i, j \in Index : j = i + 1 /\ j < Unread => unread(j).begins = unread(i).ends

\* crc_read is in an escape only after an escape byte.
IEscape ==
  /\ temp.ends => temp.byte # "\\"
  /\ pc = "read" /\ escape => size > 0 /\ temp.byte = "\\"
  /\ pc = "got" /\ escape => size > 0

\* Between two reads the reader is at a packet's beginning, and so it is
\* inside one after a byte that ends a packet: unless the packet is broken.
IFront == ~broken =>
  /\ insync
  /\ pc \notin {"read", "got"} \/ (pc = "read" /\ size = 0) => AtStart
  /\ (pc = "got" \/ size > 0) /\ temp.ends => AtStart
  /\ pc = "got" /\ terminated => temp.ends

IBegins == IChain /\ ILinks /\ IEscape /\ IFront

LEMMA BeginsInit == Init => IBegins
<1> SUFFICES ASSUME Init PROVE IBegins
  OBVIOUS
<1>1. Unread = 0
  BY RingAssumption, SMT DEF Init, Unread, start
<1>2. ILinks
  BY <1>1 DEF ILinks, Index
<1>3. IEscape
  BY NoByteAssumption DEF Init, IEscape, NoCell, Byte
<1>4. AtStart
  <2>1. (rear - 1 + ReceiveBufferLen) % ReceiveBufferLen \in Index
    BY RingAssumption, SMT DEF Init, Index
  <2>2. Last.ends
    BY <2>1 DEF Init, Last, getLastFromBuffer, NoCell
  <2> QED BY <1>1, <2>2 DEF AtStart
<1>5. IFront
  BY <1>4 DEF Init, IFront
<1> QED BY <1>2, <1>3, <1>5, ChainInit DEF IBegins

LEMMA BeginsReceive ==
  ASSUME IBegins, NEW byte \in Byte, Receive(byte)
  PROVE  ILinks' /\ IEscape' /\ IFront'
<1>1. IType /\ Unread \in Nat /\ Index = 0 .. ReceiveBufferLen - 1 /\ ReceiveBufferLen \in Nat
      /\ Unread < ReceiveBufferLen
  BY QueueShape, RingAssumption DEF IBegins, IChain, IsQueue, Index
<1>2. /\ UNCHANGED <<pc, temp, escape, size>>
      /\ broken' = (broken \/ overruns) /\ insync' = (insync /\ ~overruns)
  BY DEF Receive, reader
<1>3. IEscape'
  BY <1>2 DEF IBegins, IEscape
<1>4. CASE overruns
  <2>1. Unread' = 0
    BY <1>1, <1>4, ReceiveCells
  <2>2. ILinks'
    BY <1>1, <2>1 DEF ILinks
  <2>3. broken'
    BY <1>2, <1>4
  <2> QED BY <1>3, <2>2, <2>3 DEF IFront
<1>5. CASE ~overruns
  <2>1. /\ Unread' = Unread + 1
        /\ \A i \in Index : i = Unread => unread(i)' = buffer'[rear]
        /\ \A i \in Index : i # Unread => unread(i)' = unread(i)
    BY <1>1, <1>5, ReceiveCells
  <2>2. buffer'[rear].begins = Last.ends /\ Last' = buffer'[rear]
    BY <1>1, ReceiveTypes DEF Last
  <2>3. AtStart' <=> AtStart
    <3>0. Unread' > 0
      BY <1>1, <2>1
    <3>1. CASE Unread = 0
      <4>1. ASSUME NEW i \in Index, i = 0 PROVE unread(i)'.begins = Last.ends
        BY <2>1, <2>2, <3>1, <4>1
      <4>2. \E i \in Index : i = 0
        BY <1>1
      <4>3. (\A i \in Index : i = 0 => unread(i)'.begins) <=> Last.ends
        BY <4>1, <4>2, Zenon
      <4>4. ~(Unread > 0)
        BY <3>1
      <4> QED BY <3>0, <4>3, <4>4, Zenon DEF AtStart
    <3>2. CASE Unread # 0
      <4>1. ASSUME NEW i \in Index, i = 0 PROVE unread(i)' = unread(i)
        BY <2>1, <3>2, <4>1
      <4>2. (\A i \in Index : i = 0 => unread(i)'.begins) <=> (\A i \in Index : i = 0 => unread(i).begins)
        BY <4>1, Zenon
      <4>3. Unread > 0
        BY <1>1, <3>2
      <4> QED BY <3>0, <4>2, <4>3, Zenon DEF AtStart
    <3> QED BY <3>1, <3>2
  <2>4. ILinks'
    <3>1. ASSUME NEW i \in Index, i + 1 = Unread' PROVE unread(i)' = Last'
      <4>1. i = Unread
        BY <1>1, <2>1, <3>1
      <4> QED BY <2>1, <2>2, <4>1
    <3>2. ASSUME NEW i \in Index, NEW j \in Index, j = i + 1, j < Unread'
          PROVE  unread(j)'.begins = unread(i)'.ends
      <4>1. i # Unread /\ i < Unread
        BY <1>1, <2>1, <3>2
      <4>2. unread(i)' = unread(i)
        BY <2>1, <4>1
      <4>3. CASE j = Unread
        <5>1. unread(j)'.begins = Last.ends
          BY <2>1, <2>2, <4>3
        <5>2. unread(i) = Last
          BY <3>2, <4>3 DEF IBegins, ILinks
        <5> QED BY <4>2, <5>1, <5>2
      <4>4. CASE j # Unread
        <5>1. j < Unread /\ unread(j)' = unread(j)
          BY <1>1, <2>1, <3>2, <4>4
        <5>2. unread(j).begins = unread(i).ends
          BY <3>2, <5>1 DEF IBegins, ILinks
        <5> QED BY <4>2, <5>1, <5>2
      <4> QED BY <4>3, <4>4
    <3> QED BY <3>1, <3>2 DEF ILinks
  <2>5. terminated' = terminated
    BY <1>2 DEF terminated
  <2>6. IFront'
    BY <1>2, <2>3, <2>5 DEF IBegins, IFront
  <2> QED BY <1>3, <2>4, <2>6
<1> QED BY <1>4, <1>5

LEMMA BeginsTake ==
  ASSUME IBegins, usart_receiveBytes
  PROVE  ILinks' /\ IEscape' /\ IFront'
<1>1. IChain /\ IType /\ Unread \in Nat
  BY QueueShape DEF IBegins, IChain, IsQueue
<1>2. /\ Unread > 0 /\ temp' = unread(0)
      /\ Unread' = Unread - 1
      /\ \A i \in 0 .. Unread - 2 : unread(i)' = unread(i + 1)
  BY <1>1, TakeCells
<1>3. /\ pc = "read" /\ pc' = "got" /\ escape' = escape /\ size' = size
      /\ insync' = (insync \/ temp'.ends) /\ broken' = (broken /\ ~temp'.ends)
      /\ Last' = Last
  BY DEF usart_receiveBytes, flags, ring, Last, getLastFromBuffer
<1>4. /\ insync => (temp'.ends <=> ~escape /\ temp'.byte = ";")
      /\ temp'.ends => temp'.byte = ";"
  BY <1>1, ChainTake
<1>5. IEscape'
  BY <1>3, <1>4 DEF IBegins, IEscape
<1>9. /\ Unread < ReceiveBufferLen /\ Index = 0 .. ReceiveBufferLen - 1
      /\ ReceiveBufferLen \in Nat /\ ReceiveBufferLen > 1 /\ 0 \in Index
  BY QueueShape, RingAssumption DEF IBegins, IChain, IsQueue, Index
<1>6. ILinks'
  <2>1. ASSUME NEW i \in Index, i + 1 = Unread' PROVE unread(i)' = Last'
    <3>1. i \in 0 .. Unread - 2 /\ i + 1 \in Index /\ (i + 1) + 1 = Unread
      BY <1>1, <1>2, <1>9, <2>1
    <3>2. unread(i)' = unread(i + 1) /\ unread(i + 1) = Last
      BY <1>2, <3>1 DEF IBegins, ILinks
    <3> QED BY <1>3, <3>2
  <2>2. ASSUME NEW i \in Index, NEW j \in Index, j = i + 1, j < Unread'
        PROVE  unread(j)'.begins = unread(i)'.ends
    <3>1. /\ i \in 0 .. Unread - 2 /\ j \in 0 .. Unread - 2
          /\ i + 1 \in Index /\ j + 1 \in Index /\ j + 1 = (i + 1) + 1 /\ j + 1 < Unread
      BY <1>1, <1>2, <1>9, <2>2
    <3>2. unread(i)' = unread(i + 1) /\ unread(j)' = unread(j + 1)
      BY <1>2, <3>1
    <3>3. unread(j + 1).begins = unread(i + 1).ends
      BY <3>1 DEF IBegins, ILinks
    <3> QED BY <3>2, <3>3
  <2> QED BY <2>1, <2>2 DEF ILinks
<1>7. temp'.ends => AtStart'
  <2> SUFFICES ASSUME temp'.ends PROVE AtStart'
    OBVIOUS
  <2>1. CASE Unread = 1
    <3>1. unread(0) = Last
      BY <1>9, <2>1 DEF IBegins, ILinks
    <3>2. Last'.ends /\ ~(Unread' > 0)
      BY <1>2, <1>3, <2>1, <3>1
    <3> QED BY <3>2 DEF AtStart
  <2>2. CASE Unread # 1
    <3>1. 0 \in 0 .. Unread - 2 /\ Unread' > 0 /\ 0 \in Index /\ 1 \in Index /\ 1 < Unread
      BY <1>1, <1>2, <1>9, <2>2
    <3>2. unread(1).begins = unread(0).ends
      BY <3>1 DEF IBegins, ILinks
    <3>3. ASSUME NEW i \in Index, i = 0 PROVE unread(i)'.begins
      <4>1. unread(i)' = unread(i + 1) /\ i + 1 = 1
        BY <1>2, <3>1, <3>3
      <4> QED BY <1>2, <3>2, <4>1
    <3> QED BY <3>1, <3>3 DEF AtStart
  <2> QED BY <2>1, <2>2
<1>8. IFront'
  <2> SUFFICES ASSUME ~broken' PROVE insync' /\ (terminated' => temp'.ends)
    BY <1>3, <1>7 DEF IFront
  <2>1. CASE temp'.ends
    BY <1>3, <2>1
  <2>2. CASE ~temp'.ends
    <3>1. ~broken /\ insync
      BY <1>3, <2>2 DEF IBegins, IFront
    <3> QED BY <1>3, <1>4, <3>1 DEF terminated
  <2> QED BY <2>1, <2>2
<1> QED BY <1>5, <1>6, <1>8

LEMMA BeginsStep == IBegins /\ [Next]_vars => IBegins'
<1> SUFFICES ASSUME IBegins, [Next]_vars PROVE ILinks' /\ IEscape' /\ IFront'
  BY ChainStep DEF IBegins
<1>1. ASSUME NEW byte \in Byte, Receive(byte) PROVE ILinks' /\ IEscape' /\ IFront'
  BY <1>1, BeginsReceive
<1>2. CASE usart_receiveBytes
  BY <1>2, BeginsTake
<1>3. ASSUME \/ radio_uplink \/ next_byte \/ packet_read \/ packet_fails
             \/ setCommunicatingRadio \/ clear_gotUplink \/ UNCHANGED vars
      PROVE  ILinks' /\ IEscape' /\ IFront'
  <2>0. UNCHANGED <<buffer, rear, temp>>
    BY <1>3 DEF radio_uplink, next_byte, packet_read, packet_fails, setCommunicatingRadio,
                clear_gotUplink, vars, ring, reader
  <2>1. \/ pc = "got" /\ pc' # "got" /\ front' = next(front)
        \/ (pc = "got" <=> pc' = "got") /\ UNCHANGED front
    BY <1>3 DEF radio_uplink, next_byte, packet_read, packet_fails, setCommunicatingRadio,
                clear_gotUplink, crc_read, ends_uplink, vars, ring, reader
  <2>2. Unread' = Unread /\ (\A i \in Index : unread(i)' = unread(i)) /\ Last' = Last
    BY <2>0, <2>1, SameCells DEF Last, getLastFromBuffer
  <2>3. Unread \in Nat /\ Unread < ReceiveBufferLen /\ Index = 0 .. ReceiveBufferLen - 1
        /\ ReceiveBufferLen \in Nat
    BY QueueShape, RingAssumption DEF IBegins, IChain, IsQueue, Index
  <2>4. AtStart' = AtStart
    BY <2>2, <2>3 DEF AtStart
  <2>5. ILinks'
    BY <2>2, Zenon DEF IBegins, ILinks
  <2>6. size \in Nat
    BY DEF IBegins, IChain, IType, TypeOK
  <2>7. CASE radio_uplink
    <3>1. /\ pc = "idle" /\ pc' = "read" /\ ~escape' /\ size' = 0
          /\ UNCHANGED <<insync, broken>>
      BY <2>7 DEF radio_uplink, crc_read
    <3> QED BY <2>0, <2>4, <2>5, <3>1 DEF IBegins, IEscape, IFront
  <2>8. CASE next_byte
    <3>1. /\ pc = "got" /\ pc' = "read" /\ escape' = (~escape /\ temp.byte = "\\")
          /\ size' = size + 1 /\ UNCHANGED <<insync, broken>>
      BY <2>8 DEF next_byte
    <3>2. size' > 0
      BY <2>6, <3>1
    <3>3. escape' => temp'.byte = "\\"
      BY <2>0, <3>1, Zenon
    <3>4. IEscape'
      BY <2>0, <3>1, <3>2, <3>3 DEF IBegins, IEscape
    <3>5. IFront'
      BY <2>0, <2>4, <3>1, <3>2 DEF IBegins, IFront
    <3> QED BY <2>5, <3>4, <3>5
  <2>9. CASE packet_read
    <3>1. /\ pc = "got" /\ terminated /\ pc' \in {"read", "return"} /\ ~escape' /\ size' = 0
          /\ UNCHANGED <<insync, broken>>
      BY <2>9 DEF packet_read, crc_read, ends_uplink
    <3> QED BY <2>0, <2>4, <2>5, <3>1 DEF IBegins, IEscape, IFront
  <2>10. CASE packet_fails
    <3>1. /\ pc = "read" /\ pc' = "return" /\ ~escape' /\ size' = 0
          /\ insync' = (insync /\ ~escape)
          /\ broken' = (broken \/ (size > 0 /\ ~temp.ends))
      BY <2>10 DEF packet_fails, ends_uplink
    <3>2. ~broken' => AtStart /\ insync'
      <4> SUFFICES ASSUME ~broken' PROVE AtStart /\ insync'
        OBVIOUS
      <4>0. size = 0 \/ size > 0
        BY <2>6
      <4>1. ~broken /\ (size = 0 \/ temp.ends)
        BY <3>1, <4>0, Zenon
      <4>2. AtStart
        BY <2>6, <3>1, <4>1 DEF IBegins, IFront
      <4>3. insync /\ ~escape
        BY <3>1, <4>1 DEF IBegins, IFront, IEscape
      <4> QED BY <3>1, <4>2, <4>3
    <3> QED BY <2>0, <2>4, <2>5, <3>1, <3>2 DEF IBegins, IEscape, IFront
  <2>11. CASE setCommunicatingRadio \/ clear_gotUplink
    <3>1. /\ pc \notin {"read", "got"} /\ pc' \notin {"read", "got"}
          /\ UNCHANGED <<escape, size, insync, broken>>
      BY <2>11 DEF setCommunicatingRadio, clear_gotUplink
    <3> QED BY <2>0, <2>4, <2>5, <3>1 DEF IBegins, IEscape, IFront
  <2>12. CASE UNCHANGED vars
    <3>1. UNCHANGED <<pc, escape, size, insync, broken>>
      BY <2>12 DEF vars, reader
    <3> QED BY <2>0, <2>4, <2>5, <3>1 DEF IBegins, IEscape, IFront, terminated
  <2> QED BY <1>3, <2>7, <2>8, <2>9, <2>10, <2>11, <2>12
<1> QED BY <1>1, <1>2, <1>3 DEF Next

\* A report found by the main thread has the end of a packet behind it, and
\* all of that packet unless it is broken; but for the reports that stale
\* stands for.
THEOREM RadioReportsAreTrue == Spec => []ReportsAreTrue
<1>1. IReport /\ IBegins => ReportsAreTrue
  <2> SUFFICES ASSUME IReport, IBegins, pc = "idle", gotUplink, ~stale
               PROVE  \E last \in 0 .. Unread - 1 :
                        /\ unread(last).ends
                        /\ broken \/ \E first \in 0 .. last : unread(first).begins
    BY DEF ReportsAreTrue
  <2>1. PICK last \in 0 .. Unread - 1 : unread(last).ends
    BY DEF IReport, Ended
  <2>2. Unread \in Nat /\ Unread > 0 /\ 0 \in 0 .. last
    BY <2>1, QueueShape DEF IReport, IsQueue
  <2>3. 0 \in Index
    BY RingAssumption DEF Index
  <2>4. ~broken => unread(0).begins
    BY <2>2, <2>3 DEF IBegins, IFront, AtStart
  <2> QED BY <2>1, <2>2, <2>4
<1>2. Spec => []IReport
  BY ReportInit, ReportStep, PTL DEF Spec
<1>3. Spec => []IBegins
  BY BeginsInit, BeginsStep, PTL DEF Spec
<1> QED BY <1>1, <1>2, <1>3, PTL
=============================================================================
