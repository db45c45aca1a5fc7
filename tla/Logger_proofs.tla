--------------------------- MODULE Logger_proofs ---------------------------
(***************************************************************************)
(* The logger for every set of files, tags and records, every geometry and *)
(* any number of failures and resets.  The inductive invariant relates the *)
(* open handle to the part: a handle that is neither dirty nor writing is  *)
(* what the part holds, and, without failures, what the part holds is a    *)
(* beginning of the handle once createFile has returned.  A second one     *)
(* counts rows: a log that no failure split holds whole rows of its tag,   *)
(* the header first, and more of them than readRecord went past.  The      *)
(* refinement of Journal adds that only a failure marks a handle as erred. *)
(***************************************************************************)
EXTENDS Logger, SequenceTheorems, TLAPS

LEMMA RowType ==
  ASSUME NEW tag \in Tag, NEW says \in Tag \cup Record \cup {Exit}
  PROVE  Row(tag, says) \in Seq(Cell) /\ Len(Row(tag, says)) = RowSize[tag]
  <1>1. RowSize[tag] \in Nat
    BY LoggerAssumption
  <1>2. Row(tag, says) \in [1 .. RowSize[tag] -> Cell]
    BY <1>1 DEF Row, Cell
  <1>3. QED
    BY <1>1, <1>2, SeqDef, LenProperties

LEMMA SizeType ==
  ASSUME NEW f \in Handle
  PROVE  /\ Size(f) \in Nat /\ Whole(f) \in Seq(Cell) /\ Len(Whole(f)) = Size(f)
         /\ Extends(f.content, Whole(f))
  <1> DEFINE c == f.content  t == f.tail
  <1>1. c \in Seq(Cell) /\ t \in Seq(Cell)
    BY DEF Handle
  <1>2. Len(c) \in Nat /\ Len(t) \in Nat
    BY <1>1, LenProperties
  <1>3. /\ c \o t \in Seq(Cell) /\ Len(c \o t) = Len(c) + Len(t)
        /\ \A i \in 1 .. Len(c) + Len(t) : (c \o t)[i] = IF i <= Len(c) THEN c[i] ELSE t[i - Len(c)]
    BY <1>1, ConcatProperties
  <1>4. Whole(f) = c \o t /\ Size(f) = Len(c) + Len(t)
    BY DEF Whole, Size
  <1> HIDE DEF c, t
  <1>5. \A i \in 1 .. Len(c) : (c \o t)[i] = c[i]
    BY <1>2, <1>3
  <1>6. Extends(c, c \o t)
    BY <1>2, <1>3, <1>5 DEF Extends
  <1>7. QED
    <2>1. Extends(f.content, Whole(f))
      BY <1>4, <1>6, Zenon DEF c
    <2>2. Size(f) \in Nat
      BY <1>2, <1>4
    <2>3. Whole(f) \in Seq(Cell) /\ Len(Whole(f)) = Size(f)
      BY <1>3, <1>4, Zenon
    <2>4. QED
      BY <2>1, <2>2, <2>3

LEMMA ExtendType ==
  ASSUME NEW f \in Handle, NEW cells \in Seq(Cell)
  PROVE  /\ Extend(f, cells) \in Handle
         /\ Extend(f, cells).tail = f.tail \o cells
  <1>1. f.tail \in Seq(Cell) /\ Size(f) + Len(cells) \in Nat
    BY SizeType, LenProperties DEF Handle
  <1>2. f.tail \o cells \in Seq(Cell)
    BY <1>1, ConcatProperties
  <1>3. QED
    BY <1>1, <1>2 DEF Extend, Handle

\* What every outcome of writeRow has in common: content, and with it what a
\* flush has already taken, is left alone.
LEMMA WriteStep ==
  ASSUME NEW f \in Handle, NEW says \in Tag \cup Record \cup {Exit},
         split \subseteq Name, faults \in 0 .. MaxFaults, writeRow(f, says)
  PROVE  /\ log_file' \in Handle /\ log_file'.name = f.name /\ log_file'.content = f.content
         /\ log_file'.dirty = f.dirty
         /\ log_file'.writing \/ (log_file'.tail = f.tail /\ log_file'.writing = f.writing)
         /\ written' \in BOOLEAN /\ (written' => ~log_file'.erred)
         /\ split' \subseteq Name /\ faults' \in 0 .. MaxFaults
  <1> DEFINE row == Row(f.header, says)
  <1>1. f.header \in Tag /\ f.name \in Name /\ f.inline \in BOOLEAN
    BY DEF Handle
  <1>2. row \in Seq(Cell)
    BY <1>1, RowType
  <1>3. faults' \in 0 .. MaxFaults
    BY LoggerAssumption DEF writeRow, Fails, Works
  <1>4. CASE log_file' = WriteDone(f, row) /\ written' = TRUE /\ UNCHANGED split
    <2>1. Extend(f, row) \in Handle
      BY <1>2, ExtendType
    <2>2. (f.inline /\ ~outlines(f, Len(row))) \in BOOLEAN
      OBVIOUS
    <2>3. Extend(f, row).inline = f.inline
      BY DEF Extend, Handle
    <2>4. log_file' = [Extend(f, row) EXCEPT !.inline = f.inline /\ ~outlines(f, Len(row)),
                                             !.erred = FALSE]
      BY <1>4, <2>3 DEF WriteDone
    <2>5. log_file' \in Handle /\ ~log_file'.erred
      BY <2>1, <2>2, <2>4 DEF Handle
    <2>6. /\ log_file'.name = f.name /\ log_file'.content = f.content
          /\ log_file'.dirty = f.dirty /\ log_file'.writing
      BY <2>1, <2>4 DEF Extend, Handle
    <2>7. QED
      BY <1>3, <1>4, <2>5, <2>6
  <1>5. CASE log_file' \in WriteFailed(f) /\ written' = FALSE /\ UNCHANGED split
    BY <1>3, <1>5, SizeType DEF WriteFailed, Handle
  <1>6. CASE /\ crosses_block(f, Len(row)) /\ log_file' = WriteSplit(f, row)
             /\ written' = FALSE /\ split' = split \cup {f.name}
    <2>1. room(f) \in Nat /\ room(f) < Len(row) /\ room(f) \in Int
      BY <1>6, LoggerAssumption DEF crosses_block
    <2>2. \A i \in 1 .. room(f) : row[i] \in Cell
      BY <1>2, <2>1, LenProperties, ElementOfSeq
    <2>3. SubSeq(row, 1, room(f)) \in Seq(Cell)
      BY <2>1, <2>2, SubSeqProperties
    <2>4. Extend(f, SubSeq(row, 1, room(f))) \in Handle
      BY <2>3, ExtendType
    <2>5. QED
      BY <1>1, <1>3, <1>6, <2>4 DEF WriteSplit, Extend, Handle
  <1>7. QED
    BY <1>4, <1>5, <1>6 DEF writeRow

LEMMA FlushStep ==
  ASSUME NEW f \in Handle, ~f.writing => f.tail = <<>>
  PROVE  /\ Flush(f) \in Handle /\ Flush(f).name = f.name /\ Flush(f).inline = f.inline
         /\ Flush(f).header = f.header /\ Flush(f).row = f.row /\ Flush(f).erred = f.erred
         /\ Flush(f).content = Whole(f) /\ Flush(f).tail = <<>> /\ ~Flush(f).writing
         /\ Flush(f).dirty = (f.writing \/ f.dirty)
  <1>1. f.content \in Seq(Cell) /\ f.tail \in Seq(Cell) /\ f.writing \in BOOLEAN /\ f.dirty \in BOOLEAN
    BY DEF Handle
  <1>2. Whole(f) \in Seq(Cell) /\ <<>> \in Seq(Cell)
    BY SizeType, EmptySeq
  <1>3. CASE f.writing
    BY <1>1, <1>2, <1>3 DEF Flush, Handle
  <1>4. CASE ~f.writing
    <2>1. Whole(f) = f.content
      BY <1>1, <1>4, ConcatEmptySeq DEF Whole
    <2>2. QED
      BY <1>1, <1>4, <2>1 DEF Flush, Handle
  <1>5. QED
    BY <1>3, <1>4

DiskType == [valid : BOOLEAN, files : [Name -> Stored \cup {NoFile}]]
Holds(d, f, cells) == d.files[f.name] # NoFile /\ d.files[f.name].cells = cells
\* A handle that is not dirty has nothing flushed that the part lacks.
Clean(f, d) == ~f.dirty => Holds(d, f, f.content)
Pending(f) == ~f.writing => f.tail = <<>>

LEMMA SyncedIsWhole ==
  ASSUME NEW f \in Handle, Pending(f), disk \in DiskType, Clean(f, disk)
  PROVE  /\ Synced(f) \in DiskType /\ Synced(f).valid = disk.valid
         /\ \A n \in Name \ {f.name} : Synced(f).files[n] = disk.files[n]
         /\ Holds(Synced(f), f, Whole(f))
  <1> DEFINE h == Flush(f)
  <1>1. /\ h \in Handle /\ h.name = f.name /\ h.content = Whole(f)
        /\ h.dirty = (f.writing \/ f.dirty)
    BY FlushStep DEF Pending
  <1>2. f.name \in Name /\ h.content \in Seq(Cell) /\ h.inline \in BOOLEAN
    BY <1>1 DEF Handle
  <1>3. CASE h.dirty
    <2> DEFINE s == [inline |-> h.inline, cells |-> h.content]
    <2>1. s \in Stored /\ s # NoFile /\ s.cells = Whole(f)
      BY <1>1, <1>2, NoFileAssumption DEF Stored
    <2>2. Synced(f) = [disk EXCEPT !.files[f.name] = s]
      BY <1>1, <1>3 DEF Synced, Commit
    <2> HIDE DEF s, h
    <2>3. QED
      BY <1>2, <2>1, <2>2 DEF DiskType, Holds
  <1>4. CASE ~h.dirty
    <2>1. ~f.dirty /\ f.content = Whole(f) /\ Synced(f) = disk
      BY <1>1, <1>4 DEF Synced, Flush
    <2>2. QED
      BY <2>1 DEF Clean, Holds
  <1>5. QED
    BY <1>3, <1>4

\* What lfs_file_sync leaves: without a failure the part holds the whole
\* file; with one it holds what it held, or the whole file.
LEMMA SyncStep ==
  ASSUME NEW f \in Handle, NEW closes \in BOOLEAN, Pending(f), disk \in DiskType,
         Clean(f, disk), faults \in 0 .. MaxFaults, sync(f, closes)
  PROVE  /\ disk' \in DiskType /\ disk'.valid = disk.valid
         /\ \A n \in Name \ {f.name} : disk'.files[n] = disk.files[n]
         /\ disk' = disk \/ Holds(disk', f, Whole(f))
         /\ faults' = faults => Holds(disk', f, Whole(f))
         /\ faults' \in 0 .. MaxFaults
         /\ closes => log_file' = NoFile
         /\ ~closes => /\ log_file' \in Handle /\ log_file'.name = f.name
                       /\ Pending(log_file') /\ Clean(log_file', disk')
                       /\ faults' = faults => log_file'.content = Whole(f)
  <1> DEFINE h == Flush(f)
  <1>1. /\ h \in Handle /\ h.name = f.name /\ h.content = Whole(f) /\ h.tail = <<>>
        /\ h.dirty = (f.writing \/ f.dirty) /\ ~h.writing
    BY FlushStep DEF Pending
  <1>2. /\ Synced(f) \in DiskType /\ Synced(f).valid = disk.valid
        /\ \A n \in Name \ {f.name} : Synced(f).files[n] = disk.files[n]
        /\ Holds(Synced(f), f, Whole(f))
    BY SyncedIsWhole
  <1>3. faults \in Nat /\ (Fails => faults' # faults /\ faults' \in 0 .. MaxFaults)
    BY LoggerAssumption DEF Fails
  <1> HIDE DEF h
  <1>4. CASE /\ Works /\ disk' = Synced(f)
             /\ log_file' = IF closes THEN NoFile ELSE [h EXCEPT !.dirty = FALSE, !.erred = FALSE]
    BY <1>1, <1>2, <1>4 DEF Works, Handle, Holds, Clean, Pending
  <1>5. CASE /\ Fails /\ UNCHANGED disk
             /\ log_file' = IF closes THEN NoFile ELSE [f EXCEPT !.erred = TRUE]
    BY <1>3, <1>5 DEF Handle, Holds, Clean, Pending
  <1>6. CASE /\ h.dirty /\ Fails /\ disk' \in {disk, Synced(f)}
             /\ log_file' = IF closes THEN NoFile ELSE [h EXCEPT !.erred = TRUE]
    BY <1>1, <1>2, <1>3, <1>6 DEF Handle, Holds, Clean, Pending
  <1>7. QED
    BY <1>4, <1>5, <1>6 DEF sync, flush_fails, h

LEMMA ExtendsTransitive ==
  ASSUME NEW r \in Seq(Cell), NEW s \in Seq(Cell), NEW t \in Seq(Cell),
         Extends(r, s), Extends(s, t)
  PROVE  Extends(r, t)
  BY LenProperties DEF Extends

LEMMA ExtendsReflexive ==
  ASSUME NEW s \in Seq(Cell)
  PROVE  Extends(s, s)
  BY LenProperties DEF Extends

\* What a read leaves of the handle: what was pending is flushed.
LEMMA ReadStep ==
  ASSUME NEW f \in Handle, Pending(f), NEW row \in Nat, NEW h, h \in {Seek(f, row), ReadRow(Seek(f, row))}
  PROVE  /\ h \in Handle /\ h.name = f.name /\ h.content = Whole(f) /\ Pending(h)
         /\ h.dirty = (f.writing \/ f.dirty) /\ h.row = f.row
  <1> DEFINE g == Seek(f, row)
  <1>1. /\ Flush(f) \in Handle /\ Flush(f).name = f.name /\ Flush(f).content = Whole(f)
        /\ Flush(f).tail = <<>> /\ Flush(f).dirty = (f.writing \/ f.dirty)
        /\ Flush(f).header = f.header /\ Flush(f).row = f.row
    BY FlushStep DEF Pending
  <1>2. f.header \in Tag /\ RowSize[f.header] \in Nat
    BY LoggerAssumption DEF Handle
  <1>3. row * RowSize[f.header] \in Nat
    BY <1>2
  <1>4. /\ g \in Handle /\ g.name = f.name /\ g.content = Whole(f) /\ g.tail = <<>>
        /\ g.dirty = (f.writing \/ f.dirty) /\ g.header = f.header /\ g.row = f.row
    BY <1>1, <1>3 DEF Seek, Handle
  <1> HIDE DEF g
  <1>5. end_of_row(g) \in Nat /\ Len(g.content) \in Nat
    BY <1>2, <1>4, LenProperties DEF end_of_row, Handle
  <1>6. /\ ReadRow(g) \in Handle /\ ReadRow(g).name = f.name /\ ReadRow(g).content = Whole(f)
        /\ ReadRow(g).tail = <<>> /\ ReadRow(g).dirty = (f.writing \/ f.dirty)
        /\ ReadRow(g).row = f.row
    BY <1>4, <1>5 DEF ReadRow, Handle
  <1>7. QED
    BY <1>4, <1>6 DEF Pending, g

LEMMA RowAtType ==
  ASSUME NEW f \in Handle, complete(f)
  PROVE  RowAt(f) \in Seq(Cell)
  <1>1. f.header \in Tag /\ RowSize[f.header] \in Nat /\ f.pos \in Nat /\ f.content \in Seq(Cell)
    BY LoggerAssumption DEF Handle
  <1>2. f.pos + 1 \in Int /\ end_of_row(f) \in Int /\ end_of_row(f) <= Len(f.content)
    BY <1>1 DEF complete, end_of_row
  <1>3. \A i \in f.pos + 1 .. end_of_row(f) : f.content[i] \in Cell
    BY <1>1, <1>2, LenProperties, ElementOfSeq
  <1>4. QED
    BY <1>2, <1>3, SubSeqProperties DEF RowAt

(***************************************************************************)
(* The inductive invariant.                                                *)
(***************************************************************************)

OpenInv ==
  /\ mounted => disk.valid /\ pc # "format"
  /\ pc \in {"create", "close"} => log_file # NoFile
  /\ log_file # NoFile =>
       /\ mounted /\ pc \in {"idle", "create", "close"}
       /\ Pending(log_file) /\ Clean(log_file, disk)
       /\ disk.files[log_file.name] # NoFile
  /\ pc = "close" /\ written => ~log_file.erred

\* As long as no FLASH call has failed.
NoFailureInv == faults = 0 =>
  /\ ~disk.valid => disk.files = Empty
  /\ pc = "format" => ~disk.valid
  /\ log_file # NoFile /\ pc # "create" =>
       Extends(disk.files[log_file.name].cells, log_file.content)

Inv == TypeOK /\ OpenInv /\ NoFailureInv

LEMMA InitInv == Init => Inv
  <1> SUFFICES ASSUME Init PROVE Inv
    OBVIOUS
  <1>1. Empty \in [Name -> Stored \cup {NoFile}]
    BY DEF Empty
  <1>2. disk \in DiskType /\ disk.files = Empty
    BY <1>1 DEF Init, DiskType
  <1>3. <<>> \in Seq(Seq(Cell)) /\ 0 \in 0 .. MaxFaults
    BY EmptySeq, LoggerAssumption
  <1>4. TypeOK
    BY <1>2, <1>3, Zenon DEF Init, TypeOK, DiskType
  <1>5. QED
    BY <1>2, <1>4 DEF Init, Inv, OpenInv, NoFailureInv

LEMMA NextInv == Inv /\ [Next]_vars => Inv'
  <1> SUFFICES ASSUME Inv, [Next]_vars PROVE Inv'
    OBVIOUS
  <1> USE DEF Inv
  <1>1. /\ disk \in DiskType /\ faults \in 0 .. MaxFaults /\ faults \in Nat /\ split \subseteq Name
        /\ log_file # NoFile => log_file \in Handle /\ log_file.name \in Name
    BY LoggerAssumption DEF TypeOK, DiskType, Handle
  <1>2. Empty \in [Name -> Stored \cup {NoFile}] /\ Fresh \in DiskType /\ Blank \in DiskType
    BY DEF Empty, Fresh, Blank, DiskType
  <1>3. /\ Works => faults' = faults
        /\ Fails => faults' \in 0 .. MaxFaults /\ faults' # 0
    BY <1>1, LoggerAssumption DEF Works, Fails
  <1>4. CASE UNCHANGED vars
    <2>1. TypeOK'
      BY <1>4, Zenon DEF vars, TypeOK
    <2>2. OpenInv'
      BY <1>4 DEF vars, OpenInv, Pending, Clean, Holds
    <2>3. QED
      BY <1>4, <2>1, <2>2 DEF vars, NoFailureInv
  <1>5. CASE Mount
    <2>1. TypeOK'
      BY <1>1, <1>3, <1>5, Zenon DEF Mount, TypeOK, Works
    <2>2. log_file = NoFile
      BY <1>5 DEF Mount, OpenInv
    <2>3. QED
      BY <1>1, <1>3, <1>5, <2>1, <2>2 DEF Mount, OpenInv, NoFailureInv
  <1>6. CASE Format
    <2>1. disk' \in DiskType /\ mounted' \in BOOLEAN /\ faults' \in 0 .. MaxFaults /\ pc' = "idle"
      BY <1>1, <1>2, <1>3, <1>6 DEF Format
    <2>2. TypeOK'
      BY <1>6, <2>1, Zenon DEF Format, TypeOK, DiskType
    <2>3. log_file = NoFile
      BY <1>6 DEF Format, OpenInv
    <2>4. faults' = 0 => disk' = Fresh
      BY <1>3, <1>6 DEF Format
    <2>5. QED
      BY <1>6, <2>1, <2>2, <2>3, <2>4 DEF Format, OpenInv, NoFailureInv, Fresh
  <1>7. CASE Reset
    <2>1. disk' \in DiskType /\ <<>> \in Seq(Seq(Cell))
      BY <1>1, <1>2, <1>7, EmptySeq DEF Reset
    <2>2. TypeOK'
      BY <1>7, <2>1, Zenon DEF Reset, TypeOK, DiskType
    <2>3. faults' = 0 /\ ~disk'.valid => disk'.files = Empty
      BY <1>7 DEF Reset, NoFailureInv, Fresh, Blank
    <2>4. QED
      BY <1>7, <2>2, <2>3 DEF Reset, OpenInv, NoFailureInv
  <1>8. ASSUME NEW n \in Name, NEW tag \in Tag, createFile(n, tag)
        PROVE  Inv'
    <2>0. <<>> \in Seq(Cell)
      BY EmptySeq
    <2>1. NewEntry \in Stored /\ NewEntry # NoFile /\ NewEntry.cells = <<>>
      <3>1. NewEntry \in Stored /\ NewEntry.cells = <<>>
        BY <2>0 DEF NewEntry, Stored
      <3>2. QED
        BY <3>1, NoFileAssumption
    <2>2. Entry(n) = disk \/ Entry(n) = [disk EXCEPT !.files[n] = NewEntry]
      BY DEF Entry
    <2>3. /\ Entry(n) \in DiskType /\ Entry(n).valid = disk.valid
          /\ disk.files[n] = NoFile => Entry(n).files[n] = NewEntry
          /\ disk.files[n] # NoFile => Entry(n) = disk
          /\ Entry(n).files[n] # NoFile
      BY <1>1, <2>1, <2>2 DEF Entry, DiskType
    <2>4. /\ log_file = NoFile /\ pc = "idle" /\ mounted /\ disk.valid
          /\ UNCHANGED <<mounted, read, split>>
      BY <1>8 DEF createFile, can_open, OpenInv
    <2>5. CASE /\ log_file' = WriteDone([Opened(n, tag, NewEntry) EXCEPT !.dirty = disk.files[n] # NoFile], Row(tag, tag))
               /\ disk' = Entry(n) /\ pc' = "create" /\ written' = TRUE /\ Works
      <3> DEFINE f == [Opened(n, tag, NewEntry) EXCEPT !.dirty = disk.files[n] # NoFile]
      <3>1. /\ f \in Handle /\ f.name = n /\ f.content = <<>> /\ f.header = tag
            /\ f.dirty = (disk.files[n] # NoFile)
        BY <2>0 DEF Opened, Handle, NewEntry
      <3> HIDE DEF f
      <3>2. Row(tag, tag) \in Seq(Cell)
        BY RowType
      <3> DEFINE e == Extend(f, Row(tag, tag))
      <3>3. /\ e \in Handle /\ e.name = n /\ e.content = <<>> /\ e.writing
            /\ e.dirty = (disk.files[n] # NoFile)
        BY <3>1, <3>2, ExtendType DEF Extend, Handle
      <3> DEFINE inline == f.inline /\ ~outlines(f, Len(Row(tag, tag)))
      <3>4. log_file' = [e EXCEPT !.inline = inline, !.erred = FALSE]
        BY <2>5, <3>1, <3>3 DEF WriteDone, Extend, Handle, f
      <3>5. inline \in BOOLEAN
        OBVIOUS
      <3> HIDE DEF e, inline
      <3>6. /\ log_file' \in Handle /\ log_file'.name = n /\ log_file'.content = <<>>
            /\ log_file'.dirty = (disk.files[n] # NoFile) /\ log_file'.writing /\ ~log_file'.erred
        BY <3>3, <3>4, <3>5 DEF Handle
      <3>7. TypeOK'
        BY <1>1, <1>3, <2>3, <2>4, <2>5, <3>6, Zenon DEF TypeOK, DiskType
      <3>8. Pending(log_file)' /\ Clean(log_file, disk)'
        BY <2>1, <2>3, <2>5, <3>6 DEF Pending, Clean, Holds
      <3>9. OpenInv'
        <4>1. mounted' /\ disk'.valid /\ pc' = "create" /\ disk'.files[log_file'.name] # NoFile
          BY <2>3, <2>4, <2>5, <3>6
        <4>2. log_file' # NoFile
          BY <3>6, NoFileAssumption
        <4>3. QED
          BY <3>8, <4>1, <4>2, Zenon DEF OpenInv
      <3>10. NoFailureInv'
        BY <2>3, <2>4, <2>5 DEF NoFailureInv
      <3>11. QED
        BY <3>7, <3>9, <3>10
    <2>6. CASE disk' \in {disk, Entry(n)} /\ Fails /\ UNCHANGED <<log_file, pc, written>>
      <3>1. disk' \in DiskType /\ disk'.valid
        BY <1>1, <2>3, <2>4, <2>6
      <3>2. TypeOK'
        BY <1>3, <2>4, <2>6, <3>1, Zenon DEF TypeOK, DiskType
      <3>3. QED
        BY <1>3, <2>4, <2>6, <3>1, <3>2 DEF OpenInv, NoFailureInv
    <2>7. QED
      BY <1>8, <2>5, <2>6 DEF createFile
  <1>9. CASE createFile_sync
    <2> DEFINE f == log_file
    <2>1. /\ f \in Handle /\ f # NoFile /\ Pending(f) /\ Clean(f, disk) /\ mounted /\ disk.valid
          /\ disk.files[f.name] # NoFile
          /\ sync(f, FALSE) /\ pc' = "idle" /\ UNCHANGED <<mounted, written, read, split>>
      BY <1>1, <1>9 DEF createFile_sync, OpenInv
    <2>2. /\ disk' \in DiskType /\ disk'.valid
          /\ disk' = disk \/ Holds(disk', f, Whole(f))
          /\ faults' = faults => Holds(disk', f, Whole(f))
          /\ faults' \in 0 .. MaxFaults /\ log_file' \in Handle /\ log_file'.name = f.name
          /\ Pending(log_file') /\ Clean(log_file', disk')
          /\ faults' = faults => log_file'.content = Whole(f)
      BY <1>1, <2>1, SyncStep
    <2>3. TypeOK'
      BY <2>1, <2>2, Zenon DEF TypeOK, DiskType
    <2>4. disk'.files[f.name] # NoFile
      BY <2>1, <2>2 DEF Holds
    <2>5. OpenInv'
      BY <2>1, <2>2, <2>4, NoFileAssumption DEF OpenInv
    <2>6. ASSUME faults' = 0 PROVE faults' = faults
      BY <1>3, <2>1, <2>6 DEF sync, Works, flush_fails
    <2>7. NoFailureInv'
      <3>1. SUFFICES ASSUME faults' = 0
                     PROVE  Extends(disk'.files[log_file'.name].cells, log_file'.content)
        BY <2>1, <2>2 DEF NoFailureInv
      <3>2. /\ disk'.files[log_file'.name].cells = Whole(f) /\ log_file'.content = Whole(f)
            /\ Whole(f) \in Seq(Cell)
        BY <2>1, <2>2, <2>6, <3>1, SizeType DEF Holds
      <3>3. QED
        BY <3>2, ExtendsReflexive
    <2>8. QED
      BY <2>3, <2>5, <2>7
  <1>10. ASSUME NEW n \in Name, openFile(n)
         PROVE  Inv'
    <2> DEFINE s == disk.files[n]
    <2>1. s \in Stored /\ s # NoFile /\ Head(s.cells).says \in Tag /\ s.cells \in Seq(Cell)
      BY <1>1, <1>10 DEF openFile, recognised, DiskType, Stored
    <2>2. /\ log_file' \in Handle /\ log_file'.name = n /\ log_file'.content = s.cells
          /\ log_file'.tail = <<>> /\ ~log_file'.dirty /\ UNCHANGED <<disk, mounted, pc, written, read, split, faults>>
          /\ pc = "idle" /\ mounted
      BY <1>10, <2>1, EmptySeq DEF openFile, Opened, Handle, Stored, can_open, Works
    <2>3. TypeOK'
      BY <2>2, Zenon DEF TypeOK
    <2>4. Extends(s.cells, s.cells)
      BY <2>1, ExtendsReflexive
    <2>5. QED
      BY <2>1, <2>2, <2>3, <2>4 DEF OpenInv, NoFailureInv, Pending, Clean, Holds
  <1>11. ASSUME NEW n \in Name, openFile_refused(n)
         PROVE  Inv'
    <2>1. UNCHANGED <<disk, mounted, log_file, pc, written, read, split>> /\ faults' \in 0 .. MaxFaults
          /\ (faults' = 0 => faults = 0)
      BY <1>1, <1>3, <1>11 DEF openFile_refused
    <2>2. TypeOK'
      BY <2>1, Zenon DEF TypeOK
    <2>3. QED
      BY <2>1, <2>2 DEF OpenInv, NoFailureInv, Pending, Clean, Holds
  <1>12. ASSUME NEW says \in Tag \cup Record \cup {Exit}, is_open, writeRow(log_file, says),
                pc' \in {"idle", "close"}, UNCHANGED <<disk, mounted, read>>
         PROVE  Inv'
    <2> DEFINE f == log_file
    <2>1. /\ f \in Handle /\ f # NoFile /\ Pending(f) /\ Clean(f, disk) /\ mounted /\ disk.valid
          /\ disk.files[f.name] # NoFile /\ pc = "idle"
      BY <1>1, <1>12 DEF is_open, OpenInv
    <2>2. /\ log_file' \in Handle /\ log_file'.name = f.name /\ log_file'.content = f.content
          /\ log_file'.dirty = f.dirty
          /\ log_file'.writing \/ (log_file'.tail = f.tail /\ log_file'.writing = f.writing)
          /\ written' \in BOOLEAN /\ (written' => ~log_file'.erred)
          /\ split' \subseteq Name /\ faults' \in 0 .. MaxFaults
      BY <1>1, <1>12, <2>1, WriteStep
    <2>3. TypeOK'
      BY <1>12, <2>2, Zenon DEF TypeOK
    <2>4. Pending(log_file') /\ Clean(log_file', disk')
      BY <1>12, <2>1, <2>2 DEF Pending, Clean, Holds
    <2>5. OpenInv'
      <3>1. /\ mounted' /\ disk'.valid /\ disk'.files[log_file'.name] # NoFile
            /\ pc' \in {"idle", "close"} /\ (written' => ~log_file'.erred)
        BY <1>12, <2>1, <2>2
      <3>2. log_file' # NoFile
        BY <2>2, NoFileAssumption
      <3>3. QED
        BY <2>4, <3>1, <3>2 DEF OpenInv
    <2>6. faults' = 0 => faults = 0
      BY <1>3, <1>12 DEF writeRow
    <2>7. NoFailureInv'
      BY <1>12, <2>1, <2>2, <2>6 DEF NoFailureInv
    <2>8. QED
      BY <2>3, <2>5, <2>7
  <1>13. CASE \E data \in Record : logRecord(data)
    BY <1>12, <1>13 DEF logRecord, is_open
  <1>14. CASE closeFile
    BY <1>12, <1>14 DEF closeFile
  <1>15. CASE closeFile_close
    <2> DEFINE f == log_file
    <2>1. /\ f \in Handle /\ f # NoFile /\ Pending(f) /\ Clean(f, disk) /\ mounted /\ disk.valid
          /\ pc' = "idle" /\ written' = FALSE /\ read' = <<>> /\ UNCHANGED <<mounted, split>>
      BY <1>1, <1>15 DEF closeFile_close, OpenInv
    <2>2. /\ log_file' = NoFile /\ disk' \in DiskType /\ disk'.valid /\ faults' \in 0 .. MaxFaults
      <3>1. CASE f.erred
        BY <1>1, <1>15, <2>1, <3>1 DEF closeFile_close, Works
      <3>2. CASE ~f.erred
        <4>1. sync(f, TRUE)
          BY <1>15, <3>2 DEF closeFile_close
        <4>2. QED
          BY <1>1, <2>1, <4>1, SyncStep
      <3>3. QED
        BY <3>1, <3>2
    <2>3. <<>> \in Seq(Seq(Cell))
      BY EmptySeq
    <2>4. TypeOK'
      BY <2>1, <2>2, <2>3, Zenon DEF TypeOK, DiskType
    <2>5. QED
      BY <2>1, <2>2, <2>4 DEF OpenInv, NoFailureInv
  <1>16. ASSUME NEW h, log_file' = h, is_open,
                \/ h = log_file
                \/ \E row \in Nat : h \in {Seek(log_file, row), ReadRow(Seek(log_file, row)),
                                           [ReadRow(Seek(log_file, row)) EXCEPT !.row = log_file.row + 1]},
                UNCHANGED <<disk, mounted, pc, written, split>>, Works \/ Fails,
                read' \in Seq(Seq(Cell))
         PROVE  Inv'
    <2> DEFINE f == log_file
    <2>1. /\ f \in Handle /\ f # NoFile /\ Pending(f) /\ Clean(f, disk) /\ mounted /\ pc = "idle"
          /\ disk.valid /\ disk.files[f.name] # NoFile
      BY <1>1, <1>16 DEF is_open, OpenInv
    <2>2. /\ h \in Handle /\ h.name = f.name /\ Pending(h) /\ Clean(h, disk)
          /\ h.content = f.content \/ h.content = Whole(f)
      <3>1. CASE h = f
        BY <2>1, <3>1
      <3>2. ASSUME NEW row \in Nat,
                   h \in {Seek(f, row), ReadRow(Seek(f, row)), [ReadRow(Seek(f, row)) EXCEPT !.row = f.row + 1]}
            PROVE  <2>2
        <4>1. PICK g \in {Seek(f, row), ReadRow(Seek(f, row))} : h = g \/ h = [g EXCEPT !.row = f.row + 1]
          BY <3>2
        <4>2. /\ g \in Handle /\ g.name = f.name /\ g.content = Whole(f) /\ Pending(g)
              /\ g.dirty = (f.writing \/ f.dirty)
          BY <2>1, ReadStep
        <4>3. f.row + 1 \in Nat
          BY <2>1 DEF Handle
        <4>4. h \in Handle /\ h.name = f.name /\ h.content = Whole(f) /\ Pending(h) /\ h.dirty = g.dirty
          BY <4>1, <4>2, <4>3 DEF Handle, Pending
        <4>5. ~h.dirty => Whole(f) = f.content
          BY <2>1, <4>2, <4>4, ConcatEmptySeq DEF Pending, Whole, Handle
        <4>6. QED
          BY <2>1, <4>2, <4>4, <4>5 DEF Clean, Holds
      <3>3. QED
        BY <1>16, <3>1, <3>2
    <2>3. faults' \in 0 .. MaxFaults /\ (faults' = 0 => faults = 0)
      BY <1>1, <1>3, <1>16
    <2>4. TypeOK'
      BY <1>16, <2>2, <2>3, Zenon DEF TypeOK
    <2>5. OpenInv'
      BY <1>16, <2>1, <2>2 DEF OpenInv
    <2>6. ASSUME faults = 0
          PROVE  Extends(disk.files[f.name].cells, h.content)
      <3>1. disk.files[f.name].cells \in Seq(Cell) /\ f.content \in Seq(Cell)
        BY <1>1, <2>1 DEF DiskType, Stored, Handle
      <3>2. Extends(disk.files[f.name].cells, f.content)
        BY <2>1, <2>6 DEF NoFailureInv
      <3>3. Extends(f.content, Whole(f)) /\ Whole(f) \in Seq(Cell)
        BY <2>1, SizeType
      <3>4. QED
        BY <2>2, <3>1, <3>2, <3>3, ExtendsTransitive
    <2>7. NoFailureInv'
      BY <1>16, <2>1, <2>2, <2>3, <2>6 DEF NoFailureInv
    <2>8. QED
      BY <2>4, <2>5, <2>7
  <1>17. CASE readHeader
    <2>1. read' \in Seq(Seq(Cell)) /\ 0 \in Nat
      BY <1>17 DEF readHeader, TypeOK
    <2>2. is_open /\ UNCHANGED <<disk, mounted, pc, written, split>>
      BY <1>17 DEF readHeader
    <2>3. \/ log_file' = ReadRow(Seek(log_file, 0)) /\ Works
          \/ log_file' = log_file /\ Fails
          \/ log_file' = Seek(log_file, 0) /\ Fails
      BY <1>17 DEF readHeader, flush_fails, read_fails
    <2>4. QED
      BY <1>16, <2>1, <2>2, <2>3
  <1>18. CASE readRecord
    <2> DEFINE n == log_file.row + 1
               f == Seek(log_file, n)
    <2>1. is_open /\ log_file \in Handle /\ Pending(log_file) /\ UNCHANGED <<disk, mounted, pc, written, split>>
      BY <1>1, <1>18 DEF readRecord, is_open, OpenInv
    <2>2. n \in Nat
      BY <2>1 DEF Handle
    <2>3. f \in Handle /\ f.row = log_file.row /\ ReadRow(f) \in Handle /\ ReadRow(f).row = log_file.row
      BY <2>1, <2>2, ReadStep
    <2>4. /\ \/ log_file' = [ReadRow(f) EXCEPT !.row = n] /\ Works
             \/ log_file' = ReadRow(f) /\ Works
             \/ log_file' = log_file /\ Fails
             \/ log_file' = f /\ Fails
          /\ read' = read \/ (complete(f) /\ read' = Append(read, RowAt(f)))
      BY <1>18, <2>3 DEF readRecord, flush_fails, read_fails, Handle
    <2>5. read' \in Seq(Seq(Cell))
      <3>1. read \in Seq(Seq(Cell))
        BY DEF TypeOK
      <3>2. complete(f) => RowAt(f) \in Seq(Cell)
        BY <2>3, RowAtType
      <3>3. QED
        <4>1. CASE read' = read
          BY <3>1, <4>1
        <4>2. CASE complete(f) /\ read' = Append(read, RowAt(f))
          <5>1. RowAt(f) \in Seq(Cell)
            BY <3>2, <4>2
          <5> HIDE DEF f
          <5>2. Append(read, RowAt(f)) \in Seq(Seq(Cell))
            BY <3>1, <5>1, AppendProperties
          <5>3. QED
            BY <4>2, <5>2
        <4>3. QED
          BY <2>4, <4>1, <4>2
    <2>6. QED
      BY <1>16, <2>1, <2>2, <2>4, <2>5
  <1>19. QED
    BY <1>4, <1>5, <1>6, <1>7, <1>8, <1>9, <1>10, <1>11, <1>13, <1>14, <1>15, <1>17, <1>18 DEF Next

LEMMA InvHolds == Spec => []Inv
  BY InitInv, NextInv, PTL DEF Spec

(***************************************************************************)
(* Every value of the logger's state stays in its type.                    *)
(***************************************************************************)
THEOREM LoggerTypeCorrect == Spec => []TypeOK
  BY InvHolds, PTL DEF Inv

(***************************************************************************)
(* A close that meets no failure commits every row accepted since the file *)
(* was opened: its own row, having gone in, has cleared LFS_F_ERRED, so    *)
(* lfs_file_close does sync, and the sync writes the whole handle.         *)
(***************************************************************************)
THEOREM CloseCommitsAll == Spec => CloseCommits
  <1> DEFINE Step == pc = "close" /\ pc' = "idle" /\ written /\ faults' = faults
                       => disk'.files[log_file.name].cells = Whole(log_file)
  <1>1. Inv /\ [Next]_vars => [Step]_vars
    <2> SUFFICES ASSUME Inv, Next, pc = "close", pc' = "idle", written, faults' = faults
                 PROVE  disk'.files[log_file.name].cells = Whole(log_file)
      OBVIOUS
    <2>1. closeFile_close
      BY DEF Next, Mount, Format, Reset, createFile, createFile_sync, can_open, openFile,
             openFile_refused, is_open, logRecord, closeFile, readHeader, readRecord
    <2>2. /\ log_file \in Handle /\ Pending(log_file) /\ Clean(log_file, disk) /\ ~log_file.erred
          /\ disk \in DiskType /\ faults \in 0 .. MaxFaults
      BY DEF Inv, OpenInv, TypeOK, DiskType
    <2>3. sync(log_file, TRUE)
      BY <2>1, <2>2 DEF closeFile_close
    <2>4. Holds(disk', log_file, Whole(log_file))
      BY <2>2, <2>3, SyncStep
    <2>5. QED
      BY <2>4 DEF Holds
  <1>2. QED
    BY <1>1, InvHolds, PTL DEF Spec, CloseCommits

(***************************************************************************)
(* As long as no FLASH call fails, no step loses a row that reached the    *)
(* part: formats happen only where there is no log, and a sync replaces a  *)
(* log by one that begins with it, unless it is createFile's.              *)
(***************************************************************************)
THEOREM LogsOnlyGrow == Spec => LogsGrow
  <1> DEFINE Kept(n) == /\ disk'.files[n] # NoFile
                        /\ \/ pc = "create" /\ log_file.name = n
                           \/ Extends(disk.files[n].cells, disk'.files[n].cells)
             Step == faults' = 0 => \A n \in Name : disk.files[n] # NoFile => Kept(n)
  <1>1. Inv /\ [Next]_vars => [Step]_vars
    <2> SUFFICES ASSUME Inv, Next, faults' = 0, NEW n \in Name, disk.files[n] # NoFile
                 PROVE  Kept(n)
      OBVIOUS
    <2>1. /\ disk \in DiskType /\ faults \in 0 .. MaxFaults /\ disk.files[n].cells \in Seq(Cell)
          /\ log_file # NoFile => log_file \in Handle
      BY DEF Inv, TypeOK, DiskType, Stored
    <2>2. ASSUME disk'.files[n] = disk.files[n]
          PROVE  Kept(n)
      BY <2>1, <2>2, ExtendsReflexive
    <2>3. faults = 0 /\ faults' = faults
      <3>1. Works \/ Fails
        <4>1. Reset => Works
          BY DEF Reset, Works
        <4>2. writeRow(log_file, Exit) => Works \/ Fails
          BY DEF writeRow
        <4>3. \A data \in Record : writeRow(log_file, data) => Works \/ Fails
          BY DEF writeRow
        <4>4. \A closes \in BOOLEAN : sync(log_file, closes) => Works \/ Fails
          BY DEF sync, flush_fails
        <4>5. QED
          BY <4>1, <4>2, <4>3, <4>4 DEF Next, Mount, Format, createFile, createFile_sync, openFile,
             openFile_refused, logRecord, closeFile, closeFile_close, readHeader, readRecord,
             flush_fails, read_fails
      <3>2. QED
        BY <2>1, <3>1, LoggerAssumption DEF Works, Fails
    <2>4. ASSUME NEW closes \in BOOLEAN, sync(log_file, closes), log_file # NoFile,
                 pc = "create" \/ pc = "close"
          PROVE  Kept(n)
      <3> DEFINE f == log_file
      <3>1. f \in Handle /\ Pending(f) /\ Clean(f, disk)
        BY <2>1, <2>4 DEF Inv, OpenInv
      <3>2. /\ \A m \in Name \ {f.name} : disk'.files[m] = disk.files[m]
            /\ Holds(disk', f, Whole(f))
        BY <2>1, <2>3, <2>4, <3>1, SyncStep
      <3>3. CASE n # f.name
        BY <2>2, <3>2, <3>3
      <3>4. CASE n = f.name /\ pc = "create"
        BY <3>2, <3>4 DEF Holds
      <3>5. CASE n = f.name /\ pc = "close"
        <4>1. Extends(disk.files[n].cells, f.content)
          BY <2>3, <2>4, <3>5 DEF Inv, NoFailureInv
        <4>2. Extends(f.content, Whole(f)) /\ Whole(f) \in Seq(Cell) /\ f.content \in Seq(Cell)
          BY <3>1, SizeType DEF Handle
        <4>3. Extends(disk.files[n].cells, Whole(f))
          BY <2>1, <4>1, <4>2, ExtendsTransitive
        <4>4. QED
          BY <3>2, <3>5, <4>3 DEF Holds
      <3>6. QED
        BY <2>4, <3>3, <3>4, <3>5
    <2>5. CASE Format \/ (Reset /\ pc = "format")
      <3>1. disk.files = Empty
        BY <2>3, <2>5 DEF Inv, NoFailureInv, Format
      <3>2. QED
        BY <3>1 DEF Empty
    <2>6. CASE createFile_sync \/ (closeFile_close /\ ~log_file.erred)
      BY <2>4, <2>6 DEF createFile_sync, closeFile_close, Inv, OpenInv
    <2>7. CASE \E m \in Name, tag \in Tag : createFile(m, tag)
      <3>1. PICK m \in Name : disk' = disk \/ disk' = Entry(m)
        BY <2>7 DEF createFile
      <3>2. disk'.files[n] = disk.files[n]
        BY <2>1, <3>1 DEF Entry, DiskType
      <3>3. QED
        BY <2>2, <3>2
    <2>8. CASE disk' = disk
      BY <2>2, <2>8
    <2>9. QED
      BY <2>5, <2>6, <2>7, <2>8 DEF Next, Mount, Reset, openFile, openFile_refused, logRecord,
         closeFile, closeFile_close, readHeader, readRecord
  <1>2. QED
    BY <1>1, InvHolds, PTL DEF Spec, LogsGrow

(***************************************************************************)
(* Rows.  The second invariant counts them: a log is some number of rows   *)
(* of its tag, and more of them than readRecord has gone past.             *)
(***************************************************************************)

Says == Tag \cup Record \cup {Exit}

\* cells are k rows of tag, the first of them its header.
Rows(cells, tag, k) ==
  /\ Len(cells) = k * RowSize[tag]
  /\ k > 0 => RowOf(cells, 0, RowSize[tag]) = Row(tag, tag)
  /\ \A i \in 0 .. k - 1 : IsWhole(RowOf(cells, i, RowSize[tag]), tag)

HasRows(cells) == \E tag \in Tag, k \in Nat : Rows(cells, tag, k)

\* f is a log of k rows, of which rd are those after the header up to row.
OpenLog(f, rd, k) ==
  /\ Rows(Whole(f), f.header, k)
  /\ f.row < k /\ Len(rd) = f.row
  /\ \A i \in 1 .. Len(rd) : rd[i] = RowOf(Whole(f), i, RowSize[f.header])

DiskRows == \A n \in Name \ split : disk.files[n] # NoFile => HasRows(disk.files[n].cells)

RowInv ==
  /\ DiskRows
  /\ log_file # NoFile /\ log_file.name \notin split => \E k \in Nat : OpenLog(log_file, read, k)
  /\ log_file = NoFile => read = <<>>

\* Rows of one width do not overlap.
LEMMA Widths ==
  ASSUME NEW i \in Nat, NEW k \in Nat, NEW n \in Nat \ {0}
  PROVE  /\ i * n \in Nat /\ k * n \in Nat /\ (i + 1) * n = i * n + n
         /\ i < k => (i + 1) * n <= k * n
         /\ i * n <= k * n => i <= k
         /\ (k * n) % n = 0 /\ (k * n) \div n = k
  <1>1. i * n \in Nat /\ k * n \in Nat /\ (i + 1) * n = i * n + n
    BY SMT
  <1>2. i < k => (i + 1) * n <= k * n
    BY SMT
  <1>3. i * n <= k * n => i <= k
    BY SMT
  <1>4. (k * n) % n = 0
    BY SMT
  <1>5. (k * n) \div n = k
    BY SMT
  <1>6. QED
    BY <1>1, <1>2, <1>3, <1>4, <1>5

LEMMA RowSizes ==
  ASSUME NEW tag \in Tag
  PROVE  RowSize[tag] \in Nat \ {0}
  BY LoggerAssumption

LEMMA RowOfType ==
  ASSUME NEW cells \in Seq(Cell), NEW i \in Nat, NEW n \in Nat \ {0}, (i + 1) * n <= Len(cells)
  PROVE  /\ RowOf(cells, i, n) \in Seq(Cell) /\ Len(RowOf(cells, i, n)) = n
         /\ \A p \in 1 .. n : RowOf(cells, i, n)[p] = cells[i * n + p]
  <1> DEFINE first == i * n
             last == (i + 1) * n
  <1>1. first \in Nat /\ last = first + n /\ last <= Len(cells)
    BY Widths
  <1>2. RowOf(cells, i, n) = SubSeq(cells, first + 1, last)
    BY DEF RowOf
  <1> HIDE DEF first, last
  <1>3. \A j \in first + 1 .. last : cells[j] \in Cell
    BY <1>1, LenProperties, ElementOfSeq
  <1>4. /\ SubSeq(cells, first + 1, last) \in Seq(Cell)
        /\ Len(SubSeq(cells, first + 1, last)) = IF first + 1 <= last THEN last - (first + 1) + 1 ELSE 0
        /\ \A p \in 1 .. last - (first + 1) + 1 :
             SubSeq(cells, first + 1, last)[p] = cells[first + 1 + p - 1]
    <2>1. first + 1 \in Int /\ last \in Int
      BY <1>1
    <2>2. QED
      BY <1>3, <2>1, SubSeqProperties
  <1>5. last - (first + 1) + 1 = n /\ first + 1 <= last /\ \A p \in 1 .. n : first + 1 + p - 1 = first + p
    BY <1>1
  <1>6. QED
    BY <1>2, <1>4, <1>5 DEF first

\* What follows a row does not change it.
LEMMA RowOfKept ==
  ASSUME NEW cells \in Seq(Cell), NEW more \in Seq(Cell), NEW i \in Nat, NEW n \in Nat \ {0},
         (i + 1) * n <= Len(cells)
  PROVE  RowOf(cells \o more, i, n) = RowOf(cells, i, n)
  <1> DEFINE all == cells \o more
  <1>1. /\ all \in Seq(Cell) /\ Len(all) = Len(cells) + Len(more)
        /\ \A j \in 1 .. Len(cells) + Len(more) : all[j] = IF j <= Len(cells) THEN cells[j] ELSE more[j - Len(cells)]
    BY ConcatProperties
  <1>2. Len(cells) \in Nat /\ Len(more) \in Nat /\ i * n \in Nat /\ (i + 1) * n = i * n + n
    BY LenProperties, Widths
  <1> HIDE DEF all
  <1>3. (i + 1) * n <= Len(all)
    BY <1>1, <1>2
  <1>4. /\ RowOf(all, i, n) \in Seq(Cell) /\ Len(RowOf(all, i, n)) = n
        /\ \A p \in 1 .. n : RowOf(all, i, n)[p] = all[i * n + p]
    BY <1>1, <1>3, RowOfType
  <1>5. /\ RowOf(cells, i, n) \in Seq(Cell) /\ Len(RowOf(cells, i, n)) = n
        /\ \A p \in 1 .. n : RowOf(cells, i, n)[p] = cells[i * n + p]
    BY RowOfType
  <1>6. \A p \in 1 .. n : all[i * n + p] = cells[i * n + p]
    <2> DEFINE first == i * n
    <2>1. first \in Nat /\ first + n <= Len(cells)
      BY <1>2
    <2> HIDE DEF first
    <2>2. \A p \in 1 .. n : all[first + p] = cells[first + p]
      BY <1>1, <1>2, <2>1
    <2>3. QED
      BY <2>2 DEF first
  <1>7. RowOf(all, i, n) = RowOf(cells, i, n)
    BY <1>4, <1>5, <1>6, SeqEqual
  <1>8. QED
    BY <1>7 DEF all

LEMMA RowOfLast ==
  ASSUME NEW cells \in Seq(Cell), NEW row \in Seq(Cell), NEW k \in Nat, NEW n \in Nat \ {0},
         Len(cells) = k * n, Len(row) = n
  PROVE  RowOf(cells \o row, k, n) = row
  <1> DEFINE all == cells \o row
             first == k * n
  <1>1. /\ all \in Seq(Cell) /\ Len(all) = first + n
        /\ \A j \in 1 .. first + n : all[j] = IF j <= first THEN cells[j] ELSE row[j - first]
    <2>1. /\ all \in Seq(Cell) /\ Len(all) = Len(cells) + Len(row)
          /\ \A j \in 1 .. Len(cells) + Len(row) :
               all[j] = IF j <= Len(cells) THEN cells[j] ELSE row[j - Len(cells)]
      BY ConcatProperties
    <2>2. Len(cells) = first /\ Len(row) = n
      OBVIOUS
    <2> HIDE DEF first, all
    <2>3. QED
      BY <2>1, <2>2
  <1>2. first \in Nat /\ (k + 1) * n = first + n
    BY Widths
  <1> HIDE DEF all
  <1>3. /\ RowOf(all, k, n) \in Seq(Cell) /\ Len(RowOf(all, k, n)) = n
        /\ \A p \in 1 .. n : RowOf(all, k, n)[p] = all[first + p]
    <2>1. (k + 1) * n <= Len(all)
      <3> HIDE DEF first
      <3>1. Len(all) = first + n /\ (k + 1) * n = first + n /\ first + n \in Nat
        BY <1>1, <1>2
      <3>2. QED
        BY ONLY <3>1
    <2>2. all \in Seq(Cell)
      BY <1>1
    <2>3. QED
      BY <2>1, <2>2, RowOfType
  <1> HIDE DEF first
  <1>4. \A p \in 1 .. n : all[first + p] = row[p]
    BY <1>1, <1>2
  <1>5. RowOf(all, k, n) = row
    BY <1>3, <1>4, SeqEqual
  <1>6. QED
    BY <1>5 DEF all

\* A row written at the end of a log makes a log of one row more.
LEMMA RowsAppend ==
  ASSUME NEW tag \in Tag, NEW k \in Nat, NEW cells \in Seq(Cell), NEW says \in Says,
         Rows(cells, tag, k), k = 0 => says = tag
  PROVE  /\ Rows(cells \o Row(tag, says), tag, k + 1)
         /\ \A i \in 0 .. k - 1 : RowOf(cells \o Row(tag, says), i, RowSize[tag]) = RowOf(cells, i, RowSize[tag])
  <1> DEFINE n == RowSize[tag]
             row == Row(tag, says)
             all == cells \o row
  <1>1. n \in Nat \ {0} /\ row \in Seq(Cell) /\ Len(row) = n /\ Len(cells) = k * n
    BY RowSizes, RowType DEF Says, Rows
  <1>2. Len(all) = (k + 1) * n
    <2>1. Len(all) = Len(cells) + Len(row)
      BY <1>1, ConcatProperties
    <2>2. (k + 1) * n = k * n + n
      BY <1>1, Widths
    <2>3. QED
      BY <1>1, <2>1, <2>2, Zenon
  <1>3. \A i \in 0 .. k - 1 : RowOf(all, i, n) = RowOf(cells, i, n)
    <2>1. ASSUME NEW i \in 0 .. k - 1
          PROVE  i \in Nat /\ (i + 1) * n <= Len(cells)
      <3>1. i \in Nat /\ i < k
        OBVIOUS
      <3>2. (i + 1) * n <= k * n
        BY <1>1, <3>1, Widths
      <3>3. QED
        BY <1>1, <3>1, <3>2, Zenon
    <2>2. QED
      BY <1>1, <2>1, RowOfKept
  <1>4. RowOf(all, k, n) = row
    BY <1>1, RowOfLast
  <1>5. IsWhole(row, tag)
    BY DEF IsWhole, Says
  <1>6. \A i \in 0 .. k - 1 : IsWhole(RowOf(cells, i, n), tag)
    BY DEF Rows
  <1>7. RowOf(all, 0, n) = Row(tag, tag)
    <2>1. CASE k = 0
      BY <1>4, <2>1
    <2>2. CASE k > 0
      BY <1>3, <2>2 DEF Rows
    <2>3. QED
      BY <2>1, <2>2
  <1> HIDE DEF all, row, n
  <1>8. \A i \in 0 .. (k + 1) - 1 : IsWhole(RowOf(all, i, n), tag)
    <2>1. ASSUME NEW i \in 0 .. (k + 1) - 1
          PROVE  IsWhole(RowOf(all, i, n), tag)
      <3>1. CASE i = k
        BY <1>4, <1>5, <3>1
      <3>2. CASE i \in 0 .. k - 1
        BY <1>3, <1>6, <3>2
      <3>3. QED
        BY <2>1, <3>1, <3>2
    <2>2. QED
      BY <2>1
  <1>9. QED
    BY <1>2, <1>3, <1>7, <1>8 DEF Rows, all, row, n

\* No row at all, or k of them, are a log as RowsAreWhole states it.
LEMMA NoRows == \A tag \in Tag : Rows(<<>>, tag, 0)
  <1>1. ASSUME NEW tag \in Tag
        PROVE  Rows(<<>>, tag, 0)
    <2>1. RowSize[tag] \in Nat /\ Len(<<>>) = 0 /\ 0 .. 0 - 1 = {}
      BY RowSizes
    <2>2. 0 * RowSize[tag] = 0
      BY <2>1
    <2>3. QED
      BY <2>1, <2>2 DEF Rows
  <1>2. QED
    BY <1>1

LEMMA RowsAreLog ==
  ASSUME NEW tag \in Tag, NEW k \in Nat, NEW cells \in Seq(Cell), Rows(cells, tag, k)
  PROVE  IsLog(cells)
  <1> DEFINE n == RowSize[tag]
  <1>1. n \in Nat \ {0} /\ Len(cells) = k * n
    BY RowSizes DEF Rows
  <1>2. Len(cells) % n = 0 /\ Len(cells) \div n = k
    <2>1. (k * n) % n = 0 /\ (k * n) \div n = k
      BY <1>1, Widths
    <2>2. QED
      BY <1>1, <2>1, Zenon
  <1>3. cells # <<>> => k > 0
    <2>1. k = 0 => Len(cells) = 0
      BY <1>1
    <2>2. Len(cells) = 0 => cells = <<>>
      BY EmptySeq
    <2>3. QED
      BY <2>1, <2>2
  <1>4. QED
    BY <1>2, <1>3 DEF IsLog, Rows

\* A handle that says the same of the same cells.
LEMMA SameLog ==
  ASSUME NEW f, NEW g, NEW k, Whole(g) = Whole(f), g.header = f.header, g.row = f.row, OpenLog(f, read, k)
  PROVE  OpenLog(g, read, k)
  BY DEF OpenLog

LEMMA FlushedWhole ==
  ASSUME NEW f \in Handle, Pending(f)
  PROVE  Flush(f) \in Handle /\ Flush(f).name = f.name /\ Flush(f).header = f.header /\ Flush(f).row = f.row
         /\ Whole(Flush(f)) = Whole(f) /\ Flush(f).content = Whole(f) /\ Flush(f).tail = <<>>
  <1>1. /\ Flush(f) \in Handle /\ Flush(f).name = f.name /\ Flush(f).header = f.header /\ Flush(f).row = f.row
        /\ Flush(f).content = Whole(f) /\ Flush(f).tail = <<>>
    BY FlushStep DEF Pending
  <1>2. Whole(Flush(f)) = Whole(f)
    BY <1>1, SizeType, ConcatEmptySeq DEF Whole
  <1>3. QED
    BY <1>1, <1>2

\* A seek and a read leave the cells and the row alone.
LEMMA ReadWhole ==
  ASSUME NEW f \in Handle, Pending(f), NEW row \in Nat
  PROVE  /\ \A h \in {Seek(f, row), ReadRow(Seek(f, row))} :
              /\ h \in Handle /\ h.name = f.name /\ h.header = f.header /\ h.row = f.row
              /\ Whole(h) = Whole(f) /\ h.content = Whole(f)
         /\ Seek(f, row).pos = row * RowSize[f.header]
  <1> DEFINE g == Seek(f, row)
  <1>1. /\ Flush(f) \in Handle /\ Flush(f).name = f.name /\ Flush(f).header = f.header /\ Flush(f).row = f.row
        /\ Flush(f).content = Whole(f) /\ Flush(f).tail = <<>>
    BY FlushedWhole
  <1>2. f.header \in Tag /\ row * RowSize[f.header] \in Nat
    <2>1. f.header \in Tag /\ RowSize[f.header] \in Nat
      BY RowSizes DEF Handle
    <2>2. QED
      BY <2>1
  <1>3. /\ g \in Handle /\ g.name = f.name /\ g.header = f.header /\ g.row = f.row
        /\ g.content = Whole(f) /\ g.tail = <<>> /\ g.pos = row * RowSize[f.header]
    BY <1>1, <1>2 DEF Seek, Handle
  <1> HIDE DEF g
  <1>4. ReadRow(g) \in Handle
    <2>1. g \in {Seek(f, row), ReadRow(Seek(f, row))} /\ ReadRow(g) \in {Seek(f, row), ReadRow(Seek(f, row))}
      BY DEF g
    <2>2. QED
      BY <2>1, ReadStep
  <1>5. /\ ReadRow(g).name = f.name /\ ReadRow(g).header = f.header /\ ReadRow(g).row = f.row
        /\ ReadRow(g).content = Whole(f) /\ ReadRow(g).tail = <<>>
    BY <1>3 DEF ReadRow, Handle
  <1>6. Whole(f) \o <<>> = Whole(f)
    BY SizeType, ConcatEmptySeq
  <1>7. Whole(g) = Whole(f) /\ Whole(ReadRow(g)) = Whole(f)
    BY <1>3, <1>5, <1>6 DEF Whole
  <1>8. QED
    BY <1>3, <1>4, <1>5, <1>7 DEF g

\* lfs_file_sync leaves the open file as it is.
LEMMA SyncWhole ==
  ASSUME NEW f \in Handle, Pending(f), sync(f, FALSE)
  PROVE  log_file'.name = f.name /\ log_file'.header = f.header /\ log_file'.row = f.row
         /\ Whole(log_file') = Whole(f)
  <1> DEFINE h == Flush(f)
  <1>1. /\ h \in Handle /\ h.name = f.name /\ h.header = f.header /\ h.row = f.row /\ Whole(h) = Whole(f)
    BY FlushedWhole
  <1>2. \/ log_file' = [h EXCEPT !.dirty = FALSE, !.erred = FALSE]
        \/ log_file' = [f EXCEPT !.erred = TRUE]
        \/ log_file' = [h EXCEPT !.erred = TRUE]
    BY DEF sync
  <1> HIDE DEF h
  <1>3. QED
    BY <1>1, <1>2 DEF Whole, Handle

LEMMA Regrouped ==
  ASSUME NEW c \in Seq(Cell), NEW t \in Seq(Cell), NEW r \in Seq(Cell)
  PROVE  (c \o t) \o r = c \o (t \o r)
  BY ConcatAssociative

\* writeRow adds a row to the log or leaves it, but for a failure in the
\* middle of the row.
LEMMA WriteRows ==
  ASSUME NEW f \in Handle, NEW k \in Nat, OpenLog(f, read, k), NEW says \in Says,
         writeRow(f, says), f.name \notin split'
  PROVE  \E j \in Nat : OpenLog(log_file', read, j)
  <1> DEFINE row == Row(f.header, says)
             n == RowSize[f.header]
  <1>1. /\ f.header \in Tag /\ f.row \in Nat /\ k # 0 /\ n \in Nat \ {0} /\ row \in Seq(Cell)
        /\ f.content \in Seq(Cell) /\ f.tail \in Seq(Cell) /\ Whole(f) \in Seq(Cell)
    BY RowSizes, RowType, SizeType DEF Handle, OpenLog, Says
  <1>2. CASE log_file' = WriteDone(f, row)
    <2>1. /\ log_file'.header = f.header /\ log_file'.row = f.row
          /\ log_file'.content = f.content /\ log_file'.tail = f.tail \o row
      <3> DEFINE e == Extend(f, row)
                 inline == e.inline /\ ~outlines(f, Len(row))
      <3>1. e \in Handle
        BY <1>1, ExtendType
      <3>2. e.header = f.header /\ e.row = f.row /\ e.content = f.content /\ e.tail = f.tail \o row
        BY DEF Extend, Handle
      <3>3. log_file' = [e EXCEPT !.inline = inline, !.erred = FALSE]
        BY <1>2 DEF WriteDone
      <3> HIDE DEF e, inline
      <3>4. QED
        BY <3>1, <3>2, <3>3 DEF Handle
    <2>2. Whole(log_file') = Whole(f) \o row
      <3> HIDE DEF row
      <3>1. (f.content \o f.tail) \o row = f.content \o (f.tail \o row)
        <4> DEFINE c == f.content
                   t == f.tail
        <4>1. c \in Seq(Cell) /\ t \in Seq(Cell) /\ row \in Seq(Cell)
          BY <1>1
        <4> HIDE DEF c, t
        <4>2. (c \o t) \o row = c \o (t \o row)
          BY ONLY <4>1, Regrouped
        <4>3. QED
          BY <4>2, Zenon DEF c, t
      <3>2. QED
        BY <2>1, <3>1, Zenon DEF Whole
    <2>3. /\ Rows(Whole(f) \o row, f.header, k + 1)
          /\ \A i \in 0 .. k - 1 : RowOf(Whole(f) \o row, i, n) = RowOf(Whole(f), i, n)
      BY <1>1, RowsAppend DEF OpenLog
    <2>4. OpenLog(log_file', read, k + 1)
      <3>1. /\ f.row < k /\ Len(read) = f.row
            /\ \A i \in 1 .. Len(read) : read[i] = RowOf(Whole(f), i, n)
        BY DEF OpenLog
      <3>2. \A i \in 1 .. Len(read) : i \in 0 .. k - 1
        BY <1>1, <3>1
      <3>3. f.row < k + 1
        BY <1>1, <3>1
      <3> HIDE DEF row, n
      <3>4. \A i \in 1 .. Len(read) : read[i] = RowOf(Whole(log_file'), i, n)
        BY <2>2, <2>3, <3>1, <3>2
      <3>5. QED
        BY <2>1, <2>2, <2>3, <3>1, <3>3, <3>4 DEF OpenLog, n
    <2>5. QED
      BY <2>4
  <1>3. CASE log_file' \in WriteFailed(f)
    <2>1. /\ log_file'.header = f.header /\ log_file'.row = f.row
          /\ log_file'.content = f.content /\ log_file'.tail = f.tail
      BY <1>3 DEF WriteFailed, Handle
    <2>2. QED
      BY <2>1, SameLog DEF Whole
  <1>4. CASE split' = split \cup {f.name}
    BY <1>4
  <1>5. QED
    BY <1>2, <1>3, <1>4 DEF writeRow

\* A step that leaves each file of the part alone, or leaves nothing or rows.
LEMMA DiskRowsKept ==
  ASSUME DiskRows, split \subseteq split',
         \A n \in Name \ split' : \/ disk'.files[n] \in {disk.files[n], NoFile}
                                  \/ HasRows(disk'.files[n].cells)
  PROVE  DiskRows'
  BY Zenon DEF DiskRows

\* What a sync of a log leaves on the part.
LEMMA SyncDiskRows ==
  ASSUME Inv, RowInv, log_file # NoFile, NEW closes \in BOOLEAN, sync(log_file, closes), UNCHANGED split
  PROVE  DiskRows'
  <1> DEFINE f == log_file
  <1>1. /\ f \in Handle /\ Pending(f) /\ Clean(f, disk) /\ disk \in DiskType /\ faults \in 0 .. MaxFaults
    BY DEF Inv, OpenInv, TypeOK, DiskType
  <1>2. /\ \A n \in Name \ {f.name} : disk'.files[n] = disk.files[n]
        /\ disk' = disk \/ Holds(disk', f, Whole(f))
    BY <1>1, SyncStep
  <1>3. f.name \notin split => HasRows(Whole(f))
    <2>1. f.header \in Tag
      BY <1>1 DEF Handle
    <2>2. QED
      BY <2>1 DEF RowInv, OpenLog, HasRows
  <1>4. ASSUME NEW n \in Name \ split'
        PROVE  disk'.files[n] \in {disk.files[n], NoFile} \/ HasRows(disk'.files[n].cells)
    <2>1. CASE n # f.name
      BY <1>2, <2>1
    <2>2. CASE n = f.name
      <3>1. HasRows(Whole(f))
        BY <1>3, <2>2
      <3>2. CASE disk' = disk
        BY <3>2
      <3>3. CASE Holds(disk', f, Whole(f))
        BY <2>2, <3>1, <3>3, Zenon DEF Holds
      <3>4. QED
        BY <1>2, <3>2, <3>3
    <2>3. QED
      BY <2>1, <2>2
  <1>5. QED
    BY <1>4, DiskRowsKept DEF RowInv

\* A log that is opened begins with its header, which names its tag.
LEMMA OpenedLog ==
  ASSUME NEW cells \in Seq(Cell), cells # <<>>, HasRows(cells)
  PROVE  /\ Head(cells).says \in Tag
         /\ \E k \in Nat : k > 0 /\ Rows(cells, Head(cells).says, k)
  <1>1. PICK tag \in Tag, k \in Nat : Rows(cells, tag, k)
    BY DEF HasRows
  <1> DEFINE n == RowSize[tag]
  <1>2. n \in Nat \ {0} /\ Len(cells) = k * n /\ Len(cells) \in Nat \ {0}
    BY <1>1, RowSizes, EmptySeq DEF Rows
  <1>3. k > 0
    <2>1. k = 0 => k * n = 0
      BY <1>2
    <2>2. QED
      BY <1>2, <2>1
  <1>4. (0 + 1) * n <= Len(cells) /\ 0 * n = 0
    <2>1. (0 + 1) * n <= k * n
      BY <1>2, <1>3, Widths
    <2>2. 0 * n = 0
      BY <1>2
    <2>3. QED
      BY <1>2, <2>1, <2>2, Zenon
  <1>5. RowOf(cells, 0, n) = Row(tag, tag) /\ RowOf(cells, 0, n)[1] = cells[0 * n + 1]
    <2>1. 1 \in 1 .. n
      BY <1>2
    <2>2. QED
      BY <1>1, <1>2, <1>3, <1>4, <2>1, RowOfType DEF Rows
  <1>6. Row(tag, tag)[1].says = tag
    BY <1>2 DEF Row
  <1>7. Head(cells) = cells[1]
    OBVIOUS
  <1>8. Head(cells).says = tag
    BY <1>4, <1>5, <1>6, <1>7
  <1>9. QED
    BY <1>1, <1>3, <1>8

LEMMA RowInvInit == Init => RowInv
  BY DEF Init, RowInv, DiskRows, Empty

\* createFile puts the header into an empty file.
LEMMA CreateRows ==
  ASSUME Inv, RowInv, NEW m \in Name, NEW tag \in Tag, createFile(m, tag)
  PROVE  RowInv'
  <1>1. disk \in DiskType /\ log_file = NoFile /\ read = <<>> /\ UNCHANGED <<read, split>>
    BY DEF Inv, TypeOK, DiskType, createFile, can_open, RowInv
  <1>2. Row(tag, tag) \in Seq(Cell) /\ <<>> \in Seq(Cell)
    BY RowType, EmptySeq
  <1>3. HasRows(<<>>)
    BY NoRows DEF HasRows
  <1>4. DiskRows'
    <2>1. disk' = disk \/ disk' = Entry(m)
      BY DEF createFile
    <2>2. \A n \in Name : disk'.files[n] = disk.files[n] \/ disk'.files[n] = NewEntry
      BY <1>1, <2>1 DEF Entry, DiskType
    <2>3. HasRows(NewEntry.cells)
      BY <1>3 DEF NewEntry
    <2>4. \A n \in Name : disk'.files[n] \in {disk.files[n], NoFile} \/ HasRows(disk'.files[n].cells)
      BY <2>2, <2>3, Zenon
    <2>5. QED
      BY <1>1, <2>4, DiskRowsKept DEF RowInv
  <1>5. CASE log_file' = WriteDone([Opened(m, tag, NewEntry) EXCEPT !.dirty = disk.files[m] # NoFile], Row(tag, tag))
    <2> DEFINE f == [Opened(m, tag, NewEntry) EXCEPT !.dirty = disk.files[m] # NoFile]
               e == Extend(f, Row(tag, tag))
               inline == e.inline /\ ~outlines(f, Len(Row(tag, tag)))
    <2>1. /\ f \in Handle /\ f.content = <<>> /\ f.tail = <<>> /\ f.header = tag /\ f.row = 0
      BY <1>2 DEF Opened, Handle, NewEntry
    <2>2. log_file' = [e EXCEPT !.inline = inline, !.erred = FALSE]
      BY <1>5 DEF WriteDone
    <2> HIDE DEF f, inline
    <2>3. e \in Handle
      BY <1>2, <2>1, ExtendType
    <2>4. e.content = <<>> /\ e.tail = <<>> \o Row(tag, tag) /\ e.header = tag /\ e.row = 0
      BY <2>1 DEF Extend, Handle
    <2> HIDE DEF e
    <2>5. /\ log_file' \in [name : Name, header : Tag, row : Nat, content : Seq(Cell), tail : Seq(Cell),
                            pos : Nat, inline : BOOLEAN, writing : BOOLEAN, dirty : BOOLEAN, erred : BOOLEAN]
          /\ log_file'.content = <<>> /\ log_file'.tail = <<>> \o Row(tag, tag)
          /\ log_file'.header = tag /\ log_file'.row = 0
      <3>1. inline \in BOOLEAN
        BY DEF inline
      <3>2. QED
        BY <2>2, <2>3, <2>4, <3>1 DEF Handle
    <2>6. Whole(log_file') = <<>> \o Row(tag, tag)
      <3>1. <<>> \o (<<>> \o Row(tag, tag)) = <<>> \o Row(tag, tag)
        BY <1>2, ConcatEmptySeq
      <3>2. QED
        BY <2>5, <3>1, Zenon DEF Whole
    <2>7. Rows(<<>> \o Row(tag, tag), tag, 0 + 1)
      <3>1. Rows(<<>>, tag, 0) /\ tag \in Says
        BY NoRows DEF Says
      <3>2. QED
        BY <1>2, <3>1, RowsAppend
    <2>8. OpenLog(log_file', read', 1)
      <3>1. Len(read') = 0 /\ 1 .. 0 = {} /\ 0 + 1 = 1
        BY <1>1
      <3>2. QED
        BY <2>5, <2>6, <2>7, <3>1 DEF OpenLog
    <2>9. log_file' # NoFile
      BY <2>5, NoFileAssumption DEF Handle
    <2>10. QED
      BY <1>4, <2>8, <2>9 DEF RowInv
  <1>6. CASE log_file' = log_file
    BY <1>1, <1>4, <1>6 DEF RowInv
  <1>7. QED
    BY <1>5, <1>6 DEF createFile

\* readRecord takes the row after the last one it took.
LEMMA ReadRecordRows ==
  ASSUME Inv, RowInv, readRecord
  PROVE  RowInv'
  <1> DEFINE f == log_file
             n == f.row + 1
             g == Seek(f, n)
             w == RowSize[f.header]
  <1>1. /\ f \in Handle /\ f # NoFile /\ Pending(f) /\ f.row \in Nat /\ f.header \in Tag /\ w \in Nat \ {0}
        /\ n \in Nat /\ Whole(f) \in Seq(Cell) /\ UNCHANGED <<disk, split>>
    <2>1. f \in Handle /\ f # NoFile /\ Pending(f) /\ UNCHANGED <<disk, split>>
      BY DEF Inv, OpenInv, TypeOK, readRecord, is_open
    <2>2. f.row \in Nat /\ f.header \in Tag
      BY <2>1 DEF Handle
    <2>3. QED
      BY <2>1, <2>2, RowSizes, SizeType
  <1>2. /\ \A h \in {g, ReadRow(g)} : /\ h \in Handle /\ h.name = f.name /\ h.header = f.header
                                      /\ h.row = f.row /\ Whole(h) = Whole(f) /\ h.content = Whole(f)
        /\ g.pos = n * w
    <2> HIDE DEF f, n
    <2>1. f \in Handle /\ Pending(f) /\ n \in Nat
      BY <1>1
    <2>2. /\ \A h \in {Seek(f, n), ReadRow(Seek(f, n))} :
               /\ h \in Handle /\ h.name = f.name /\ h.header = f.header /\ h.row = f.row
               /\ Whole(h) = Whole(f) /\ h.content = Whole(f)
          /\ Seek(f, n).pos = n * RowSize[f.header]
      BY ONLY <2>1, ReadWhole
    <2>3. QED
      BY <2>2
  <1>3. DiskRows'
    BY <1>1 DEF RowInv, DiskRows
  <1>4. CASE read' = read /\ log_file' \in {f, g, ReadRow(g)}
    <2>1. /\ log_file'.name = f.name /\ log_file'.header = f.header /\ log_file'.row = f.row
          /\ Whole(log_file') = Whole(f) /\ log_file' \in Handle
      BY <1>1, <1>2, <1>4
    <2>2. log_file' # NoFile
      BY <2>1, NoFileAssumption
    <2>3. ASSUME f.name \notin split
          PROVE  \E k \in Nat : OpenLog(log_file', read, k)
      BY <1>1, <2>1, <2>3, SameLog DEF RowInv
    <2>4. QED
      BY <1>1, <1>3, <1>4, <2>1, <2>2, <2>3 DEF RowInv
  <1>5. CASE complete(g) /\ log_file' = [ReadRow(g) EXCEPT !.row = @ + 1] /\ read' = Append(read, RowAt(g))
    <2> DEFINE r == ReadRow(g)
    <2>1. /\ r \in Handle /\ r.name = f.name /\ r.header = f.header /\ r.row = f.row /\ Whole(r) = Whole(f)
      BY <1>2
    <2> HIDE DEF r
    <2>2. /\ log_file' \in Handle /\ log_file'.name = f.name /\ log_file'.header = f.header
          /\ log_file'.row = n /\ log_file'.content = r.content /\ log_file'.tail = r.tail
      BY <1>1, <1>5, <2>1 DEF Handle, r
    <2>3. Whole(log_file') = Whole(f) /\ log_file' # NoFile
      BY <2>1, <2>2, NoFileAssumption DEF Whole
    <2>4. ASSUME f.name \notin split
          PROVE  \E k \in Nat : OpenLog(log_file', read', k)
      <3>1. PICK k \in Nat : OpenLog(f, read, k)
        BY <1>1, <2>4 DEF RowInv
      <3>2. /\ Len(Whole(f)) = k * w /\ Len(read) = f.row
            /\ \A i \in 1 .. Len(read) : read[i] = RowOf(Whole(f), i, w)
        BY <3>1 DEF OpenLog, Rows
      <3>3. (n + 1) * w = n * w + w
        BY <1>1, Widths
      <3>4. end_of_row(g) = (n + 1) * w
        <4>1. end_of_row(g) = g.pos + RowSize[g.header] /\ RowSize[g.header] = w
          BY <1>2 DEF end_of_row
        <4>2. QED
          BY <1>2, <3>3, <4>1, Zenon
      <3>5. (n + 1) * w <= k * w
        BY <1>2, <1>5, <3>2, <3>4, Zenon DEF complete
      <3>6. n < k
        <4>1. n + 1 \in Nat
          BY <1>1
        <4>2. n + 1 <= k
          BY <1>1, <3>5, <4>1, Widths
        <4>3. QED
          BY <1>1, <4>2
      <3>7. RowAt(g) = RowOf(Whole(f), n, w)
        BY <1>2, <3>4, Zenon DEF RowAt, RowOf
      <3>8. read \in Seq(Seq(Cell)) /\ RowAt(g) \in Seq(Cell)
        BY <1>2, <1>5, RowAtType DEF Inv, TypeOK
      <3>9. /\ Len(read') = n /\ read'[n] = RowAt(g) /\ \A i \in 1 .. Len(read) : read'[i] = read[i]
        <4> DEFINE row == RowAt(g)
        <4>1. read' = Append(read, row) /\ row \in Seq(Cell)
          BY <1>5, <3>8
        <4> HIDE DEF row
        <4>2. /\ Len(Append(read, row)) = Len(read) + 1
              /\ \A i \in 1 .. Len(read) : Append(read, row)[i] = read[i]
              /\ Append(read, row)[Len(read) + 1] = row
          BY <3>8, <4>1, AppendProperties
        <4>3. Len(read) + 1 = n
          BY <3>2
        <4> HIDE DEF n
        <4>4. QED
          BY <4>1, <4>2, <4>3, Zenon DEF row
      <3>10. \A i \in 1 .. Len(read') : read'[i] = RowOf(Whole(f), i, w)
        <4>1. \A i \in 1 .. n : i = n \/ i \in 1 .. Len(read)
          BY <1>1, <3>2
        <4>2. QED
          BY <3>2, <3>7, <3>9, <4>1, Zenon
      <3>11. Rows(Whole(log_file'), log_file'.header, k)
        BY <2>2, <2>3, <3>1, Zenon DEF OpenLog
      <3>12. OpenLog(log_file', read', k)
        <4>1. \A i \in 1 .. Len(read') : read'[i] = RowOf(Whole(log_file'), i, RowSize[log_file'.header])
          BY <2>2, <2>3, <3>10, Zenon
        <4>2. log_file'.row < k /\ Len(read') = log_file'.row
          BY <2>2, <3>6, <3>9
        <4>3. QED
          BY <3>11, <4>1, <4>2, Zenon DEF OpenLog
      <3>13. QED
        BY <3>12
    <2>5. QED
      BY <1>1, <1>3, <2>2, <2>3, <2>4 DEF RowInv
  <1>6. QED
    BY <1>4, <1>5 DEF readRecord, flush_fails, read_fails

LEMMA RowInvNext == Inv /\ RowInv /\ [Next]_vars => RowInv'
  <1> SUFFICES ASSUME Inv, RowInv, [Next]_vars PROVE RowInv'
    OBVIOUS
  <1>1. /\ disk \in DiskType
        /\ log_file # NoFile => log_file \in Handle /\ Pending(log_file)
    BY DEF Inv, TypeOK, OpenInv, DiskType
  <1>2. CASE UNCHANGED <<disk, log_file, read, split>>
    BY <1>2 DEF RowInv, DiskRows
  <1>3. CASE UNCHANGED vars \/ Mount
    BY <1>2, <1>3 DEF vars, Mount
  <1>4. CASE Format \/ Reset
    <2>1. disk' \in {disk, Fresh, Blank} /\ UNCHANGED split
      BY <1>4 DEF Format, Reset
    <2>2. \A n \in Name : disk'.files[n] \in {disk.files[n], NoFile}
      BY <2>1 DEF Fresh, Blank, Empty
    <2>3. DiskRows'
      BY <2>1, <2>2, DiskRowsKept DEF RowInv
    <2>4. log_file' = NoFile /\ read' = <<>>
      BY <1>4 DEF Format, Reset, RowInv, Inv, OpenInv
    <2>5. QED
      BY <2>3, <2>4 DEF RowInv
  <1>5. CASE \E n \in Name, tag \in Tag : createFile(n, tag)
    BY <1>5, CreateRows
  <1>6. CASE createFile_sync
    <2>1. /\ log_file # NoFile /\ sync(log_file, FALSE) /\ UNCHANGED <<read, split>>
      BY <1>6 DEF createFile_sync, Inv, OpenInv
    <2>2. DiskRows'
      BY <2>1, SyncDiskRows
    <2>3. /\ log_file'.name = log_file.name /\ log_file'.header = log_file.header
          /\ log_file'.row = log_file.row /\ Whole(log_file') = Whole(log_file)
      BY <1>1, <2>1, SyncWhole
    <2>4. log_file' # NoFile
      <3>1. faults \in 0 .. MaxFaults /\ Clean(log_file, disk)
        BY <2>1 DEF Inv, TypeOK, OpenInv
      <3>2. log_file' \in Handle
        BY <1>1, <2>1, <3>1, SyncStep
      <3>3. QED
        BY <3>2, NoFileAssumption
    <2>5. ASSUME log_file.name \notin split
          PROVE  \E k \in Nat : OpenLog(log_file', read, k)
      BY <2>1, <2>3, <2>5, SameLog DEF RowInv
    <2>6. QED
      BY <2>1, <2>2, <2>3, <2>4, <2>5 DEF RowInv
  <1>7. ASSUME NEW m \in Name, openFile(m)
        PROVE  RowInv'
    <2> DEFINE s == disk.files[m]
    <2>1. /\ s \in Stored /\ s # NoFile /\ s.cells # <<>> /\ Head(s.cells).says \in Tag /\ s.cells \in Seq(Cell)
      BY <1>1, <1>7 DEF openFile, recognised, DiskType, Stored
    <2>2. /\ log_file' \in Handle /\ log_file'.name = m /\ log_file'.content = s.cells
          /\ log_file'.tail = <<>> /\ log_file'.header = Head(s.cells).says /\ log_file'.row = 0
          /\ UNCHANGED <<disk, read, split>> /\ log_file = NoFile
      BY <1>7, <2>1, EmptySeq DEF openFile, Opened, Handle, Stored, can_open
    <2>3. Whole(log_file') = s.cells /\ log_file' # NoFile
      <3>1. s.cells \o <<>> = s.cells
        BY <2>1, ConcatEmptySeq
      <3>2. QED
        BY <2>2, <3>1, NoFileAssumption, Zenon DEF Whole
    <2>4. read' = <<>> /\ DiskRows'
      BY <2>2 DEF RowInv, DiskRows
    <2>5. ASSUME m \notin split
          PROVE  \E k \in Nat : OpenLog(log_file', read', k)
      <3>1. HasRows(s.cells)
        BY <2>1, <2>5 DEF RowInv, DiskRows
      <3>2. PICK k \in Nat : k > 0 /\ Rows(s.cells, Head(s.cells).says, k)
        BY <2>1, <3>1, OpenedLog
      <3>3. Len(read') = 0 /\ 1 .. 0 = {}
        BY <2>4
      <3>4. OpenLog(log_file', read', k)
        BY <2>2, <2>3, <3>2, <3>3 DEF OpenLog
      <3>5. QED
        BY <3>4
    <2>6. QED
      BY <2>2, <2>3, <2>4, <2>5 DEF RowInv
  <1>8. CASE \E n \in Name : openFile_refused(n)
    BY <1>2, <1>8 DEF openFile_refused
  <1>9. ASSUME NEW says \in Says, is_open, writeRow(log_file, says), UNCHANGED <<disk, read>>
        PROVE  RowInv'
    <2>1. log_file \in Handle /\ log_file # NoFile
      BY <1>1, <1>9 DEF is_open
    <2>2. split \subseteq split'
      BY <1>9 DEF writeRow
    <2>3. log_file' \in Handle /\ log_file'.name = log_file.name
      BY <1>9, <2>1, WriteStep DEF Inv, TypeOK, Says
    <2>4. DiskRows'
      BY <1>9, <2>2 DEF RowInv, DiskRows
    <2>5. ASSUME log_file.name \notin split'
          PROVE  \E k \in Nat : OpenLog(log_file', read, k)
      <3>1. PICK k \in Nat : OpenLog(log_file, read, k)
        BY <2>1, <2>2, <2>5 DEF RowInv
      <3>2. QED
        BY <1>9, <2>1, <2>5, <3>1, WriteRows
    <2>6. log_file' # NoFile
      BY <2>3, NoFileAssumption
    <2>7. QED
      BY <1>9, <2>3, <2>4, <2>5, <2>6 DEF RowInv
  <1>10. CASE closeFile \/ \E data \in Record : logRecord(data)
    BY <1>9, <1>10 DEF closeFile, logRecord, Says, is_open
  <1>11. CASE closeFile_close
    <2>1. log_file' = NoFile /\ read' = <<>> /\ UNCHANGED split
      BY <1>11 DEF closeFile_close, sync
    <2>2. DiskRows'
      <3>1. CASE log_file.erred
        BY <1>11, <2>1, <3>1 DEF closeFile_close, RowInv, DiskRows
      <3>2. CASE ~log_file.erred
        <4>1. log_file # NoFile /\ sync(log_file, TRUE)
          BY <1>11, <3>2 DEF closeFile_close, Inv, OpenInv
        <4>2. QED
          BY <2>1, <4>1, SyncDiskRows
      <3>3. QED
        BY <3>1, <3>2
    <2>3. QED
      BY <2>1, <2>2 DEF RowInv
  <1>12. CASE readHeader
    <2> DEFINE f == log_file
               g == Seek(f, 0)
    <2>1. f \in Handle /\ f # NoFile /\ Pending(f) /\ UNCHANGED <<disk, read, split>>
          /\ log_file' \in {f, g, ReadRow(g)}
      BY <1>1, <1>12 DEF readHeader, is_open, flush_fails
    <2>2. \A h \in {g, ReadRow(g)} : /\ h \in Handle /\ h.name = f.name /\ h.header = f.header
                                     /\ h.row = f.row /\ Whole(h) = Whole(f)
      BY <2>1, ReadWhole
    <2>3. /\ log_file' \in Handle /\ log_file'.name = f.name /\ log_file'.header = f.header
          /\ log_file'.row = f.row /\ Whole(log_file') = Whole(f)
      BY <2>1, <2>2
    <2>4. log_file' # NoFile
      BY <2>3, NoFileAssumption
    <2>5. ASSUME f.name \notin split
          PROVE  \E k \in Nat : OpenLog(log_file', read, k)
      BY <2>1, <2>3, <2>5, SameLog DEF RowInv
    <2>6. QED
      BY <2>1, <2>3, <2>4, <2>5 DEF RowInv, DiskRows
  <1>13. CASE readRecord
    BY <1>13, ReadRecordRows
  <1>14. QED
    BY <1>3, <1>4, <1>5, <1>6, <1>7, <1>8, <1>10, <1>11, <1>12, <1>13 DEF Next

LEMMA RowInvHolds == Spec => []RowInv
  <1>1. Inv /\ RowInv /\ [Next]_vars => RowInv'
    BY RowInvNext
  <1>2. QED
    BY <1>1, RowInvInit, InvHolds, PTL DEF Spec

(***************************************************************************)
(* Every log is whole rows of one width after its header, on the part and  *)
(* in RAM: the row a write adds is whole or was cut by a failure at a      *)
(* block's end, and a reset or a sync only chooses between such logs.      *)
(***************************************************************************)
THEOREM LoggerRowsAreWhole == Spec => []RowsAreWhole
  <1>1. Inv /\ RowInv => RowsAreWhole
    <2> SUFFICES ASSUME Inv, RowInv PROVE RowsAreWhole
      OBVIOUS
    <2>1. ASSUME NEW n \in Name \ split, disk.files[n] # NoFile
          PROVE  IsLog(disk.files[n].cells)
      <3>1. disk.files[n].cells \in Seq(Cell)
        BY <2>1 DEF Inv, TypeOK, Stored
      <3>2. PICK tag \in Tag, k \in Nat : Rows(disk.files[n].cells, tag, k)
        BY <2>1 DEF RowInv, DiskRows, HasRows
      <3>3. QED
        BY <3>1, <3>2, RowsAreLog
    <2>2. ASSUME log_file # NoFile, log_file.name \notin split
          PROVE  IsLog(Whole(log_file))
      <3>1. log_file \in Handle /\ log_file.header \in Tag
        BY <2>2 DEF Inv, TypeOK, Handle
      <3>2. PICK k \in Nat : Rows(Whole(log_file), log_file.header, k)
        BY <2>2 DEF RowInv, OpenLog
      <3>3. QED
        BY <3>1, <3>2, SizeType, RowsAreLog
    <2>3. QED
      BY <2>1, <2>2 DEF RowsAreWhole
  <1>2. QED
    BY <1>1, InvHolds, RowInvHolds, PTL

(***************************************************************************)
(* readRecord returns the rows in the order they were logged, each once,   *)
(* for rows of any width and any number of calls in between.               *)
(***************************************************************************)
THEOREM LoggerReadsInOrder == Spec => []ReadsInOrder
  <1>1. Inv /\ RowInv => ReadsInOrder
    <2> SUFFICES ASSUME Inv, RowInv, log_file # NoFile, log_file.name \notin split
                 PROVE  /\ Len(read) = log_file.row
                        /\ \A i \in 1 .. Len(read) :
                             /\ read[i] = RowOf(Whole(log_file), i, RowSize[log_file.header])
                             /\ IsWhole(read[i], log_file.header)
      BY DEF ReadsInOrder
    <2>1. PICK k \in Nat : OpenLog(log_file, read, k)
      BY DEF RowInv
    <2>2. log_file.row \in Nat
      BY DEF Inv, TypeOK, Handle
    <2>3. \A i \in 1 .. Len(read) : i \in 0 .. k - 1
      BY <2>1, <2>2 DEF OpenLog
    <2>4. QED
      BY <2>1, <2>3 DEF OpenLog, Rows
  <1>2. QED
    BY <1>1, InvHolds, RowInvHolds, PTL

(***************************************************************************)
(* The refinement of Journal.                                              *)
(***************************************************************************)

\* Only a failure makes closeFile give up a log.
ErredInv == log_file # NoFile /\ log_file.erred => faults > 0

LEMMA WriteErred ==
  ASSUME Inv, log_file # NoFile, NEW says, writeRow(log_file, says)
  PROVE  ErredInv'
<1>1. log_file \in Handle /\ faults \in Nat
  BY LoggerAssumption DEF Inv, TypeOK
<1>2. Fails => faults' > 0
  BY <1>1 DEF Fails
<1>3. CASE log_file' = WriteDone(log_file, Row(log_file.header, says))
  BY <1>1, <1>3 DEF WriteDone, Extend, Handle, ErredInv
<1> QED BY <1>2, <1>3 DEF writeRow, ErredInv

LEMMA SyncErred ==
  ASSUME Inv, log_file # NoFile, NEW closes \in BOOLEAN, sync(log_file, closes)
  PROVE  ErredInv'
<1>1. log_file \in Handle /\ faults \in Nat /\ Pending(log_file)
  BY LoggerAssumption DEF Inv, OpenInv, TypeOK
<1>2. Fails => faults' > 0
  BY <1>1 DEF Fails
<1>3. Flush(log_file) \in Handle
  BY <1>1, FlushStep DEF Pending
<1>4. CASE log_file' = IF closes THEN NoFile ELSE [Flush(log_file) EXCEPT !.dirty = FALSE, !.erred = FALSE]
  BY <1>3, <1>4 DEF Handle, ErredInv
<1>5. CASE Fails
  BY <1>2, <1>5 DEF ErredInv
<1> QED BY <1>4, <1>5 DEF sync, flush_fails

LEMMA ReadErred ==
  ASSUME Inv, ErredInv, log_file # NoFile, Works \/ Fails,
         NEW row \in Nat, LET f == Seek(log_file, row) IN
           log_file' \in {log_file, f, ReadRow(f), [ReadRow(f) EXCEPT !.row = @ + 1]}
  PROVE  ErredInv'
<1>1. log_file \in Handle /\ faults \in Nat /\ Pending(log_file)
  BY LoggerAssumption DEF Inv, OpenInv, TypeOK
<1>2. Flush(log_file) \in Handle /\ Flush(log_file).erred = log_file.erred
  BY <1>1, FlushStep DEF Pending
<1>3. log_file'.erred = log_file.erred
  BY <1>2 DEF Seek, ReadRow, Handle
<1> QED BY <1>1, <1>3 DEF ErredInv, Works, Fails

LEMMA EveryStep == [Next]_vars => Works \/ Fails
<1>1. \A says : writeRow(log_file, says) => Works \/ Fails
  BY DEF writeRow
<1>2. \A closes : sync(log_file, closes) => Works \/ Fails
  BY DEF sync, flush_fails
<1>3. (Reset => Works) /\ (UNCHANGED vars => Works)
  BY DEF Reset, Works, vars
<1> QED BY <1>1, <1>2, <1>3 DEF Next, Mount, Format, createFile, createFile_sync, openFile,
     openFile_refused, logRecord, closeFile, closeFile_close, readHeader, readRecord,
     flush_fails, read_fails

LEMMA ErredNext == Inv /\ ErredInv /\ [Next]_vars => ErredInv'
<1> SUFFICES ASSUME Inv, ErredInv, [Next]_vars PROVE ErredInv'
  OBVIOUS
<1>1. faults \in Nat /\ (Works \/ Fails) /\ (log_file # NoFile => log_file \in Handle)
  BY EveryStep, LoggerAssumption DEF Inv, TypeOK
<1>2. CASE UNCHANGED log_file
  BY <1>1, <1>2 DEF ErredInv, Works, Fails
<1>3. CASE Mount \/ Format \/ Reset
  BY <1>2, <1>3 DEF Mount, Format, Reset, ErredInv
<1>4. ASSUME NEW n \in Name, openFile(n) \/ openFile_refused(n)
      PROVE  ErredInv'
  BY <1>1, <1>2, <1>4 DEF openFile, openFile_refused, Opened, ErredInv
<1>5. ASSUME NEW n \in Name, NEW tag \in Tag, createFile(n, tag)
      PROVE  ErredInv'
  <2> DEFINE f == [Opened(n, tag, NewEntry) EXCEPT !.dirty = disk.files[n] # NoFile]
  <2>1. CASE log_file' = WriteDone(f, Row(tag, tag))
    BY <2>1 DEF WriteDone, Extend, Opened, ErredInv
  <2> QED BY <1>2, <1>5, <2>1 DEF createFile
<1>6. CASE createFile_sync
  BY <1>6, SyncErred DEF createFile_sync, Inv, OpenInv
<1>7. ASSUME NEW data \in Record, logRecord(data)
      PROVE  ErredInv'
  BY <1>7, WriteErred DEF logRecord, is_open
<1>8. CASE closeFile
  BY <1>8, WriteErred DEF closeFile, is_open
<1>9. CASE closeFile_close
  <2>1. CASE log_file' = NoFile
    BY <2>1 DEF ErredInv
  <2> QED BY <1>9, <2>1, SyncErred DEF closeFile_close, Inv, OpenInv
<1>10. CASE readHeader
  BY <1>1, <1>10, ReadErred DEF readHeader, is_open
<1>11. CASE readRecord
  <2>1. log_file # NoFile /\ log_file.row + 1 \in Nat
    BY <1>1, <1>11 DEF readRecord, is_open, Handle
  <2> QED BY <1>1, <1>11, <2>1, ReadErred DEF readRecord
<1>12. CASE UNCHANGED vars
  BY <1>2, <1>12 DEF vars
<1> QED BY <1>3, <1>4, <1>5, <1>6, <1>7, <1>8, <1>9, <1>10, <1>11, <1>12 DEF Next

LEMMA ErredHolds == Spec => [](Inv /\ ErredInv)
<1>1. Init => ErredInv
  BY DEF Init, ErredInv
<1> QED BY <1>1, InitInv, NextInv, ErredNext, PTL DEF Spec

\* The logs and the open log, as a Journal has them.
LEMMA LogsSame ==
  ASSUME disk'.files = disk.files
  PROVE  Logs' = Logs
BY DEF Logs

LEMMA LogsCommitted ==
  ASSUME disk \in DiskType, NEW n \in Name, NEW cells, disk'.files[n] # NoFile,
         disk'.files[n].cells = cells, \A m \in Name \ {n} : disk'.files[m] = disk.files[m]
  PROVE  Logs' = Promise!Put(n, cells)
<1>1. {m \in Name : disk'.files[m] # NoFile} = {m \in Name : disk.files[m] # NoFile} \cup {n}
  OBVIOUS
<1>2. DOMAIN Logs = {m \in Name : disk.files[m] # NoFile}
  BY DEF Logs
<1>3. \A m \in (DOMAIN Logs \cup {n}) :
        disk'.files[m].cells = IF m = n THEN cells ELSE Logs[m]
  BY DEF Logs
<1> QED BY <1>1, <1>2, <1>3 DEF Logs, Promise!Put

LEMMA NoLogs ==
  ASSUME disk.files = Empty
  PROVE  Logs = Promise!Nothing
<1>1. {m \in Name : disk.files[m] # NoFile} = {}
  BY DEF Empty
<1> QED BY <1>1 DEF Logs, Promise!Nothing

LEMMA AcceptedLog ==
  ASSUME log_file # NoFile
  PROVE  /\ DOMAIN Accepted = {log_file.name} /\ Accepted[log_file.name] = Whole(log_file)
         /\ Accepted = [m \in {log_file.name} |-> Whole(log_file)]
BY DEF Accepted

LEMMA NoAccepted ==
  ASSUME log_file = NoFile
  PROVE  Accepted = Promise!Nothing
BY DEF Accepted, Promise!Nothing

Sound == faults = 0

LEMMA SoundStep ==
  ASSUME Inv, Works \/ Fails
  PROVE  /\ Sound' \in BOOLEAN /\ (Sound' => Sound)
         /\ Fails => ~Sound'
         /\ Works => Sound' = Sound
<1>1. faults \in Nat
  BY LoggerAssumption DEF Inv, TypeOK
<1> QED BY <1>1 DEF Works, Fails, Sound

\* A sync is a commit.
LEMMA SyncCommits ==
  ASSUME Inv, log_file # NoFile, NEW closes \in BOOLEAN, sync(log_file, closes)
  PROVE  /\ log_file.name \in Name /\ log_file.name \in DOMAIN Accepted
         /\ Promise!Commit(log_file.name)
         /\ closes => log_file' = NoFile
         /\ ~closes => Accepted' = Accepted
<1> DEFINE f == log_file
<1>1. /\ f \in Handle /\ Pending(f) /\ Clean(f, disk) /\ disk \in DiskType
      /\ faults \in 0 .. MaxFaults /\ f.name \in Name
  BY DEF Inv, OpenInv, TypeOK, DiskType, Handle
<1>2. Works \/ Fails
  BY DEF sync, flush_fails
<1>3. /\ \A n \in Name \ {f.name} : disk'.files[n] = disk.files[n]
      /\ disk' = disk \/ Holds(disk', f, Whole(f))
      /\ faults' = faults => Holds(disk', f, Whole(f))
      /\ closes => log_file' = NoFile
  BY <1>1, SyncStep
<1>4. Accepted[f.name] = Whole(f) /\ f.name \in DOMAIN Accepted
  BY AcceptedLog
<1>5. ASSUME Holds(disk', f, Whole(f))
      PROVE  Promise!Commit(f.name)
  <2>1. Logs' = Promise!Put(f.name, Accepted[f.name])
    BY <1>1, <1>3, <1>4, <1>5, LogsCommitted DEF Holds
  <2> QED BY <2>1 DEF Promise!Commit
<1>6. ASSUME disk' = disk, ~Sound'
      PROVE  Promise!Commit(f.name)
  BY <1>6, LogsSame DEF Promise!Commit, Sound
<1>7. Promise!Commit(f.name)
  BY <1>2, <1>3, <1>5, <1>6, SoundStep DEF Works
<1>8. ASSUME ~closes
      PROVE  Accepted' = Accepted
  <2>1. log_file' \in {[Flush(f) EXCEPT !.dirty = FALSE, !.erred = FALSE],
                       [f EXCEPT !.erred = TRUE], [Flush(f) EXCEPT !.erred = TRUE]}
    BY <1>8 DEF sync
  <2>2. /\ Flush(f) \in Handle /\ Flush(f).name = f.name
        /\ Flush(f).content = Whole(f) /\ Flush(f).tail = <<>>
    BY <1>1, FlushStep DEF Pending
  <2>3. Whole(f) \in Seq(Cell)
    BY <1>1, SizeType
  <2>4. /\ log_file' \in Handle /\ log_file'.name = f.name
        /\ \/ log_file'.content = Whole(f) /\ log_file'.tail = <<>>
           \/ log_file'.content = f.content /\ log_file'.tail = f.tail
    BY <1>1, <2>1, <2>2 DEF Handle
  <2>5. Whole(log_file)' = Whole(f)
    BY <2>3, <2>4, ConcatEmptySeq DEF Whole
  <2>6. log_file' # NoFile
    BY <2>4, NoFileAssumption
  <2> QED BY <2>4, <2>5, <2>6 DEF Accepted
<1> QED BY <1>1, <1>3, <1>4, <1>7, <1>8

\* Every write adds some cells at the end, none of them if it failed.
LEMMA WriteTail ==
  ASSUME NEW f \in Handle, NEW says \in Says, writeRow(f, says)
  PROVE  \E more \in Seq(Cell) : log_file'.tail = f.tail \o more
<1> DEFINE row == Row(f.header, says)
           cut == SubSeq(row, 1, room(f))
<1>1. row \in Seq(Cell) /\ f.tail \in Seq(Cell)
  BY RowType DEF Handle, Says
<1>2. CASE log_file' = WriteDone(f, row)
  <2>1. log_file'.tail = f.tail \o row
    BY <1>2 DEF WriteDone, Extend, Handle
  <2> QED BY <1>1, <2>1
<1>3. CASE log_file' \in WriteFailed(f)
  <2>1. log_file'.tail = f.tail \o <<>>
    BY <1>1, <1>3, ConcatEmptySeq DEF WriteFailed, Handle
  <2> QED BY <2>1, EmptySeq
<1>4. CASE crosses_block(f, Len(row)) /\ log_file' = WriteSplit(f, row)
  <2>1. room(f) \in Nat /\ room(f) < Len(row) /\ room(f) \in Int
    BY <1>4, LoggerAssumption DEF crosses_block
  <2>2. \A i \in 1 .. room(f) : row[i] \in Cell
    BY <1>1, <2>1, LenProperties, ElementOfSeq
  <2>3. cut \in Seq(Cell)
    BY <2>1, <2>2, SubSeqProperties
  <2>4. log_file'.tail = f.tail \o cut
    BY <1>4 DEF WriteSplit, Extend, Handle
  <2> QED BY <2>3, <2>4
<1> QED BY <1>2, <1>3, <1>4 DEF writeRow

\* A write appends what it accepts.
LEMMA WriteAccepts ==
  ASSUME Inv, log_file # NoFile, pc = "idle", NEW says \in Says, writeRow(log_file, says),
         UNCHANGED disk, pc' \in {"idle", "close"}
  PROVE  \E n \in Name : Promise!Accept(n)
<1> DEFINE f == log_file
<1>1. f \in Handle /\ f.name \in Name
  BY DEF Inv, TypeOK, Handle
<1>2. /\ log_file' \in Handle /\ log_file'.name = f.name
      /\ \E more \in Seq(Cell) : Whole(log_file)' = Whole(f) \o more
  <2>1. log_file' \in Handle /\ log_file'.name = f.name /\ log_file'.content = f.content
    BY <1>1, WriteStep DEF Inv, TypeOK, Says
  <2>2. PICK more \in Seq(Cell) : log_file'.tail = f.tail \o more
    BY <1>1, WriteTail
  <2>3. f.content \in Seq(Cell) /\ f.tail \in Seq(Cell)
    BY <1>1 DEF Handle
  <2>4. f.content \o (f.tail \o more) = (f.content \o f.tail) \o more
    BY <2>3, Regrouped
  <2> QED BY <2>1, <2>2, <2>4 DEF Whole
<1>3. log_file' # NoFile
  BY <1>2, NoFileAssumption
<1>4. PICK more \in Seq(Cell) : Whole(log_file)' = Whole(f) \o more
  BY <1>2
<1>5. Promise!IsExtension(Whole(f), Whole(f) \o more)
  <2>1. Whole(f) \in Seq(Cell)
    BY <1>1, SizeType
  <2> HIDE DEF f
  <2>2. /\ Len(Whole(f)) \in Nat /\ Len(more) \in Nat
        /\ Len(Whole(f) \o more) = Len(Whole(f)) + Len(more)
        /\ \A i \in 1 .. Len(Whole(f)) : (Whole(f) \o more)[i] = Whole(f)[i]
    BY <2>1, ConcatProperties, LenProperties
  <2> QED BY <2>2 DEF Promise!IsExtension
<1>6. /\ DOMAIN Accepted' = {f.name} /\ Accepted'[f.name] = Whole(f) \o more
      /\ Accepted[f.name] = Whole(f) /\ f.name \in DOMAIN Accepted
  BY <1>2, <1>3, <1>4, AcceptedLog DEF Accepted
<1>7. Logs' = Logs
  BY LogsSame
<1>8. ~(pc = "create") /\ UNCHANGED (pc = "create")
  OBVIOUS
<1>9. Promise!Accept(f.name)
  BY <1>5, <1>6, <1>7, <1>8 DEF Promise!Accept
<1> QED BY <1>1, <1>9

LEMMA CreateStep ==
  ASSUME Inv, NEW n \in Name, NEW tag \in Tag, createFile(n, tag)
  PROVE  /\ Promise!Create(n)
<1> DEFINE f == [Opened(n, tag, NewEntry) EXCEPT !.dirty = disk.files[n] # NoFile]
<1>1. /\ log_file = NoFile /\ pc = "idle" /\ disk \in DiskType /\ (Works \/ Fails)
      /\ Accepted = Promise!Nothing
  BY NoAccepted DEF createFile, can_open, Inv, TypeOK, DiskType
<1>2. NewEntry \in Stored /\ NewEntry # NoFile /\ NewEntry.cells = <<>>
  <2>1. <<>> \in Seq(Cell)
    BY EmptySeq
  <2>2. NewEntry \in Stored
    BY <2>1 DEF NewEntry, Stored
  <2> QED BY <2>2, NoFileAssumption DEF NewEntry
<1>3. DOMAIN Logs = {m \in Name : disk.files[m] # NoFile}
  BY DEF Logs
<1>5. disk' = Entry(n) =>
        /\ n \in DOMAIN Logs'
        /\ \/ Logs' = Logs
           \/ n \notin DOMAIN Logs /\ Logs' = Promise!Put(n, <<>>)
  <2>1. CASE disk' = Entry(n) /\ disk.files[n] # NoFile
    <3>1. Logs' = Logs
      BY <2>1, LogsSame DEF Entry
    <3> QED BY <1>3, <2>1, <3>1
  <2>2. CASE disk' = Entry(n) /\ disk.files[n] = NoFile
    <3>1. /\ disk'.files[n] = NewEntry
          /\ \A m \in Name \ {n} : disk'.files[m] = disk.files[m]
      BY <1>1, <2>2 DEF Entry, DiskType
    <3>2. Logs' = Promise!Put(n, <<>>)
      BY <1>1, <1>2, <3>1, LogsCommitted
    <3>3. n \in DOMAIN Logs'
      BY <3>2 DEF Promise!Put
    <3> QED BY <1>3, <2>2, <3>2, <3>3
  <2> QED BY <2>1, <2>2
<1>6. disk' = disk => Logs' = Logs
  BY LogsSame
<1>7. CASE /\ log_file' = WriteDone(f, Row(tag, tag))
           /\ disk' = Entry(n) /\ pc' = "create"
  <2>1. Opened(n, tag, NewEntry) \in Handle /\ f \in Handle /\ f.name = n
    BY <1>2, EmptySeq DEF Opened, Handle, Stored
  <2> HIDE DEF f
  <2>2. log_file' \in Handle /\ log_file'.name = n
    <3>1. Row(tag, tag) \in Seq(Cell)
      BY RowType
    <3> DEFINE e == Extend(f, Row(tag, tag))
               inline == e.inline /\ ~outlines(f, Len(Row(tag, tag)))
    <3>2. e \in Handle /\ e.name = n
      <4>1. e \in Handle
        BY <2>1, <3>1, ExtendType
      <4>2. e.name = f.name
        BY <2>1, Zenon DEF Extend, Handle
      <4> QED BY <2>1, <4>1, <4>2
    <3>3. log_file' = [e EXCEPT !.inline = inline, !.erred = FALSE]
      BY <1>7 DEF WriteDone
    <3>4. inline \in BOOLEAN
      BY <3>2 DEF Handle
    <3> HIDE DEF e, inline
    <3> QED BY <3>2, <3>3, <3>4 DEF Handle
  <2>3. DOMAIN Accepted' = {n}
    BY <2>2, NoFileAssumption DEF Accepted
  <2>4. (pc = "create")' = TRUE
    BY <1>7
  <2> QED BY <1>1, <1>5, <1>7, <2>3, <2>4 DEF Promise!Create
<1>8. CASE disk' \in {disk, Entry(n)} /\ Fails /\ UNCHANGED <<log_file, pc>>
  <2>1. Accepted' = Accepted /\ (pc = "create")' = (pc = "create")
    BY <1>8 DEF Accepted
  <2>2. ~Sound'
    BY <1>8, SoundStep
  <2> QED BY <1>1, <1>5, <1>6, <1>8, <2>1, <2>2 DEF Promise!Create, Sound
<1> QED BY <1>7, <1>8 DEF createFile

LEMMA OpenStep ==
  ASSUME Inv, NEW n \in Name, openFile(n)
  PROVE  Promise!Open(n)
<1>1. /\ log_file = NoFile /\ pc = "idle" /\ disk.files[n] # NoFile
      /\ disk.files[n].cells \in Seq(Cell) /\ disk' = disk /\ pc' = pc
  BY DEF openFile, can_open, recognised, Inv, TypeOK, Stored
<1>2. log_file'.name = n /\ log_file'.content = disk.files[n].cells /\ log_file'.tail = <<>>
  BY DEF openFile, Opened
<1>3. log_file' # NoFile
  <2>1. Head(disk.files[n].cells).says \in Tag /\ disk.files[n] \in Stored
    BY <1>1 DEF openFile, recognised, Inv, TypeOK
  <2>2. log_file' \in Handle
    BY <1>1, <2>1, EmptySeq DEF openFile, Opened, Handle, Stored
  <2> QED BY <2>2, NoFileAssumption
<1>4. Whole(log_file)' = Logs[n] /\ n \in DOMAIN Logs
  BY <1>1, <1>2, ConcatEmptySeq DEF Whole, Logs
<1>5. Accepted' = [m \in {n} |-> Logs[n]]
  BY <1>2, <1>3, <1>4 DEF Accepted
<1>6. n \in DOMAIN Logs
  BY <1>1 DEF Logs
<1>7. Logs' = Logs /\ Accepted = Promise!Nothing
  BY <1>1, LogsSame, NoAccepted
<1> QED BY <1>1, <1>5, <1>6, <1>7 DEF Promise!Open

\* A read flushes the handle, and accepts nothing.
LEMMA ReadAccepts ==
  ASSUME Inv, log_file # NoFile, NEW row \in Nat,
         LET f == Seek(log_file, row) IN
           log_file' \in {log_file, f, ReadRow(f), [ReadRow(f) EXCEPT !.row = @ + 1]}
  PROVE  Accepted' = Accepted
<1> DEFINE h == ReadRow(Seek(log_file, row))
<1>1. log_file \in Handle /\ Pending(log_file)
  BY DEF Inv, OpenInv, TypeOK
<1>2. \A g \in {Seek(log_file, row), h} :
        g \in Handle /\ g.name = log_file.name /\ g.content = Whole(log_file) /\ Pending(g)
  BY <1>1, ReadStep
<1>3. ASSUME NEW g \in {Seek(log_file, row), h}
      PROVE  g.tail = <<>>
  <2>1. Flush(log_file) \in Handle /\ Flush(log_file).tail = <<>>
    BY <1>1, FlushStep DEF Pending
  <2> QED BY <2>1 DEF Seek, ReadRow, Handle
<1>4. CASE log_file' = log_file
  BY <1>4 DEF Accepted, Whole
<1>5. CASE log_file' # log_file
  <2>1. PICK g \in {Seek(log_file, row), h} : log_file' \in {g, [g EXCEPT !.row = @ + 1]}
    BY <1>5
  <2>2. /\ g \in Handle /\ g.name = log_file.name /\ g.content = Whole(log_file) /\ g.tail = <<>>
    BY <1>2, <1>3
  <2>3. /\ log_file' \in Handle /\ log_file'.name = log_file.name
        /\ log_file'.content = Whole(log_file) /\ log_file'.tail = <<>>
    <3> HIDE DEF h
    <3> QED BY <2>1, <2>2 DEF Handle
  <2>4. Whole(log_file)' = Whole(log_file)
    <3>1. Whole(log_file) \in Seq(Cell)
      BY <1>1, SizeType
    <3> QED BY <2>3, <3>1, ConcatEmptySeq DEF Whole
  <2>5. log_file' # NoFile
    BY <2>3, NoFileAssumption
  <2> QED BY <2>3, <2>4, <2>5 DEF Accepted
<1> QED BY <1>4, <1>5

LEMMA JournalStep == Inv /\ ErredInv /\ [Next]_vars => [Promise!Next]_(Promise!vars)
<1> SUFFICES ASSUME Inv, ErredInv, [Next]_vars PROVE [Promise!Next]_(Promise!vars)
  OBVIOUS
<1> DEFINE Step == \/ Promise!Erase \/ Promise!Reset \/ Promise!Fail
                   \/ \E n \in Name : \/ Promise!Create(n) \/ Promise!Open(n) \/ Promise!Accept(n)
                                      \/ Promise!CommitCreated(n) \/ Promise!Close(n)
<1>1. /\ Works \/ Fails
      /\ Sound' \in BOOLEAN /\ (Sound' => Sound)
      /\ Fails => ~Sound'
      /\ Works => Sound' = Sound
  BY EveryStep, SoundStep
<1>2. Step => Promise!Next
  BY <1>1 DEF Promise!Next, Sound
<1>3. ASSUME Logs' = Logs, Accepted' = Accepted, (pc = "create")' = (pc = "create")
      PROVE  [Promise!Next]_(Promise!vars)
  <2>1. CASE Works
    BY <1>1, <1>3, <2>1 DEF Promise!vars, Sound
  <2>2. CASE Fails
    BY <1>1, <1>2, <1>3, <2>2 DEF Promise!Fail, Sound
  <2> QED BY <1>1, <2>1, <2>2
<1>4. pc # "create" /\ log_file = NoFile => Accepted = Promise!Nothing
  BY NoAccepted
<1>5. CASE Mount \/ UNCHANGED vars \/ \E n \in Name : openFile_refused(n)
  BY <1>3, <1>5, LogsSame DEF Mount, openFile_refused, can_open, vars, Accepted
<1>6. CASE Format \/ (Reset /\ pc = "format")
  <2>1. pc = "format" /\ log_file = NoFile /\ log_file' = NoFile /\ pc' # "create"
    BY <1>6 DEF Format, Reset, Inv, OpenInv
  <2>2. Accepted' = Accepted /\ (pc = "create")' = (pc = "create") /\ Accepted = Promise!Nothing
    BY <2>1, NoAccepted DEF Accepted
  <2>3. disk'.files \in {disk.files, Empty}
    BY <1>6 DEF Format, Reset, Blank, Fresh
  <2>4. CASE disk'.files = disk.files
    BY <1>3, <2>2, <2>4, LogsSame
  <2>5. CASE disk'.files # disk.files
    <3>1. ~Sound
      BY <1>6, <2>1, <2>3, <2>5 DEF Inv, NoFailureInv, Sound
    <3>2. Logs' = Promise!Nothing
      <4>1. disk'.files = Empty
        BY <2>3, <2>5
      <4>2. {m \in Name : disk'.files[m] # NoFile} = {}
        BY <4>1 DEF Empty
      <4> QED BY <4>2 DEF Logs, Promise!Nothing
    <3>3. Promise!Erase
      BY <1>1, <2>2, <3>1, <3>2 DEF Promise!Erase, Sound
    <3> QED BY <1>2, <3>3
  <2> QED BY <2>4, <2>5
<1>7. CASE Reset /\ pc # "format"
  <2>1. Logs' = Logs
    BY <1>7, LogsSame DEF Reset
  <2>2. Accepted' = Promise!Nothing /\ ~(pc = "create")'
    BY <1>7 DEF Reset, Accepted, Promise!Nothing
  <2>3. Promise!Reset
    BY <2>1, <2>2 DEF Promise!Reset
  <2> QED BY <1>2, <2>3
<1>8. CASE \E n \in Name : openFile(n)
  BY <1>2, <1>8, OpenStep
<1>9. CASE \E n \in Name, tag \in Tag : createFile(n, tag)
  BY <1>2, <1>9, CreateStep
<1>10. CASE createFile_sync
  <2>1. /\ log_file # NoFile /\ pc = "create" /\ pc' = "idle" /\ sync(log_file, FALSE)
    BY <1>10 DEF createFile_sync, Inv, OpenInv
  <2>2. /\ log_file.name \in Name /\ log_file.name \in DOMAIN Accepted
        /\ Promise!Commit(log_file.name) /\ Accepted' = Accepted
    BY <2>1, SyncCommits
  <2>3. Promise!CommitCreated(log_file.name)
    BY <2>1, <2>2 DEF Promise!CommitCreated
  <2> QED BY <1>2, <2>2, <2>3
<1>11. CASE closeFile_close
  <2>1. log_file # NoFile /\ pc = "close" /\ pc' = "idle"
    BY <1>11 DEF closeFile_close, Inv, OpenInv
  <2>2. /\ log_file.name \in Name /\ log_file.name \in DOMAIN Accepted
    BY <2>1, AcceptedLog DEF Inv, TypeOK, Handle
  <2>3. Promise!Commit(log_file.name) /\ log_file' = NoFile
    <3>1. CASE log_file.erred
      <4>1. Logs' = Logs /\ log_file' = NoFile /\ Works
        BY <1>11, <3>1, LogsSame DEF closeFile_close
      <4>2. ~Sound'
        BY <1>1, <2>1, <3>1, <4>1 DEF ErredInv, Sound
      <4> QED BY <4>1, <4>2 DEF Promise!Commit, Sound
    <3>2. CASE ~log_file.erred
      BY <1>11, <2>1, <3>2, SyncCommits DEF closeFile_close
    <3> QED BY <3>1, <3>2
  <2>4. Accepted' = Promise!Nothing
    BY <2>3 DEF Accepted, Promise!Nothing
  <2>5. Promise!Close(log_file.name)
    BY <2>1, <2>2, <2>3, <2>4 DEF Promise!Close
  <2> QED BY <1>2, <2>2, <2>5
<1>12. ASSUME NEW data \in Record, logRecord(data)
       PROVE  [Promise!Next]_(Promise!vars)
  BY <1>2, <1>12, WriteAccepts DEF logRecord, is_open, Says
<1>13. CASE closeFile
  BY <1>2, <1>13, WriteAccepts DEF closeFile, is_open, Says
<1>14. CASE readHeader
  <2>1. Accepted' = Accepted
    BY <1>14, ReadAccepts DEF readHeader, is_open
  <2> QED BY <1>3, <1>14, <2>1, LogsSame DEF readHeader
<1>15. CASE readRecord
  <2>1. log_file # NoFile /\ log_file.row + 1 \in Nat
    BY <1>15 DEF readRecord, is_open, Handle, Inv, TypeOK
  <2>2. Accepted' = Accepted
    BY <1>15, <2>1, ReadAccepts DEF readRecord
  <2> QED BY <1>3, <1>15, <2>2, LogsSame DEF readRecord
<1> QED BY <1>5, <1>6, <1>7, <1>8, <1>9, <1>10, <1>11, <1>12, <1>13, <1>14, <1>15 DEF Next

(***************************************************************************)
(* The logger implements Journal: the open log is a transaction, committed *)
(* as a whole or not at all, whatever fails and wherever a reset falls.    *)
(***************************************************************************)
THEOREM LoggerImplementsJournal == Spec => ImplementsJournal
<1>1. Init => Promise!Init
  <2> SUFFICES ASSUME Init PROVE Promise!Init
    OBVIOUS
  <2>1. disk.files = Empty /\ log_file = NoFile /\ pc = "off" /\ faults = 0
    BY DEF Init
  <2> QED BY <2>1, NoLogs, NoAccepted DEF Promise!Init
<1> QED BY <1>1, ErredHolds, JournalStep, PTL DEF Spec, ImplementsJournal, Promise!Spec
=============================================================================
