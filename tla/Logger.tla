------------------------------- MODULE Logger -------------------------------
(***************************************************************************)
(* virtual_loggers.c over lfs_config.c and the littlefs calls it makes:    *)
(* log files of rows of one width, one file open at a time.                *)
(*                                                                         *)
(* A row is RowSize cells that name what the row says and which part of    *)
(* it they are.  A file in RAM is content (up to ctz.size) and tail (what  *)
(* was written since the last flush).  The pointers littlefs puts at the   *)
(* head of a block are not counted.  Bad blocks are not modelled: what     *)
(* littlefs relocates never reaches the logger.                            *)
(***************************************************************************)
EXTENDS Naturals, Sequences

CONSTANTS
  Name,        \* file names
  Tag,         \* file_tag: detumbleLOG, detumbleSTART
  Record,      \* what a record row can say
  Exit,        \* what closeFile's row says
  RowSize,     \* row_sizes
  Page,        \* FS_PROG_SIZE, also the size of the file's cache
  Block,       \* FS_BLOCK_SIZE
  InlineMax,   \* longest file kept inside its directory entry
  NoFile,      \* no open file; no file of that name
  MaxRows,     \* bound: rows of one file
  MaxFaults    \* bound: calls of the FLASH driver that fail

ASSUME LoggerAssumption ==
  /\ {Page, Block, InlineMax, MaxRows} \subseteq Nat \ {0}
  /\ Block % Page = 0 /\ MaxFaults \in Nat
  /\ RowSize \in [Tag -> 2 .. InlineMax]  \* 125 and 155 bytes of 256
  /\ \A t \in Tag : RowSize[t] <= Block

VARIABLES
  disk,        \* what a reset leaves: a littlefs image, or none, and its files
  mounted,     \* fs_isMounted
  log_file,    \* log_file, or NoFile when log_file_open is FALSE
  pc,          \* the call under way
  written,     \* what writeRow returned last; its callers ignore it
  read,        \* history: what readRecord returned since the file was opened
  split,       \* history: files with a row that a failure cut at a block's end
  faults       \* FLASH calls that failed so far

vars == <<disk, mounted, log_file, pc, written, read, split, faults>>

(* mutant: parts counted from 0 *)
Row_FromZero(tag, says) == [part \in 1 .. RowSize[tag] |-> [says |-> says, part |-> part - 1]]

Row(tag, says) == [part \in 1 .. RowSize[tag] |-> [says |-> says, part |-> part]]

Cell == [says : Tag \cup Record \cup {Exit}, part : Nat \ {0}]
Stored == [inline : BOOLEAN, cells : Seq(Cell)]
Handle == [name : Name, header : Tag, row : Nat, content : Seq(Cell), tail : Seq(Cell),
           pos : Nat, inline : BOOLEAN, writing : BOOLEAN, dirty : BOOLEAN, erred : BOOLEAN]

ASSUME NoFileAssumption == NoFile \notin Handle /\ NoFile \notin Stored

TypeOK ==
  /\ disk \in [valid : BOOLEAN, files : [Name -> Stored \cup {NoFile}]]
  /\ mounted \in BOOLEAN
  /\ log_file \in Handle \cup {NoFile}
  /\ pc \in {"off", "format", "idle", "create", "close"}
  /\ written \in BOOLEAN
  /\ read \in Seq(Seq(Cell))
  /\ split \subseteq Name
  /\ faults \in 0 .. MaxFaults

Empty == [n \in Name |-> NoFile]

Init ==
  /\ disk \in [valid : BOOLEAN, files : {Empty}]
  /\ mounted = FALSE /\ log_file = NoFile /\ pc = "off" /\ written = FALSE
  /\ read = <<>> /\ split = {} /\ faults = 0

\* One FLASH call more fails, or none.
Fails == faults < MaxFaults /\ faults' = faults + 1
Works == UNCHANGED faults

(* The open file: what littlefs does to its handle.                        *)

Size(f) == Len(f.content) + Len(f.tail)
Whole(f) == f.content \o f.tail

(* mutant: no LFS_O_APPEND *)
Extend_AtPosition(f, cells) ==
  IF f.writing \/ f.pos + Len(cells) > Size(f)
  THEN [f EXCEPT !.tail = @ \o cells, !.pos = Size(f) + Len(cells), !.writing = TRUE]
  ELSE [f EXCEPT !.content = SubSeq(@, 1, f.pos) \o cells \o SubSeq(@, f.pos + Len(cells) + 1, Len(@)),
                 !.pos = @ + Len(cells), !.dirty = TRUE]


\* LFS_O_APPEND: every write starts at the end, wherever a read left pos.
Extend(f, cells) ==
  [f EXCEPT !.tail = @ \o cells, !.pos = Size(f) + Len(cells), !.writing = TRUE]

outlines(f, n) == f.inline /\ Size(f) + n > InlineMax
\* A write that starts no block and only fills the cache calls no driver.
starts_block(f) == ~f.writing \/ Size(f) % Block = 0
touches_flash(f, n) ==
  \/ outlines(f, n)
  \/ ~f.inline /\ (starts_block(f) \/ (Size(f) \div Page) # ((Size(f) + n) \div Page))

\* The cells of a row of n that fit in the current block, when some do not.
room(f) == Block - (Size(f) % Block)
crosses_block(f, n) == room(f) \in 1 .. Block - 1 /\ room(f) < n

(* mutant: a write that works does not forgive the one that failed *)
WriteDone_StaysErred(f, row) == [Extend(f, row) EXCEPT !.inline = @ /\ ~outlines(f, Len(row))]


WriteDone(f, row) ==
  [Extend(f, row) EXCEPT !.inline = @ /\ ~outlines(f, Len(row)), !.erred = FALSE]

\* A failed write stores nothing, though it may have taken a new block first.
WriteFailed(f) ==
  {[f EXCEPT !.pos = Size(f), !.erred = TRUE],
   [f EXCEPT !.pos = Size(f), !.erred = TRUE, !.inline = FALSE, !.writing = TRUE]}
\* The first block of the row went in, the second could not be had.
WriteSplit(f, row) ==
  [Extend(f, SubSeq(row, 1, room(f))) EXCEPT !.inline = FALSE, !.erred = TRUE]

writeRow(f, says) == LET row == Row(f.header, says) IN
  \/ /\ log_file' = WriteDone(f, row) /\ written' = TRUE
     /\ Works /\ UNCHANGED split
  \/ /\ touches_flash(f, Len(row))
     /\ log_file' \in WriteFailed(f) /\ written' = FALSE
     /\ Fails /\ UNCHANGED split
  \/ /\ touches_flash(f, Len(row)) /\ crosses_block(f, Len(row))
     /\ log_file' = WriteSplit(f, row) /\ written' = FALSE
     /\ split' = split \cup {f.name}
     /\ Fails

Flush(f) ==
  IF f.writing
  THEN [f EXCEPT !.content = Whole(f), !.tail = <<>>, !.writing = FALSE, !.dirty = TRUE]
  ELSE f
flush_fails(f) == f.writing /\ ~f.inline /\ Fails

Commit(f) == [disk EXCEPT !.files[f.name] = [inline |-> f.inline, cells |-> f.content]]
Synced(f) == IF Flush(f).dirty THEN Commit(Flush(f)) ELSE disk

\* lfs_file_sync: what becomes of the handle, and what a reset would find.
sync(f, closes) == LET kept(g) == log_file' = IF closes THEN NoFile ELSE g IN
  \/ Works /\ kept([Flush(f) EXCEPT !.dirty = FALSE, !.erred = FALSE]) /\ disk' = Synced(f)
  \/ flush_fails(f) /\ kept([f EXCEPT !.erred = TRUE]) /\ UNCHANGED disk
  \/ /\ Flush(f).dirty /\ Fails
     /\ kept([Flush(f) EXCEPT !.erred = TRUE])
     /\ disk' \in {disk, Synced(f)}

(* Boot: fs_mount.                                                         *)

\* lfs_mount fails on a part without an image and on any failure to read one.
Mount ==
  /\ pc = "off"
  /\ \/ disk.valid /\ Works /\ mounted' = TRUE /\ pc' = "idle"
     \/ ~disk.valid /\ Works /\ mounted' = FALSE /\ pc' = "format"
     \/ Fails /\ mounted' = FALSE /\ pc' = "format"
  /\ UNCHANGED <<disk, log_file, written, read, split>>

Fresh == [valid |-> TRUE, files |-> Empty]
Blank == [valid |-> FALSE, files |-> Empty]

Format ==
  /\ pc = "format" /\ pc' = "idle"
  /\ \/ disk' = Fresh /\ mounted' = TRUE /\ Works
     \/ disk' \in {disk, Blank, Fresh} /\ mounted' = FALSE /\ Fails
  /\ UNCHANGED <<log_file, written, read, split>>

Reset ==
  /\ pc # "off" /\ pc' = "off"
  /\ IF pc = "format" THEN disk' \in {disk, Blank, Fresh} ELSE UNCHANGED disk
  /\ mounted' = FALSE /\ log_file' = NoFile /\ written' = FALSE /\ read' = <<>>
  /\ UNCHANGED <<split, faults>>

(* The calls of virtual_loggers.h.                                         *)

can_open == pc = "idle" /\ mounted /\ log_file = NoFile

Opened(n, tag, stored) ==
  [name |-> n, header |-> tag, row |-> 0, content |-> stored.cells, tail |-> <<>>, pos |-> 0,
   inline |-> stored.inline, writing |-> FALSE, dirty |-> FALSE, erred |-> FALSE]
NewEntry == [inline |-> TRUE, cells |-> <<>>]
(* mutant: an existing file is truncated on the part as it is opened *)
Entry_Truncated(n) == [disk EXCEPT !.files[n] = NewEntry]


Entry(n) == IF disk.files[n] = NoFile THEN [disk EXCEPT !.files[n] = NewEntry] ELSE disk

\* A new name is committed empty at once; TRUNC reaches the part with the
\* next sync.  The header row is short enough to stay inline: it cannot fail.
createFile(n, tag) ==
  /\ can_open
  /\ \/ /\ LET f == [Opened(n, tag, NewEntry) EXCEPT !.dirty = disk.files[n] # NoFile]
           IN log_file' = WriteDone(f, Row(tag, tag))
        /\ disk' = Entry(n) /\ pc' = "create" /\ written' = TRUE
        /\ Works
     \/ /\ disk' \in {disk, Entry(n)} /\ Fails
        /\ UNCHANGED <<log_file, pc, written>>
  /\ UNCHANGED <<mounted, read, split>>

createFile_sync ==
  /\ pc = "create" /\ pc' = "idle"
  /\ sync(log_file, FALSE)
  /\ UNCHANGED <<mounted, written, read, split>>

\* The tag is the first thing the header row says.
recognised(n) == disk.files[n] # NoFile /\ disk.files[n].cells # <<>>
                 /\ Head(disk.files[n].cells).says \in Tag

openFile(n) ==
  /\ can_open /\ recognised(n)
  /\ log_file' = [Opened(n, Head(disk.files[n].cells).says, disk.files[n]) EXCEPT !.pos = 1]
  /\ Works
  /\ UNCHANGED <<disk, mounted, pc, written, read, split>>

openFile_refused(n) ==
  /\ can_open
  /\ IF recognised(n) THEN Fails ELSE Works
  /\ UNCHANGED <<disk, mounted, log_file, pc, written, read, split>>

is_open == pc = "idle" /\ log_file # NoFile
rows_left(n) == Size(log_file) + n * RowSize[log_file.header] <= MaxRows * RowSize[log_file.header]

logRecord(data) ==
  /\ is_open /\ rows_left(2)
  /\ writeRow(log_file, data)
  /\ UNCHANGED <<disk, mounted, pc, read>>

closeFile ==
  /\ is_open /\ rows_left(1)
  /\ writeRow(log_file, Exit) /\ pc' = "close"
  /\ UNCHANGED <<disk, mounted, read>>

\* lfs_file_close: a handle that erred is not synced.
closeFile_close ==
  /\ pc = "close" /\ pc' = "idle"
  /\ IF log_file.erred THEN log_file' = NoFile /\ Works /\ UNCHANGED disk
     ELSE sync(log_file, TRUE)
  /\ written' = FALSE /\ read' = <<>>
  /\ UNCHANGED <<mounted, split>>

(* mutant: records are read on from where the last call left off *)
Seek_FromPosition(f, row) == Flush(f)


\* lfs_file_seek to a row: what is pending is flushed first.
Seek(f, row) == [Flush(f) EXCEPT !.pos = row * RowSize[f.header]]

\* lfs_file_read of a row at pos.
end_of_row(f) == f.pos + RowSize[f.header]
complete(f) == end_of_row(f) <= Len(f.content)
RowAt(f) == SubSeq(f.content, f.pos + 1, end_of_row(f))
ReadRow(f) == [f EXCEPT !.pos = IF complete(f) THEN end_of_row(f) ELSE Len(f.content)]
read_fails(f) == ~f.inline /\ Fails

readHeader == LET f == Seek(log_file, 0) IN
  /\ is_open
  /\ \/ log_file' = ReadRow(f) /\ Works
     \/ flush_fails(log_file) /\ UNCHANGED log_file
     \/ log_file' = f /\ read_fails(f)
  /\ UNCHANGED <<disk, mounted, pc, written, read, split>>

readRecord == LET f == Seek(log_file, log_file.row + 1) IN
  /\ is_open
  /\ \/ /\ complete(f) /\ Works
        /\ log_file' = [ReadRow(f) EXCEPT !.row = @ + 1]
        /\ read' = Append(read, RowAt(f))
     \/ ~complete(f) /\ log_file' = ReadRow(f) /\ Works /\ UNCHANGED read
     \/ flush_fails(log_file) /\ UNCHANGED <<log_file, read>>
     \/ log_file' = f /\ read_fails(f) /\ UNCHANGED read
  /\ UNCHANGED <<disk, mounted, pc, written, split>>

Next ==
  \/ Mount \/ Format \/ Reset
  \/ \E n \in Name : openFile(n) \/ openFile_refused(n) \/ \E tag \in Tag : createFile(n, tag)
  \/ createFile_sync \/ (\E data \in Record : logRecord(data))
  \/ closeFile \/ closeFile_close \/ readHeader \/ readRecord

Spec == Init /\ [][Next]_vars

(* Properties.                                                             *)

RowOf(cells, i, n) == SubSeq(cells, i * n + 1, (i + 1) * n)
IsWhole(cells, tag) == \E says \in Tag \cup Record \cup {Exit} : cells = Row(tag, says)
\* A log: whole rows of its tag, the header first.
IsLog(cells) == \E tag \in Tag : LET n == RowSize[tag] IN
  /\ Len(cells) % n = 0
  /\ cells # <<>> => RowOf(cells, 0, n) = Row(tag, tag)
  /\ \A i \in 0 .. (Len(cells) \div n) - 1 : IsWhole(RowOf(cells, i, n), tag)

\* Every log is rows of one width after its header, on the part and in RAM,
\* through failed writes, failed syncs and resets: only a failure between the
\* two blocks of one row (split) breaks the rows that readRecord counts on.
RowsAreWhole ==
  /\ \A n \in Name \ split : disk.files[n] # NoFile => IsLog(disk.files[n].cells)
  /\ log_file # NoFile => log_file.name \in split \/ IsLog(Whole(log_file))

\* readRecord returns the records in the order they were logged, each once
\* and from the first, whatever headers were read, rows written or reads
\* refused in between.
ReadsInOrder ==
  log_file # NoFile /\ log_file.name \notin split =>
    /\ Len(read) = log_file.row
    /\ \A i \in 1 .. Len(read) :
         /\ read[i] = RowOf(Whole(log_file), i, RowSize[log_file.header])
         /\ IsWhole(read[i], log_file.header)

\* closeFile commits every row that was accepted since the file was opened,
\* also after failed writes and a failed sync, when its own row goes in and
\* nothing fails while it closes.
CloseCommits == [][
  pc = "close" /\ pc' = "idle" /\ written /\ faults' = faults
    => disk'.files[log_file.name].cells = Whole(log_file)]_vars

Extends(old, new) == Len(old) <= Len(new) /\ \A i \in 1 .. Len(old) : new[i] = old[i]

\* Without a FLASH failure no reset, mount, format or call loses a row that
\* reached the part: a log only grows, until createFile's sync replaces it.
LogsGrow == [][faults' = 0 => \A n \in Name : disk.files[n] # NoFile =>
  /\ disk'.files[n] # NoFile
  /\ \/ pc = "create" /\ log_file.name = n
     \/ Extends(disk.files[n].cells, disk'.files[n].cells)]_vars

\* To a reader of its files the logger is a Journal: one log is open at a
\* time, what is logged reaches the part with the close or not at all, and
\* only after a failure may a commit be lost or the part be erased.
Logs == [n \in {m \in Name : disk.files[m] # NoFile} |-> disk.files[n].cells]
Accepted ==
  IF log_file = NoFile THEN [n \in {} |-> <<>>] ELSE [n \in {log_file.name} |-> Whole(log_file)]
Promise == INSTANCE Journal WITH
  kept <- Logs, accepted <- Accepted, fresh <- pc = "create", sound <- faults = 0
ImplementsJournal == Promise!Spec
=============================================================================
