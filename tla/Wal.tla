--------------------------------- MODULE Wal ---------------------------------
(***************************************************************************)
(* demo-db/src/wal.cpp: the append-only journal.  log_insert() writes a    *)
(* 25-byte record (length, body, checksum) and fsyncs it before it         *)
(* returns; replay() reads records from the start and stops at the first   *)
(* one that is not whole; truncate() empties the file at a checkpoint.     *)
(*                                                                         *)
(* A record is its number, 1, 2, 3...  On the file it is three cells, the  *)
(* length, the body and the checksum; a write that stops inside a cell     *)
(* leaves a fragment.  Bytes that do not start at a record boundary are    *)
(* assumed never to have a matching checksum.                              *)
(***************************************************************************)
EXTENDS Naturals, FiniteSets, SequencesExt

CONSTANT MaxInserts   \* bound on the number of log_insert() calls

ASSUME WalAssumption == MaxInserts \in Nat

VARIABLES pc,      \* where the process is
          file,    \* the journal as the kernel sees it
          disk,    \* the journal as the disk holds it
          cut,     \* an ftruncate the disk has not seen yet
          issued,  \* the number of the last record given to log_insert
          part,    \* how many cells of it are written
          acked,   \* history: records whose log_insert returned, since truncate
          whole,   \* history: the last log_insert began after a whole record
          heard,   \* history: the acked records for which that was so
          cutAt,   \* history: issued at the last ftruncate
          gone     \* history: issued at the last ftruncate that reached the disk

vars == <<pc, file, disk, cut, issued, part, acked, whole, heard, cutAt, gone>>

\* A cell of the file: a record's length, its body, its checksum, or what a failed
\* write left of one of them.
Fragment == [is |-> "fragment"]

Init ==
  /\ pc = "down"
  /\ file = << >>
  /\ disk = << >>
  /\ cut = FALSE
  /\ issued = 0
  /\ part = 0
  /\ acked = {}
  /\ whole = TRUE
  /\ heard = {}
  /\ cutAt = 0
  /\ gone = 0

-----------------------------------------------------------------------------
(* Slips the properties below must notice.                                 *)

\* Without O_APPEND: each record is written from the start of the file.
WrittenFromStart(f, i, cell) ==
  IF i < Len(f) THEN [f EXCEPT ![i + 1] = cell] ELSE Append(f, cell)

\* No fsync.
FlushNothing == UNCHANGED <<disk, cut, gone>>

\* The file is rewound and not cut: what lay behind the new records stays.
FlushOldTail ==
  /\ disk' = file \o SubSeq(disk, Len(file) + 1, Len(disk))
  /\ cut' = FALSE
  /\ gone' = cutAt

-----------------------------------------------------------------------------
(* Reading the journal.                                                    *)

\* The cells of record r, in the order log_insert lays them out.
Layout(r) ==
  << [is |-> "length"], [is |-> "body", of |-> r], [is |-> "crc", of |-> r] >>

\* The i-th record read from f passes replay()'s three tests.
Readable(f, i) ==
  /\ f[3 * i - 2].is = "length"
  /\ f[3 * i - 1].is = "body"
  /\ f[3 * i] = [is |-> "crc", of |-> f[3 * i - 1].of]

\* replay(): the records its callback gets, up to the first unreadable one.
Replay(f) ==
  LET n == Max({k \in 0 .. Len(f) \div 3 : \A i \in 1 .. k : Readable(f, i)})
  IN  [i \in 1 .. n |-> f[3 * i - 1].of]

Replayed(f) == ToSet(Replay(f))

\* f holds whole records and nothing after them.
Whole(f) == Len(f) = 3 * Len(Replay(f))

-----------------------------------------------------------------------------
(* log_insert and truncate.                                                *)

LogInsert ==
  /\ pc = "idle"
  /\ issued < MaxInserts
  /\ pc' = "writing"
  /\ issued' = issued + 1
  /\ part' = 0
  /\ whole' = Whole(file)
  /\ UNCHANGED <<file, disk, cut, acked, heard, cutAt, gone>>

\* O_APPEND: write() adds cell i of a record at the current end of f.
Written(f, i, cell) == Append(f, cell)

WriteCell ==
  /\ pc = "writing"
  /\ file' = Written(file, part, Layout(issued)[part + 1])
  /\ part' = part + 1
  /\ pc' = IF part' = 3 THEN "fsync" ELSE "writing"
  /\ UNCHANGED <<disk, cut, issued, acked, whole, heard, cutAt, gone>>

\* write() fails or was cut short (a full disk): log_insert throws and leaves
\* in the file what it has written.
WriteFails ==
  /\ pc = "writing"
  /\ file' \in {file, Append(file, Fragment)}
  /\ pc' = "idle"
  /\ UNCHANGED <<disk, cut, issued, part, acked, whole, heard, cutAt, gone>>

\* fsync puts the whole file on the disk, an earlier ftruncate included.
Flush ==
  /\ disk' = file
  /\ cut' = FALSE
  /\ gone' = cutAt

Acknowledge ==
  /\ pc = "fsync"
  /\ Flush
  /\ pc' = "idle"
  /\ acked' = acked \cup {issued}
  /\ heard' = IF whole THEN heard \cup {issued} ELSE heard
  /\ UNCHANGED <<file, issued, part, whole, cutAt>>

\* fsync fails: log_insert or truncate throws.
FsyncFails ==
  /\ pc \in {"fsync", "truncated"}
  /\ pc' = "idle"
  /\ UNCHANGED <<file, disk, cut, issued, part, acked, whole, heard, cutAt, gone>>

\* A checkpoint has put the pages on the disk and drops the journal.
Truncate ==
  /\ pc = "idle"
  /\ pc' = "truncated"
  /\ file' = << >>
  /\ cut' = TRUE
  /\ cutAt' = issued
  /\ acked' = {}
  /\ heard' = {}
  /\ UNCHANGED <<disk, issued, part, whole, gone>>

TruncateSync ==
  /\ pc = "truncated"
  /\ Flush
  /\ pc' = "idle"
  /\ UNCHANGED <<file, issued, part, acked, whole, heard, cutAt>>

-----------------------------------------------------------------------------
(* The environment.                                                        *)

\* The kernel makes progress on its own: the truncation first, then one cell.
Writeback ==
  /\ \/ /\ cut
        /\ disk' = << >>
        /\ cut' = FALSE
        /\ gone' = cutAt
     \/ /\ ~cut
        /\ Len(disk) < Len(file)
        /\ disk' = SubSeq(file, 1, Len(disk) + 1)
        /\ UNCHANGED <<cut, gone>>
  /\ UNCHANGED <<pc, file, issued, part, acked, whole, heard, cutAt>>

Kill ==
  /\ pc # "down"
  /\ pc' = "down"
  /\ UNCHANGED <<file, disk, cut, issued, part, acked, whole, heard, cutAt, gone>>

\* What the disk holds is left, with part of the next cell perhaps.
PowerLoss ==
  /\ pc' = "down"
  /\ file' \in {disk} \cup
        (IF ~cut /\ Len(disk) < Len(file) THEN {Append(disk, Fragment)} ELSE {})
  /\ disk' = file'
  /\ cut' = FALSE
  /\ cutAt' = gone
  /\ UNCHANGED <<issued, part, acked, whole, heard, gone>>

Open ==
  /\ pc = "down"
  /\ pc' = "idle"
  /\ UNCHANGED <<file, disk, cut, issued, part, acked, whole, heard, cutAt, gone>>

Next ==
  \/ LogInsert
  \/ WriteCell
  \/ WriteFails
  \/ Acknowledge
  \/ FsyncFails
  \/ Truncate
  \/ TruncateSync
  \/ Writeback
  \/ Kill
  \/ PowerLoss
  \/ Open

Spec == Init /\ [][Next]_vars

-----------------------------------------------------------------------------
(* What must hold.                                                         *)

\* A record acknowledged on a journal that ended in a whole record is replayed
\* after any crash: whatever is appended, torn or half written back later, it
\* is on the disk and replay() reaches it.
HeardRecordsSurvive == heard \subseteq Replayed(disk)

\* Replay has no holes and keeps the order: with a record it yields every
\* record acknowledged before it, so what is recovered is a state the
\* database was in.
ReplayIsPrefix ==
  \A f \in {file, disk} :
    /\ \A i, j \in 1 .. Len(Replay(f)) : i < j => Replay(f)[i] < Replay(f)[j]
    /\ \A r \in Replayed(f), a \in acked : a < r /\ r > cutAt => a \in Replayed(f)

\* A checkpointed record never comes back once its truncation is on the disk.
NothingResurrected ==
  \A f \in {file, disk} : \A r \in Replayed(f) : gone < r /\ r <= issued

=============================================================================
