------------------------------- MODULE Database -------------------------------
(***************************************************************************)
(* demo-db/src/database.cpp: one table and its secondary indexes.  Each of *)
(* them is a store of its own, a page file with a tree in its cache and a  *)
(* journal; a catalog file names the columns and the indexes.  A statement *)
(* works through the stores one call after another, each of which may fail *)
(* (the exception ends the statement) or be the last before a crash.       *)
(*                                                                         *)
(* A tree is the sequence of the pairs it was given: TableIsMap and        *)
(* IndexKeepsAll of BPlusTree say what find, find_all and scan make of it. *)
(* So is a page file, as of the last sync that wrote all of its pages; it  *)
(* is mixed when some were written since, and lost when a crash finds it   *)
(* so, for a tree of pages of different ages may be read as anything.  Of  *)
(* a journal only what replay can read is kept: the records before the     *)
(* piece a failed write left (torn), not those behind it.                  *)
(***************************************************************************)
EXTENDS Naturals, FiniteSets, SequencesExt

CONSTANTS Ids,         \* primary keys, natural numbers
          Values,      \* values of the second column, natural numbers
          NoRow,       \* there is no row with that key
          Headers,     \* the pairs of column names CREATE TABLE is given
          IndexColumns,\* the columns CREATE INDEX is given
          Large,       \* the stores whose tree has more pages than its cache
          Garbage,     \* what the tree of a lost store may be read as
          Reinserts,   \* may an id be inserted a second time
          MaxInserts,  \* bound on the number of INSERTs
          MaxCrashes   \* bound on the number of crashes

DefaultHeader == <<"id", "value">>
Columns == UNION {ToSet(h) : h \in Headers \cup {DefaultHeader}}
Table == "the table"
Stores == {Table} \cup IndexColumns

ASSUME DatabaseAssumption ==
  /\ Ids \subseteq Nat /\ Values \subseteq Nat
  /\ NoRow \notin Values
  /\ \A h \in Headers : h \in STRING \X STRING
  /\ IndexColumns \subseteq Columns
  /\ Table \notin Columns
  /\ Large \subseteq Stores
  /\ Garbage \subseteq Seq(Ids \X Values)
  /\ Reinserts \in BOOLEAN
  /\ MaxInserts \in Nat /\ MaxCrashes \in Nat

VARIABLES job,       \* the statement being executed
          todo,      \* the calls it has still to make, in order
          cols,      \* col_names_
          open,      \* the columns in indexes_
          mem,       \* store -> the pairs its tree holds, in order of insertion
          pages,     \* store -> what its page file held when it was last whole
          mixed,     \* the stores with newer pages beside older ones in the file
          log,       \* store -> the records that replay reads in its journal
          synced,    \* store -> how many of them are on the disk for certain
          torn,      \* the stores with a piece of a record behind those
          behind,    \* the stores with whole records behind such a piece
          unsynced,  \* the stores with a checkpoint broken off, which a power
                     \* failure may undo in part
          catalog,   \* catalog.txt: [cols, indexes]
          versions,  \* what the disk may still hold of it
          inserts,   \* how many INSERTs were begun
          crashes,   \* how many crashes there were
          acked,     \* history: id -> the value its last INSERT was answered with
          complete,  \* history: indexes whose CREATE INDEX was answered
          lost,      \* history: the stores that were damaged
          cutback    \* history: records of the table's journal went missing

disk == <<pages, mixed, log, synced, torn, behind, unsynced>>
saved == <<catalog, versions>>
vars == <<job, todo, cols, open, mem, disk, saved, inserts, crashes,
          acked, complete, lost, cutback>>

-----------------------------------------------------------------------------
(* Stores.                                                                 *)

\* The value of the last pair with this id, of a table's pairs.
Row(pairs, id) ==
  LET at == {i \in DOMAIN pairs : pairs[i][1] = id}
  IN  IF at = {} THEN NoRow ELSE pairs[Max(at)][2]

\* What a tree holds once the journal of store s, or the first n records of
\* it, is replayed over the page file.
RecoveredTo(s, n) == pages[s] \o SubSeq(log[s], 1, n)
RecoveredWithoutReplay(s) == pages[s]   \* a slip
Recovered(s) == pages[s] \o log[s]

\* What it may hold once the store is opened.
Held(s) == IF s \in lost THEN Garbage ELSE {Recovered(s)}

\* Every page that is read may push a changed one out of a full cache and into
\* the file: from the trees with changes that are read, and from those that get
\* them by replay when they are opened.
DirtyIn(stores) == {s \in stores \cap Large : mem[s] # pages[s]}
DirtyOnceOpen(stores) == {s \in stores \cap Large : log[s] # << >>}

\* The pair an index on column c has for a row.
Entry(c, row) == <<IF c = cols[1] THEN row[1] ELSE row[2], row[1]>>

\* The rows of the table in the order of scan().
ScanTable ==
  LET ids == CHOOSE ids \in SetToSeqs({id \in Ids : Row(mem[Table], id) # NoRow}) :
               \A i, j \in DOMAIN ids : i < j => ids[i] < ids[j]
  IN  [i \in DOMAIN ids |-> <<ids[i], Row(mem[Table], ids[i])>>]

-----------------------------------------------------------------------------
(* Statements, as the calls they make.                                     *)

Log(s, pair) == [call |-> "log_insert", store |-> s, pair |-> pair]
Put(s, pair) == [call |-> "insert", store |-> s, pair |-> pair]
Sync(s) == [call |-> "sync", store |-> s]
Truncate(s) == [call |-> "truncate", store |-> s]
SaveCatalog == << [call |-> "open_catalog"], [call |-> "write_catalog"] >>

\* Slips: the journal is emptied before the pages are on the disk; the indexes
\* are updated before the table; an index starts empty.
TruncatedFirst(s) == <<Truncate(s), Sync(s)>>
InsertIndexesFirst(row, order) ==
  FlattenSeq([i \in DOMAIN order |->
                << Log(order[i], Entry(order[i], row)), Put(order[i], Entry(order[i], row)) >>])
    \o <<Log(Table, row), Put(Table, row)>>
CreateIndexEmpty(c) == <<Sync(c), Truncate(c)>> \o SaveCatalog

\* Journal first, then the tree.
Store(s, pair) == <<Log(s, pair), Put(s, pair)>>
Checkpointed(s) == <<Sync(s), Truncate(s)>>

\* The table, then the indexes in the order the hash map happens to have.
ForTableAndIndexes(Calls(_), order) ==
  Calls(Table) \o FlattenSeq([i \in DOMAIN order |-> Calls(order[i])])

InsertCalls(row, order) ==
  ForTableAndIndexes(LAMBDA s : Store(s, IF s = Table THEN row ELSE Entry(s, row)), order)

CheckpointCalls(order) == ForTableAndIndexes(Checkpointed, order)

CreateIndexCalls(c) ==
  FlattenSeq([i \in DOMAIN ScanTable |-> Store(c, Entry(c, ScanTable[i]))])
    \o Checkpointed(c) \o SaveCatalog

EmptyCatalog == [cols |-> DefaultHeader, indexes |-> {}]

Idle == job.kind = "idle"
Up == job.kind # "down"

Init ==
  /\ job = [kind |-> "down"]
  /\ todo = << >>
  /\ cols = DefaultHeader
  /\ open = {}
  /\ mem = [s \in Stores |-> << >>]
  /\ pages = mem
  /\ mixed = {}
  /\ log = mem
  /\ synced = [s \in Stores |-> 0]
  /\ torn = {}
  /\ behind = {}
  /\ unsynced = {}
  /\ catalog = EmptyCatalog
  /\ versions = {EmptyCatalog}
  /\ inserts = 0
  /\ crashes = 0
  /\ acked = [id \in Ids |-> NoRow]
  /\ complete = {}
  /\ lost = {}
  /\ cutback = FALSE

-----------------------------------------------------------------------------
(* Beginning a statement.                                                  *)

Insert(id, v) ==
  /\ Idle
  /\ inserts < MaxInserts
  /\ Reinserts \/ \A s \in {mem[Table], Recovered(Table)} : Row(s, id) = NoRow
  /\ \E order \in SetToSeqs(open) : todo' = InsertCalls(<<id, v>>, order)
  /\ job' = [kind |-> "insert", row |-> <<id, v>>]
  /\ inserts' = inserts + 1
  /\ acked' = [acked EXCEPT ![id] = NoRow]
  /\ UNCHANGED <<cols, open, mem, disk, saved, crashes, complete, lost, cutback>>

Checkpoint ==
  /\ Idle
  /\ \E order \in SetToSeqs(open) : todo' = CheckpointCalls(order)
  /\ job' = [kind |-> "checkpoint"]
  /\ UNCHANGED <<cols, open, mem, disk, saved, inserts, crashes, acked, complete, lost, cutback>>

\* open_index registers the index, with what its files hold already, before
\* the rows of the table are scanned and put into it.
CreateIndex(c) ==
  /\ Idle
  /\ c \in ToSet(cols) \ open
  /\ open' = open \cup {c}
  /\ \E held \in Held(c) : mem' = [mem EXCEPT ![c] = held]
  /\ \E e \in SUBSET (DirtyOnceOpen({c}) \cup DirtyIn({Table})) : mixed' = mixed \cup e
  /\ todo' = CreateIndexCalls(c)
  /\ job' = [kind |-> "create_index", col |-> c]
  /\ UNCHANGED <<cols, pages, log, synced, torn, behind, unsynced, saved, inserts, crashes,
                 acked, complete, lost, cutback>>

\* CREATE TABLE names the columns of the one table there is.
CreateTable(header) ==
  /\ Idle
  /\ cols' = header
  /\ todo' = SaveCatalog
  /\ job' = [kind |-> "create_table"]
  /\ UNCHANGED <<open, mem, disk, saved, inserts, crashes, acked, complete, lost, cutback>>

\* SELECT reads the table or an index, and changes nothing but the files of trees
\* that do not fit into the cache.
Select ==
  /\ Idle
  /\ \E s \in DirtyIn({Table} \cup open) : mixed' = mixed \cup {s}
  /\ UNCHANGED <<job, todo, cols, open, mem, pages, log, synced, torn, behind, unsynced, saved,
                 inserts, crashes, acked, complete, lost, cutback>>

-----------------------------------------------------------------------------
(* The calls of the statement being executed.                              *)

Calling(call) == todo # << >> /\ Head(todo).call = call
This == Head(todo).store

EmptyLog ==
  /\ log' = [log EXCEPT ![This] = << >>]
  /\ synced' = [synced EXCEPT ![This] = 0]
  /\ torn' = torn \ {This}
  /\ behind' = behind \ {This}

\* A record written behind a piece of one is there, and fsync says so, but replay
\* stops before the piece.
LogInsert ==
  /\ Calling("log_insert")
  /\ \/ /\ This \notin torn
        /\ log' = [log EXCEPT ![This] = Append(@, Head(todo).pair)]
        /\ synced' = [synced EXCEPT ![This] = Len(log[This]) + 1]
        /\ UNCHANGED behind
     \/ /\ This \in torn
        /\ behind' = behind \cup {This}
        /\ synced' = [synced EXCEPT ![This] = Len(log[This])]
        /\ UNCHANGED log
  /\ todo' = Tail(todo)
  /\ UNCHANGED <<job, cols, open, mem, pages, mixed, torn, unsynced, saved, inserts, crashes,
                 acked, complete, lost, cutback>>

TreeInsert ==
  /\ Calling("insert")
  /\ mem' = [mem EXCEPT ![This] = Append(@, Head(todo).pair)]
  /\ \E e \in SUBSET ({This} \cap Large) : mixed' = mixed \cup e
  /\ todo' = Tail(todo)
  /\ UNCHANGED <<job, cols, open, pages, log, synced, torn, behind, unsynced, saved, inserts,
                 crashes, acked, complete, lost, cutback>>

\* The last page and fsync.
SyncPages ==
  /\ Calling("sync")
  /\ pages' = [pages EXCEPT ![This] = mem[This]]
  /\ mixed' = mixed \ {This}
  /\ todo' = Tail(todo)
  /\ UNCHANGED <<job, cols, open, mem, log, synced, torn, behind, unsynced, saved, inserts,
                 crashes, acked, complete, lost, cutback>>

TruncateLog ==
  /\ Calling("truncate")
  /\ EmptyLog
  /\ unsynced' = unsynced \ {This}
  /\ todo' = Tail(todo)
  /\ UNCHANGED <<job, cols, open, mem, pages, mixed, saved, inserts, crashes, acked, complete,
                 lost, cutback>>

\* Opening the catalog empties it.  When it cannot be opened save_catalog
\* returns as if it had been saved.
OpenCatalog ==
  /\ Calling("open_catalog")
  /\ \/ catalog' = EmptyCatalog /\ todo' = Tail(todo)
     \/ UNCHANGED catalog /\ todo' = Tail(Tail(todo))
  /\ versions' = versions \cup {catalog'}
  /\ UNCHANGED <<job, cols, open, mem, disk, inserts, crashes, acked, complete, lost, cutback>>

\* Nor does a failed write raise an error: the catalog stays empty.  It is never
\* synced, so that the disk may hold any version of it for as long as it likes.
WriteCatalog ==
  /\ Calling("write_catalog")
  /\ catalog' \in {[cols |-> cols, indexes |-> open], catalog}
  /\ versions' = versions \cup {catalog'}
  /\ todo' = Tail(todo)
  /\ UNCHANGED <<job, cols, open, mem, disk, inserts, crashes, acked, complete, lost, cutback>>

\* The statement is answered.  What is promised of its row is that replay will
\* find it: an INSERT whose record lies behind a torn one is answered all the same.
Reply ==
  /\ todo = << >>
  /\ job.kind \notin {"idle", "down"}
  /\ job' = [kind |-> "idle"]
  /\ acked' = IF job.kind = "insert" /\ Table \notin behind
              THEN [acked EXCEPT ![job.row[1]] = job.row[2]] ELSE acked
  /\ complete' = IF job.kind = "create_index" THEN complete \cup {job.col} ELSE complete
  /\ UNCHANGED <<todo, cols, open, mem, disk, saved, inserts, crashes, lost, cutback>>

-----------------------------------------------------------------------------
(* Failures.                                                               *)

\* The process ends, by a signal or an exception nobody catches.  Mixed files stay
\* mixed; an index whose last entries lie behind a torn record will not have them.
Stop ==
  /\ crashes < MaxCrashes
  /\ crashes' = crashes + 1
  /\ job' = [kind |-> "down"]
  /\ cols' = DefaultHeader
  /\ open' = {}
  /\ mem' = [s \in Stores |-> << >>]
  /\ complete' = (complete \cap catalog.indexes) \ behind'
  /\ lost' = lost \cup mixed'
  /\ cutback' = (cutback \/ Table \in behind')

\* What is left when a call throws, or the process is killed in it.  Of a record:
\* all of it without the fsync, or a piece, and behind a piece it makes no
\* difference.  Of a sync: a part of the pages, or all of them without the fsync.
\* Of a truncate: the emptied journal without the fsync.
Interrupted ==
  \/ UNCHANGED disk
  \/ /\ Calling("log_insert")
     /\ \/ /\ This \notin torn
           /\ log' = [log EXCEPT ![This] = Append(@, Head(todo).pair)]
           /\ UNCHANGED <<torn, behind>>
        \/ /\ torn' = torn \cup {This}
           /\ behind' = behind \cup ({This} \cap torn)
           /\ UNCHANGED log
     /\ UNCHANGED <<pages, mixed, synced, unsynced>>
  \/ /\ Calling("sync")
     /\ \/ /\ pages' = [pages EXCEPT ![This] = mem[This]]
           /\ mixed' = mixed \ {This}
           /\ unsynced' = unsynced \cup {This}
        \/ /\ mixed' = mixed \cup {This}
           /\ UNCHANGED <<pages, unsynced>>
     /\ UNCHANGED <<log, synced, torn, behind>>
  \/ /\ Calling("truncate")
     /\ EmptyLog
     /\ unsynced' = unsynced \cup {This}
     /\ UNCHANGED <<pages, mixed>>

\* An insert fails before it changes its tree, unless it needs more pages than
\* the cache holds: then it may have to write one with the tree half changed.
HalfChanged == IF Calling("insert") THEN {This} \cap Large ELSE {}

\* A call throws.  The REPL prints the error and goes on, but nothing catches
\* the exception of a checkpoint.
Throw ==
  /\ \E call \in {"log_insert", "insert", "sync", "truncate"} : Calling(call)
  /\ Interrupted
  /\ todo' = << >>
  /\ IF job.kind = "checkpoint" THEN Stop
     ELSE /\ job' = [kind |-> "idle"]
          /\ lost' \in {lost, lost \cup HalfChanged}
          /\ UNCHANGED <<cols, open, mem, crashes, complete, cutback>>
  /\ UNCHANGED <<saved, inserts, acked>>

Kill ==
  /\ Up
  /\ Interrupted
  /\ todo' = << >>
  /\ Stop
  /\ UNCHANGED <<saved, inserts, acked>>

\* While nothing runs.  Records that were not synced are lost, from some point on,
\* perhaps in the middle of one; so is a checkpoint that was not; the catalog is one
\* of its versions, or the first lines of one.
PowerLoss ==
  /\ ~Up
  /\ \E left \in [Stores -> UNION {synced[s] .. Len(log[s]) : s \in Stores}] :
       /\ \A s \in Stores : left[s] \in synced[s] .. Len(log[s])
       /\ log' = [s \in Stores |-> SubSeq(log[s], 1, left[s])]
       /\ synced' = left
       /\ cutback' = (cutback \/ left[Table] < Len(log[Table]))
       /\ torn' \in SUBSET (torn \cup {s \in Stores : left[s] < Len(log[s])})
  /\ behind' = behind \cap torn'
  /\ lost' = lost \cup unsynced
  /\ unsynced' = {}
  /\ \E version \in versions : \E kept \in SUBSET version.indexes :
       catalog' = [version EXCEPT !.indexes = kept]
  /\ versions' = {catalog'}
  /\ complete' = complete \cap catalog'.indexes
  /\ UNCHANGED <<job, todo, cols, open, mem, pages, mixed, inserts, crashes, acked>>

\* The constructor: replay the table's journal, then load_catalog.
Open ==
  /\ ~Up
  /\ job' = [kind |-> "idle"]
  /\ cols' = catalog.cols
  /\ open' = catalog.indexes
  /\ LET opened == {Table} \cup catalog.indexes
     IN  /\ mem' \in [Stores -> UNION {Held(s) : s \in opened} \cup {<< >>}]
         /\ \A s \in Stores : mem'[s] \in IF s \in opened THEN Held(s) ELSE {<< >>}
         /\ \E e \in SUBSET DirtyOnceOpen(opened) : mixed' = mixed \cup e
  /\ UNCHANGED <<todo, pages, log, synced, torn, behind, unsynced, saved, inserts, crashes,
                 acked, complete, lost, cutback>>

Next ==
  \/ \E id \in Ids, v \in Values : Insert(id, v)
  \/ Checkpoint
  \/ \E c \in IndexColumns : CreateIndex(c)
  \/ \E header \in Headers : CreateTable(header)
  \/ Select
  \/ LogInsert
  \/ TreeInsert
  \/ SyncPages
  \/ TruncateLog
  \/ OpenCatalog
  \/ WriteCatalog
  \/ Reply
  \/ Throw
  \/ Kill
  \/ PowerLoss
  \/ Open

Spec == Init /\ [][Next]_vars

-----------------------------------------------------------------------------
(* What must hold.                                                         *)

\* The rows that a query finds, or would find once the database is opened, and
\* those it may find after a power failure.
Shown == [id \in Ids |-> Row(IF Up THEN mem[Table] ELSE Recovered(Table), id)]
Safe == [id \in Ids |->
          {Row(RecoveredTo(Table, n), id) : n \in synced[Table] .. Len(log[Table])}]

Pending == IF job.kind = "insert" THEN {job.row} ELSE {}

Rows == INSTANCE RowStore WITH shown <- Shown, safe <- Safe, pending <- Pending,
                               lost <- Table \in lost

\* Whatever fails, and wherever the process or the power stops, the table is a
\* RowStore: until a crash finds its page file half written, a row that was answered
\* for, and not behind a torn record, is never lost, replaced by an older one or
\* shown before its INSERT began (execute_insert, checkpoint and replay).
ImplementsRowStore == Rows!Spec

\* So a row that was answered for is shown, and is all that a crash can leave.
AckedRowsStay == Rows!AckedRowsStay

\* A query through an index whose CREATE INDEX was answered finds every row that
\* was answered for, now and after any crash, also when statements failed half
\* way, the catalog was lost or the index was created again over old files: as long
\* as neither the table nor the index was damaged, and but for the entries that lie
\* behind a torn record in the journal of the index.
IndexFindsAckedRows ==
  Table \notin lost =>
    \A c \in complete \ lost, id \in Ids :
      acked[id] # NoRow =>
        LET entry == Entry(c, <<id, acked[id]>>)
        IN  /\ c \in open => entry \in ToSet(mem[c])
            /\ c \in catalog.indexes \ behind => entry \in ToSet(RecoveredTo(c, synced[c]))

\* No index refers to a row the table does not have: run_secondary never has to skip
\* an entry.  That is, as long as neither was damaged and none of the table's records
\* went missing, by a power failure or a crash with records behind a torn one.
IndexNeverAhead ==
  ~cutback /\ Table \notin lost =>
    \A c \in Stores \ ({Table} \cup lost) :
      /\ Table \notin behind => \A e \in ToSet(Recovered(c)) : Row(Recovered(Table), e[2]) # NoRow
      /\ \A e \in ToSet(mem[c]) : Row(mem[Table], e[2]) # NoRow

\* 35-db-wal.md:325 says of a crash after the pages are synced and before the
\* journal is truncated that replay applies the record again and nothing
\* changes; 37-db-indexes.md:198 that an index recovers by the same rules.  So
\* while a checkpoint runs no index would be read back with an entry twice, when
\* no row was inserted twice.
EachRowOnce ==
  job.kind = "checkpoint" =>
    \A c \in complete \cap open :
      \A i, j \in DOMAIN Recovered(c) : Recovered(c)[i] = Recovered(c)[j] => i = j

\* 35-db-wal.md:324-328: once the journal is synced replay applies the record, so that
\* no row says "lost after we answered".  So the row of every INSERT that is
\* answered is what a crash would leave.
AnsweredRowsAreSafe ==
  [][job.kind = "insert" /\ job'.kind = "idle" /\ todo = << >> =>
       Row(RecoveredTo(Table, synced[Table]), job.row[1]) = job.row[2]]_vars
=============================================================================
