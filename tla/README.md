# Verification of the c-book programs

The repository is a tutorial with four programs built along it: a small
database (`demo-db`), a chat (`demo-chat`), a shell (`demo-shell`) and a text
game (`demo-rpg`). This directory holds TLA+ models of them, the TLC
configurations that check the models on small instances, and theorems checked by
TLAPS. It covers the database from the page cache up to the lines a user types,
the three chat servers, the shell, and the game with its saves; what is left out,
and the plan, are at the end.

    tlc -workers 2 -config Wal.cfg MCWal
    tlapm PageManagerProofs.tla

## The system

| Part | State | Operations | Hard behaviour |
|---|---|---|---|
| `PageManager` | page map, LRU list, dirty flags, page count; the file | read, write, allocate, sync, open, close | eviction in the middle of calls that fail, crash between page writes, kernel write-back |
| `WAL` | the journal file | log_insert, replay, truncate | short writes, torn tails, crash between write and fsync |
| `BPlusTree` | nodes in pages, root, leaf chain | insert, insert_dup, find, find_all, scan | splits on several levels, equal keys across leaves |
| `Database` | a tree and a journal per table and index, the catalog | CREATE TABLE, CREATE INDEX, INSERT, SELECT, checkpoint, recovery | failure or crash between any two calls on several files |
| SQL, REPL | buffer, columns, history and its file | tokenize, parse, SELECT, EXPLAIN, dot commands | statements cut out of lines, three access paths and stale index entries, a history lost in a kill |
| Chat protocol, history | receive buffer; append-only file | encode, try_decode; append, recent | partial reads, torn records |
| Rooms and reactor servers | clients, rooms, send buffers, poll set | accept, Hello, Join, Message, Leave, drop | a drop inside a loop over poll results, errors while leaving |
| Threaded server, client | client list under a mutex; stop flag | accept, broadcast, receive, send | blocking sends under the mutex, descriptor reuse, a blocked reader |
| Shell | descriptors, processes, aliases, environment, history and its file | pipelines, redirections, builtins, signals | failures half way through a pipeline, who closes and waits for what, Ctrl+C at any moment |
| RPG | world file, world, player, inventory, save file | commands, save, load | conservation of items, a save overwritten in place, a save of another world |

The database engine calls downwards only: a statement calls `WAL` and
`BPlusTree`, the tree calls `PageManager`, and all of it runs in one thread. What
makes it hard is that every call may throw, that the process or the power may
stop between any two system calls, and that the kernel writes pages to the disk
in an order of its own. The chat servers are concurrent through `poll` or threads;
the shell through processes.

What makes each part correct: the cache is invisible and a crash takes back no
page behind the last sync (`PageManager`); what log_insert returned for is
replayed (`WAL`); a tree is a map or an ordered multimap (`BPlusTree`); a row that
was answered for is not lost, as far as the journal and the page file bear it, and every index finds it (`Database`). For the
other programs: a client is in the room the server thinks it is in and nothing
one client does stops the others (chat); every pipe end is closed and every child
waited for (shell); every item is in exactly one place (game).

## The modules

    PageStore  <- implements -  PageManager      (PageManagerProofs)
                                Wal              (WalProofs)
                 BPlusTree <- EXTENDS - TableStorage
    RowStore   <- implements -  Database         (DatabaseProofs)
                 SqlParser <- EXTENDS - Repl
    ChatRooms  <- implements -  RoomsServer      (RoomsServerProofs)
    Feed       <- implements -  Broadcast = ThreadedServer + ReactorServer, on LineSockets
                                                               (BroadcastProofs)
    ShellParser <- EXTENDS - Pipeline <- EXTENDS - Shell           (ShellProofs)
    WorldParser <- EXTENDS - SaveManager <- EXTENDS - Game         (GameProofs)

The modules in brackets hold theorems; all but the first use the lemmas of `SetInduction`. `Selection` has `Only`, which is
`SelectSeq` for a test given as a set: facts about `SelectSeq` itself cannot be stated for this prover, which has no
definition of it. `Feed` and `RoomsServer` say with it which notes count.
The `MC...` modules and the `.cfg` files of the same name give the constants their
values. Definitions called *slips* in the modules are alternatives to one
definition each, wrong in the way a plausible bug would be; no specification uses
them. They are there to see that each property notices a bug: with a slip in
place of its definition, the property named beside it in `PROJECT.json` fails.

**PageManager.tla** models `page_manager.cpp`. `cache` and `lru` are `cache_` and
`lru_`; `file` is what the kernel holds, `durable` what the disk holds. `ReadPage`,
`WritePage`, `AllocatePage` are whole calls with the eviction they cause;
`LoadFails` and `AllocateFails` are the exceptions half way, with what has already
changed. `sync()` is broken up into its loop (`SyncFlush`, any order, since the cache
is a hash map) and its `fsync` (`SyncDone`), and so is the destructor; a kill or a
power failure may fall between any two of these. `Writeback` lets the kernel put
any page on the disk at any time. `PageStore`'s `Call` is the start of a call of several steps. The history variables `versions`, `used`, `kept`
and `recency` are what the properties compare with. **PageStore.tla** is the promise
to the tree above: an array of pages that a crash may take back page by page, but
not behind the last completed sync.

**Wal.tla** models `wal.cpp`. A record is three cells, so that a write can stop
between or inside them (`WriteFails`, a crash after `WriteCell`). `disk` is a prefix
of `file` unless a truncation is still to come. `Replay` is the loop of `replay()`.

**BPlusTree.tla** models `btree.cpp`: `node` maps pages to nodes, and `Insert` and
`InsertDup` compute the tree after a whole call: descent, split of the leaf,
`insert_in_parent` up the path (a fold over it), new root. `unique` says whether the
tree is a table's or an index's. The value inserted is the number of the insert,
so that no two values are confused.

**TableStorage.tla** puts a table's tree on the file that a checkpoint writes:
`FlushPage` writes one dirty page, `EvictPage` does so between checkpoints once the
tree has outgrown the cache, `TruncateJournal` empties the journal. It is about what
`FileFind` finds when the process stops at that moment.

**Database.tla** models `database.cpp` and what `main.cpp` does with its exceptions.
The table and every index is a store with a tree (`mem`), a page file (`pages`) and a
journal (`log`, of which `synced` records are on the disk for certain). A statement
is the list of calls in `todo`, built by `InsertCalls`, `CreateIndexCalls` and
`CheckpointCalls` in the order of the source; each step makes the first call,
lets it fail (`Throw`), or stops the process in it (`Kill`); what either leaves behind is
`Interrupted`. A tree is the sequence of
pairs it was given, which `TableIsMap` and `IndexKeepsAll` of BPlusTree justify. The damage
that the two layers below allow is part of the model:

* A failed write leaves a piece of a record (`torn`), the REPL goes on, and what is written behind it
  (`behind`) is answered but never replayed. An INSERT is answered all the same; `acked` has its row
  only if no torn record is in front of it.
* Pages reach the file one at a time: in `sync`, and, of a tree that is larger than its cache (`Large`), whenever a
  page is read or changed, also by SELECT. From then until the next whole `sync` the file is `mixed`. A crash that
  finds it so damages the store (`lost`), and so does a power failure after a checkpoint that broke off behind its pages
  or its truncation (`unsynced`), and an insert that needs more pages than the cache has and fails with a tree half changed.
  `TableStorage` is about what is in such a file; here it may be read as anything in `Garbage`.
* The catalog is never synced: after a power failure it is any version that was written since the last one (`versions`), or
  the first lines of one.

**RowStore.tla** is the promise to the user: an INSERT that was answered is shown and
is all that a crash can leave, until the table is damaged (`lost`), from when on nothing is promised (`Ruin`).

**RoomsServer.tla** models `rooms_chat_server.cpp` with `protocol.cpp`. `clients` and
`rooms` are the two maps of `main`, `ready` is poll's answer for the descriptors that
are still to be served, `net` is the other side of every connection. A turn of the loop is
`Poll`, `Accept` until nobody waits, and for each ready descriptor, in any order,
`Receive`, `Decode` once per frame, and `Keep` or `Drop`, which also send. The handlers
(`Join`, `Leave`, ...) map the two maps, and a flag for a thrown exception, to the maps
they leave behind, so that what a handler did before it threw stays done. A frame from
a client is in two parts, either of which may be all that has arrived. Sizes of
payloads are additive and matter only against `MaxPayload`.
**ChatRooms.tla** is the promise to the people in it: who is where, and what each of
them is told. What was sent and what is still queued is what a client *hears*; a drop
may cut off the end of it.

**SqlParser.tla** models `sql.cpp`. A text is a sequence of pieces (a word, a number, a
sign, a space) instead of characters. `Tokenize` is the tokenizer with its errors and
`Strtoll` its saturating numbers; the recursive descent is an automaton over steps:
`CreateTableSteps` and its like are the calls `expect`, `expect_keyword` and the tests
of `peek` in the order of the source, and `Advance` makes one of them. There are two grammars to compare it with:
`Documented` is that of `36-db-mini-sql.md:34-37`, with two columns, PRIMARY KEY behind the first only, and two values;
`Dialect` is what the parse functions accept, lists of any length and PRIMARY KEY anywhere (`sql.cpp:171-181`).
The executor refuses tables and rows that are not of two (`database.cpp:130-133`, `170-172`).

**Repl.tla** models `main.cpp` of the database and the statements as they act on a
table that is a map and on indexes that are lists of pairs. `ReadLine` is one pass of
the loop up to the inner one, `NextStatement` one pass of the inner one; `Execute`
parses and runs the statement with its replies and errors. `Path` is the chain of
conditions in `execute_select`, `Plan` the one in `plan_select`; `RunFullScan`,
`RunPrimaryEq` and `RunSecondary` are the three ways. A session ends in `Leave`, which
saves the history, or in `Dies`, which does not; tables and indexes survive both, which is what
`Database` is about.

**LineSockets.tla** is the other side of the two simple chat servers: clients that
connect, write lines, read or do not read, close or fail, and sockets whose buffers are full at
some point. Connections are numbered; descriptors are reused.
**ThreadedServer.tla** models `threaded_chat_server.cpp`: `thread[c].pc` is where
`handle_client` of connection `c` is, `g_clients` the list, and `g_mutex` who holds the
lock, for which note, and which sends of it are still to come. Every send is a step and
waits while the receiver's buffer is full. **ReactorServer.tla** models
`reactor_chat_server.cpp`: `Poll` takes the list of descriptors with its answer, `Accept` and
`Serve`, `Read`, `Line`, `Drop`, `Write` are the two loops over it. **Broadcast.tla** runs the same
clients against the one or the other, and **Feed.tla** is what both promise: one
conversation, heard by everyone in its order, from the moment of joining on. The order
of a broadcast is the order of its lock, or of the loop.

**ShellParser.tla** models the tokenizer with its quotes and escapes and
`parse_pipeline`. **Pipeline.tla** models `run_pipeline`: every process has a table of descriptors,
process 0 is the shell. `MakePipe`, `Fork`, `CloseParentEnds`, `Wait` are the shell's
steps, `WireUp`, `CloseChildEnds`, `ApplyRedirect`, `Exec` those of a child, in any
interleaving, and `PipeFails`, `ForkFails` and an unknown program the failures. `Program`
says what the programs do with what they read and write, and `ReadItem` and
`WriteItem` what the kernel makes of it: waiting, end of file, `SIGPIPE`. **Shell.tla**
adds the loop of `main`, the builtins, aliases, the history over several sessions with
`HOME` changed in between, Ctrl+C and `kill -9`, also in the middle of saving: the file then has the first lines, and perhaps the
beginning of one more, which the next session takes for a line. `pieces` remembers what such saves have left.

**WorldParser.tla** models the world file line by line (`ParseLine`, `Commit`) with its
errors, and the inventory's `find` and `take`. **SaveManager.tla** has what a save holds (`Body`) and
`Read` with its checks in the order of the source and the assignments they protect.
**Game.tla** has the commands, and around them what a
session cannot control: the world file is edited, a slot is damaged by a crash or
otherwise or replaced by a save of another copy of the game, the process is killed. `ledger` is the bag
of items that should exist.

## The runs

| Run | Bounds | Shows |
|---|---|---|
| `page_manager` | 3 pages, cache of 2, 2 contents | types, list against map, order of eviction, clean pages, growth of the file, crash contents, refinement of PageStore |
| `wal` | 4 inserts | acknowledged records are replayed if the journal had no torn tail, no holes, no resurrection |
| `b_plus_tree` | nodes of 2 keys, 5 keys, 7 inserts; 4 inserts and a cache of 4 pages where pages are written | leaf chain, page tree, map and multimap behaviour; the file is the last checkpoint as long as nothing is evicted |
| `database` | 1 id, 2 values, 1 index, a table larger than its cache, 2 inserts, 1 crash | refinement of RowStore, answered rows stay, completeness of indexes, indexes never ahead of the table |
| `index_replay` | 1 id, 1 value, 2 inserts | **violated**: replay inserts index entries twice |
| `torn_journal` | 1 id, 1 value, 2 inserts, no crash | **violated**: an INSERT is answered that a crash would lose |
| `repl` | one of 9 sentences with any one piece missing, added or exchanged; or 3 of 13 lines, one restart, history of 2 | the parser accepts `Dialect` and nothing else, what is carried out is documented but for a misplaced PRIMARY KEY, statements are run whole and once, answers are right, EXPLAIN tells the truth, the history is the last statements |
| `rooms_server` | 2 clients of 3 and 2 frames, 1 room, 2 frames on the way in and 1 on the way out | clients against rooms, refinement of ChatRooms, no frame forgotten, everything settles |
| `rooms_survive` | the same, one name too long for a notice | **violated**: an exception on the drop path ends the server |
| `broadcast` | 3 connections, 2 lines, one client that leaves in any way, one that need not read, 2 notes in a socket | list entries and descriptors, refinement of Feed by both servers, every note arrives |
| `shell` | 18 lines, 2 of them typed, 2 sessions, 3 stages, 1 item in a pipe, 1 Ctrl+C, at most 1 character left of a line cut off | descriptors of every program started, a clean prompt, history, quoting, every pipeline ends |
| `game` | 6 world files, 6 foreign saves, 1 slot, 2 changes from outside, any number of commands | conservation of items, faithful saves, loads all or nothing, never in the void |

*Why the bounds are enough.* With three pages and a cache of two every load can be a
hit, a miss with room and a miss with an eviction of a clean or dirty page, and the
file can have a hole below its end. Two-key nodes split at the third insert; the
fifth ascending insert splits an internal node and makes a second root, and seven
inserts also put keys into the halves; five equal keys span three leaves. Four
journal records are one to tear, one behind it, one to truncate and one to come
back. In `database` two inserts of one id let an old value come back, and let one be before and one behind a torn record; one crash
is enough for the index's journal and the table's to lose different records, and a power failure may follow it. That a record which was
replayed and not synced is lost in a second crash is not among the run's behaviours, nor that a CREATE TABLE gives the columns other names;
the theorems of `DatabaseProofs` have both.
What is read from a damaged file is nothing or a row nobody inserted; the properties say nothing of that store any more. Two chat clients with three and two frames
can both be in the room when one of them speaks, leaves, or asks for what cannot be
encoded; the second may also connect after the first is gone and get its descriptor. Two frames
can be read at once, or one and the beginning of another, and a socket that takes one
frame is full as soon as its client does not read. Three connections of the simple chat are one that
speaks, one whose end closes a descriptor while the first may be in a broadcast, and one that gets that
descriptor or does not read; a socket of two notes is full after the greeting and one more. Three stages have a
first, a middle and a last one, which are wired differently, and a pipe of one item makes a writer wait; two lines
are enough for an alias and its use, a changed `HOME` and the exit, a failed `pipe` and what comes after, or the
same line twice. In the game nothing but edits is bounded: two items of one name, two places and a slot
make finitely many states. For the database's user one line can break a statement, the second complete it and
begin another, the third ask; a row inserted again, an index before or after it, and columns that are
swapped are among the lines. The parser is checked in one step, so a sentence and all its neighbours are enough
to reach every step of it and every error. The lists in `Dialect` have up to three items (`LongestList`), one more than a table has columns.
A character of a line of the shell is a character or a word of it in the model (`Char`), and a cut may fall behind the first (`MaxPiece`); `cd`, cut
out of `cd x`, is then a line that is typed as well. `b_plus_tree` ends when its inserts
are used up, the chat servers sleep when their clients have no more to say, and shell and REPL end when the bound
on what is typed is reached, so these runs do not check for deadlock; every other run does.

*Symmetry.* None is used.

*Fairness.* None is assumed for the storage of the database, the REPL and the game: everything stated
of them is a safety property, and they are single threads that do nothing on their own. The
liveness properties assume what the kernel's scheduler gives, and nothing of users:

* `SettlesInTheEnd` (`rooms_server`): the server's thread goes on
  while `poll` has something to say, and a client goes
  on reading what it was sent, which the receiving thread of `chat_client.cpp` does. Both
  are weak fairness with the ENABLED written out (`LoopGoesOn`, `ClientReads`). Clients
  need not write or hang up.
* `EveryNoteArrives` (`broadcast`): weak fairness of every thread of the threaded server and of the
  loop of the reactor. A `std::mutex` is not fair, so weak fairness of a thread that waits for it
  says no more than that it gets the lock once the others leave it alone; they do, since clients send
  finitely many lines. The client in `Lazy` never has to read: the reactor still serves everybody else, and the
  threaded server owes nothing while such a client keeps the holder of the mutex in `send` (`Stuck`).
  The property is about what happens again and again, so it does not promise anything of a moment.
* `PipelineFinishes` (`shell`): weak fairness of the shell's own steps and of every process. Nobody has to press
  Ctrl+C or type anything, and pipelines in which a program waits for a signal are excused (`NeedsSignal`):
  one that sleeps, and one that writes for ever to something other than a pipe.

*Steps of clients.* During a turn of the server's loop a client of `RoomsServer` may
only fail. The loop looks at a descriptor twice, in `poll` and in its service; whatever
else a client does after the one is noticed by the other if `poll` has reported that
descriptor for the same reason, which is as if it had come before `poll`, or it is not
noticed in this turn, which is as if it had come after. A failure is different, for it can
be noticed by `send` alone.

## What the violated runs show

`index_replay`: a crash between an index's `sync` and `truncate` makes the next open
replay a journal whose entries are in the file already; `insert_dup` keeps both,
and queries print the row twice. `35-db-wal.md:325` says that nothing changes.

`torn_journal`: an INSERT writes a part of its record and fails, and its error is printed. The next one is written, synced and
answered behind that part, and is in no replay from then on (`wal.cpp:82`, `98-113`, `main.cpp:191`). `35-db-wal.md:328` says of the
moments of a crash that none loses data after an answer. In `database` everything else that could lose a row is shown not to.

`rooms_survive`: one client is in a room; another says Hello with a name that is accepted
and joins. The notice that it has entered does not fit a frame, `encode` throws, the
loop catches and drops the client, and `leave_room` composes a notice with the same name,
this time outside the `try`. Chapter 45 says that the server has to survive any
sequence of input (`45-chat-rooms.md:103`). In `rooms_server` names and rooms are short
and only texts are too long; that exception is handled as it should be.

## Where the code is weaker than one may expect

The properties that pass say exactly how far the code goes; what they excuse, the code gets wrong:

* *A torn journal.* `log_insert` fails after it has written a part of a record (a full disk,
  `wal.cpp:82`). The part stays in the file, the next `log_insert` succeeds, is fsynced and
  answered, and stands behind it; `replay()` stops in front. `wal.h:34` promises durability for
  every record. `HeardRecordsSurvive` is what does hold: a record appended to a journal without a torn tail
  is never lost. `AckedRowsStay` and `ImplementsRowStore` do not count an INSERT that is answered behind one, `IndexFindsAckedRows` leaves out the
  entries behind one in the index's own journal, and `IndexNeverAhead` what comes after a crash that lost records of the table so, since the
  index's journal may be sound: a plain kill then leaves an index ahead of its table. `torn_journal` shows that the excuse is needed.
* *A torn checkpoint.* `sync()` writes pages over their old versions one by one (`page_manager.cpp:152`), and an eviction
  does so long before any checkpoint (`page_manager.cpp:70`); a crash in between leaves a tree of pages of
  different ages. An example: two rows are checkpointed, the journal is emptied, and a third row splits the root. The next checkpoint writes the left
  half of the old leaf and stops. The file's root is still that leaf: the upper half of it is gone, and the journal has only
  the third row. `35-db-wal.md:25` argues that replay makes it unnecessary to know which pages have reached the disk. `FileIsLastCheckpoint` is what does hold, outside of `sync` and
  without evictions. The four properties of `Database` say nothing of a table or an index that a crash has found so, and everything of
  the others.
* *A catalog that is never synced* (`database.cpp:93-102`) may come back older, shorter or empty. The rows stay, and an index that
  is no longer in it is not used, so the properties hold without an excuse for it; `complete` leaves such an index out until CREATE INDEX
  is answered again.
* *Records of the table's journal that a power failure takes* because replay never syncs them (`database.cpp:52`): an index made
  meanwhile is ahead of the table (`37-db-indexes.md:340`), and `IndexNeverAhead` stops at that point (`cutback`).
* *CREATE TABLE with PRIMARY KEY behind the second column* is carried out, and the first one is the key all the same
  (`sql.cpp:174-177`, `database.cpp:130-138`). `36-db-mini-sql.md:34` and the help text (`main.cpp:90`) have it behind the first only.
  `ParserKnowsTheDialect` names this exception, and shows that nothing else outside of `Documented` is carried out.
* *A save of the shell's history that is cut inside a line* leaves a piece which the next session takes for a line. If it equals the line in front of
  it the history has a line that follows itself, which `history_add` never makes; `HistoryKept` allows it for such `pieces` only.
* *An index after an INSERT of an existing id* keeps the old entry, and `run_secondary` prints the row it leads
  to without checking the condition again (`database.cpp:184`, `254-287`). `AnswersAreRight` shows that
  answers are exact if no id was inserted twice, and complete even then.
* *An index after a CREATE TABLE that swaps the columns* takes its new keys from the other column
  (`database.cpp:135`, `182`) and misses rows; `AnswersAreRight` excuses such columns (`crossed`) and nothing else.
* *A CREATE INDEX that fails half way* leaves an incomplete index registered (`database.cpp:116`).
  `IndexFindsAckedRows` is therefore about indexes whose CREATE INDEX was answered.
* *A JOIN with an empty room name* puts the descriptor into `rooms[""]`, from where `leave_room` never removes it
  (`rooms_chat_server.cpp:97`); `MembersAgree` and `ChatRooms` are about named rooms only.
* *A failing `pipe()`* makes the shell close descriptor 0, since the pairs not made yet are `{0, 0}`
  (`pipeline.cpp:180-184`), and *a failing `fork()`* leaves the children that run unreaped (`pipeline.cpp:192-195`).
  `PromptIsClean` excuses descriptor 0 after the one and children after the other.
* *A word that is exactly an operator* acts as one even in quotes, because `parse_pipeline` sees words only
  (`exec_runner.cpp`, `pipeline.cpp:36-58`); `QuotingKeepsWords` leaves those words out.
* *A save whose CHK word is no hexadecimal number* makes `stoul` throw `std::invalid_argument`, which `cmd_load` does
  not catch (`save_manager.cpp:136`, `game.cpp:219`): the game ends with code 2. `LoadIsAllOrNothing` is
  about games that go on. A save with `max_hp` of 0 makes the constructor of the player throw behind the comment that
  nothing can fail any more (`save_manager.cpp:197`), which is harmless: nothing has been assigned by then.
* *Exits that lead nowhere* are accepted by the parser and taken by `go` (`game.cpp:149`): the player is in the
  void, where a dropped item is destroyed. `NeverInTheVoid` is about worlds without such exits, `ItemsConserved` counts the loss.

## What is proved

**PageManagerProofs.tla**, for every cache size of at least one, every number of
pages and every set of contents (`PageManagerAssumption`):

* `Invariance`: `IndInv` is inductive. It is the conjunction of `TypeOK`; `ListInv`, by
  which `lru` lists the cached pages without repetition and is a prefix of the true
  order of use `recency`; `SizeInv`, the order of the sizes (`kept <= durableSize <=
  fileSize <= pageCount`) and blank pages beyond them; and `PageInv`, the three
  properties of the contents. None of the checked invariants is inductive alone: that the victim is
  the least recently used page needs the list to be free of repetitions; that a page
  given out reaches the file needs the cache to agree with the list, since it is the
  eviction that may lose it; that a crash leaves a known version needs clean pages to
  equal the file.
* From it each invariant of the run: `TypeCorrect`, `ListAndMapAgree`, `EvictionOrder`,
  `CleanPagesAreOnFile`, `PagesReachFile`, `CrashSafety`, `SizeSafety`.
* `Refinement`: every step is a step of PageStore or leaves it unchanged.

**WalProofs.tla**, for every number of inserts (`MaxInserts`), crashes, short writes and truncations:

* `Invariance`: `IndInv` is `TypeOK`; `NumbersInv`, by which the bodies in both files are in the order of
  their numbers and younger than the truncation that file has seen; `DiskInv`, how far the disk is behind the file;
  `AckedInv`, that what was acknowledged is in both files, though perhaps behind a torn record; `WholeInv`, that a record
  begun on a journal that ended in a whole one stands at a multiple of three cells; and `HeardInv`. `HeardRecordsSurvive`
  needs `WholeInv`: the moment a record is acknowledged is the moment `replay()` must get to it, and that was
  decided when its first cell was written.
* From it `Durability` (`HeardRecordsSurvive`), `NoHoles` (`ReplayIsPrefix`) and `TruncationIsFinal`
  (`NothingResurrected`). They rest on lemmas about `Replay`: it yields one record for each of the longest run of readable
  triples (`ReplayProperties`), and what a file replays, a longer file that begins with it replays too (`ReplayGrows`).

**DatabaseProofs.tla**, for any ids, values, headers and indexes and any number of statements and crashes
(`DatabaseAssumption`):

* `Invariance`: `IndInv` has the types and is about the structure of `todo`. `CallsInv` says which calls a statement of each kind
  may still have, and that a pair is in the journal before it is put into the tree, and the pages are on the disk
  before the journal is emptied; `InsertInv` and `CreateInv`, that a call which is no longer waiting has had its effect, unless the record went
  behind a torn one; `DownInv`, `AheadInv` and `CompleteInv` relate the stores to the table and to the catalog.
* `Refinement`: `Database` implements `RowStore` (`ImplementsRowStore`), whatever `Garbage` a damaged file is read as.
* `Durability` (`AckedRowsStay`). The strengthening is that while an INSERT of an id is under way no answer for that id counts.
* `IndexesFollow` (`IndexNeverAhead`). What a table and an index have in memory and what replay would give them are related separately,
  since behind a torn record the two differ.
* `IndexesFind` (`IndexFindsAckedRows`), with one more inductive invariant, `FoundInv`: the entry of every answered
  row is in the part of each complete index that a crash cannot take. Its hypothesis `ColumnsStay` says that no
  CREATE TABLE makes another column the first one as far as an index is concerned. It is needed because of the code: `execute_insert`
  takes the key from the column's place in the header of the moment (`database.cpp:135`, `182`), so the entries made before such a
  statement are under another value than the ones looked for. The run's headers satisfy it.

**RoomsServerProofs.tla**, for any number of clients, any frames, rooms and sizes (`RoomsAssumption`):

* `Invariance`: `IndInv` is `TypeOK`; `ConnsInv` (every client is an open connection of its own); `LoopInv` (what a
  turn of the loop is about to touch is still there); `SocketInv` (how much a socket holds); `MembersInv`, which says what remains of the agreement between
  the two maps while an exception is under way: one client may be missing in the room it believes to be in, and
  that client is on its way out; and `FramesInv`, by which a buffer may hold a whole frame only while its client is being served.
* From it `RoomsAgree` (`MembersAgree`) and `NothingLeftBehind` (`NoFrameLeftBehind`). What the handlers do to
  the maps is stated in lemmas for every room, every receiver and every place a broadcast may throw at.
* `Refinement`: `RoomsServer` implements `ChatRooms` (`ImplementsChatRooms`) when `NoticesFit`: every notice about a room, beside
  any name a client may give itself, fits a frame. That hypothesis cannot be dropped: without it `leave_room` throws on the drop path
  and the others keep a member in their room who is gone, which is the finding of `rooms_survive`. It does not bound texts, so messages
  that do not fit, and the drop of who sent them, are in the theorem. Besides `IndInv` it needs `TalkInv`: what lies in the buffers is what
  clients may send (`UpInv`, `WordsInv`), every open connection has a client (`ServedInv`), and the maps agree also while an
  exception is handled. What a handler does is split into where it places the client (`Placed`) and whom it tells a public note
  (`Tells`), so that a frame goes somewhere, says something or is quiet (`Acts`, `ProcessActs`). Two functions of the clients and the
  connections, `PlacesIn` and `ToldIn`, are the refinement mapping; `ActsStep` carries a handler over to the chat. `send` moves notes from the
  queue to the socket and leaves what is told alone (`Alike`), and what a dropped client was told is cut to a beginning (`SentIsPrefix`).
* `FitMeansSurvival`: with `NoticesFit` the program never dies (`Survives`).

**BroadcastProofs.tla**, for any number of connections and descriptors, any lines, any room in the sockets and any clients that do
not read (`SocketsAssumption`):

* `Invariance`: `Inv` has the sockets (`SocketsInv`) and one part for each program. Of the threaded server: where a thread is tells
  whether its connection is open (`StatusInv`) and what was announced of it (`AnnouncedInv`), an open connection has its descriptor for
  itself (`FdInv`), `g_clients` has each registered thread once (`ListInv`), and whoever holds the mutex is at one of three lines and has still to send
  to clients that are in the list (`MutexInv`). Of the reactor: the map has each open connection once (`MapInv`), who is a member
  (`MembersInv`) and what his `send_buf` owes him (`BufferInv`).
* `Descriptors` (`EntriesOwnTheirDescriptors`). `g_clients` is a list of numbers the kernel gives out again; that an entry is never
  another connection's needs that a thread closes its descriptor only after it has left the list.
* `OneConversation` (`ImplementsFeed`). What makes it hold is `HeardInv`: a client that is listed and still there has heard the conversation
  since it joined, but for the one note that is on its way to it; under the mutex there is never a second one.
  The lemmas are about `Only`, and about adding a note to the conversation, by receiver.

**ShellProofs.tla**, for every number of stages, pipe capacity, set of lines and of programs and number of signals
(`PipelineAssumption`, `ShellAssumption`):

* `Invariance`: `IndInv` is `TypeOK`, `LiveInv` and `JobInv`. The types need that `tokenize` and `parse_pipeline` return
  words and commands for every line, which is shown over their folds. `LiveInv` says that whoever lives belongs to
  the pipeline that runs or ran last, and what his table is at each point: every pipe (`HasPipes`) after `fork`, the
  standard descriptors of his place after `dup2` and none above the pipes, none above 2 after the closes, and before the j-th redirection the
  standard descriptors that the redirections before it leave. `JobInv` is the same for the shell at each point of `run_pipeline`, and who
  has been waited for. `StagesWired` alone is about the moment of `exec`; that a stage gets *its* pipe there needs that the
  k-th `pipe()` has returned 2k+1 and 2k+2, which holds as the shell has nothing else open.
* From it `Wiring` (`StagesWired`) and `CleanPrompt` (`PromptIsClean`).
* `HistoryStays` (`HistoryKept`), from `HistoryInv`: at the prompt `g_history` holds everything that was kept and
  everything entered in this session, so a save that is not cut short loses nothing. `Tidy` says of a list that a line follows itself
  only if it is one of a set, here the `pieces`: what a session loads, adds, saves and cuts stays so.

**GameProofs.tla**, for every set of world files, foreign saves, slots and commands (`GameAssumption`):

* `Invariance`: `GameInv` has the types of world, player and text; `SlotOK` of every slot, by which the body of a slot the game
  wrote is the one `save` writes for its snapshot; and `NeverInTheVoid`.
* `AlwaysSomewhere` (`NeverInTheVoid`), `FaithfulSaves` (`SavesAreFaithful`) and `AllOrNothing` (the action property
  `LoadIsAllOrNothing`). That a save reads back needs `Unescape(Escape(name)) = name`, which is false for a name
  with an underscore; no name in the game has one, since all of them went through `unescape`, and this is what the types say (`Text`, `Item`).
* `NothingLost` (`ItemsConserved`), from `ItemsInv`: `GameInv`, the world has finitely many places, the ledger is right, and the due of every
  whole slot is the sum of the items its body names. `AllItems`, `BodyItems` and `DescribedItems` are folds over finite sets in an order nobody knows. The
  lemmas count the copies of an item in a bag (`SumCopies`, `RemoveCopies`, ...), show that such a fold is the same in every
  order (`Sums`), and so that moving one item between two summands (`ItemsChangeHands`) and splitting a set in parts change
  no total. That the world read is the world described (`WorldDescribed`) is by induction over the lines of the file: what lies in the
  world after the first k lines is the sum over those of the k that count, the block that is still open included; a line counts when
  the heading it is under is the first of its id, and this is when `add_location` takes the block (`UnderHeading`).

**SetInduction.tla** has induction over the natural numbers, with and without a bound, for a predicate that is given as a set:
the induction theorems of the library take an operator as a parameter, which no backend here can instantiate, but its theorem of the
least element of a well-founded relation does not. From it come that `Max` and `Min` of finite sets of numbers exist, that the recursive function by which
`FoldLeft` is defined exists (`FoldExists`), and that a fold stays in a set its step keeps to (`FoldStays`). The last part is
what `Only` keeps of a sequence that grows at its end or is made of two (`OnlyAppend`, `OnlyConcat`): the refinements of both chats filter what was sent.

*Assumptions.* A theorem assumes only the ASSUMEs of its model, which TLC evaluates for the constants of each run, `IndexesFind` also `ColumnsStay`, and `Refinement` and `FitMeansSurvival` of `RoomsServerProofs`
also `NoticesFit`, which TLC evaluates for the constants of `rooms_server` (`ShortNames`).
They are types of the constants and what makes an element of a set different from a placeholder (`NoRow \notin Values`,
`"closed" \notin RoomNames`, no line of a client reads like an announcement, which the servers send without a speaker in front). The assumptions on lines and files say that they are sequences of what a line can hold, never that they are well formed.
None of them caps a number, and each `Max...` constant that bounds a run is arbitrary in the proofs.

*Only model-checked.* Out of reach: the liveness properties (`SettlesInTheEnd`, `EveryNoteArrives`, `PipelineFinishes`),
whose fairness is about what is ENABLED. Not proved yet, and why:

* `BPlusTree`, `TableStorage`: the tree after a call is a fold over a path that is a recursive function over nodes. Every
  invariant is about all pages at once, so each needs the shape of the whole tree, with its bounds on keys, as an inductive invariant.
* `Repl`: its properties compare whole statements with a second description of the language.
* `QuotingKeepsWords`: about the exact result of the tokenizer's fold and not only its type.

## Assumptions and abstractions

* The kernel writes one page, and one cell of a record, as a whole or leaves a
  recognisable fragment; a failed fsync does not make it forget what is still to be
  written. Sizes are whole pages.
* Bytes that do not start at a record boundary never carry a matching checksum.
* `Wal`, `BPlusTree` and `Database` take each other's results for granted, with what they may leave half done: torn records, mixed page files
  and trees half changed are damage in `Database`, and it does not say what is read from it. An unsynced truncation before a power failure counts as such
  damage, although it would only bring records back.
* A file that was created is in its directory, whatever is synced. The catalog fits into one block of its stream, so that it is written in one call or
  not at all, and lost from some line on, never within one.
* A constructor that throws is left out, and so is the first `sync` of a fresh page file. After the process ends nothing more is written: `main` leaves
  through `checkpoint`, behind which the destructors find no changed page, or through an exception that nobody catches.
* Left out: statistics counters, message texts, the width of a column in a printed row, and in `Database` the names of
  tables. An index is its column: `CREATE INDEX` with one name for two columns shares files in the code and not here.
* `Repl` parses pieces, not characters: a word is one piece, so what the tokenizer does letter by letter is `Word`.
  A user either types one sentence over and over or works with a table; the two kinds do not mix.
* A line of the simple chats arrives whole. A connection that waits in the backlog has no effect before it is
  accepted. The notes of the greeting are counted in the buffer of the socket and not in the conversation.
* Programs of the shell's pipelines are five kinds (`Behaviour`); data in a pipe is a number of items. `dup2`, `close`
  and `waitpid` succeed. The shell reads a terminal, so it finds the end of its input as soon as descriptor 0 is closed. A program that reads
  the terminal is at its end at once, so `PipelineFinishes` says nothing of one that waits for a user to type, and no line has
  a program that writes for ever to one that copies to the terminal.
* A world file and a save are lists of parsed lines; a checksum notices every damage. Healing and names are small. Every save has its line
  with a name: without one, which no copy of the game writes, `load` keeps the name the player has (`save_manager.cpp:158`).
* A frame to a chat client is sent as a whole: `send` may stop inside one, but the bytes
  keep their order. A name in a notice is the connection that bears it. Sockets are made and
  descriptors accepted without errors; `EINTR` is a retry without effect.
* `MAX_KEYS` must be even (`BPlusTreeAssumption`, with the reason beside it).

## Not modelled

* **The chat client** as a program: its two threads, the stop flag and the `getline` that holds the end of the program up
  (`chat_client.cpp:137`). As the other side of a connection it is in `RoomsServer` and `LineSockets`.
* **The chat's history file** (`history.cpp`), which no server uses; its torn tail is the question of `Wal`.
* **What `echo`, `pwd`, `history` and `help` print**, the two shells or REPLs that save one history file at a time, and
  in the REPL a kill in the middle of saving it.
* **The event bus of the game**, which only its demo uses, and the echo programs, the printing demos, the text filters,
  the language demos, the book and its build: they keep no state or talk to one peer.

## Plan

Modelled first was what can lose data, then what is concurrent, then the programs of a single user. Next:

1. Proofs: the shape of the tree in `BPlusTree`.
2. **ChatClient** against one of the servers, and **History**.
3. Tree inserts whose page calls fail half way; index names in `Database`.
