----------------------------- MODULE TableStorage -----------------------------
(***************************************************************************)
(* A tree on its pages: BPlusTree over the data file a checkpoint writes.  *)
(* An index's tree only grows here; it is stored as a table's is.          *)
(* PageManager::sync writes the dirty pages one by one, in the order of a  *)
(* hash map, so for a while the file holds pages of two trees.  The        *)
(* journal holds the inserts since the last truncate: the elements of log  *)
(* after the first truncated ones.                                         *)
(*                                                                         *)
(* A restart reads the file's tree and replays the journal on it.  Nothing *)
(* of that is an action: whether the rows the journal no longer has are in *)
(* the file's tree is decided when the process stops, and replay does not  *)
(* bring them back.                                                        *)
(***************************************************************************)
EXTENDS BPlusTree

CONSTANTS CachePages,  \* how many pages the cache of the PageManager holds
          MaxStored    \* bound on the number of inserts, if pages are written

ASSUME TableStorageAssumption == CachePages \in Nat \ {0} /\ MaxStored \in Nat

VARIABLES file,       \* page -> its content in the file
          pc,         \* "idle", "sync" or "truncate": where a checkpoint is
          truncated   \* how many of the inserts are no longer in the journal

storageVars == <<vars, file, pc, truncated>>

\* The pages as the cache holds them, the metadata in page 0.
Meta(r) == [root |-> r]
Cached == (0 :> Meta(root)) @@ node

\* A page the file was extended over and that was never written.
Hole == [hole |-> TRUE]

\* The constructor of the tree ends in a sync.
InitStorage ==
  /\ Init
  /\ file = Cached
  /\ pc = "idle"
  /\ truncated = 0

Unwritten == DOMAIN file = {0, 1} /\ file[1].keys = << >>

InsertPair(k, v) ==
  /\ pc = "idle"
  /\ Unwritten \/ Len(log) < MaxStored
  /\ Insert(k, v) \/ InsertDup(k, v)
  /\ UNCHANGED <<file, pc, truncated>>

Stored == unique /\ Len(log) <= MaxStored

StartCheckpoint ==
  /\ pc = "idle"
  /\ Stored
  /\ pc' = "sync"
  /\ UNCHANGED <<vars, file, truncated>>

\* A slip: the metadata page is not marked dirty.
DirtyNodes == {p \in DOMAIN Cached \ {0} : p \notin DOMAIN file \/ file[p] # Cached[p]}

Dirty == {p \in DOMAIN Cached : p \notin DOMAIN file \/ file[p] # Cached[p]}

\* flush_entry: one page, and a hole up to it if it lies beyond the end.
WriteBack(p) == file' = (p :> Cached[p]) @@ file @@ [q \in 0 .. p |-> Hole]

FlushPage ==
  /\ pc = "sync"
  /\ \E p \in Dirty : WriteBack(p)
  /\ UNCHANGED <<vars, pc, truncated>>

\* The pages do not all fit into the cache: any may be evicted between inserts.
Fits == Cardinality(DOMAIN Cached) <= CachePages

EvictPage ==
  /\ pc = "idle"
  /\ Stored /\ ~Fits
  /\ \E p \in Dirty : WriteBack(p)
  /\ UNCHANGED <<vars, pc, truncated>>

SyncDone ==
  /\ pc = "sync"
  /\ Dirty = {}
  /\ pc' = "truncate"
  /\ UNCHANGED <<vars, file, truncated>>

TruncateJournal ==
  /\ pc = "truncate"
  /\ truncated' = Len(log)
  /\ pc' = "idle"
  /\ UNCHANGED <<vars, file>>

NextStorage ==
  \/ \E k \in Keys : InsertPair(k, Len(log) + 1)
  \/ StartCheckpoint
  \/ FlushPage
  \/ EvictPage
  \/ SyncDone
  \/ TruncateJournal

SpecStorage == InitStorage /\ [][NextStorage]_storageVars

-----------------------------------------------------------------------------
(* What must hold.                                                         *)

\* find() on the file's tree, as a set.  A page that is not in the file cannot
\* be read; a hole reads as a node whose only child is page 0, and in page 0
\* there are no keys, or no way out.
FileFind(k) ==
  LET depth == Cardinality(DOMAIN file)
      below[d \in 0 .. depth, p \in Nat] ==
        IF d = 0 \/ p = 0 \/ p \notin DOMAIN file \/ file[p] = Hole THEN {}
        ELSE IF file[p].leaf
             THEN {file[p].values[i] : i \in {j \in DOMAIN file[p].keys : file[p].keys[j] = k}}
             ELSE below[d - 1, file[p].children[UpperBound(file[p].keys, k) + 1]]
  IN  below[depth, file[0].root]

LastInserted(k, n) ==
  LET at == {i \in 1 .. n : log[i][1] = k}
  IN  IF at = {} THEN {} ELSE {log[Max(at)][2]}

\* As long as the tree fits into the cache, a crash outside a sync finds in the
\* file exactly the rows of the last checkpoint: the splits and new roots made
\* since, which the journal replays, have left the file's tree alone.
FileIsLastCheckpoint ==
  pc = "idle" /\ Fits =>
    \A k \in Keys : FileFind(k) = LastInserted(k, truncated)
=============================================================================
