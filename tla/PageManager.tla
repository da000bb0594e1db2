----------------------------- MODULE PageManager -----------------------------
(***************************************************************************)
(* demo-db/src/page_manager.cpp: a file of 4096-byte pages behind a        *)
(* write-back LRU cache, single-threaded, as the process, the kernel's     *)
(* page cache and the disk see it.                                         *)
(*                                                                         *)
(*   cache_, lru_, page_count_   die with the process                      *)
(*   file, fileSize              the kernel's view: survive a killed       *)
(*                               process, not a power loss                 *)
(*   durable, durableSize        what the disk holds                       *)
(*                                                                         *)
(* The kernel may write any page back at any moment (Writeback), so the    *)
(* disk may hold some pages of a batch and not the others.  Assumed of the *)
(* kernel: the write of ONE page is all or nothing, and a failed fsync     *)
(* does not forget which pages it still has to write.                      *)
(***************************************************************************)
EXTENDS Naturals, FiniteSets, SequencesExt

CONSTANTS Contents,   \* what a page can hold
          Blank,      \* make_page(): all zeros, and what lies past end of file
          CacheSize,  \* cache_size_
          MaxPages    \* bound on page_count_

ASSUME PageManagerAssumption ==
  /\ Blank \in Contents
  /\ CacheSize \in Nat \ {0}
  /\ MaxPages \in Nat

PageIds == 0 .. (MaxPages - 1)

VARIABLES pc,           \* idle, inside sync() or the destructor, or not running
          pageCount,    \* page_count_
          cache,        \* cache_: page id -> entry, on the cached ids only
          lru,          \* lru_: front is the most recently used
          file, fileSize,
          durable, durableSize,
          reply,        \* what the last call returned
          versions,     \* history: what each page held since the last sync
          used,         \* history: bound of the pages handed out or written
          kept,         \* history: value of used at the last completed sync
          recency       \* history: every page by its last use, latest first

process == <<pc, pageCount, cache, lru>>
disk == <<file, fileSize, durable, durableSize>>
history == <<versions, used, kept, recency>>
vars == <<process, disk, history, reply>>

Entry == [page : Contents, dirty : BOOLEAN]
Cached == DOMAIN cache

TypeOK ==
  /\ pc \in {"idle", "sync", "close", "closing", "down"}
  /\ pageCount \in 0 .. MaxPages
  /\ Cached \subseteq PageIds
  /\ cache \in [Cached -> Entry]
  /\ lru \in Seq(PageIds)
  /\ file \in [PageIds -> Contents]
  /\ durable \in [PageIds -> Contents]
  /\ fileSize \in 0 .. MaxPages
  /\ durableSize \in 0 .. MaxPages
  /\ reply \in {"none", "ok", "error"} \cup Contents
  /\ versions \in [PageIds -> SUBSET Contents]
  /\ used \in 0 .. MaxPages
  /\ kept \in 0 .. MaxPages
  /\ recency \in Seq(PageIds)

Init ==
  /\ pc = "down"
  /\ pageCount = 0
  /\ cache = << >>
  /\ lru = << >>
  /\ file = [p \in PageIds |-> Blank]
  /\ fileSize = 0
  /\ durable = file
  /\ durableSize = 0
  /\ reply = "none"
  /\ versions = [p \in PageIds |-> {Blank}]
  /\ used = 0
  /\ kept = 0
  /\ recency = << >>

-----------------------------------------------------------------------------
(* Slips the properties below must notice, each in the place of the        *)
(* definition it is named after.                                           *)

\* A hit does not count as a use.
TouchNothing(p) == UNCHANGED lru

\* The size of the file is not adjusted, or is off by one.
ExtendedNever(p) == fileSize
ExtendedTooFar(p) == IF p < fileSize THEN fileSize ELSE p + 2

\* flush_entry clears the flag without writing, or writes another page.
FlushNothing(p) == UNCHANGED <<file, fileSize>>
FlushBlank(p) ==
  /\ file' = [file EXCEPT ![p] = Blank]
  /\ fileSize' = IF p < fileSize THEN fileSize ELSE p + 1

\* The victim is dropped as it is, or stays in the list.
DropVictim == UNCHANGED <<file, fileSize>>
KeepVictimInList == lru

-----------------------------------------------------------------------------
(* The pieces of the cache.                                                *)

\* What a caller sees of page p, cached or not.
View(p) == IF p \in Cached THEN cache[p].page ELSE file[p]

\* touch: p leaves its place in the list, if it has one, for the front.
ToFront(s, p) ==
  IF \E i \in 1 .. Len(s) : s[i] = p
  THEN <<p>> \o RemoveAt(s, CHOOSE i \in 1 .. Len(s) : s[i] = p)
  ELSE <<p>> \o s

\* The entry is in the cache already: only its place in the list changes.
Touch(p) == lru' = ToFront(lru, p)

\* The file after pwrite of page p: a hole before it reads as zeros.
Extended(p) == IF p < fileSize THEN fileSize ELSE p + 1

\* flush_entry, when pwrite succeeds.
FlushEntry(p) ==
  IF cache[p].dirty
  THEN /\ file' = [file EXCEPT ![p] = cache[p].page]
       /\ fileSize' = Extended(p)
  ELSE UNCHANGED <<file, fileSize>>

\* evict_one_if_full: the entries and the order that remain, and its pwrite.
Full == Cardinality(Cached) >= CacheSize
Victim == lru[Len(lru)]
Remaining == IF Full THEN Cached \ {Victim} ELSE Cached
LruRest == IF Full THEN SubSeq(lru, 1, Len(lru) - 1) ELSE lru
EvictOneIfFull == IF Full THEN FlushEntry(Victim) ELSE UNCHANGED <<file, fileSize>>
EvictFails == Full /\ cache[Victim].dirty

\* A fresh entry enters the cache, after an eviction if there was no room.
Insert(p, entry) ==
  /\ EvictOneIfFull
  /\ cache' = [q \in Remaining \cup {p} |-> IF q = p THEN entry ELSE cache[q]]
  /\ lru' = <<p>> \o LruRest
  /\ recency' = ToFront(recency, p)

\* load_into_cache(p), whose caller then leaves `entry` there.
LoadIntoCache(p, entry) ==
  \/ /\ p \in Cached
     /\ cache' = [cache EXCEPT ![p] = entry]
     /\ Touch(p)
     /\ recency' = ToFront(recency, p)
     /\ UNCHANGED <<file, fileSize>>
  \/ /\ p \notin Cached
     /\ Insert(p, entry)

-----------------------------------------------------------------------------
(* The calls.                                                              *)

ReadPage(p) ==
  /\ pc = "idle"
  /\ p < pageCount
  /\ LoadIntoCache(p, IF p \in Cached THEN cache[p]
                      ELSE [page |-> file[p], dirty |-> FALSE])
  /\ reply' = View(p)
  /\ UNCHANGED <<pc, pageCount, durable, durableSize, versions, used, kept>>

WritePage(p, c) ==
  /\ pc = "idle"
  /\ p < pageCount
  /\ LoadIntoCache(p, [page |-> c, dirty |-> TRUE])
  /\ reply' = "ok"
  /\ versions' = [versions EXCEPT ![p] = @ \cup {c}]
  /\ used' = IF p < used THEN used ELSE p + 1
  /\ UNCHANGED <<pc, pageCount, durable, durableSize, kept>>

\* read_page or write_page past the end throws before it touches anything.
OutOfRange(p) ==
  /\ pc = "idle"
  /\ p >= pageCount
  /\ reply' = "error"
  /\ UNCHANGED <<process, disk, history>>

\* load_into_cache throws: pwrite of the victim fails and nothing has
\* changed, or pread fails and the victim is already gone.
LoadFails(p) ==
  /\ pc = "idle"
  /\ p < pageCount
  /\ p \notin Cached
  /\ \/ EvictFails /\ UNCHANGED <<cache, lru, file, fileSize>>
     \/ /\ EvictOneIfFull
        /\ cache' = [q \in Remaining |-> cache[q]]
        /\ lru' = LruRest
  /\ reply' = "error"
  /\ UNCHANGED <<pc, pageCount, durable, durableSize, history>>

AllocatePage ==
  /\ pc = "idle"
  /\ pageCount < MaxPages
  /\ pageCount' = pageCount + 1
  /\ Insert(pageCount, [page |-> Blank, dirty |-> TRUE])
  /\ reply' = "ok"
  /\ used' = pageCount + 1
  /\ UNCHANGED <<pc, durable, durableSize, versions, kept>>

\* page_count_ is already incremented when the eviction throws.
AllocateFails ==
  /\ pc = "idle"
  /\ pageCount < MaxPages
  /\ EvictFails
  /\ pageCount' = pageCount + 1
  /\ reply' = "error"
  /\ UNCHANGED <<pc, cache, lru, disk, history>>

\* sync() is called, by the user or by the destructor.
SyncStart ==
  /\ pc = "idle"
  /\ pc' \in {"sync", "close"}
  /\ reply' = "none"
  /\ UNCHANGED <<pageCount, cache, lru, disk, history>>

\* One turn of sync()'s loop; unordered_map fixes no order.
SyncFlush(p) ==
  /\ pc \in {"sync", "close"}
  /\ p \in Cached
  /\ cache[p].dirty
  /\ FlushEntry(p)
  /\ cache' = [cache EXCEPT ![p].dirty = FALSE]
  /\ UNCHANGED <<pc, pageCount, lru, durable, durableSize, history, reply>>

\* The loop is over and fsync succeeds.
SyncDone ==
  /\ pc \in {"sync", "close"}
  /\ \A p \in Cached : ~cache[p].dirty
  /\ pc' = IF pc = "sync" THEN "idle" ELSE "closing"
  /\ reply' = IF pc = "sync" THEN "ok" ELSE "none"
  /\ durable' = file
  /\ durableSize' = fileSize
  /\ versions' = [p \in PageIds |-> {View(p)}]
  /\ kept' = used
  /\ UNCHANGED <<pageCount, cache, lru, file, fileSize, used, recency>>

\* pwrite or fsync fails: sync() throws, the destructor swallows it.
SyncFails ==
  /\ pc \in {"sync", "close"}
  /\ pc' = IF pc = "sync" THEN "idle" ELSE "closing"
  /\ reply' = IF pc = "sync" THEN "error" ELSE reply
  /\ UNCHANGED <<pageCount, cache, lru, disk, history>>

\* The process's memory is gone; `size` pages are left in the file.
Forget(size) ==
  /\ pc' = "down"
  /\ pageCount' = 0
  /\ cache' = << >>
  /\ lru' = << >>
  /\ recency' = << >>
  /\ reply' = "none"
  /\ used' = size
  /\ versions' = [p \in PageIds |-> IF p < size THEN versions[p] ELSE {Blank}]

\* The last step of the destructor.
Close ==
  /\ pc = "closing"
  /\ Forget(fileSize)
  /\ UNCHANGED <<disk, kept>>

-----------------------------------------------------------------------------
(* The environment.                                                        *)

\* The constructor on an existing file, whose size is a multiple of a page.
Open ==
  /\ pc = "down"
  /\ pc' = "idle"
  /\ pageCount' = fileSize
  /\ UNCHANGED <<cache, lru, disk, history, reply>>

\* The process dies wherever it is; the kernel keeps what was written.
Kill ==
  /\ pc # "down"
  /\ Forget(fileSize)
  /\ UNCHANGED <<disk, kept>>

\* The kernel writes a page to the disk of its own accord.
Writeback(p) ==
  /\ p < fileSize
  /\ durable' = [durable EXCEPT ![p] = file[p]]
  /\ durableSize' = IF p < durableSize THEN durableSize ELSE p + 1
  /\ UNCHANGED <<process, file, fileSize, history, reply>>

\* The machine stops: only the disk is left.
PowerLoss ==
  /\ Forget(durableSize)
  /\ file' = durable
  /\ fileSize' = durableSize
  /\ UNCHANGED <<durable, durableSize, kept>>

Next ==
  \/ \E p \in PageIds : ReadPage(p)
  \/ \E p \in PageIds, c \in Contents : WritePage(p, c)
  \/ \E p \in PageIds : OutOfRange(p)
  \/ \E p \in PageIds : LoadFails(p)
  \/ AllocatePage
  \/ AllocateFails
  \/ SyncStart
  \/ \E p \in PageIds : SyncFlush(p)
  \/ SyncDone
  \/ SyncFails
  \/ Close
  \/ Open
  \/ Kill
  \/ \E p \in PageIds : Writeback(p)
  \/ PowerLoss

Spec == Init /\ [][Next]_vars

-----------------------------------------------------------------------------
(* What must hold.                                                         *)

\* lru_ lists exactly the cached pages, each once, and there are never
\* more of them than cache_size_: a stale or doubled list entry would make
\* evict_one_if_full dereference a page the map does not have.
LruMatchesCache ==
  /\ Len(lru) = Cardinality(Cached)
  /\ Len(lru) <= CacheSize
  /\ Cached = {lru[i] : i \in 1 .. Len(lru)}

\* The victim of an eviction is the page used longest ago, also after calls
\* that failed half way: the list is the latest part of the true order of use.
EvictsLeastRecent ==
  /\ Len(lru) <= Len(recency)
  /\ \A i \in 1 .. Len(lru) : lru[i] = recency[i]

\* A clean entry may be dropped without writing it, so it must equal the
\* page of the file at every moment, between the steps of sync() too.
CleanMatchesFile ==
  \A p \in Cached : ~cache[p].dirty => cache[p].page = file[p]

\* Every page the tree was given is in the file or is about to be
\* written there; after a completed sync it is on the disk.
UsedPagesReachFile ==
  pc # "down" /\ used > fileSize =>
    /\ used - 1 \in Cached
    /\ cache[used - 1].dirty

\* Whatever instant the process or the machine dies at, each page comes back
\* as something it held since the last sync: nothing invented, nothing older.
CrashKeepsAVersion ==
  \A p \in PageIds :
    /\ View(p) \in versions[p]
    /\ file[p] \in versions[p]
    /\ durable[p] \in versions[p]

\* No crash shortens the file below what a completed sync() covered.
SyncedSizeSurvives == kept <= durableSize

\* The page array of PageStore, as the page manager implements it.
Store == [p \in PageIds |-> View(p)]
Size == IF pc = "down" THEN fileSize ELSE pageCount

P == INSTANCE PageStore WITH store <- Store, count <- Size

\* The page manager implements PageStore: eviction, the flush loop and
\* write-back are invisible, and a crash loses no more than PageStore!Crash
\* allows.
ImplementsPageStore == P!Spec
=============================================================================
