------------------------------ MODULE PageStore ------------------------------
(***************************************************************************)
(* What the page file of demo-db promises the B+ tree above it: an array   *)
(* of pages that grows at its end, whose reads return the last write, and  *)
(* which a crash may take back page by page, but never behind the last     *)
(* completed sync().  There is no cache, no eviction and no fsync here:    *)
(* PageManager.tla has them and is shown to implement this specification.  *)
(***************************************************************************)
EXTENDS Naturals

CONSTANTS Contents,   \* what a 4096-byte page can hold
          Blank,      \* the all-zero page
          MaxPages    \* bound on the number of pages of a file

PageIds == 0 .. (MaxPages - 1)

VARIABLES store,     \* page -> what a read returns
          count,     \* page_count()
          used,      \* pages 0..used-1 include every page ever handed out or written
          kept,      \* the value of used at the last completed sync
          versions,  \* page -> what it has held since the last completed sync
          reply      \* what the last call returned

vars == <<store, count, used, kept, versions, reply>>

Replies == {"none", "ok", "error"} \cup Contents

TypeOK ==
  /\ store \in [PageIds -> Contents]
  /\ count \in 0 .. MaxPages
  /\ used \in 0 .. MaxPages
  /\ kept \in 0 .. MaxPages
  /\ versions \in [PageIds -> SUBSET Contents]
  /\ reply \in Replies

Init ==
  /\ store = [p \in PageIds |-> Blank]
  /\ count = 0
  /\ used = 0
  /\ kept = 0
  /\ versions = [p \in PageIds |-> {Blank}]
  /\ reply = "none"

Read(p) ==
  /\ p < count
  /\ reply' = store[p]
  /\ UNCHANGED <<store, count, used, kept, versions>>

Write(p, c) ==
  /\ p < count
  /\ store' = [store EXCEPT ![p] = c]
  /\ versions' = [versions EXCEPT ![p] = @ \cup {c}]
  /\ used' = IF p < used THEN used ELSE p + 1
  /\ reply' = "ok"
  /\ UNCHANGED <<count, kept>>

\* A new page reads as zeros.
Allocate ==
  /\ count < MaxPages
  /\ count' = count + 1
  /\ used' = count + 1
  /\ reply' = "ok"
  /\ UNCHANGED <<store, kept, versions>>

\* An allocation that fails still consumes its number: the caller gets an
\* exception and nobody owns the page.
AllocateFails ==
  /\ count < MaxPages
  /\ count' = count + 1
  /\ reply' = "error"
  /\ UNCHANGED <<store, used, kept, versions>>

\* Any other call may fail, and then changes nothing a reader can see.
Fails ==
  /\ reply' = "error"
  /\ UNCHANGED <<store, count, used, kept, versions>>

\* A call that takes several steps begins: nothing is answered yet.
Call ==
  /\ reply' = "none"
  /\ UNCHANGED <<store, count, used, kept, versions>>

\* sync() returned: every page is now exactly what a read returns.
Synced(answer) ==
  /\ versions' = [p \in PageIds |-> {store[p]}]
  /\ kept' = used
  /\ reply' = answer
  /\ UNCHANGED <<store, count, used>>

\* The process or the machine stops.  Each page independently falls back to
\* something it held since the last sync, and the file may lose pages
\* that were added after it.
Crash ==
  \E n \in kept .. count :
    /\ count' = n
    /\ used' = n
    /\ store' \in [PageIds -> Contents]
    /\ \A p \in PageIds :
         IF p < n THEN store'[p] \in versions[p] ELSE store'[p] = Blank
    /\ versions' = [p \in PageIds |-> IF p < n THEN versions[p] ELSE {Blank}]
    /\ reply' = "none"
    /\ UNCHANGED kept

Next ==
  \/ \E p \in PageIds : Read(p)
  \/ \E p \in PageIds, c \in Contents : Write(p, c)
  \/ Allocate
  \/ AllocateFails
  \/ Fails
  \/ Call
  \/ \E answer \in {"none", "ok"} : Synced(answer)
  \/ Crash

Spec == Init /\ [][Next]_vars
=============================================================================
