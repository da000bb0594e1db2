------------------------------- MODULE RowStore -------------------------------
(***************************************************************************)
(* What a Database promises of the rows of its table, without a journal, a *)
(* page or an index: the row a query shows, the rows a crash may leave     *)
(* behind, and that an INSERT is answered only when it is one and the same *)
(* row.  A table that was damaged promises nothing.  Database.tla          *)
(* implements this module.                                                 *)
(***************************************************************************)
CONSTANTS Ids,      \* primary keys
          Values,   \* values of the second column
          NoRow     \* there is no row with that key

VARIABLES shown,     \* what a query finds for each id
          safe,      \* what it may find after a crash
          pending,   \* the INSERT under way: {<<id, value>>}, or {}
          acked,     \* the row the last INSERT of an id was answered for with
          lost       \* the table was damaged: nothing is promised any more

vars == <<shown, safe, pending, acked, lost>>

Cells == Values \cup {NoRow}

TypeOK ==
  /\ shown \in [Ids -> Cells]
  /\ safe \in [Ids -> (SUBSET Cells) \ {{}}]
  /\ pending \in {{}} \cup {{row} : row \in Ids \X Values}
  /\ acked \in [Ids -> Cells]
  /\ lost \in BOOLEAN

Init ==
  /\ shown = [id \in Ids |-> NoRow]
  /\ safe = [id \in Ids |-> {NoRow}]
  /\ pending = {}
  /\ acked = [id \in Ids |-> NoRow]
  /\ lost = FALSE

-----------------------------------------------------------------------------
\* From here on the earlier row of that id may be replaced at any moment.
Begin(id, v) ==
  /\ pending = {}
  /\ pending' = {<<id, v>>}
  /\ acked' = [acked EXCEPT ![id] = NoRow]
  /\ UNCHANGED <<shown, safe>>

Apply ==
  /\ \E row \in pending : shown' = [shown EXCEPT ![row[1]] = row[2]]
  /\ UNCHANGED <<safe, pending, acked>>

\* The rows of id that may be found from here on: none that was not shown,
\* not safe and is not being inserted.
Possible(id) ==
  safe[id] \cup {shown[id]} \cup {row[2] : row \in {r \in pending : r[1] = id}}

\* The journal or the data file changed.
Settle ==
  /\ safe' \in [Ids -> (SUBSET Cells) \ {{}}]
  /\ \A id \in Ids : safe'[id] \subseteq Possible(id)
  /\ UNCHANGED <<shown, pending, acked>>

Acknowledge ==
  /\ \E row \in pending :
       /\ shown[row[1]] = row[2]
       /\ safe[row[1]] = {row[2]}
       /\ acked' = [acked EXCEPT ![row[1]] = row[2]]
  /\ pending' = {}
  /\ UNCHANGED <<shown, safe>>

\* The statement failed, or was answered without a promise: its row may be there or
\* not, now and after a crash.
GiveUp ==
  /\ pending' = {}
  /\ safe' \in [Ids -> (SUBSET Cells) \ {{}}]
  /\ \A id \in Ids : safe'[id] \subseteq Possible(id)
  /\ UNCHANGED <<shown, acked>>

Crash ==
  /\ pending' = {}
  /\ shown' \in [Ids -> Cells]
  /\ safe' \in [Ids -> (SUBSET Cells) \ {{}}]
  /\ \A id \in Ids : shown'[id] \in Possible(id) /\ safe'[id] \subseteq Possible(id)
  /\ UNCHANGED acked

Keep ==
  \/ \E id \in Ids, v \in Values : Begin(id, v)
  \/ Apply
  \/ Settle
  \/ Acknowledge
  \/ GiveUp
  \/ Crash

\* The table is damaged, or was: whatever is read from it, or put into it.
Ruin == TypeOK'

Next ==
  \/ ~lost' /\ ~lost /\ Keep
  \/ lost' /\ Ruin

Spec == Init /\ [][Next]_vars

-----------------------------------------------------------------------------
\* A row the program has answered for is shown, and is the only one a crash can
\* leave, until another INSERT of its id begins (execute_insert prints its
\* "1 строка" after the journal is synced).
AckedRowsStay ==
  ~lost => \A id \in Ids : acked[id] # NoRow => shown[id] = acked[id] /\ safe[id] = {acked[id]}
=============================================================================
