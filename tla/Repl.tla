-------------------------------- MODULE Repl --------------------------------
(***************************************************************************)
(* demo-db/src/main.cpp, and what database.cpp makes of a statement: the   *)
(* lines a user types, the statements cut out of them, and the answers.    *)
(* Here a table is a map and an index a list of pairs in the order they    *)
(* were added, and both survive everything: BPlusTree and Database say how *)
(* far that goes.  A line is a sequence of pieces, as for SqlParser.       *)
(***************************************************************************)
EXTENDS SqlParser, FiniteSetsExt, TLC

CONSTANTS Lines,        \* the lines someone at work types
          Probes,       \* lines that someone types over and over
          HistoryLimit, \* kHistoryLimit
          MaxLines,     \* bound on the lines typed
          MaxRestarts   \* bound on the times the program is started again

ASSUME ReplAssumption ==
  /\ HistoryLimit \in Nat \ {0} /\ MaxLines \in Nat /\ MaxRestarts \in Nat

VARIABLES
  pc,         \* "read", "execute" or "stopped"
  user,       \* who types
  buffer,     \* the beginning of a statement
  g_history,
  file,       \* the history file
  table_name, col_names,
  rows,       \* the table: id -> value
  indexes,    \* column -> the pairs <<key, id>>
  last,       \* the last statement: its text, how it was read and what was printed
  lines, restarts,
  typed,      \* history: what was typed of SQL in this session
  done,       \* history: the statements executed in this session
  ever,       \* history: all those whose memory was not lost in a kill
  twice,      \* history: ids inserted again
  crossed     \* history: indexed columns that a CREATE TABLE put in the other place

dbVars == <<table_name, col_names, rows, indexes, twice, crossed>>
vars == <<pc, user, buffer, g_history, file, dbVars, last, lines, restarts, typed, done, ever>>

AtWork == <<>>

Init ==
  /\ pc = "read" /\ user \in {AtWork} \cup Probes /\ buffer = <<>>
  /\ g_history = <<>> /\ file = <<>>
  /\ table_name = "items" /\ col_names = <<"id", "value">>
  /\ rows = <<>> /\ indexes = <<>>
  /\ last = [text |-> <<>>, st |-> NoStatement, printed |-> <<>>]
  /\ lines = 0 /\ restarts = 0
  /\ typed = <<>> /\ done = <<>> /\ ever = <<>> /\ twice = {} /\ crossed = {}

----------------------------------------------------------------------------
(* SELECT.                                                                 *)

\* Of a row <<id, value>>, what stands in a column: every name but the first column's
\* stands for the second.
Cell(row, col) == IF col = col_names[1] THEN row[1] ELSE row[2]

Compare(left, op, right) ==
  CASE op = "="  -> left = right
    [] op = "!=" -> left # right
    [] op = "<"  -> left < right
    [] op = "<=" -> left <= right
    [] op = ">"  -> left > right
    [] op = ">=" -> left >= right

MatchesWhere(where, row) ==
  where = <<>> \/ Compare(Cell(row, where[1]), where[2], where[3])

Scan == LET ids == SetToSortSeq(DOMAIN rows, <)
        IN  [i \in DOMAIN ids |-> <<ids[i], rows[ids[i]]>>]

RunFullScan(where) == SelectSeq(Scan, LAMBDA row : MatchesWhere(where, row))

RunPrimaryEq(where) ==
  IF where[3] \in DOMAIN rows THEN << <<where[3], rows[where[3]]>> >> ELSE <<>>

\* A scan of an index: by key, and equal keys in the order they were added.
ScanIndex(pairs) ==
  LET Before(i, j) == pairs[i][1] < pairs[j][1] \/ (pairs[i][1] = pairs[j][1] /\ i < j)
      order == SortSeq([i \in DOMAIN pairs |-> i], Before)
  IN  [i \in DOMAIN order |-> pairs[order[i]]]

\* The condition is not looked at again in the row the index leads to.
RunSecondary(where) ==
  LET hits == SelectSeq(ScanIndex(indexes[where[1]]),
                        LAMBDA pair : /\ Compare(pair[1], where[2], where[3])
                                      /\ pair[2] \in DOMAIN rows)
  IN  [i \in DOMAIN hits |-> <<hits[i][2], rows[hits[i][2]]>>]

\* plan_select, which EXPLAIN prints ...
Plan(where) ==
  IF where = <<>> THEN "FullScan"
  ELSE IF where[1] = col_names[1] /\ where[2] = "=" THEN "PrimaryLookup"
  ELSE IF where[1] \in DOMAIN indexes
  THEN IF where[2] = "=" THEN "SecondaryLookup" ELSE "SecondaryScan"
  ELSE "FullScan with filter"

\* Slip for Path: an index is preferred to the table's own tree.
PathIndexFirst(where) ==
  IF where = <<>> THEN "full scan"
  ELSE IF where[1] \in DOMAIN indexes THEN "secondary"
  ELSE IF where[1] = col_names[1] /\ where[2] = "=" THEN "primary"
  ELSE "full scan"

\* ... and the chain of conditions in execute_select.
Path(where) ==
  IF where = <<>> THEN "full scan"
  ELSE IF where[1] = col_names[1] /\ where[2] = "=" THEN "primary"
  ELSE IF where[1] \in DOMAIN indexes THEN "secondary"
  ELSE "full scan"

Answer(where) ==
  CASE Path(where) = "full scan" -> RunFullScan(where)
    [] Path(where) = "primary" -> RunPrimaryEq(where)
    [] Path(where) = "secondary" -> RunSecondary(where)

Printed(st) ==
  IF st.explain THEN <<Plan(st.where)>>
  ELSE LET shown == IF st.columns = <<"*">> THEN col_names ELSE st.columns
           found == Answer(st.where)
       IN  [i \in DOMAIN found |-> [k \in DOMAIN shown |-> Cell(found[i], shown[k])]]

----------------------------------------------------------------------------
(* Statements.                                                             *)

Error == <<"Error">>
Ok == <<"OK">>
Reply(text, st, printed) == last' = [text |-> text, st |-> st, printed |-> printed]

Select(text, st) ==
  /\ Reply(text, st, IF st.table = table_name THEN Printed(st) ELSE Error)
  /\ UNCHANGED dbVars

\* Rows and indexes stay as they are, also when a column changes its place.
CreateTable(text, st) ==
  IF Len(st.columns) # 2 THEN Reply(text, st, Error) /\ UNCHANGED dbVars
  ELSE /\ table_name' = st.table /\ col_names' = st.columns
       /\ crossed' = crossed \cup {c \in DOMAIN indexes :
                                     (c = st.columns[1]) # (c = col_names[1])}
       /\ Reply(text, st, Ok)
       /\ UNCHANGED <<rows, indexes, twice>>

Entries(col) == [i \in DOMAIN Scan |-> <<Cell(Scan[i], col), Scan[i][1]>>]

CreateIndex(text, st) ==
  LET col == st.columns[1] IN
  IF st.table # table_name \/ col \notin ToSet(col_names)
  THEN Reply(text, st, Error) /\ UNCHANGED dbVars
  ELSE /\ indexes' = [c \in DOMAIN indexes \cup {col} |->
                        IF c \in DOMAIN indexes THEN indexes[c] ELSE Entries(col)]
       /\ Reply(text, st, Ok)
       /\ UNCHANGED <<table_name, col_names, rows, twice, crossed>>

\* Slip for Indexed: a row that was there already is not added again.
IndexedNewOnly(row) ==
  [c \in DOMAIN indexes |-> IF row[1] \in DOMAIN rows THEN indexes[c]
                            ELSE Append(indexes[c], <<Cell(row, c), row[1]>>)]

\* The row enters every index; an entry of the row it replaces stays.
Indexed(row) == [c \in DOMAIN indexes |-> Append(indexes[c], <<Cell(row, c), row[1]>>)]

Insert(text, st) ==
  IF st.table # table_name \/ Len(st.values) # 2
  THEN Reply(text, st, Error) /\ UNCHANGED dbVars
  ELSE LET id == st.values[1] IN
       /\ rows' = [i \in DOMAIN rows \cup {id} |-> IF i = id THEN st.values[2] ELSE rows[i]]
       /\ indexes' = Indexed(st.values)
       /\ twice' = IF id \in DOMAIN rows THEN twice \cup {id} ELSE twice
       /\ Reply(text, st, Ok)
       /\ UNCHANGED <<table_name, col_names, crossed>>

Execute(text) ==
  LET st == ParseSql(text) IN
  CASE st.kind = "none" -> Reply(text, st, Error) /\ UNCHANGED dbVars
    [] st.kind = "select" -> Select(text, st)
    [] st.kind = "insert" -> Insert(text, st)
    [] st.kind = "create table" -> CreateTable(text, st)
    [] st.kind = "create index" -> CreateIndex(text, st)

----------------------------------------------------------------------------
(* The command history.                                                    *)

\* Slip for Recent: the limit cuts the wrong end off.
RecentFirst(h) == SubSeq(h, 1, IF Len(h) < HistoryLimit THEN Len(h) ELSE HistoryLimit)
Recent(h) == SubSeq(h, IF Len(h) > HistoryLimit THEN Len(h) - HistoryLimit + 1 ELSE 1, Len(h))

HistoryAdd(h, q) == IF h # <<>> /\ Last(h) = q THEN h ELSE Recent(Append(h, q))

----------------------------------------------------------------------------
(* The loop.                                                               *)

\* The text in front of the first "--".
StripComment(line) ==
  LET at == {i \in 1 .. Len(line) - 1 : line[i] = "-" /\ line[i + 1] = "-"}
  IN  IF at = {} THEN line ELSE SubSeq(line, 1, Min(at) - 1)

Trim(text) ==
  LET ink == {i \in DOMAIN text : text[i] # " "}
  IN  IF ink = {} THEN <<>> ELSE SubSeq(text, Min(ink), Max(ink))

\* Only where a statement would begin.
IsMeta(t) == buffer = <<>> /\ Head(t) \in {".quit", ".checkpoint", ".history", ".other"}

\* The checkpoint before it is Database's; it may throw, which is Dies.
Leave ==
  /\ pc' = "stopped" /\ file' = g_history
  /\ buffer' = <<>> /\ typed' = <<>> /\ done' = <<>>

ReadLine ==
  /\ pc = "read" /\ lines < MaxLines
  /\ lines' = lines + 1
  /\ \E line \in IF user = AtWork THEN Lines ELSE {user} :
       LET t == Trim(StripComment(line)) IN
       \/ t = <<>> /\ UNCHANGED <<pc, buffer, file, typed, done>>
       \/ /\ t # <<>> /\ IsMeta(t)
          /\ IF t = <<".quit">> THEN Leave ELSE UNCHANGED <<pc, buffer, file, typed, done>>
       \/ /\ t # <<>> /\ ~IsMeta(t)
          /\ buffer' = (IF buffer = <<>> THEN <<>> ELSE Append(buffer, " ")) \o t
          /\ typed' = typed \o StripComment(line)
          /\ pc' = "execute"
          /\ UNCHANGED <<file, done>>
  /\ UNCHANGED <<user, g_history, dbVars, last, restarts, ever>>

EndOfInput ==
  /\ pc = "read" /\ Leave
  /\ UNCHANGED <<user, g_history, dbVars, last, lines, restarts, ever>>

\* Slip for NextStatement: one statement to a line.
NextStatementOnce ==
  /\ pc = "execute"
  /\ IF SelectInSeq(buffer, LAMBDA p : p = ";") # 0
     THEN LET semi == SelectInSeq(buffer, LAMBDA p : p = ";")
              stmt == SubSeq(buffer, 1, semi)
          IN  /\ buffer' = Trim(SubSeq(buffer, semi + 1, Len(buffer)))
              /\ Execute(stmt)
              /\ g_history' = HistoryAdd(g_history, Trim(stmt))
              /\ done' = Append(done, stmt) /\ ever' = Append(ever, stmt)
     ELSE UNCHANGED <<buffer, dbVars, last, g_history, done, ever>>
  /\ pc' = "read"
  /\ UNCHANGED <<user, file, lines, restarts, typed>>

\* All statements of the buffer that are complete, one at a step.
NextStatement ==
  LET semi == SelectInSeq(buffer, LAMBDA p : p = ";") IN
  /\ pc = "execute"
  /\ \/ LET stmt == SubSeq(buffer, 1, semi) IN
        /\ semi # 0
        /\ buffer' = Trim(SubSeq(buffer, semi + 1, Len(buffer)))
        /\ Execute(stmt)
        /\ g_history' = HistoryAdd(g_history, Trim(stmt))
        /\ done' = Append(done, stmt) /\ ever' = Append(ever, stmt)
        /\ UNCHANGED pc
     \/ /\ semi = 0 /\ pc' = "read"
        /\ UNCHANGED <<buffer, dbVars, last, g_history, done, ever>>
  /\ UNCHANGED <<user, file, lines, restarts, typed>>

\* A kill, an exception of the last checkpoint or a history file that cannot be
\* opened: the history of this session is lost.
Dies ==
  /\ pc # "stopped"
  /\ pc' = "stopped" /\ buffer' = <<>> /\ typed' = <<>> /\ done' = <<>>
  /\ ever' = SubSeq(ever, 1, Len(ever) - Len(done))
  /\ UNCHANGED <<user, g_history, file, dbVars, last, lines, restarts>>

\* The catalog brings back the names and the indexes.
Start ==
  /\ pc = "stopped" /\ restarts < MaxRestarts
  /\ restarts' = restarts + 1
  /\ pc' = "read" /\ g_history' = Recent(file)
  /\ UNCHANGED <<user, buffer, file, dbVars, last, lines, typed, done, ever>>

Next == ReadLine \/ EndOfInput \/ NextStatement \/ Dies \/ Start

Spec == Init /\ [][Next]_vars
----------------------------------------------------------------------------
\* The last statement without its semicolon, and whether it was carried out when it
\* was one that changes the table.
Body ==
  LET toks == Tokenize(last.text)
      shape == Shape(SubSeq(toks.tokens, 1, Len(toks.tokens) - 1))
  IN  IF ~toks.ok THEN <<"?">>
      ELSE IF shape # <<>> /\ Last(shape) = ";" THEN Front(shape) ELSE shape
CarriedOut == last.st.kind \in {"create table", "insert"} => last.printed = Ok

(***************************************************************************)
(* A text is read as a statement exactly when it is a sentence of the      *)
(* Dialect of the parse functions, with or without its semicolon: no list  *)
(* is left half read, nothing that belongs to it is refused.  What that    *)
(* has beyond the documented grammar the executor refuses, with one        *)
(* exception that 36-db-mini-sql.md:34 and the help text (main.cpp:90) do  *)
(* not allow, a PRIMARY KEY behind the second column (sql.cpp:105-243,     *)
(* database.cpp:130-133, 170-172).                                         *)
(***************************************************************************)
ParserKnowsTheDialect ==
  last.text # <<>> =>
    /\ last.st.kind # "none" <=> Body \in Dialect
    /\ last.st.kind # "none" /\ CarriedOut =>
         Body \in Documented \cup {CreateTableOf(c \o <<",">> \o KeyColumn) :
                                     c \in {Column, KeyColumn}}

(***************************************************************************)
(* However a text is spread over lines, its statements are executed whole, *)
(* in order and each once, and before the next line is read all that are   *)
(* complete have been (main.cpp:156-194).                                  *)
(***************************************************************************)
StatementsRunWhole ==
  LET Ink(text) == SelectSeq(text, LAMBDA p : p # " ")
  IN  /\ Ink(typed) = Ink(FlattenSeq(done) \o buffer)
      /\ \A i \in DOMAIN done : Last(done[i]) = ";" /\ ";" \notin ToSet(Front(done[i]))
      /\ pc = "read" => ";" \notin ToSet(buffer)

Conditions ==
  {<<col_names[k], op, n>> : k \in {1, 2}, op \in {"=", "!=", "<", ">="},
                             n \in {Digits[d] : d \in DOMAIN Digits}}

(***************************************************************************)
(* Whichever way a SELECT goes, it finds every row its condition holds of  *)
(* and prints nothing that is not a row.  A row is printed twice, or       *)
(* against the condition, only if some id has been inserted again: its old *)
(* entry is still in the index.  The one thing that makes an index miss    *)
(* rows is a CREATE TABLE that moves its column to the other place         *)
(* (database.cpp:130-138, 170-188, 190-317).                               *)
(***************************************************************************)
AnswersAreRight ==
  pc = "read" =>
    \A where \in Conditions :
      LET answer == Answer(where)
          right == ToSet(SelectSeq(Scan, LAMBDA row : MatchesWhere(where, row)))
          sound == where[1] \notin crossed
      IN  /\ ToSet(answer) \subseteq ToSet(Scan)
          /\ sound => right \subseteq ToSet(answer)
          /\ sound /\ twice = {} => /\ ToSet(answer) = right
                                    /\ Len(answer) = Cardinality(right)

(***************************************************************************)
(* EXPLAIN names the way the SELECT would go: plan_select and              *)
(* execute_select decide separately (database.cpp:205-220, 303-316).       *)
(***************************************************************************)
PlanIsWhatRuns ==
  \A where \in Conditions \cup {<<>>} :
    Path(where) = CASE Plan(where) \in {"FullScan", "FullScan with filter"} -> "full scan"
                    [] Plan(where) = "PrimaryLookup" -> "primary"
                    [] Plan(where) \in {"SecondaryLookup", "SecondaryScan"} -> "secondary"

(***************************************************************************)
(* .history shows the last statements ever executed, those of earlier      *)
(* sessions first, without repetitions in a row; only a session that was   *)
(* killed is missing (main.cpp:37-66, 197-198).                            *)
(***************************************************************************)
HistoryIsTheTail ==
  LET Unlike(h, q) == IF h # <<>> /\ Last(h) = q THEN h ELSE Append(h, q)
      all == FoldLeft(Unlike, <<>>, ever)
  IN  pc # "stopped" => g_history = SubSeq(all, Len(all) - Min({Len(all), HistoryLimit}) + 1,
                                           Len(all))
=============================================================================
