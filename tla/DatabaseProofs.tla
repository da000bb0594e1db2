---------------------------- MODULE DatabaseProofs ----------------------------
(***************************************************************************)
(* Proofs about Database, for any ids, values, headers and indexes and any *)
(* number of statements and crashes: its table is a RowStore, so that what *)
(* was answered for stays; no index is ahead of the table; and an index    *)
(* that was answered for has an entry for every row that was.  What a file *)
(* that a crash left damaged may be read as does not matter to them.       *)
(***************************************************************************)
EXTENDS Database, SequenceTheorems, FiniteSetTheorems, SetInduction

-----------------------------------------------------------------------------
(* Types.                                                                  *)

Pair == Nat \X Nat
TablePair == Ids \X Values
Cells == Values \cup {NoRow}
AllHeaders == Headers \cup {DefaultHeader}

Call == [call : {"log_insert", "insert"}, store : Stores, pair : Pair]
          \cup [call : {"sync", "truncate"}, store : Stores]
          \cup [call : {"open_catalog", "write_catalog"}]

Job == [kind : {"idle", "down", "checkpoint", "create_table"}]
         \cup [kind : {"insert"}, row : TablePair]
         \cup [kind : {"create_index"}, col : IndexColumns]

PairsIn(f) == f \in [Stores -> Seq(Pair)] /\ f[Table] \in Seq(TablePair)

\* The part of the disk that replay depends on.
files == <<pages, log, synced, behind>>

DiskOK ==
  /\ PairsIn(pages) /\ PairsIn(log)
  /\ synced \in [Stores -> Nat]
  /\ \A s \in Stores : synced[s] <= Len(log[s])

SetsOK ==
  /\ mixed \in SUBSET Stores /\ torn \in SUBSET Stores /\ behind \in SUBSET Stores
  /\ unsynced \in SUBSET Stores /\ lost \in SUBSET Stores

Catalogs == {c \in [cols : AllHeaders, indexes : SUBSET IndexColumns] : IsFiniteSet(c.indexes)}

TypeOK ==
  /\ job \in Job
  /\ todo \in Seq(Call)
  /\ cols \in AllHeaders
  /\ open \in SUBSET IndexColumns /\ IsFiniteSet(open)
  /\ PairsIn(mem) /\ DiskOK
  /\ catalog \in Catalogs /\ versions \in SUBSET Catalogs
  /\ acked \in [Ids -> Cells]
  /\ complete \in SUBSET IndexColumns
  /\ cutback \in BOOLEAN
  /\ SetsOK

-----------------------------------------------------------------------------
(* The calls of a statement.                                               *)

\* What the statement gives store s.
Due(s) == IF s = Table THEN job.row ELSE Entry(s, job.row)

\* The row that id has in the table, as the index on c wants it.
EntryOf(c, id) == Entry(c, <<id, Row(mem[Table], id)>>)

\* Each kind of call belongs to some kinds of statement.
CallInv(x) ==
  /\ x.call \in {"log_insert", "insert"} =>
       \/ job.kind = "insert" /\ x.store \in {Table} \cup open /\ x.pair = Due(x.store)
       \/ /\ job.kind = "create_index" /\ x.store = job.col
          /\ \E id \in Ids : Row(mem[Table], id) # NoRow /\ x.pair = EntryOf(job.col, id)
  /\ x.call \in {"sync", "truncate"} =>
       \/ job.kind = "checkpoint" /\ x.store \in {Table} \cup open
       \/ job.kind = "create_index" /\ x.store = job.col
  /\ x.call \in {"open_catalog", "write_catalog"} => job.kind \in {"create_index", "create_table"}

\* The pair was logged, be it behind the torn record where replay does not find it.
Logged(s, pair) ==
  \/ s \in behind
  \/ /\ Len(log[s]) > 0 /\ log[s][Len(log[s])] = pair
     /\ synced[s] = Len(log[s])
InTree(s, pair) == Len(mem[s]) > 0 /\ mem[s][Len(mem[s])] = pair

\* A pair is in the journal before it is put into the tree, and the pages are
\* on the disk before the journal is emptied.
Follows(i) ==
  LET x == todo[i]
  IN  /\ x.call = "insert" => IF i = 1 THEN Logged(x.store, x.pair)
                              ELSE todo[i - 1] = Log(x.store, x.pair)
      /\ x.call = "truncate" => IF i = 1 THEN pages[x.store] = mem[x.store]
                                ELSE todo[i - 1] = Sync(x.store)
      /\ x.call = "open_catalog" => i < Len(todo) /\ todo[i + 1].call = "write_catalog"

CallsInv ==
  /\ \A i \in 1 .. Len(todo) : CallInv(todo[i]) /\ Follows(i)
  /\ job.kind \in {"idle", "down"} => todo = << >>
  /\ job.kind = "create_index" => job.col \in open

\* What is not in todo any more is done.
Waiting(call) == \E i \in 1 .. Len(todo) : todo[i] = call

InsertInv ==
  job.kind = "insert" =>
    /\ \A s \in {Table} \cup open :
         /\ Waiting(Log(s, Due(s))) \/ Logged(s, Due(s))
         /\ Waiting(Put(s, Due(s))) \/ InTree(s, Due(s))
    /\ \A i \in 1 .. Len(todo) : \A j \in 1 .. i : todo[i].store = Table => todo[j].store = Table

CreateInv ==
  job.kind = "create_index" =>
    /\ \A id \in Ids : Row(mem[Table], id) # NoRow =>
         \/ EntryOf(job.col, id) \in ToSet(mem[job.col])
         \/ Waiting(Put(job.col, EntryOf(job.col, id)))
    /\ Waiting(Sync(job.col)) \/ pages[job.col] = mem[job.col]
    /\ \A i \in 1 .. Len(todo) : todo[i].call = "insert" =>
         \E j \in i + 1 .. Len(todo) : todo[j] = Sync(job.col)

-----------------------------------------------------------------------------
(* The stores.                                                             *)

DownInv == ~Up => open = {} /\ \A s \in Stores : mem[s] = << >>

\* No index is ahead of the table, nor the table in memory of the one on disk.  An
\* open table with records behind a torn one is ahead of the disk, and loses them only
\* when the process ends: then cutback says so.
HasRow(pairs, id) == \E i \in 1 .. Len(pairs) : pairs[i][1] = id
Rows0 == IF Up THEN mem[Table] ELSE Recovered(Table)

AheadInv ==
  ~cutback /\ Table \notin lost =>
    /\ Up /\ Table \notin behind =>
         \A id \in Nat : HasRow(mem[Table], id) => HasRow(Recovered(Table), id)
    /\ ~Up => Table \notin behind
    /\ \A c \in IndexColumns \ lost :
         /\ \A e \in ToSet(Recovered(c)) : HasRow(Rows0, e[2])
         /\ \A e \in ToSet(mem[c]) : HasRow(Rows0, e[2])

CompleteInv ==
  \A c \in complete : IF Up THEN c \in open ELSE c \in catalog.indexes /\ c \notin behind

\* What FoundInv needs of the headers: that no CREATE TABLE moves the column of an
\* index to the other place, where its entries would be looked up by another value.
ColumnsStay == \A c \in IndexColumns, h \in Headers : c = h[1] <=> c = DefaultHeader[1]

Kept(c, e) ==
  /\ c \notin behind => e \in ToSet(RecoveredTo(c, synced[c]))
  /\ c \in open => e \in ToSet(mem[c])

FoundInv ==
  Table \notin lost =>
    \A c \in complete \ lost, id \in Ids :
      acked[id] # NoRow => Kept(c, Entry(c, <<id, acked[id]>>))

IndInv == TypeOK /\ CallsInv /\ InsertInv /\ CreateInv /\ DownInv /\ AheadInv /\ CompleteInv

-----------------------------------------------------------------------------
(* Sequences.                                                              *)

\* The first calls of a statement, and what is left after one of them.
LEMMA HeadAndTail ==
  ASSUME NEW S, NEW s \in Seq(S), s # << >>
  PROVE  /\ Len(s) \in Nat /\ Len(s) > 0
         /\ Head(s) = s[1] /\ s[1] \in S
         /\ Tail(s) \in Seq(S) /\ Len(Tail(s)) = Len(s) - 1
         /\ \A i \in 1 .. Len(s) - 1 : Tail(s)[i] = s[i + 1]
<1>1. Len(s) \in Nat /\ Len(s) > 0
  BY EmptySeq
<1>2. s[1] \in S
  BY <1>1, ElementOfSeq
<1> QED
  BY <1>1, <1>2, HeadTailProperties

\* A pair appended, and a prefix of a journal.
LEMMA Appended ==
  ASSUME NEW S, NEW s \in Seq(S), NEW p \in S
  PROVE  /\ Append(s, p) \in Seq(S)
         /\ Len(s) \in Nat /\ Len(Append(s, p)) = Len(s) + 1
         /\ Append(s, p)[Len(s) + 1] = p
         /\ \A i \in 1 .. Len(s) : Append(s, p)[i] = s[i]
BY AppendProperties, LenProperties

LEMMA PrefixOf ==
  ASSUME NEW S, NEW s \in Seq(S), NEW n \in Nat, n <= Len(s)
  PROVE  /\ SubSeq(s, 1, n) \in Seq(S)
         /\ Len(SubSeq(s, 1, n)) = n
         /\ \A i \in 1 .. n : SubSeq(s, 1, n)[i] = s[i]
         /\ SubSeq(s, 1, Len(s)) = s
<1>1. Len(s) \in Nat /\ \A i \in 1 .. n : s[i] \in S
  BY LenProperties, ElementOfSeq
<1>2. n \in 0 .. Len(s) /\ n \in Int /\ 1 \in Int /\ n - 1 + 1 = n /\ (n < 1 => n = 0)
  BY <1>1
<1> QED
  BY <1>1, <1>2, SubSeqProperties, SubSeqFull

LEMMA Concatenated ==
  ASSUME NEW S, NEW s \in Seq(S), NEW t \in Seq(S)
  PROVE  /\ s \o t \in Seq(S)
         /\ Len(s) \in Nat /\ Len(t) \in Nat /\ Len(s \o t) = Len(s) + Len(t)
         /\ \A i \in 1 .. Len(s) : (s \o t)[i] = s[i]
         /\ \A i \in 1 .. Len(t) : (s \o t)[Len(s) + i] = t[i]
<1>1. Len(s) \in Nat /\ Len(t) \in Nat
  BY LenProperties
<1>2. /\ s \o t \in Seq(S)
      /\ Len(s \o t) = Len(s) + Len(t)
      /\ \A i \in 1 .. Len(s) + Len(t) :
           (s \o t)[i] = IF i <= Len(s) THEN s[i] ELSE t[i - Len(s)]
  BY ConcatProperties
<1>3. ASSUME NEW i \in 1 .. Len(t) PROVE (s \o t)[Len(s) + i] = t[i]
  <2>1. Len(s) + i \in 1 .. Len(s) + Len(t) /\ ~(Len(s) + i <= Len(s)) /\ (Len(s) + i) - Len(s) = i
    BY <1>1
  <2> QED
    BY <1>2, <2>1
<1> QED
  BY <1>1, <1>2, <1>3

-----------------------------------------------------------------------------
(* Rows.                                                                   *)

\* Row finds the last pair with the id.
LEMMA RowIs ==
  ASSUME NEW S, NEW s \in Seq(S), NEW id
  PROVE  /\ ~HasRow(s, id) => Row(s, id) = NoRow
         /\ HasRow(s, id) => \E i \in 1 .. Len(s) :
              /\ s[i][1] = id /\ Row(s, id) = s[i][2]
              /\ \A j \in i + 1 .. Len(s) : s[j][1] # id
         /\ \A i \in 1 .. Len(s) :
              s[i][1] = id /\ (\A j \in i + 1 .. Len(s) : s[j][1] # id) => Row(s, id) = s[i][2]
<1> DEFINE at == {i \in 1 .. Len(s) : s[i][1] = id}
<1>1. Len(s) \in Nat /\ DOMAIN s = 1 .. Len(s)
  BY LenProperties
<1>2. Row(s, id) = IF at = {} THEN NoRow ELSE s[Max(at)][2]
  BY <1>1 DEF Row
<1>3. at # {} <=> HasRow(s, id)
  BY DEF HasRow
<1>4. ASSUME at # {}
      PROVE  Max(at) \in at /\ \A y \in at : y <= Max(at)
  <2>1. at \in SUBSET (0 .. Len(s))
    OBVIOUS
  <2> HIDE DEF at
  <2> QED
    BY <1>1, <1>4, <2>1, MaxProperties
<1>5. ASSUME at # {}
      PROVE  \E i \in 1 .. Len(s) :
               /\ s[i][1] = id /\ Row(s, id) = s[i][2]
               /\ \A j \in i + 1 .. Len(s) : s[j][1] # id
  <2> DEFINE m == Max(at)
  <2>1. m \in at /\ \A y \in at : y <= m
    BY <1>4, <1>5
  <2>2. Row(s, id) = s[m][2]
    BY <1>2, <1>5
  <2> HIDE DEF m
  <2>3. \A j \in m + 1 .. Len(s) : j \in 1 .. Len(s) /\ ~(j <= m)
    BY <1>1, <2>1
  <2>4. \A j \in m + 1 .. Len(s) : s[j][1] # id
    BY <2>1, <2>3
  <2> QED
    BY <2>1, <2>2, <2>4
<1>6. ASSUME NEW i \in 1 .. Len(s), s[i][1] = id, \A j \in i + 1 .. Len(s) : s[j][1] # id
      PROVE  Row(s, id) = s[i][2]
  <2>1. i \in at
    BY <1>6
  <2> DEFINE m == Max(at)
  <2>2. m \in at /\ i <= m /\ Row(s, id) = s[m][2]
    BY <1>2, <1>4, <2>1
  <2> HIDE DEF m
  <2>3. m = i
    <3>1. m \in i + 1 .. Len(s) \/ m = i
      BY <1>1, <2>2
    <3> QED
      BY <1>6, <2>2, <3>1
  <2> QED
    BY <2>2, <2>3
<1> QED
  BY <1>2, <1>3, <1>5, <1>6

LEMMA RowNone ==
  ASSUME NEW S, NEW s \in Seq(S), NEW id, ~HasRow(s, id)
  PROVE  Row(s, id) = NoRow
BY RowIs

LEMMA RowSome ==
  ASSUME NEW S, NEW s \in Seq(S), NEW id, HasRow(s, id)
  PROVE  \E i \in 1 .. Len(s) : /\ s[i][1] = id /\ Row(s, id) = s[i][2]
                                /\ \A j \in i + 1 .. Len(s) : s[j][1] # id
BY RowIs

LEMMA RowAt ==
  ASSUME NEW S, NEW s \in Seq(S), NEW id, NEW i \in 1 .. Len(s), s[i][1] = id,
         \A j \in i + 1 .. Len(s) : s[j][1] # id
  PROVE  Row(s, id) = s[i][2]
BY RowIs

\* A pair appended is the row of its id and changes no other.
LEMMA RowAppend ==
  ASSUME NEW S, NEW s \in Seq(S), NEW p \in S, NEW id
  PROVE  /\ Row(Append(s, p), id) = IF p[1] = id THEN p[2] ELSE Row(s, id)
         /\ HasRow(Append(s, p), id) <=> HasRow(s, id) \/ p[1] = id
<1> DEFINE t == Append(s, p)
<1>1. /\ t \in Seq(S) /\ Len(s) \in Nat /\ Len(t) = Len(s) + 1
      /\ t[Len(s) + 1] = p /\ \A i \in 1 .. Len(s) : t[i] = s[i]
  BY Appended
<1> HIDE DEF t
<1>2. HasRow(t, id) <=> HasRow(s, id) \/ p[1] = id
  <2>1. \A i \in 1 .. Len(t) : i \in 1 .. Len(s) \/ i = Len(s) + 1
    BY <1>1
  <2>2. Len(s) + 1 \in 1 .. Len(t) /\ \A i \in 1 .. Len(s) : i \in 1 .. Len(t)
    BY <1>1
  <2> QED
    BY <1>1, <2>1, <2>2 DEF HasRow
<1>3. CASE p[1] = id
  <2>1. Len(s) + 1 \in 1 .. Len(t) /\ \A j \in Len(s) + 1 + 1 .. Len(t) : FALSE
    BY <1>1
  <2>2. Row(t, id) = t[Len(s) + 1][2]
    BY <1>1, <1>3, <2>1, RowAt
  <2> QED
    BY <1>1, <1>2, <1>3, <2>2 DEF t
<1>4. CASE p[1] # id /\ ~HasRow(s, id)
  <2>1. Row(t, id) = NoRow /\ Row(s, id) = NoRow
    BY <1>1, <1>2, <1>4, RowNone
  <2> QED
    BY <1>2, <1>4, <2>1 DEF t
<1>5. CASE p[1] # id /\ HasRow(s, id)
  <2>1. PICK i \in 1 .. Len(s) : /\ s[i][1] = id /\ Row(s, id) = s[i][2]
                                 /\ \A j \in i + 1 .. Len(s) : s[j][1] # id
    BY <1>5, RowSome
  <2>2. i \in 1 .. Len(t) /\ \A j \in i + 1 .. Len(t) : j \in i + 1 .. Len(s) \/ j = Len(s) + 1
    BY <1>1
  <2>3. \A j \in i + 1 .. Len(s) : j \in 1 .. Len(s)
    BY <1>1
  <2>4. \A j \in i + 1 .. Len(t) : t[j][1] # id
    BY <1>1, <1>5, <2>1, <2>2, <2>3
  <2>5. Row(t, id) = t[i][2]
    BY <1>1, <2>1, <2>2, <2>4, RowAt
  <2> QED
    BY <1>1, <1>2, <1>5, <2>1, <2>5 DEF t
<1> QED
  BY <1>3, <1>4, <1>5

\* What is replayed over a tree decides the rows it has; the others are the tree's.
LEMMA RowConcat ==
  ASSUME NEW S, NEW s \in Seq(S), NEW t \in Seq(S), NEW id
  PROVE  /\ Row(s \o t, id) = IF HasRow(t, id) THEN Row(t, id) ELSE Row(s, id)
         /\ HasRow(s \o t, id) <=> HasRow(s, id) \/ HasRow(t, id)
<1> DEFINE u == s \o t
<1>1. /\ u \in Seq(S)
      /\ Len(s) \in Nat /\ Len(t) \in Nat /\ Len(u) = Len(s) + Len(t)
      /\ \A i \in 1 .. Len(s) : u[i] = s[i]
      /\ \A i \in 1 .. Len(t) : u[Len(s) + i] = t[i]
  BY Concatenated
<1> HIDE DEF u
<1>2. /\ \A k \in 1 .. Len(u) : k \in 1 .. Len(s) \/ \E i \in 1 .. Len(t) : k = Len(s) + i
      /\ \A i \in 1 .. Len(s) : i \in 1 .. Len(u)
      /\ \A i \in 1 .. Len(t) : Len(s) + i \in 1 .. Len(u)
  <2>1. ASSUME NEW k \in 1 .. Len(u)
        PROVE  k \in 1 .. Len(s) \/ \E i \in 1 .. Len(t) : k = Len(s) + i
    <3>1. CASE k <= Len(s)
      BY <1>1, <3>1
    <3>2. CASE ~(k <= Len(s))
      <4>1. k - Len(s) \in 1 .. Len(t) /\ k = Len(s) + (k - Len(s))
        BY <1>1, <3>2
      <4> QED
        BY <4>1
    <3> QED
      BY <3>1, <3>2
  <2> QED
    BY <1>1, <2>1
<1>3. HasRow(u, id) <=> HasRow(s, id) \/ HasRow(t, id)
  <2>1. ASSUME HasRow(u, id) PROVE HasRow(s, id) \/ HasRow(t, id)
    <3>1. PICK k \in 1 .. Len(u) : u[k][1] = id
      BY <2>1 DEF HasRow
    <3>2. CASE k \in 1 .. Len(s)
      BY <1>1, <3>1, <3>2 DEF HasRow
    <3>3. CASE \E i \in 1 .. Len(t) : k = Len(s) + i
      <4>1. PICK i \in 1 .. Len(t) : k = Len(s) + i
        BY <3>3
      <4>2. u[Len(s) + i] = t[i]
        BY <1>1
      <4> QED
        BY <3>1, <4>1, <4>2 DEF HasRow
    <3> QED
      BY <1>2, <3>2, <3>3
  <2>2. ASSUME HasRow(s, id) PROVE HasRow(u, id)
    BY <1>1, <1>2, <2>2 DEF HasRow
  <2>3. ASSUME HasRow(t, id) PROVE HasRow(u, id)
    BY <1>1, <1>2, <2>3 DEF HasRow
  <2> QED
    BY <2>1, <2>2, <2>3
<1>4. CASE HasRow(t, id)
  <2>1. PICK i \in 1 .. Len(t) : /\ t[i][1] = id /\ Row(t, id) = t[i][2]
                                 /\ \A j \in i + 1 .. Len(t) : t[j][1] # id
    BY <1>4, RowSome
  <2>2. ASSUME NEW j \in Len(s) + i + 1 .. Len(u) PROVE u[j][1] # id
    <3>1. j - Len(s) \in i + 1 .. Len(t) /\ j - Len(s) \in 1 .. Len(t) /\ j = Len(s) + (j - Len(s))
      BY <1>1, <2>1
    <3>2. u[Len(s) + (j - Len(s))] = t[j - Len(s)]
      BY <1>1, <3>1
    <3> QED
      BY <2>1, <3>1, <3>2
  <2>3. Row(u, id) = u[Len(s) + i][2]
    <3> DEFINE k == Len(s) + i
    <3>1. /\ k \in 1 .. Len(u) /\ u[k][1] = id
          /\ \A j \in k + 1 .. Len(u) : u[j][1] # id
      BY <1>1, <1>2, <2>1, <2>2
    <3> HIDE DEF k
    <3>2. u \in Seq(S)
      BY <1>1
    <3>3. Row(u, id) = u[k][2]
      BY <3>1, <3>2, RowAt
    <3> QED
      BY <3>3 DEF k
  <2> QED
    BY <1>1, <1>3, <1>4, <2>1, <2>3 DEF u
<1>5. CASE ~HasRow(t, id) /\ ~HasRow(s, id)
  <2>1. Row(u, id) = NoRow /\ Row(s, id) = NoRow
    BY <1>1, <1>3, <1>5, RowNone
  <2> QED
    BY <1>3, <1>5, <2>1 DEF u
<1>6. CASE ~HasRow(t, id) /\ HasRow(s, id)
  <2>1. PICK i \in 1 .. Len(s) : /\ s[i][1] = id /\ Row(s, id) = s[i][2]
                                 /\ \A j \in i + 1 .. Len(s) : s[j][1] # id
    BY <1>6, RowSome
  <2>2. ASSUME NEW j \in i + 1 .. Len(u) PROVE u[j][1] # id
    <3>1. j \in 1 .. Len(u)
      BY <1>1
    <3>2. CASE j \in 1 .. Len(s)
      <4>1. j \in i + 1 .. Len(s)
        BY <1>1, <3>2
      <4> QED
        BY <1>1, <2>1, <3>2, <4>1
    <3>3. CASE \E k \in 1 .. Len(t) : j = Len(s) + k
      BY <1>1, <1>6, <3>3 DEF HasRow
    <3> QED
      BY <1>2, <3>1, <3>2, <3>3
  <2>3. Row(u, id) = u[i][2]
    BY SMTT(30), <1>1, <1>2, <2>1, <2>2, RowAt
  <2> QED
    BY <1>1, <1>3, <1>6, <2>1, <2>3 DEF u
<1> QED
  BY <1>4, <1>5, <1>6

-----------------------------------------------------------------------------
(* The lists of calls.                                                     *)

\* F[i] is the first i of the sequences ss, one after the other.
Flattens(F, ss, n) ==
  F = [i \in 1 .. n |-> IF i = 1 THEN ss[i] ELSE F[i - 1] \o ss[i]]

\* The definition of FlattenSeq has such a function to choose.
LEMMA FlattenExists ==
  ASSUME NEW S, NEW ss \in Seq(Seq(S)), NEW n \in Nat, n <= Len(ss)
  PROVE  \E F : Flattens(F, ss, n)
<1> DEFINE T == {k \in Nat : \E F : Flattens(F, ss, k)}
<1>1. 0 \in T
  <2> DEFINE F == [i \in 1 .. 0 |-> << >>]
  <2>1. Flattens(F, ss, 0)
    BY DEF Flattens
  <2> QED
    BY <2>1
<1>2. ASSUME NEW k \in Nat, k \in T PROVE k + 1 \in T
  <2>1. PICK F : Flattens(F, ss, k)
    BY <1>2
  <2> DEFINE G == [i \in 1 .. k + 1 |->
                     IF i = 1 THEN ss[1] ELSE F[i - 1] \o ss[i]]
  <2>2. ASSUME NEW i \in 1 .. k PROVE G[i] = F[i]
    <3>1. F = [j \in 1 .. k |-> IF j = 1 THEN ss[j] ELSE F[j - 1] \o ss[j]]
      BY <2>1 DEF Flattens
    <3>2. F[i] = IF i = 1 THEN ss[i] ELSE F[i - 1] \o ss[i]
      BY ONLY <3>1, i \in 1 .. k
    <3>3. i \in 1 .. k + 1
      OBVIOUS
    <3> QED
      BY <3>2, <3>3
  <2>3. \A i \in 1 .. k + 1 : G[i] = IF i = 1 THEN ss[i] ELSE G[i - 1] \o ss[i]
    <3> TAKE i \in 1 .. k + 1
    <3>1. CASE i = 1
      BY <3>1
    <3>2. CASE i # 1
      <4>1. i - 1 \in 1 .. k
        BY <3>2
      <4>2. G[i] = F[i - 1] \o ss[i]
        BY <3>2
      <4> QED
        BY <2>2, <3>2, <4>1, <4>2
    <3> QED
      BY <3>1, <3>2
  <2>4. DOMAIN G = 1 .. k + 1 /\ G = [i \in 1 .. k + 1 |-> G[i]]
    OBVIOUS
  <2> HIDE DEF G
  <2>5. Flattens(G, ss, k + 1)
    BY <2>3, <2>4 DEF Flattens
  <2> QED
    BY <2>5
<1> HIDE DEF T
<1>3. \A k \in Nat : k \in T
  BY <1>1, <1>2, NatSetInduction
<1> QED
  BY <1>3 DEF T

\* The k-th call of ts is the j-th of s, which stands in ts as a whole.
Within(ts, k, s, j) ==
  /\ ts[k] = s[j]
  /\ j > 1 => k > 1 /\ ts[k - 1] = s[j - 1]
  /\ j < Len(s) => k < Len(ts) /\ ts[k + 1] = s[j + 1]

\* ts is made of the first n of the sequences ss.
MadeOf(ts, ss, n) ==
  /\ \A k \in 1 .. Len(ts) : \E i \in 1 .. n : \E j \in 1 .. Len(ss[i]) : Within(ts, k, ss[i], j)
  /\ \A i \in 1 .. n : \A j \in 1 .. Len(ss[i]) : \E k \in 1 .. Len(ts) : ts[k] = ss[i][j]

\* A sequence that stands in one of two stands in their concatenation.
LEMMA WithinConcat ==
  ASSUME NEW S, NEW s \in Seq(S), NEW t \in Seq(S), NEW u \in Seq(S)
  PROVE  /\ \A k \in 1 .. Len(s), j \in 1 .. Len(u) : Within(s, k, u, j) => Within(s \o t, k, u, j)
         /\ \A k \in 1 .. Len(t), j \in 1 .. Len(u) :
              Within(t, k, u, j) => Within(s \o t, Len(s) + k, u, j)
<1> DEFINE v == s \o t
<1>1. /\ Len(s) \in Nat /\ Len(t) \in Nat /\ Len(v) = Len(s) + Len(t) /\ Len(u) \in Nat
      /\ \A i \in 1 .. Len(s) : v[i] = s[i]
      /\ \A i \in 1 .. Len(t) : v[Len(s) + i] = t[i]
  BY Concatenated
<1> HIDE DEF v
<1>2. ASSUME NEW k \in 1 .. Len(s), NEW j \in 1 .. Len(u), Within(s, k, u, j)
      PROVE  Within(v, k, u, j)
  <2>1. k > 1 => k - 1 \in 1 .. Len(s)
    BY <1>1
  <2>2. k < Len(s) => k + 1 \in 1 .. Len(s) /\ k < Len(v)
    BY <1>1
  <2> QED
    BY <1>1, <1>2, <2>1, <2>2 DEF Within
<1>3. ASSUME NEW k \in 1 .. Len(t), NEW j \in 1 .. Len(u), Within(t, k, u, j)
      PROVE  Within(v, Len(s) + k, u, j)
  <2>1. v[Len(s) + k] = t[k]
    BY <1>1
  <2>2. ASSUME j > 1 PROVE Len(s) + k > 1 /\ v[Len(s) + k - 1] = u[j - 1]
    <3>1. k > 1 /\ t[k - 1] = u[j - 1]
      BY <1>3, <2>2 DEF Within
    <3>2. k - 1 \in 1 .. Len(t) /\ Len(s) + k - 1 = Len(s) + (k - 1)
      BY <1>1, <3>1
    <3> QED
      BY SMTT(30), <1>1, <3>1, <3>2
  <2>3. ASSUME j < Len(u) PROVE Len(s) + k < Len(v) /\ v[Len(s) + k + 1] = u[j + 1]
    <3>1. k < Len(t) /\ t[k + 1] = u[j + 1]
      BY <1>3, <2>3 DEF Within
    <3>2. k + 1 \in 1 .. Len(t) /\ Len(s) + k + 1 = Len(s) + (k + 1)
      BY <1>1, <3>1
    <3> QED
      BY <1>1, <3>1, <3>2
  <2> QED
    BY <1>3, <2>1, <2>2, <2>3 DEF Within
<1> QED
  BY <1>2, <1>3 DEF v

\* FlattenSeq puts sequences one after the other: each call of the result stands
\* in one of them as a whole, and each of their calls is in the result.
LEMMA FlattenProperties ==
  ASSUME NEW S, NEW ss \in Seq(Seq(S))
  PROVE  FlattenSeq(ss) \in Seq(S) /\ MadeOf(FlattenSeq(ss), ss, Len(ss))
<1> DEFINE n == Len(ss)
<1>1. n \in Nat /\ \A i \in 1 .. n : ss[i] \in Seq(S) /\ Len(ss[i]) \in Nat
  BY LenProperties, ElementOfSeq
<1>2. CASE n = 0
  <2>1. FlattenSeq(ss) = << >> /\ ss = << >>
    BY <1>1, <1>2, EmptySeq DEF FlattenSeq
  <2>2. Len(<< >>) = 0 /\ << >> \in Seq(S)
    OBVIOUS
  <2> QED
    BY <2>1, <2>2 DEF MadeOf
<1>3. CASE n # 0
  <2> DEFINE F == CHOOSE F : F = [i \in 1 .. n |-> IF i = 1 THEN ss[i] ELSE F[i - 1] \o ss[i]]
  <2>1. FlattenSeq(ss) = F[n]
    BY SMTT(30), <1>3 DEF FlattenSeq
  <2>2. F = [i \in 1 .. n |-> IF i = 1 THEN ss[i] ELSE F[i - 1] \o ss[i]]
    <3>1. \E G : G = [i \in 1 .. n |-> IF i = 1 THEN ss[i] ELSE G[i - 1] \o ss[i]]
      <4>1. n \in Nat /\ n <= Len(ss)
        BY <1>1
      <4> HIDE DEF n
      <4>2. \E G : Flattens(G, ss, n)
        BY <4>1, FlattenExists
      <4>3. PICK G : Flattens(G, ss, n)
        BY <4>2
      <4> QED
        BY ONLY <4>3 DEF Flattens
    <3> HIDE DEF n
    <3> QED
      BY ONLY <3>1
  <2> HIDE DEF F
  <2>3. \A i \in 1 .. n : F[i] = IF i = 1 THEN ss[i] ELSE F[i - 1] \o ss[i]
    BY <2>2
  <2> DEFINE T == {k \in 0 .. n : k > 0 => F[k] \in Seq(S) /\ MadeOf(F[k], ss, k)}
  <2>4. 0 \in T
    BY <1>1
  <2>5. ASSUME NEW k \in 0 .. n - 1, k \in T PROVE k + 1 \in T
    <3>1. k + 1 \in 1 .. n /\ k + 1 > 0
      BY <1>1
    <3>2. CASE k = 0
      <4>1. F[1] = ss[1] /\ ss[1] \in Seq(S) /\ Len(ss[1]) \in Nat
        BY <1>1, <2>3, <3>1, <3>2
      <4>2. \A j \in 1 .. Len(ss[1]) : Within(ss[1], j, ss[1], j)
        BY <4>1 DEF Within
      <4>3. MadeOf(F[1], ss, 1)
        BY <4>1, <4>2 DEF MadeOf
      <4> QED
        BY <3>1, <3>2, <4>1, <4>3
    <3>3. CASE k # 0
      <4> DEFINE s == F[k]
                 t == ss[k + 1]
                 v == s \o t
      <4>1. F[k + 1] = v
        <5>1. k + 1 # 1 /\ (k + 1) - 1 = k
          BY <3>3
        <5>2. F[k + 1] = IF k + 1 = 1 THEN ss[k + 1] ELSE F[(k + 1) - 1] \o ss[k + 1]
          BY <2>3, <3>1
        <5> QED
          BY <5>1, <5>2
      <4>2. s \in Seq(S) /\ MadeOf(s, ss, k) /\ t \in Seq(S)
        BY <1>1, <2>5, <3>1, <3>3
      <4> HIDE DEF s
      <4>3. /\ v \in Seq(S) /\ Len(s) \in Nat /\ Len(t) \in Nat /\ Len(v) = Len(s) + Len(t)
            /\ \A i \in 1 .. Len(s) : v[i] = s[i]
            /\ \A i \in 1 .. Len(t) : v[Len(s) + i] = t[i]
        BY <4>2, Concatenated
      <4>4. ASSUME NEW p \in 1 .. Len(v)
            PROVE  \E i \in 1 .. k + 1 : \E j \in 1 .. Len(ss[i]) : Within(v, p, ss[i], j)
        <5>1. CASE p <= Len(s)
          <6>1. p \in 1 .. Len(s)
            BY <4>3, <5>1
          <6>2. PICK i \in 1 .. k : \E j \in 1 .. Len(ss[i]) : Within(s, p, ss[i], j)
            BY <4>2, <6>1 DEF MadeOf
          <6>3. i \in 1 .. k + 1 /\ ss[i] \in Seq(S)
            BY <1>1, <3>1
          <6>4. PICK j \in 1 .. Len(ss[i]) : Within(s, p, ss[i], j)
            BY <6>2
          <6>5. Within(v, p, ss[i], j)
            BY <4>2, <6>1, <6>3, <6>4, WithinConcat
          <6> QED
            BY <6>3, <6>5
        <5>2. CASE ~(p <= Len(s))
          <6> DEFINE j == p - Len(s)
          <6>1. j \in 1 .. Len(t) /\ p = Len(s) + j
            BY <4>3, <5>2
          <6>2. Within(t, j, t, j)
            BY <4>3, <6>1 DEF Within
          <6> HIDE DEF j
          <6>3. Within(v, p, t, j)
            BY <4>2, <6>1, <6>2, WithinConcat
          <6>4. k + 1 \in 1 .. k + 1
            OBVIOUS
          <6> QED
            BY <6>1, <6>3, <6>4
        <5> QED
          BY <5>1, <5>2
      <4>5. ASSUME NEW i \in 1 .. k + 1, NEW j \in 1 .. Len(ss[i])
            PROVE  \E p \in 1 .. Len(v) : v[p] = ss[i][j]
        <5>1. CASE i \in 1 .. k
          <6>1. PICK p \in 1 .. Len(s) : s[p] = ss[i][j]
            BY <4>2, <5>1 DEF MadeOf
          <6>2. p \in 1 .. Len(v) /\ v[p] = s[p]
            BY <4>3
          <6> QED
            BY <6>1, <6>2
        <5>2. CASE i = k + 1
          <6>1. Len(s) + j \in 1 .. Len(v) /\ v[Len(s) + j] = t[j]
            BY <4>3, <5>2
          <6> QED
            BY <5>2, <6>1
        <5> QED
          BY SMTT(30), <5>1, <5>2
      <4> HIDE DEF v
      <4>6. MadeOf(v, ss, k + 1)
        BY <4>4, <4>5 DEF MadeOf
      <4> QED
        BY <3>1, <4>1, <4>3, <4>6
    <3> QED
      BY <3>2, <3>3
  <2> HIDE DEF T
  <2>6. n \in T
    <3>1. \A k \in 0 .. n - 1 : k \in T => k + 1 \in T
      BY <2>5
    <3> HIDE DEF n
    <3>2. \A k \in 0 .. n : k \in T
      BY <1>1, <2>4, <3>1, BoundedSetInduction
    <3> QED
      BY <1>1, <3>2
  <2> QED
    BY <1>1, <1>3, <2>1, <2>6 DEF T
<1> QED
  BY <1>2, <1>3

-----------------------------------------------------------------------------
(* Orders and what a statement calls in them.                              *)

\* The elements of a finite set in any order: all of them, each once.
LEMMA Orders ==
  ASSUME NEW S, IsFiniteSet(S), NEW order \in SetToSeqs(S)
  PROVE  order \in Seq(S) /\ \A c \in S : \E i \in 1 .. Len(order) : order[i] = c
<1> DEFINE n == Cardinality(S)
<1>1. n \in Nat
  BY FS_CardinalityType
<1>2. order \in [1 .. n -> S] /\ \A i, j \in 1 .. n : i # j => order[i] # order[j]
  BY DEF SetToSeqs
<1>3. order \in Seq(S) /\ Len(order) = n /\ DOMAIN order = 1 .. n
  <2> HIDE DEF n
  <2>1. order \in Seq(S)
    BY <1>1, <1>2, SeqDef
  <2> QED
    BY <1>1, <1>2, <2>1, LenProperties
<1>4. IsFiniteSet(1 .. n) /\ Cardinality(1 .. n) = n
  <2> HIDE DEF n
  <2> QED
    BY <1>1, FS_Interval
<1>5. order \in Injection(1 .. n, S)
  BY <1>2 DEF Injection, IsInjective
<1>6. order \in Surjection(1 .. n, S)
  BY <1>4, <1>5, FS_Injection
<1> QED
  BY <1>3, <1>6 DEF Surjection

Increasing(f) == \A i, j \in DOMAIN f : i < j => f[i] < f[j]

\* A finite set of numbers can be put in order, so that ScanTable is one order.
LEMMA SortedExists ==
  \A S \in SUBSET Nat : IsFiniteSet(S) => \E f \in SetToSeqs(S) : Increasing(f)
<1> DEFINE Sorts(n) == \A S \in SUBSET Nat :
             IsFiniteSet(S) /\ Cardinality(S) = n => \E f \in SetToSeqs(S) : Increasing(f)
           T == {n \in Nat : Sorts(n)}
<1>1. 0 \in T
  <2> SUFFICES ASSUME NEW S \in SUBSET Nat, IsFiniteSet(S), Cardinality(S) = 0
               PROVE  \E f \in SetToSeqs(S) : Increasing(f)
    OBVIOUS
  <2> DEFINE f == [i \in 1 .. 0 |-> 0]
  <2>1. f \in SetToSeqs(S) /\ Increasing(f)
    BY DEF SetToSeqs, Increasing
  <2> QED
    BY <2>1
<1>2. ASSUME NEW n \in Nat, n \in T PROVE n + 1 \in T
  <2> SUFFICES ASSUME NEW S \in SUBSET Nat, IsFiniteSet(S), Cardinality(S) = n + 1
               PROVE  \E f \in SetToSeqs(S) : Increasing(f)
    OBVIOUS
  <2>1. S # {}
    BY FS_EmptySet
  <2> DEFINE m == Min(S)
             R == S \ {m}
  <2>2. m \in S /\ \A y \in S : m <= y
    BY <2>1, MinProperties
  <2>3. IsFiniteSet(R) /\ Cardinality(R) = n
    BY <2>2, FS_RemoveElement
  <2>4. R \in SUBSET Nat /\ (\A y \in R : y \in S /\ m < y)
    <3> HIDE DEF m
    <3> QED
      BY <2>2
  <2> HIDE DEF m, R
  <2>5. PICK g \in SetToSeqs(R) : Increasing(g)
    BY <1>2, <2>3, <2>4
  <2>6. g \in [1 .. n -> R] /\ \A i, j \in 1 .. n : i < j => g[i] < g[j]
    BY <2>3, <2>5 DEF SetToSeqs, Increasing
  <2> DEFINE f == [i \in 1 .. n + 1 |-> IF i = 1 THEN m ELSE g[i - 1]]
  <2>7. ASSUME NEW i \in 1 .. n + 1
        PROVE  f[i] \in S /\ (i > 1 => i - 1 \in 1 .. n /\ f[i] = g[i - 1] /\ m < f[i])
    <3>1. CASE i = 1
      BY <2>2, <3>1
    <3>2. CASE i # 1
      <4>1. i - 1 \in 1 .. n
        BY <3>2
      <4>2. g[i - 1] \in R
        BY <2>6, <4>1
      <4> QED
        BY <2>4, <3>2, <4>1, <4>2
    <3> QED
      BY <3>1, <3>2
  <2>8. ASSUME NEW i \in 1 .. n + 1, NEW j \in 1 .. n + 1, i < j
        PROVE  f[i] < f[j]
    <3>1. j > 1
      BY <2>8
    <3>2. CASE i = 1
      <4>1. f[i] = m
        BY <3>2
      <4> QED
        BY <2>7, <3>1, <4>1
    <3>3. CASE i # 1
      <4>1. i > 1 /\ i - 1 < j - 1
        BY <2>8, <3>3
      <4> HIDE DEF f
      <4> QED
        BY <2>6, <2>7, <3>1, <4>1
    <3> QED
      BY <3>2, <3>3
  <2>9. DOMAIN f = 1 .. n + 1 /\ f = [i \in 1 .. n + 1 |-> f[i]]
    OBVIOUS
  <2> HIDE DEF f
  <2>10. \A i, j \in 1 .. n + 1 : i # j => f[i] # f[j]
    <3> SUFFICES ASSUME NEW i \in 1 .. n + 1, NEW j \in 1 .. n + 1, i # j PROVE f[i] # f[j]
      OBVIOUS
    <3>1. f[i] \in Nat /\ f[j] \in Nat
      BY <2>7
    <3>2. i < j \/ j < i
      OBVIOUS
    <3>3. CASE i < j
      BY <2>8, <3>1, <3>3
    <3>4. CASE j < i
      BY <2>8, <3>1, <3>4
    <3> QED
      BY <3>2, <3>3, <3>4
  <2>11. f \in [1 .. n + 1 -> S]
    BY <2>7, <2>9
  <2>12. f \in SetToSeqs(S)
    BY <2>10, <2>11 DEF SetToSeqs
  <2>13. Increasing(f)
    BY <2>8, <2>9 DEF Increasing
  <2> QED
    BY <2>12, <2>13
<1> HIDE DEF T
<1>3. \A n \in Nat : n \in T
  BY <1>1, <1>2, NatSetInduction
<1> QED
  BY <1>3, FS_CardinalityType DEF T

\* t is made of the pairs a[c], b[c] of all c in C, each b[c] right behind its a[c].
PairsOf(t, C, a, b) ==
  /\ \A k \in 1 .. Len(t) : \E c \in C :
       t[k] = a[c] \/ (t[k] = b[c] /\ k > 1 /\ t[k - 1] = a[c])
  /\ \A c \in C : (\E k \in 1 .. Len(t) : t[k] = a[c]) /\ (\E k \in 1 .. Len(t) : t[k] = b[c])

LEMMA OnePair ==
  ASSUME NEW S, NEW c, NEW a, NEW b, a[c] \in S, b[c] \in S
  PROVE  <<a[c], b[c]>> \in Seq(S) /\ PairsOf(<<a[c], b[c]>>, {c}, a, b)
<1> DEFINE t == <<a[c], b[c]>>
<1>1. t \in Seq(S) /\ Len(t) = 2 /\ t[1] = a[c] /\ t[2] = b[c]
  OBVIOUS
<1> HIDE DEF t
<1>2. 1 .. Len(t) = {1, 2}
  BY <1>1
<1>3. PairsOf(t, {c}, a, b)
  BY <1>1, <1>2 DEF PairsOf
<1> QED
  BY <1>1, <1>3 DEF t

LEMMA PairsConcat ==
  ASSUME NEW S, NEW s \in Seq(S), NEW t \in Seq(S), NEW C, NEW D, NEW a, NEW b,
         PairsOf(s, C, a, b), PairsOf(t, D, a, b)
  PROVE  PairsOf(s \o t, C \cup D, a, b)
<1> DEFINE u == s \o t
<1>1. /\ Len(s) \in Nat /\ Len(t) \in Nat /\ Len(u) = Len(s) + Len(t)
      /\ \A i \in 1 .. Len(s) : u[i] = s[i]
      /\ \A i \in 1 .. Len(t) : u[Len(s) + i] = t[i]
  BY Concatenated
<1> HIDE DEF u
<1>2. ASSUME NEW k \in 1 .. Len(u)
      PROVE  \E c \in C \cup D : u[k] = a[c] \/ (u[k] = b[c] /\ k > 1 /\ u[k - 1] = a[c])
  <2>1. CASE k <= Len(s)
    <3>1. k \in 1 .. Len(s)
      BY <1>1, <2>1
    <3>2. PICK c \in C : s[k] = a[c] \/ (s[k] = b[c] /\ k > 1 /\ s[k - 1] = a[c])
      BY <3>1 DEF PairsOf
    <3>3. k > 1 => k - 1 \in 1 .. Len(s)
      BY <1>1, <3>1
    <3> QED
      BY <1>1, <3>1, <3>2, <3>3
  <2>2. CASE ~(k <= Len(s))
    <3> DEFINE j == k - Len(s)
    <3>1. j \in 1 .. Len(t) /\ k = Len(s) + j
      BY <1>1, <2>2
    <3> HIDE DEF j
    <3>2. PICK c \in D : t[j] = a[c] \/ (t[j] = b[c] /\ j > 1 /\ t[j - 1] = a[c])
      BY <3>1 DEF PairsOf
    <3>3. j > 1 => j - 1 \in 1 .. Len(t) /\ k > 1 /\ k - 1 = Len(s) + (j - 1)
      BY <1>1, <3>1
    <3>4. u[k] = t[j] /\ (j > 1 => u[k - 1] = t[j - 1])
      BY <1>1, <3>1, <3>3
    <3> QED
      BY <3>2, <3>3, <3>4
  <2> QED
    BY <2>1, <2>2
<1>3. ASSUME NEW x
      PROVE  /\ (\E k \in 1 .. Len(s) : s[k] = x) => \E k \in 1 .. Len(u) : u[k] = x
             /\ (\E k \in 1 .. Len(t) : t[k] = x) => \E k \in 1 .. Len(u) : u[k] = x
  <2>1. \A k \in 1 .. Len(s) : k \in 1 .. Len(u) /\ u[k] = s[k]
    BY <1>1
  <2>2. \A k \in 1 .. Len(t) : Len(s) + k \in 1 .. Len(u) /\ u[Len(s) + k] = t[k]
    BY <1>1
  <2> QED
    BY <2>1, <2>2
<1>4. ASSUME NEW c \in C \cup D
      PROVE  (\E k \in 1 .. Len(u) : u[k] = a[c]) /\ (\E k \in 1 .. Len(u) : u[k] = b[c])
  BY <1>3 DEF PairsOf
<1>5. PairsOf(u, C \cup D, a, b)
  BY <1>2, <1>4 DEF PairsOf
<1> QED
  BY <1>5 DEF u

LEMMA OrderedPairs ==
  ASSUME NEW S, NEW C, NEW a, NEW b, \A c \in C : a[c] \in S /\ b[c] \in S,
         NEW order \in Seq(C), \A c \in C : \E i \in 1 .. Len(order) : order[i] = c,
         NEW ss, ss = [i \in DOMAIN order |-> <<a[order[i]], b[order[i]]>>]
  PROVE  FlattenSeq(ss) \in Seq(S) /\ PairsOf(FlattenSeq(ss), C, a, b)
<1> DEFINE n == Len(order)
           t == FlattenSeq(ss)
<1>1. n \in Nat /\ DOMAIN order = 1 .. n /\ \A i \in 1 .. n : order[i] \in C
  BY LenProperties, ElementOfSeq
<1>2. ASSUME NEW i \in 1 .. n
      PROVE  /\ ss[i] \in Seq(S) /\ Len(ss[i]) = 2
             /\ ss[i][1] = a[order[i]] /\ ss[i][2] = b[order[i]]
  <2>1. ss[i] = <<a[order[i]], b[order[i]]>> /\ a[order[i]] \in S /\ b[order[i]] \in S
    BY <1>1
  <2> QED
    BY <2>1
<1>3. ss \in Seq(Seq(S)) /\ Len(ss) = n
  <2>1. ss \in [1 .. n -> Seq(S)]
    BY <1>1, <1>2
  <2>2. ss \in Seq(Seq(S))
    <3> HIDE DEF n
    <3> QED
      BY <1>1, <2>1, SeqDef
  <2> QED
    BY <1>1, <2>1, <2>2, LenProperties
<1>4. t \in Seq(S) /\ MadeOf(t, ss, n)
  BY <1>3, FlattenProperties
<1> HIDE DEF t
<1>5. ASSUME NEW k \in 1 .. Len(t)
      PROVE  \E c \in C : t[k] = a[c] \/ (t[k] = b[c] /\ k > 1 /\ t[k - 1] = a[c])
  <2>1. PICK i \in 1 .. n : \E j \in 1 .. Len(ss[i]) : Within(t, k, ss[i], j)
    BY <1>4 DEF MadeOf
  <2>2. PICK j \in 1 .. 2 : Within(t, k, ss[i], j)
    BY <1>2, <2>1
  <2>3. CASE j = 1
    BY <1>1, <1>2, <2>2, <2>3 DEF Within
  <2>4. CASE j = 2
    BY <1>1, <1>2, <2>2, <2>4 DEF Within
  <2> QED
    BY <2>3, <2>4
<1>6. ASSUME NEW c \in C
      PROVE  (\E k \in 1 .. Len(t) : t[k] = a[c]) /\ (\E k \in 1 .. Len(t) : t[k] = b[c])
  <2>1. PICK i \in 1 .. n : order[i] = c
    OBVIOUS
  <2>2. 1 \in 1 .. Len(ss[i]) /\ 2 \in 1 .. Len(ss[i])
    BY <1>2
  <2>3. (\E k \in 1 .. Len(t) : t[k] = ss[i][1]) /\ (\E k \in 1 .. Len(t) : t[k] = ss[i][2])
    BY ZenonT(60), <1>4, <2>2 DEF MadeOf
  <2> QED
    BY <1>2, <2>1, <2>3
<1>7. PairsOf(t, C, a, b)
  BY <1>5, <1>6 DEF PairsOf
<1> QED
  BY <1>4, <1>7 DEF t

-----------------------------------------------------------------------------
(* Calls and jobs.                                                         *)

LEMMA CallTypes ==
  ASSUME NEW s \in Stores
  PROVE  /\ \A p \in Pair : Log(s, p) \in Call /\ Put(s, p) \in Call
         /\ Sync(s) \in Call /\ Truncate(s) \in Call
         /\ [call |-> "open_catalog"] \in Call /\ [call |-> "write_catalog"] \in Call
BY DEF Call, Log, Put, Sync, Truncate

LEMMA CallForms ==
  ASSUME NEW x \in Call
  PROVE  /\ x.call \in {"log_insert", "insert", "sync", "truncate", "open_catalog", "write_catalog"}
         /\ x.call \in {"log_insert", "insert"} => x.store \in Stores /\ x.pair \in Pair
         /\ x.call \in {"sync", "truncate"} => x.store \in Stores
         /\ x.call = "log_insert" => x = Log(x.store, x.pair)
         /\ x.call = "insert" => x = Put(x.store, x.pair)
         /\ x.call = "sync" => x = Sync(x.store)
         /\ x.call = "truncate" => x = Truncate(x.store)
BY DEF Call, Log, Put, Sync, Truncate

LEMMA JobForms ==
  ASSUME job \in Job
  PROVE  /\ job.kind \in {"idle", "down", "checkpoint", "create_table", "insert", "create_index"}
         /\ job.kind = "insert" => job.row \in TablePair
         /\ job.kind = "create_index" => job.col \in IndexColumns
BY DEF Job

LEMMA EntryTypes ==
  ASSUME NEW c, NEW id \in Ids, NEW v \in Values
  PROVE  Entry(c, <<id, v>>) \in Pair /\ Entry(c, <<id, v>>)[2] = id
BY DatabaseAssumption DEF Entry, Pair

-----------------------------------------------------------------------------
(* The calls of each statement.                                            *)

\* The stores and their calls, when each store has two.
LEMMA TableAndIndexes ==
  ASSUME NEW S, NEW a, NEW b, IsFiniteSet(open), NEW order \in SetToSeqs(open),
         \A s \in {Table} \cup open : a[s] \in S /\ b[s] \in S
  PROVE  LET ss == [i \in DOMAIN order |-> <<a[order[i]], b[order[i]]>>]
             t == <<a[Table], b[Table]>> \o FlattenSeq(ss)
         IN  t \in Seq(S) /\ PairsOf(t, {Table} \cup open, a, b)
<1> DEFINE ss == [i \in DOMAIN order |-> <<a[order[i]], b[order[i]]>>]
<1>1. order \in Seq(open) /\ \A c \in open : \E i \in 1 .. Len(order) : order[i] = c
  BY Orders
<1>2. FlattenSeq(ss) \in Seq(S) /\ PairsOf(FlattenSeq(ss), open, a, b)
  BY <1>1, OrderedPairs
<1>3. <<a[Table], b[Table]>> \in Seq(S) /\ PairsOf(<<a[Table], b[Table]>>, {Table}, a, b)
  BY OnePair
<1> DEFINE u == <<a[Table], b[Table]>>
           v == FlattenSeq(ss)
<1>4. u \in Seq(S) /\ v \in Seq(S) /\ PairsOf(u, {Table}, a, b) /\ PairsOf(v, open, a, b)
  BY <1>2, <1>3
<1> HIDE DEF u, v
<1>5. u \o v \in Seq(S) /\ PairsOf(u \o v, {Table} \cup open, a, b)
  BY <1>4, PairsConcat, Concatenated
<1> QED
  BY <1>5 DEF u, v

DueOf(row, s) == IF s = Table THEN row ELSE Entry(s, row)

LEMMA DueTypes ==
  ASSUME NEW row \in TablePair, NEW s \in Stores
  PROVE  /\ DueOf(row, s) \in Pair
         /\ row[1] \in Ids /\ row[2] \in Values /\ row = <<row[1], row[2]>>
         /\ s # Table => DueOf(row, s)[2] = row[1]
<1>1. row[1] \in Ids /\ row[2] \in Values /\ row = <<row[1], row[2]>>
  BY DEF TablePair
<1>2. row \in Pair
  BY <1>1, DatabaseAssumption DEF Pair
<1>3. Entry(s, row) \in Pair /\ Entry(s, row)[2] = row[1]
  BY <1>1, EntryTypes
<1> QED
  BY <1>1, <1>2, <1>3 DEF DueOf

LEMMA InsertCallsAre ==
  ASSUME TypeOK, NEW row \in TablePair, NEW order \in SetToSeqs(open)
  PROVE  LET t == InsertCalls(row, order)
             a == [s \in Stores |-> Log(s, DueOf(row, s))]
             b == [s \in Stores |-> Put(s, DueOf(row, s))]
         IN  /\ t \in Seq(Call) /\ PairsOf(t, {Table} \cup open, a, b)
             /\ \A i \in 1 .. Len(t) : \A j \in 1 .. i : t[i].store = Table => t[j].store = Table
<1> DEFINE a == [s \in Stores |-> Log(s, DueOf(row, s))]
           b == [s \in Stores |-> Put(s, DueOf(row, s))]
           ss == [i \in DOMAIN order |-> <<a[order[i]], b[order[i]]>>]
           v == FlattenSeq(ss)
           t == <<a[Table], b[Table]>> \o v
<1>1. /\ IsFiniteSet(open) /\ {Table} \cup open \subseteq Stores /\ Table \notin open
      /\ order \in Seq(open) /\ \A c \in open : \E i \in 1 .. Len(order) : order[i] = c
  BY Orders, DatabaseAssumption DEF TypeOK, Stores
<1>2. \A i \in DOMAIN order : order[i] \in open
  BY <1>1, LenProperties, ElementOfSeq
<1>3. \A s \in {Table} \cup open : a[s] \in Call /\ b[s] \in Call
  BY <1>1, DueTypes, CallTypes
<1>4. InsertCalls(row, order) = t
  <2>1. InsertCalls(row, order) =
          Store(Table, DueOf(row, Table))
            \o FlattenSeq([i \in DOMAIN order |-> Store(order[i], DueOf(row, order[i]))])
    BY DEF InsertCalls, ForTableAndIndexes, DueOf
  <2>2. Store(Table, DueOf(row, Table)) = <<a[Table], b[Table]>>
    BY <1>1 DEF Store
  <2>3. [i \in DOMAIN order |-> Store(order[i], DueOf(row, order[i]))] = ss
    BY <1>1, <1>2 DEF Store
  <2> QED
    BY <2>1, <2>2, <2>3
<1> HIDE DEF a, b, t
<1>5. t \in Seq(Call) /\ PairsOf(t, {Table} \cup open, a, b)
  <2>1. IsFiniteSet(open)
    BY <1>1
  <2> QED
    BY <1>3, <2>1, TableAndIndexes DEF t
<1>6. v \in Seq(Call) /\ PairsOf(v, open, a, b)
  BY <1>1, <1>3, OrderedPairs
<1> HIDE DEF v
<1>7. ASSUME NEW k \in 1 .. Len(v) PROVE v[k].store # Table
  <2>1. PICK c \in open : v[k] = a[c] \/ v[k] = b[c]
    BY <1>6 DEF PairsOf
  <2>2. a[c].store = c /\ b[c].store = c
    BY <1>1 DEF a, b, Log, Put
  <2> QED
    BY <1>1, <2>1, <2>2
<1>8. /\ Len(v) \in Nat /\ Len(t) = 2 + Len(v)
      /\ t[1] = a[Table] /\ t[2] = b[Table]
      /\ \A i \in 1 .. Len(v) : t[2 + i] = v[i]
  <2> DEFINE u == <<a[Table], b[Table]>>
  <2>1. u \in Seq(Call) /\ Len(u) = 2 /\ u[1] = a[Table] /\ u[2] = b[Table]
    BY <1>3
  <2>2. t = u \o v
    BY DEF t
  <2> HIDE DEF u
  <2>3. /\ Len(v) \in Nat /\ Len(t) = Len(u) + Len(v)
        /\ \A i \in 1 .. Len(u) : t[i] = u[i]
        /\ \A i \in 1 .. Len(v) : t[Len(u) + i] = v[i]
    BY SMTT(30), <1>6, <2>1, <2>2, Concatenated
  <2>4. 1 \in 1 .. Len(u) /\ 2 \in 1 .. Len(u)
    BY <2>1
  <2> QED
    BY <2>1, <2>3, <2>4
<1>9. \A i \in 1 .. Len(t) : \A j \in 1 .. i : t[i].store = Table => t[j].store = Table
  <2> SUFFICES ASSUME NEW i \in 1 .. Len(t), NEW j \in 1 .. i, t[i].store = Table
               PROVE  t[j].store = Table
    OBVIOUS
  <2>1. i <= 2
    <3> SUFFICES ASSUME i > 2 PROVE FALSE
      BY <1>8
    <3>1. i - 2 \in 1 .. Len(v) /\ i = 2 + (i - 2)
      BY <1>8
    <3> QED
      BY <1>7, <1>8, <3>1
  <2>2. j = 1 \/ j = 2
    BY <1>8, <2>1
  <2>3. a[Table].store = Table /\ b[Table].store = Table
    BY <1>1 DEF a, b, Log, Put
  <2> QED
    BY <1>8, <2>2, <2>3
<1> QED
  BY <1>4, <1>5, <1>9 DEF a, b

LEMMA CheckpointCallsAre ==
  ASSUME TypeOK, NEW order \in SetToSeqs(open)
  PROVE  LET t == CheckpointCalls(order)
         IN  t \in Seq(Call) /\ PairsOf(t, {Table} \cup open, [s \in Stores |-> Sync(s)],
                                                              [s \in Stores |-> Truncate(s)])
<1> DEFINE a == [s \in Stores |-> Sync(s)]
           b == [s \in Stores |-> Truncate(s)]
           ss == [i \in DOMAIN order |-> <<a[order[i]], b[order[i]]>>]
           t == <<a[Table], b[Table]>> \o FlattenSeq(ss)
<1>1. IsFiniteSet(open) /\ {Table} \cup open \subseteq Stores /\ order \in Seq(open)
  BY Orders DEF TypeOK, Stores
<1>2. \A i \in DOMAIN order : order[i] \in open
  BY <1>1, LenProperties, ElementOfSeq
<1>3. \A s \in {Table} \cup open : a[s] \in Call /\ b[s] \in Call
  BY <1>1, CallTypes
<1>4. CheckpointCalls(order) = t
  <2>1. CheckpointCalls(order) =
          Checkpointed(Table) \o FlattenSeq([i \in DOMAIN order |-> Checkpointed(order[i])])
    BY DEF CheckpointCalls, ForTableAndIndexes
  <2>2. Checkpointed(Table) = <<a[Table], b[Table]>>
    BY <1>1 DEF Checkpointed
  <2>3. [i \in DOMAIN order |-> Checkpointed(order[i])] = ss
    BY <1>1, <1>2 DEF Checkpointed
  <2> QED
    BY <2>1, <2>2, <2>3
<1> HIDE DEF a, b, t
<1>5. t \in Seq(Call) /\ PairsOf(t, {Table} \cup open, a, b)
  BY <1>1, <1>3, TableAndIndexes DEF t
<1> QED
  BY <1>4, <1>5 DEF a, b

\* ScanTable is the rows that there are, each once: what CREATE INDEX copies.
LEMMA ScanIs ==
  ASSUME TypeOK
  PROVE  /\ ScanTable \in Seq(TablePair)
         /\ \A i \in 1 .. Len(ScanTable) :
              LET id == ScanTable[i][1]
              IN  id \in Ids /\ Row(mem[Table], id) # NoRow /\ ScanTable[i] = <<id, Row(mem[Table], id)>>
         /\ \A id \in Ids : Row(mem[Table], id) # NoRow =>
              \E i \in 1 .. Len(ScanTable) : ScanTable[i] = <<id, Row(mem[Table], id)>>
<1> DEFINE m == mem[Table]
           S == {id \in Ids : Row(m, id) # NoRow}
           f == CHOOSE ids \in SetToSeqs(S) : \A i, j \in DOMAIN ids : i < j => ids[i] < ids[j]
           t == [i \in DOMAIN f |-> <<f[i], Row(m, f[i])>>]
<1>1. m \in Seq(TablePair)
  BY DEF TypeOK, PairsIn
<1>2. ScanTable = t
  BY DEF ScanTable
<1> HIDE DEF m
<1>3. S \in SUBSET Nat
  BY DatabaseAssumption
<1>4. IsFiniteSet(S)
  <2> DEFINE n == Len(m)
             h == [i \in 1 .. n |-> m[i][1]]
             R == {h[i] : i \in 1 .. n}
  <2>1. n \in Nat
    BY <1>1, LenProperties
  <2>2. h \in Surjection(1 .. n, R)
    BY DEF Surjection
  <2>3. IsFiniteSet(1 .. n)
    <3> HIDE DEF n
    <3> QED
      BY <2>1, FS_Interval
  <2>4. S \in SUBSET R
    <3> SUFFICES ASSUME NEW id \in Ids, Row(m, id) # NoRow PROVE id \in R
      OBVIOUS
    <3>1. HasRow(m, id)
      BY <1>1, RowNone
    <3>2. PICK i \in 1 .. n : m[i][1] = id
      BY <3>1 DEF HasRow
    <3> QED
      BY <3>2
  <2> HIDE DEF n, h, R, S
  <2>5. IsFiniteSet(R)
    BY <2>2, <2>3, FS_Surjection
  <2> QED
    BY <2>4, <2>5, FS_Subset
<1> HIDE DEF S
<1>5. f \in SetToSeqs(S)
  <2>1. \E g \in SetToSeqs(S) : \A i, j \in DOMAIN g : i < j => g[i] < g[j]
    BY <1>3, <1>4, SortedExists DEF Increasing
  <2> QED
    BY <2>1
<1> HIDE DEF f
<1>6. f \in Seq(S) /\ \A c \in S : \E i \in 1 .. Len(f) : f[i] = c
  BY <1>4, <1>5, Orders
<1> DEFINE n == Len(f)
<1>7. n \in Nat /\ DOMAIN f = 1 .. n /\ \A i \in 1 .. n : f[i] \in S
  BY <1>6, LenProperties, ElementOfSeq
<1>8. ASSUME NEW id \in S PROVE id \in Ids /\ Row(m, id) # NoRow /\ <<id, Row(m, id)>> \in TablePair
  <2>1. id \in Ids /\ Row(m, id) # NoRow
    BY DEF S
  <2>2. HasRow(m, id)
    BY <1>1, <2>1, RowNone
  <2>3. PICK i \in 1 .. Len(m) : m[i][1] = id /\ Row(m, id) = m[i][2]
    BY <1>1, <2>2, RowSome
  <2>4. m[i] \in TablePair
    BY <1>1, ElementOfSeq
  <2> QED
    BY <2>1, <2>3, <2>4 DEF TablePair
<1>9. t \in [1 .. n -> TablePair]
  BY <1>7, <1>8
<1>10. t \in Seq(TablePair) /\ Len(t) = n
  <2> HIDE DEF n
  <2>1. t \in Seq(TablePair)
    BY <1>7, <1>9, SeqDef
  <2> QED
    BY <1>7, <1>9, <2>1, LenProperties
<1>11. \A i \in 1 .. Len(t) : /\ t[i][1] \in Ids /\ Row(m, t[i][1]) # NoRow
                              /\ t[i] = <<t[i][1], Row(m, t[i][1])>>
  BY <1>7, <1>8, <1>10
<1>12. \A id \in Ids : Row(m, id) # NoRow =>
         \E i \in 1 .. Len(t) : t[i] = <<id, Row(m, id)>>
  <2> SUFFICES ASSUME NEW id \in Ids, Row(m, id) # NoRow
               PROVE  \E i \in 1 .. Len(t) : t[i] = <<id, Row(m, id)>>
    OBVIOUS
  <2>1. PICK i \in 1 .. n : f[i] = id
    BY <1>6 DEF S
  <2> QED
    BY <1>7, <1>10, <2>1
<1> HIDE DEF t
<1> QED
  BY <1>2, <1>10, <1>11, <1>12 DEF m

\* CREATE INDEX copies a pair for each row, checkpoints the index and saves the
\* catalog.
LEMMA CreateIndexCallsAre ==
  ASSUME TypeOK, NEW c \in IndexColumns
  PROVE  LET t == CreateIndexCalls(c)
         IN  /\ t \in Seq(Call)
             /\ \A k \in 1 .. Len(t) :
                  \/ /\ \E id \in Ids :
                          /\ Row(mem[Table], id) # NoRow
                          /\ \/ t[k] = Log(c, EntryOf(c, id))
                             \/ /\ t[k] = Put(c, EntryOf(c, id))
                                /\ k > 1 /\ t[k - 1] = Log(c, EntryOf(c, id))
                     /\ \E j \in k + 1 .. Len(t) : t[j] = Sync(c)
                  \/ t[k] = Sync(c)
                  \/ t[k] = Truncate(c) /\ k > 1 /\ t[k - 1] = Sync(c)
                  \/ /\ t[k] = [call |-> "open_catalog"]
                     /\ k < Len(t) /\ t[k + 1] = [call |-> "write_catalog"]
                  \/ t[k] = [call |-> "write_catalog"]
             /\ \A id \in Ids : Row(mem[Table], id) # NoRow =>
                  \E k \in 1 .. Len(t) : t[k] = Put(c, EntryOf(c, id))
             /\ \E k \in 1 .. Len(t) : t[k] = Sync(c)
<1> DEFINE rows == ScanTable
           m == Len(rows)
           a == [i \in 1 .. m |-> Log(c, Entry(c, rows[i]))]
           b == [i \in 1 .. m |-> Put(c, Entry(c, rows[i]))]
           order == [i \in 1 .. m |-> i]
           ss == [i \in DOMAIN order |-> <<a[order[i]], b[order[i]]>>]
           u == FlattenSeq(ss)
           o == [call |-> "open_catalog"]
           z == [call |-> "write_catalog"]
           t == CreateIndexCalls(c)
<1>1. /\ rows \in Seq(TablePair)
      /\ \A i \in 1 .. m :
           /\ rows[i][1] \in Ids /\ Row(mem[Table], rows[i][1]) # NoRow
           /\ rows[i] = <<rows[i][1], Row(mem[Table], rows[i][1])>>
      /\ \A id \in Ids : Row(mem[Table], id) # NoRow =>
           \E i \in 1 .. m : rows[i] = <<id, Row(mem[Table], id)>>
  BY ScanIs
<1>2. m \in Nat /\ DOMAIN rows = 1 .. m /\ \A i \in 1 .. m : rows[i] \in TablePair
  BY <1>1, LenProperties, ElementOfSeq
<1>3. t = (u \o <<Sync(c), Truncate(c)>>) \o <<o, z>>
  <2>1. [i \in DOMAIN rows |-> Store(c, Entry(c, rows[i]))] = ss
    BY <1>2 DEF Store
  <2> QED
    BY <2>1 DEF CreateIndexCalls, Checkpointed, SaveCatalog
<1>4. \A i \in 1 .. m : a[i] \in Call /\ b[i] \in Call
  <2> SUFFICES ASSUME NEW i \in 1 .. m PROVE a[i] \in Call /\ b[i] \in Call
    OBVIOUS
  <2>1. c \in Stores
    BY DEF Stores
  <2>2. rows[i] = <<rows[i][1], rows[i][2]>> /\ rows[i][1] \in Ids /\ rows[i][2] \in Values
    BY <1>2 DEF TablePair
  <2>3. Entry(c, rows[i]) \in Pair
    BY <2>2, EntryTypes
  <2> QED
    BY <2>1, <2>3, CallTypes
<1>5. order \in Seq(1 .. m) /\ Len(order) = m /\ \A i \in 1 .. m : \E j \in 1 .. Len(order) : order[j] = i
  <2>1. order \in [1 .. m -> 1 .. m]
    OBVIOUS
  <2>2. order \in Seq(1 .. m)
    <3> HIDE DEF m
    <3> QED
      BY <1>2, <2>1, SeqDef
  <2>3. Len(order) = m
    BY <1>2, <2>1, <2>2, LenProperties
  <2> QED
    BY <2>2, <2>3
<1>6. ASSUME NEW i \in 1 .. m
      PROVE  \E id \in Ids : /\ Row(mem[Table], id) # NoRow
                             /\ a[i] = Log(c, EntryOf(c, id)) /\ b[i] = Put(c, EntryOf(c, id))
  BY <1>1 DEF EntryOf
<1>7. ASSUME NEW id \in Ids, Row(mem[Table], id) # NoRow
      PROVE  \E i \in 1 .. m : b[i] = Put(c, EntryOf(c, id))
  BY <1>1, <1>7 DEF EntryOf
<1> HIDE DEF rows, a, b, order, t
<1>8. u \in Seq(Call) /\ PairsOf(u, 1 .. m, a, b)
  BY <1>4, <1>5, OrderedPairs
<1> HIDE DEF u, m
<1>9. \A x \in {Sync(c), Truncate(c), o, z} : x \in Call
  <2>1. c \in Stores
    BY DEF Stores
  <2> QED
    BY <2>1, CallTypes
<1> HIDE DEF o, z
<1> DEFINE n == Len(u)
<1>10. /\ t \in Seq(Call)
       /\ t[n + 1] = Sync(c) /\ t[n + 2] = Truncate(c) /\ t[n + 3] = o /\ t[n + 4] = z
       /\ \A i \in 1 .. n : t[i] = u[i]
       /\ n \in Nat /\ Len(t) = n + 4
  <2> DEFINE w == <<Sync(c), Truncate(c)>>
             x == <<o, z>>
  <2>1. w \in Seq(Call) /\ Len(w) = 2 /\ w[1] = Sync(c) /\ w[2] = Truncate(c)
    BY <1>9
  <2>2. x \in Seq(Call) /\ Len(x) = 2 /\ x[1] = o /\ x[2] = z
    BY <1>9
  <2>3. t = (u \o w) \o x
    BY <1>3
  <2> HIDE DEF w, x
  <2> DEFINE y == u \o w
  <2>4. /\ y \in Seq(Call) /\ n \in Nat /\ Len(y) = n + Len(w)
        /\ \A i \in 1 .. n : y[i] = u[i]
        /\ \A i \in 1 .. Len(w) : y[n + i] = w[i]
    <3>1. u \in Seq(Call) /\ w \in Seq(Call)
      BY <1>8, <2>1
    <3> QED
      BY <3>1, Concatenated
  <2>5. t = y \o x
    BY <2>3
  <2> HIDE DEF y
  <2>6. /\ t \in Seq(Call) /\ Len(t) = Len(y) + Len(x)
        /\ \A i \in 1 .. Len(y) : t[i] = y[i]
        /\ \A i \in 1 .. Len(x) : t[Len(y) + i] = x[i]
    <3>1. y \in Seq(Call) /\ x \in Seq(Call)
      BY <2>2, <2>4
    <3> QED
      BY <2>5, <3>1, Concatenated
  <2> HIDE DEF n
  <2>7. n \in Nat /\ Len(y) = n + 2 /\ Len(t) = n + 4
    BY <2>1, <2>2, <2>4, <2>6
  <2>8. 1 \in 1 .. 2 /\ 2 \in 1 .. 2 /\ Len(y) + 1 = n + 3 /\ Len(y) + 2 = n + 4
    BY <2>7
  <2>9. n + 1 \in 1 .. Len(y) /\ n + 2 \in 1 .. Len(y) /\ \A i \in 1 .. n : i \in 1 .. Len(y)
    BY <2>7
  <2>10. t[n + 3] = o /\ t[n + 4] = z
    BY <2>2, <2>6, <2>8
  <2>11. t[n + 1] = Sync(c) /\ t[n + 2] = Truncate(c)
    BY <2>1, <2>4, <2>6, <2>8, <2>9
  <2>12. \A i \in 1 .. n : t[i] = u[i]
    BY <2>4, <2>6, <2>9
  <2> QED
    BY <2>6, <2>7, <2>10, <2>11, <2>12
<1> HIDE DEF n
<1>11. n \in Nat /\ Len(t) = n + 4
  BY <1>10
<1>12. /\ n + 1 \in 1 .. Len(t) /\ (\A i \in 1 .. n : i \in 1 .. Len(t) /\ n + 1 \in i + 1 .. Len(t))
       /\ \A k \in 1 .. Len(t) : k \in 1 .. n \/ k = n + 1 \/ k = n + 2 \/ k = n + 3 \/ k = n + 4
       /\ (n + 2) - 1 = n + 1 /\ n + 2 > 1 /\ (n + 3) + 1 = n + 4 /\ n + 3 < Len(t)
       /\ \A k \in 1 .. n : k > 1 => k - 1 \in 1 .. n
  BY <1>11
<1>13. ASSUME NEW k \in 1 .. n
       PROVE  /\ \E id \in Ids :
                   /\ Row(mem[Table], id) # NoRow
                   /\ \/ t[k] = Log(c, EntryOf(c, id))
                      \/ /\ t[k] = Put(c, EntryOf(c, id))
                         /\ k > 1 /\ t[k - 1] = Log(c, EntryOf(c, id))
              /\ \E j \in k + 1 .. Len(t) : t[j] = Sync(c)
  <2>1. PICK i \in 1 .. m : u[k] = a[i] \/ (u[k] = b[i] /\ k > 1 /\ u[k - 1] = a[i])
    BY <1>8 DEF PairsOf, n
  <2>2. PICK id \in Ids : /\ Row(mem[Table], id) # NoRow
                          /\ a[i] = Log(c, EntryOf(c, id)) /\ b[i] = Put(c, EntryOf(c, id))
    BY <1>6
  <2>3. t[k] = u[k] /\ (k > 1 => t[k - 1] = u[k - 1])
    BY <1>10, <1>12
  <2>4. \E j \in k + 1 .. Len(t) : t[j] = Sync(c)
    BY <1>10, <1>12
  <2> QED
    BY <2>1, <2>2, <2>3, <2>4
<1>14. ASSUME NEW k \in 1 .. Len(t), k \notin 1 .. n
       PROVE  \/ t[k] = Sync(c)
              \/ t[k] = Truncate(c) /\ k > 1 /\ t[k - 1] = Sync(c)
              \/ t[k] = o /\ k < Len(t) /\ t[k + 1] = z
              \/ t[k] = z
  BY <1>10, <1>12, <1>14
<1>15. ASSUME NEW id \in Ids, Row(mem[Table], id) # NoRow
       PROVE  \E k \in 1 .. Len(t) : t[k] = Put(c, EntryOf(c, id))
  <2>1. PICK i \in 1 .. m : b[i] = Put(c, EntryOf(c, id))
    BY <1>7, <1>15
  <2>2. PICK k \in 1 .. n : u[k] = b[i]
    BY <1>8 DEF PairsOf, n
  <2> QED
    BY <1>10, <1>12, <2>1, <2>2
<1>16. \E k \in 1 .. Len(t) : t[k] = Sync(c)
  BY <1>10, <1>12
<1>17. \A k \in 1 .. Len(t) :
          \/ /\ \E id \in Ids :
                  /\ Row(mem[Table], id) # NoRow
                  /\ \/ t[k] = Log(c, EntryOf(c, id))
                     \/ /\ t[k] = Put(c, EntryOf(c, id))
                        /\ k > 1 /\ t[k - 1] = Log(c, EntryOf(c, id))
             /\ \E j \in k + 1 .. Len(t) : t[j] = Sync(c)
          \/ t[k] = Sync(c)
          \/ t[k] = Truncate(c) /\ k > 1 /\ t[k - 1] = Sync(c)
          \/ t[k] = o /\ k < Len(t) /\ t[k + 1] = z
          \/ t[k] = z
  BY <1>13, <1>14
<1> QED
  BY <1>10, <1>15, <1>16, <1>17 DEF t, o, z

-----------------------------------------------------------------------------
(* The state after a call.                                                 *)

LEMMA TableIsNoIndex == Table \in Stores /\ Table \notin IndexColumns /\ IndexColumns \subseteq Stores
BY DatabaseAssumption DEF Stores

LEMMA Head1 ==
  ASSUME TypeOK, CallsInv, todo # << >>
  PROVE  /\ Len(todo) \in Nat /\ Len(todo) > 0 /\ 1 \in 1 .. Len(todo)
         /\ Head(todo) = todo[1] /\ todo[1] \in Call /\ CallInv(todo[1]) /\ Follows(1)
         /\ job \in Job /\ job.kind \notin {"idle", "down"}
<1>1. /\ Len(todo) \in Nat /\ Len(todo) > 0 /\ 1 \in 1 .. Len(todo)
      /\ Head(todo) = todo[1] /\ todo[1] \in Call
  BY HeadAndTail DEF TypeOK
<1> QED
  BY <1>1 DEF CallsInv, TypeOK

\* What the first call is about, when it is one of the four that use a store.
LEMMA FirstCall ==
  ASSUME TypeOK, CallsInv, todo # << >>,
         Head(todo).call \in {"log_insert", "insert", "sync", "truncate"}
  PROVE  /\ This = todo[1].store /\ This \in Stores
         /\ todo[1].call \in {"log_insert", "insert"} =>
              /\ todo[1].pair \in Pair /\ (This = Table => todo[1].pair \in TablePair)
              /\ job.kind \in {"insert", "create_index"}
         /\ job.kind = "create_index" => This = job.col /\ This # Table
         /\ job.kind = "insert" =>
              /\ todo[1].call \in {"log_insert", "insert"} /\ job.row \in TablePair
              /\ This \in {Table} \cup open /\ todo[1].pair = Due(This)
         /\ job.kind = "checkpoint" => todo[1].call \in {"sync", "truncate"}
<1>1. /\ Head(todo) = todo[1] /\ todo[1] \in Call /\ CallInv(todo[1])
      /\ job \in Job /\ job.kind \notin {"idle", "down"}
  BY Head1
<1>2. todo[1].call \in {"log_insert", "insert", "sync", "truncate"} /\ This = todo[1].store
  BY <1>1 DEF This
<1>3. This \in Stores /\ (todo[1].call \in {"log_insert", "insert"} => todo[1].pair \in Pair)
  BY <1>1, <1>2, CallForms
<1>4. job.kind = "insert" =>
        /\ todo[1].call \in {"log_insert", "insert"} /\ job.row \in TablePair
        /\ This \in {Table} \cup open /\ todo[1].pair = Due(This)
  BY <1>1, <1>2, JobForms DEF CallInv
<1>5. job.kind = "create_index" => This = job.col /\ This # Table
  BY <1>1, <1>2, JobForms, TableIsNoIndex DEF CallInv
<1>6. todo[1].call \in {"log_insert", "insert"} => job.kind \in {"insert", "create_index"}
  BY <1>1, <1>2 DEF CallInv
<1>7. job.kind = "checkpoint" => todo[1].call \in {"sync", "truncate"}
  BY <1>2, <1>6
<1>8. todo[1].call \in {"log_insert", "insert"} /\ This = Table => todo[1].pair \in TablePair
  BY <1>4, <1>5, <1>6 DEF Due
<1> QED
  BY <1>2, <1>3, <1>4, <1>5, <1>6, <1>7, <1>8

LEMMA PairAppended ==
  ASSUME NEW f, PairsIn(f), NEW s \in Stores, NEW p \in Pair, s = Table => p \in TablePair
  PROVE  PairsIn([f EXCEPT ![s] = Append(@, p)])
<1> DEFINE g == [f EXCEPT ![s] = Append(@, p)]
<1>1. f \in [Stores -> Seq(Pair)] /\ f[Table] \in Seq(TablePair) /\ Table \in Stores
  BY TableIsNoIndex DEF PairsIn
<1>2. Append(f[s], p) \in Seq(Pair)
  BY <1>1, Appended
<1>3. s = Table => Append(f[s], p) \in Seq(TablePair)
  BY <1>1, Appended
<1>4. g \in [Stores -> Seq(Pair)]
  BY <1>1, <1>2
<1>5. g[Table] \in Seq(TablePair)
  BY <1>1, <1>3
<1> QED
  BY <1>4, <1>5 DEF PairsIn

LEMMA PairsReplaced ==
  ASSUME NEW f, PairsIn(f), NEW s \in Stores, NEW t \in Seq(Pair), s = Table => t \in Seq(TablePair)
  PROVE  PairsIn([f EXCEPT ![s] = t])
BY TableIsNoIndex DEF PairsIn

LEMMA NoPairs == << >> \in Seq(Pair) /\ << >> \in Seq(TablePair) /\ Len(<< >>) = 0
OBVIOUS

\* What a call does to the files, answered or not.  Alike: at most a piece of a record
\* is there, or a record behind one.
DiskCall == Interrupted \/ LogInsert \/ SyncPages \/ TruncateLog

Alike ==
  /\ UNCHANGED <<pages, log>> /\ behind \subseteq behind'
  /\ \/ synced' = synced
     \/ Calling("log_insert") /\ synced' = [synced EXCEPT ![This] = Len(log[This])]

Wrote ==
  /\ Calling("log_insert")
  /\ log' = [log EXCEPT ![This] = Append(@, Head(todo).pair)]
  /\ synced' = synced \/ synced' = [synced EXCEPT ![This] = Len(log[This]) + 1]
  /\ UNCHANGED <<pages, behind>>

Flushed ==
  /\ Calling("sync")
  /\ pages' = [pages EXCEPT ![This] = mem[This]]
  /\ UNCHANGED <<log, synced, behind>>

Emptied ==
  /\ Calling("truncate")
  /\ log' = [log EXCEPT ![This] = << >>]
  /\ synced' = [synced EXCEPT ![This] = 0]
  /\ behind' = behind \ {This}
  /\ UNCHANGED pages

LEMMA DiskCases ==
  ASSUME DiskCall
  PROVE  Alike \/ Wrote \/ Flushed \/ Emptied
<1>1. CASE LogInsert
  <2>1. CASE This \notin torn
    BY <1>1, <2>1 DEF LogInsert, Wrote
  <2>2. CASE This \in torn
    BY <1>1, <2>2 DEF LogInsert, Alike
  <2> QED
    BY <2>1, <2>2
<1>2. CASE SyncPages
  BY <1>2 DEF SyncPages, Flushed
<1>3. CASE TruncateLog
  BY <1>3 DEF TruncateLog, EmptyLog, Emptied
<1>4. CASE UNCHANGED disk
  BY <1>4 DEF disk, Alike
<1>5. CASE /\ Calling("log_insert")
           /\ \/ /\ This \notin torn
                 /\ log' = [log EXCEPT ![This] = Append(@, Head(todo).pair)]
                 /\ UNCHANGED <<torn, behind>>
              \/ /\ torn' = torn \cup {This}
                 /\ behind' = behind \cup ({This} \cap torn)
                 /\ UNCHANGED log
           /\ UNCHANGED <<pages, mixed, synced, unsynced>>
  BY <1>5 DEF Alike, Wrote
<1>6. CASE /\ Calling("sync")
           /\ \/ /\ pages' = [pages EXCEPT ![This] = mem[This]]
                 /\ mixed' = mixed \ {This}
                 /\ unsynced' = unsynced \cup {This}
              \/ /\ mixed' = mixed \cup {This}
                 /\ UNCHANGED <<pages, unsynced>>
           /\ UNCHANGED <<log, synced, torn, behind>>
  BY <1>6 DEF Alike, Flushed
<1>7. CASE /\ Calling("truncate")
           /\ EmptyLog
           /\ unsynced' = unsynced \cup {This}
           /\ UNCHANGED <<pages, mixed>>
  BY <1>7 DEF EmptyLog, Emptied
<1> QED
  BY <1>1, <1>2, <1>3, <1>4, <1>5, <1>6, <1>7 DEF DiskCall, Interrupted

\* A call that fails half way, or is answered, leaves files of the same form.
LEMMA DiskTypes ==
  ASSUME TypeOK, CallsInv, DiskCall
  PROVE  DiskOK'
<1>1. /\ PairsIn(mem) /\ PairsIn(pages) /\ PairsIn(log)
      /\ synced \in [Stores -> Nat] /\ \A s \in Stores : synced[s] <= Len(log[s])
  BY DEF TypeOK, DiskOK
<1>2. log \in [Stores -> Seq(Pair)] /\ \A s \in Stores : Len(log[s]) \in Nat
  BY <1>1, LenProperties DEF PairsIn
<1>3. CASE Alike
  <2>1. PairsIn(pages') /\ PairsIn(log')
    BY <1>1, <1>3 DEF Alike
  <2>2. synced' \in [Stores -> Nat] /\ \A s \in Stores : synced'[s] <= Len(log[s])
    <3>1. CASE synced' = synced
      BY <1>1, <3>1
    <3>2. CASE Calling("log_insert") /\ synced' = [synced EXCEPT ![This] = Len(log[This])]
      <4>1. This \in Stores
        BY <3>2, FirstCall DEF Calling
      <4> QED
        BY <1>1, <1>2, <3>2, <4>1
    <3> QED
      BY <1>3, <3>1, <3>2 DEF Alike
  <2>3. log' = log
    BY <1>3 DEF Alike
  <2> QED
    BY <2>1, <2>2, <2>3 DEF DiskOK, PairsIn
<1>4. CASE Wrote
  <2>1. /\ This \in Stores /\ todo[1].pair \in Pair /\ (This = Table => todo[1].pair \in TablePair)
        /\ Head(todo) = todo[1]
    BY <1>4, FirstCall, Head1 DEF Wrote, Calling
  <2>2. PairsIn(log')
    BY <1>1, <1>4, <2>1, PairAppended DEF Wrote
  <2>3. log'[This] = Append(log[This], todo[1].pair) /\ \A s \in Stores : s # This => log'[s] = log[s]
    BY <1>2, <1>4, <2>1 DEF Wrote
  <2>4. Len(log'[This]) = Len(log[This]) + 1
    BY <1>2, <2>1, <2>3, Appended
  <2>5. synced' \in [Stores -> Nat]
    BY <1>1, <1>2, <1>4, <2>1 DEF Wrote
  <2>6. ASSUME NEW s \in Stores PROVE synced'[s] <= Len(log'[s])
    <3>1. synced'[s] = synced[s] \/ (s = This /\ synced'[s] = Len(log[s]) + 1)
      BY <1>1, <1>4, <2>1 DEF Wrote
    <3>2. Len(log'[s]) = Len(log[s]) \/ (s = This /\ Len(log'[s]) = Len(log[s]) + 1)
      BY <2>3, <2>4
    <3>3. s = This => Len(log'[s]) = Len(log[s]) + 1
      BY <2>4
    <3>4. synced[s] \in Nat /\ Len(log[s]) \in Nat /\ synced[s] <= Len(log[s])
      BY <1>1, <1>2
    <3> QED
      BY ONLY <3>1, <3>2, <3>3, <3>4
  <2>7. PairsIn(pages')
    BY <1>1, <1>4 DEF Wrote
  <2> QED
    BY <2>2, <2>5, <2>6, <2>7 DEF DiskOK, PairsIn
<1>5. CASE Flushed
  <2>1. This \in Stores
    BY <1>5, FirstCall DEF Flushed, Calling
  <2>2. mem[This] \in Seq(Pair) /\ (This = Table => mem[This] \in Seq(TablePair))
    BY <1>1, <2>1 DEF PairsIn
  <2>3. PairsIn(pages')
    BY <1>1, <1>5, <2>1, <2>2, PairsReplaced DEF Flushed
  <2>4. PairsIn(log') /\ synced' \in [Stores -> Nat] /\ \A s \in Stores : synced'[s] <= Len(log'[s])
    BY <1>1, <1>5 DEF Flushed
  <2> QED
    BY <2>3, <2>4 DEF DiskOK, PairsIn
<1>6. CASE Emptied
  <2>1. This \in Stores
    BY <1>6, FirstCall DEF Emptied, Calling
  <2>2. PairsIn(log')
    BY <1>1, <1>6, <2>1, NoPairs, PairsReplaced DEF Emptied
  <2>3. ASSUME NEW s \in Stores PROVE synced'[s] <= Len(log'[s])
    <3>1. CASE s = This
      <4>1. synced'[s] = 0 /\ log'[s] = << >>
        BY <1>1, <1>2, <1>6, <3>1 DEF Emptied
      <4> QED
        BY <4>1, NoPairs
    <3>2. CASE s # This
      BY <1>1, <1>2, <1>6, <3>2 DEF Emptied
    <3> QED
      BY <3>1, <3>2
  <2>4. synced' \in [Stores -> Nat] /\ PairsIn(pages')
    BY <1>1, <1>6 DEF Emptied
  <2> QED
    BY <2>2, <2>3, <2>4 DEF DiskOK, PairsIn
<1> QED
  BY <1>3, <1>4, <1>5, <1>6, DiskCases

-----------------------------------------------------------------------------
(* What is left to do.                                                     *)

\* The first n calls are gone.
Advances(n) ==
  /\ n \in {1, 2} /\ Len(todo) \in Nat /\ Len(todo) >= n
  /\ todo' \in Seq(Call) /\ Len(todo') = Len(todo) - n
  /\ \A i \in 1 .. Len(todo') : todo'[i] = todo[i + n]
  /\ UNCHANGED <<job, cols, open>>

LEMMA OneDone ==
  ASSUME TypeOK, todo # << >>, todo' = Tail(todo), UNCHANGED <<job, cols, open>>
  PROVE  Advances(1)
<1>1. todo \in Seq(Call)
  BY DEF TypeOK
<1>2. /\ Len(todo) \in Nat /\ Len(todo) > 0
      /\ Tail(todo) \in Seq(Call) /\ Len(Tail(todo)) = Len(todo) - 1
      /\ \A i \in 1 .. Len(todo) - 1 : Tail(todo)[i] = todo[i + 1]
  BY <1>1, HeadAndTail
<1> QED
  BY <1>2 DEF Advances

LEMMA TwoDone ==
  ASSUME TypeOK, CallsInv, Calling("open_catalog"), todo' = Tail(Tail(todo)),
         UNCHANGED <<job, cols, open>>
  PROVE  Advances(2) /\ todo[2].call = "write_catalog"
<1>1. todo \in Seq(Call) /\ todo # << >>
  BY DEF TypeOK, Calling
<1> DEFINE t == Tail(todo)
<1>2. /\ Len(todo) \in Nat /\ t \in Seq(Call) /\ Len(t) = Len(todo) - 1
      /\ \A i \in 1 .. Len(todo) - 1 : t[i] = todo[i + 1]
  BY <1>1, HeadAndTail
<1>3. 1 < Len(todo) /\ todo[1 + 1].call = "write_catalog"
  <2>1. todo[1].call = "open_catalog" /\ Follows(1) /\ Len(todo) \in Nat
    BY <1>1, Head1 DEF Calling
  <2> QED
    BY ONLY <2>1 DEF Follows
<1>3a. Len(todo) > 1
  <2>1. 1 < Len(todo)
    BY <1>3
  <2> QED
    BY ONLY <1>2, <2>1
<1>3b. todo[2].call = "write_catalog"
  <2>1. 1 + 1 = 2
    BY ONLY NoPairs
  <2> QED
    BY ONLY <1>3, <2>1
<1> HIDE DEF t
<1>4. t # << >>
  BY ONLY <1>2, <1>3a, NoPairs
<1>5. /\ Tail(t) \in Seq(Call) /\ Len(Tail(t)) = Len(t) - 1
      /\ \A i \in 1 .. Len(t) - 1 : Tail(t)[i] = t[i + 1]
  BY ONLY <1>2, <1>4, HeadAndTail
<1>6. todo' = Tail(t)
  BY DEF t
<1>7. ASSUME NEW i \in 1 .. Len(todo') PROVE todo'[i] = todo[i + 2]
  <2>1. Len(todo) \in Nat /\ Len(t) = Len(todo) - 1 /\ Len(todo') = Len(t) - 1
    BY <1>2, <1>5, <1>6
  <2>2. i \in 1 .. Len(t) - 1 /\ i + 1 \in 1 .. Len(todo) - 1 /\ (i + 1) + 1 = i + 2
    BY ONLY <2>1, i \in 1 .. Len(todo')
  <2> QED
    BY ONLY <1>2, <1>5, <1>6, <2>2
<1>8. Len(todo) \in Nat /\ Len(todo) >= 2 /\ Len(todo') = Len(todo) - 2
  <2>1. Len(todo) \in Nat /\ Len(t) = Len(todo) - 1 /\ Len(todo') = Len(t) - 1
    BY <1>2, <1>5, <1>6
  <2> QED
    BY ONLY <1>3a, <2>1
<1>9. todo' \in Seq(Call)
  BY <1>5, <1>6
<1> QED
  BY <1>3b, <1>7, <1>8, <1>9 DEF Advances

\* What waits and was not done now, still waits.
LEMMA StillWaiting ==
  ASSUME NEW n, Advances(n), NEW x, Waiting(x), \A i \in 1 .. n : todo[i] # x
  PROVE  \E i \in 1 .. Len(todo') : todo'[i] = x
<1>1. PICK i \in 1 .. Len(todo) : todo[i] = x
  BY DEF Waiting
<1>2. i - n \in 1 .. Len(todo') /\ (i - n) + n = i
  BY <1>1 DEF Advances
<1> QED
  BY <1>1, <1>2 DEF Advances

\* The calls that are done did what the one behind them relies on.
DoneWell(n) ==
  /\ job.kind = "create_index" => mem'[Table] = mem[Table]
  /\ n = 2 => todo[2].call = "write_catalog"
  /\ n = 1 => \A s \in Stores :
       /\ \A p \in Pair : todo[1] = Log(s, p) => Logged(s, p)'
       /\ todo[1] = Sync(s) => pages'[s] = mem'[s]

\* Each call still belongs to the statement and follows the one before it.
LEMMA CallsAdvance ==
  ASSUME TypeOK, CallsInv, NEW n, Advances(n),
         DoneWell(n)
  PROVE  CallsInv'
<1>1. /\ n \in {1, 2} /\ Len(todo) \in Nat /\ Len(todo) >= n
      /\ todo' \in Seq(Call) /\ Len(todo') = Len(todo) - n
      /\ \A i \in 1 .. Len(todo') : todo'[i] = todo[i + n]
      /\ job' = job /\ cols' = cols /\ open' = open
  BY DEF Advances
<1>2. \A i \in 1 .. Len(todo') :
        /\ i + n \in 1 .. Len(todo) /\ i + n > 1 /\ (i # 1 => i - 1 \in 1 .. Len(todo'))
        /\ (i + n) - 1 = (i - 1) + n /\ (i = 1 => (i + n) - 1 = n)
        /\ (i + n < Len(todo) => i < Len(todo') /\ i + 1 \in 1 .. Len(todo') /\ (i + 1) + n = (i + n) + 1)
  <2>1. n \in {1, 2} /\ Len(todo) \in Nat /\ Len(todo) >= n /\ Len(todo') = Len(todo) - n
    BY <1>1
  <2>2. n \in Nat /\ n > 0 /\ Len(todo') \in Nat
    BY <2>1
  <2> QED
    BY <2>1, <2>2
<1>3. ASSUME NEW i \in 1 .. Len(todo') PROVE CallInv(todo[i])'
  <2> DEFINE x == todo[i + n]
  <2>1. CallInv(x) /\ todo'[i] = x
    BY <1>1, <1>2 DEF CallsInv
  <2> HIDE DEF x
  <2>2. job.kind = "create_index" => \A id \in Ids :
          Row(mem'[Table], id) = Row(mem[Table], id) /\ EntryOf(job.col, id)' = EntryOf(job.col, id)
    BY <1>1 DEF EntryOf, Entry, DoneWell
  <2>3. \A s : Due(s)' = Due(s)
    BY <1>1 DEF Due, Entry
  <2> QED
    BY <1>1, <2>1, <2>2, <2>3 DEF CallInv
<1>4. ASSUME NEW i \in 1 .. Len(todo') PROVE Follows(i)'
  <2>0. PICK x : x = todo[i + n]
    OBVIOUS
  <2>1. Follows(i + n) /\ todo'[i] = x /\ i + n # 1
    <3>1. i + n \in 1 .. Len(todo) /\ i + n > 1 /\ todo'[i] = todo[i + n]
      BY <1>1, <1>2
    <3>2. Follows(i + n)
      BY <3>1 DEF CallsInv
    <3>3. i + n # 1
      BY <3>1
    <3> QED
      BY <2>0, <3>1, <3>2, <3>3
  <2>2. x \in Call
    BY <1>2, <2>0, ElementOfSeq DEF TypeOK
  <2>3. CASE i # 1
    <3>1. todo'[i - 1] = todo[(i + n) - 1]
      BY <1>1, <1>2, <2>3
    <3>2. i + n < Len(todo) => todo'[i + 1] = todo[(i + n) + 1]
      BY <1>1, <1>2
    <3>3. /\ x.call = "insert" => todo'[i - 1] = Log(x.store, x.pair)
          /\ x.call = "truncate" => todo'[i - 1] = Sync(x.store)
          /\ x.call = "open_catalog" => i < Len(todo') /\ todo'[i + 1].call = "write_catalog"
      BY <1>2, <2>0, <2>1, <3>1, <3>2 DEF Follows
    <3> QED
      BY <2>1, <2>3, <3>3 DEF Follows
  <2>4. CASE i = 1
    <3>1. i + n < Len(todo) => todo'[i + 1] = todo[(i + n) + 1]
      BY SMTT(30), <1>1, <1>2
    <3>2. (i + n) - 1 = n
      BY <1>2, <2>4
    <3>3. /\ x.call = "insert" => todo[n] = Log(x.store, x.pair)
          /\ x.call = "truncate" => todo[n] = Sync(x.store)
          /\ x.call = "open_catalog" => i < Len(todo') /\ todo'[i + 1].call = "write_catalog"
      BY <1>2, <2>0, <2>1, <3>1, <3>2 DEF Follows
    <3>4. CASE n = 2
      <4>1. \A s, p : Log(s, p).call # "write_catalog" /\ Sync(s).call # "write_catalog"
        BY DEF Log, Sync
      <4>2. todo[n].call = "write_catalog"
        BY <3>4 DEF DoneWell
      <4>3. x.call # "insert" /\ x.call # "truncate"
        BY <3>3, <4>1, <4>2
      <4> QED
        BY <2>1, <2>4, <3>3, <4>3 DEF Follows
    <3>5. CASE n = 1
      <4>1. /\ x.call = "insert" => x.store \in Stores /\ x.pair \in Pair
            /\ x.call = "truncate" => x.store \in Stores
        BY <2>2, CallForms
      <4>2. \A s \in Stores : /\ \A p \in Pair : todo[1] = Log(s, p) => Logged(s, p)'
                              /\ todo[1] = Sync(s) => pages'[s] = mem'[s]
        BY <3>5 DEF DoneWell
      <4>3. x.call = "insert" => Logged(x.store, x.pair)'
        BY <3>3, <3>5, <4>1, <4>2
      <4>4. x.call = "truncate" => pages'[x.store] = mem'[x.store]
        BY <3>3, <3>5, <4>1, <4>2
      <4> QED
        BY <2>1, <2>4, <3>3, <4>3, <4>4 DEF Follows
    <3> QED
      BY <1>1, <3>4, <3>5
  <2> QED
    BY <2>3, <2>4
<1>5. job.kind \notin {"idle", "down"} /\ (job.kind = "create_index" => job.col \in open)
  <2>1. todo # << >>
    BY SMTT(30), <1>1, NoPairs
  <2> QED
    BY <2>1, Head1 DEF CallsInv
<1> QED
  BY <1>1, <1>3, <1>4, <1>5 DEF CallsInv

\* What each call does, with its store and its pair named.
LEMMA LogInsertDoes ==
  ASSUME TypeOK, CallsInv, LogInsert
  PROVE  \E s \in Stores, p \in Pair :
           /\ s = This /\ todo[1] = Log(s, p)
           /\ (s = Table => p \in TablePair)
           /\ \A t \in Stores : t # s => log'[t] = log[t] /\ synced'[t] = synced[t]
           /\ behind \subseteq behind'
           /\ Logged(s, p)'
           /\ Advances(1)
<1>1. /\ todo # << >> /\ Head(todo).call = "log_insert" /\ todo' = Tail(todo)
      /\ UNCHANGED <<job, cols, open>>
  BY DEF LogInsert, Calling
<1>2. /\ This \in Stores /\ todo[1].pair \in Pair /\ This = todo[1].store
      /\ (This = Table => todo[1].pair \in TablePair)
      /\ Head(todo) = todo[1] /\ todo[1] \in Call
  BY <1>1, FirstCall, Head1
<1>3. PICK s \in Stores, p \in Pair : s = This /\ p = todo[1].pair
  BY <1>2
<1>4. todo[1] = Log(s, p)
  BY <1>1, <1>2, <1>3, CallForms
<1>5. log \in [Stores -> Seq(Pair)] /\ synced \in [Stores -> Nat]
  BY DEF TypeOK, DiskOK, PairsIn
<1>6. Advances(1)
  BY SMTT(30), <1>1, OneDone
<1>7. ASSUME s \in torn
      PROVE  /\ \A t \in Stores : t # s => log'[t] = log[t] /\ synced'[t] = synced[t]
             /\ behind \subseteq behind' /\ Logged(s, p)'
  <2>1. log' = log /\ behind' = behind \cup {s} /\ synced' = [synced EXCEPT ![s] = Len(log[s])]
    BY <1>3, <1>7 DEF LogInsert
  <2>2. \A t \in Stores : t # s => synced'[t] = synced[t]
    BY <1>5, <2>1
  <2>3. Logged(s, p)'
    BY <2>1 DEF Logged
  <2> QED
    BY <2>1, <2>2, <2>3
<1>8. ASSUME s \notin torn
      PROVE  /\ \A t \in Stores : t # s => log'[t] = log[t] /\ synced'[t] = synced[t]
             /\ behind \subseteq behind' /\ Logged(s, p)'
  <2>1. /\ log' = [log EXCEPT ![s] = Append(@, p)] /\ behind' = behind
        /\ synced' = [synced EXCEPT ![s] = Len(log[s]) + 1]
    BY <1>2, <1>3, <1>8 DEF LogInsert
  <2>2. /\ log'[s] = Append(log[s], p) /\ synced'[s] = Len(log[s]) + 1
        /\ \A t \in Stores : t # s => log'[t] = log[t] /\ synced'[t] = synced[t]
    BY <1>3, <1>5, <2>1
  <2>3. /\ Len(log[s]) \in Nat /\ Len(Append(log[s], p)) = Len(log[s]) + 1
        /\ Append(log[s], p)[Len(log[s]) + 1] = p
    BY <1>5, Appended
  <2>4. Len(log'[s]) = Len(log[s]) + 1 /\ log'[s][Len(log[s]) + 1] = p
    BY <2>2, <2>3
  <2>5. Len(log'[s]) > 0
    BY <2>3, <2>4
  <2>6. Logged(s, p)'
    BY <2>2, <2>4, <2>5 DEF Logged
  <2>7. /\ \A t \in Stores : t # s => log'[t] = log[t] /\ synced'[t] = synced[t]
        /\ behind \subseteq behind'
    BY <2>1, <2>2
  <2> QED
    BY <2>6, <2>7
<1>9. s = Table => p \in TablePair
  BY <1>2, <1>3
<1> QED
  BY <1>3, <1>4, <1>6, <1>7, <1>8, <1>9

LEMMA TreeInsertDoes ==
  ASSUME TypeOK, CallsInv, TreeInsert
  PROVE  \E s \in Stores, p \in Pair :
           /\ s = This /\ todo[1] = Put(s, p)
           /\ (s = Table => p \in TablePair)
           /\ mem' = [mem EXCEPT ![s] = Append(@, p)]
           /\ Logged(s, p) /\ InTree(s, p)'
           /\ Advances(1)
<1>1. /\ todo # << >> /\ Head(todo).call = "insert" /\ todo' = Tail(todo)
      /\ mem' = [mem EXCEPT ![This] = Append(@, Head(todo).pair)]
      /\ UNCHANGED <<job, cols, open>>
  BY DEF TreeInsert, Calling
<1>2. /\ This \in Stores /\ todo[1].pair \in Pair /\ This = todo[1].store
      /\ (This = Table => todo[1].pair \in TablePair)
      /\ Head(todo) = todo[1] /\ todo[1] \in Call /\ Follows(1)
  BY <1>1, FirstCall, Head1
<1>3. PICK s \in Stores, p \in Pair : s = This /\ p = todo[1].pair
  BY <1>2
<1>4. todo[1] = Put(s, p)
  BY <1>1, <1>2, <1>3, CallForms
<1>5. mem \in [Stores -> Seq(Pair)]
  BY DEF TypeOK, PairsIn
<1>6. mem'[s] = Append(mem[s], p)
  BY <1>1, <1>2, <1>3, <1>5
<1>7. /\ Len(mem[s]) \in Nat /\ Len(Append(mem[s], p)) = Len(mem[s]) + 1
      /\ Append(mem[s], p)[Len(mem[s]) + 1] = p
  BY <1>5, Appended
<1>8. InTree(s, p)'
  <2>1. Len(mem'[s]) = Len(mem[s]) + 1 /\ mem'[s][Len(mem[s]) + 1] = p
    BY <1>6, <1>7
  <2>2. Len(mem'[s]) > 0
    BY <1>7, <2>1
  <2> QED
    BY <2>1, <2>2 DEF InTree
<1>9. Advances(1)
  BY <1>1, OneDone
<1>10. Logged(s, p)
  BY <1>1, <1>2, <1>3 DEF Follows
<1> QED
  BY <1>1, <1>2, <1>3, <1>4, <1>8, <1>9, <1>10

LEMMA SyncPagesDoes ==
  ASSUME TypeOK, CallsInv, SyncPages
  PROVE  \E s \in Stores :
           /\ s = This /\ todo[1] = Sync(s)
           /\ pages' = [pages EXCEPT ![s] = mem[s]]
           /\ Advances(1)
<1>1. /\ todo # << >> /\ Head(todo).call = "sync" /\ todo' = Tail(todo)
      /\ pages' = [pages EXCEPT ![This] = mem[This]]
      /\ UNCHANGED <<job, cols, open>>
  BY DEF SyncPages, Calling
<1>2. This \in Stores /\ This = todo[1].store /\ Head(todo) = todo[1] /\ todo[1] \in Call
  BY <1>1, FirstCall, Head1
<1>3. todo[1] = Sync(This)
  BY <1>1, <1>2, CallForms
<1>4. Advances(1)
  BY <1>1, OneDone
<1> QED
  BY <1>1, <1>2, <1>3, <1>4

LEMMA TruncateLogDoes ==
  ASSUME TypeOK, CallsInv, TruncateLog
  PROVE  \E s \in Stores : s = This /\ todo[1] = Truncate(s) /\ pages[s] = mem[s] /\ Advances(1)
<1>1. /\ todo # << >> /\ Head(todo).call = "truncate" /\ todo' = Tail(todo)
      /\ UNCHANGED <<job, cols, open>>
  BY DEF TruncateLog, Calling
<1>2. This \in Stores /\ This = todo[1].store /\ Head(todo) = todo[1] /\ todo[1] \in Call
      /\ Follows(1)
  BY <1>1, FirstCall, Head1
<1>3. todo[1] = Truncate(This) /\ pages[This] = mem[This]
  BY <1>1, <1>2, CallForms DEF Follows
<1>4. Advances(1)
  BY <1>1, OneDone
<1> QED
  BY <1>1, <1>2, <1>3, <1>4

LEMMA CatalogCallsDo ==
  ASSUME TypeOK, CallsInv, OpenCatalog \/ WriteCatalog
  PROVE  /\ Advances(1) \/ (Advances(2) /\ todo[2].call = "write_catalog")
         /\ todo[1].call \in {"open_catalog", "write_catalog"}
         /\ job.kind \in {"create_index", "create_table"}
         /\ UNCHANGED <<mem, disk, acked, complete, lost, cutback>>
         /\ catalog' \in {EmptyCatalog, [cols |-> cols, indexes |-> open], catalog}
         /\ versions' = versions \cup {catalog'}
<1>1. /\ todo # << >> /\ Head(todo).call \in {"open_catalog", "write_catalog"}
      /\ UNCHANGED <<job, cols, open, mem, disk, acked, complete, lost, cutback>>
      /\ catalog' \in {EmptyCatalog, [cols |-> cols, indexes |-> open], catalog}
      /\ versions' = versions \cup {catalog'}
      /\ \/ todo' = Tail(todo)
         \/ Calling("open_catalog") /\ todo' = Tail(Tail(todo))
  BY DEF OpenCatalog, WriteCatalog, Calling
<1>2. todo[1].call \in {"open_catalog", "write_catalog"} /\ CallInv(todo[1])
  BY <1>1, Head1
<1>3. job.kind \in {"create_index", "create_table"}
  BY <1>2 DEF CallInv
<1>4. Advances(1) \/ (Advances(2) /\ todo[2].call = "write_catalog")
  BY <1>1, OneDone, TwoDone
<1> QED
  BY <1>1, <1>2, <1>3, <1>4

-----------------------------------------------------------------------------
(* CallsInv, InsertInv and CreateInv, call by call.                        *)

LEMMA Distinct ==
  ASSUME NEW s, NEW p, NEW t, NEW q
  PROVE  /\ Log(s, p) # Put(t, q) /\ Log(s, p) # Sync(t) /\ Log(s, p) # Truncate(t)
         /\ Put(s, p) # Sync(t) /\ Put(s, p) # Truncate(t) /\ Sync(s) # Truncate(t)
         /\ Log(s, p) = Log(t, q) => s = t /\ p = q
         /\ Put(s, p) = Put(t, q) => s = t /\ p = q
         /\ Sync(s) = Sync(t) => s = t
<1>1. Log(s, p).store = s /\ Log(s, p).pair = p /\ Log(t, q).store = t /\ Log(t, q).pair = q
  BY DEF Log
<1>2. Put(s, p).store = s /\ Put(s, p).pair = p /\ Put(t, q).store = t /\ Put(t, q).pair = q
  BY DEF Put
<1>3. Sync(s).store = s /\ Sync(t).store = t
  BY DEF Sync
<1>4. /\ Log(s, p).call = "log_insert" /\ Put(s, p).call = "insert" /\ Put(t, q).call = "insert"
      /\ Sync(s).call = "sync" /\ Sync(t).call = "sync" /\ Truncate(t).call = "truncate"
  BY DEF Log, Put, Sync, Truncate
<1> QED
  BY <1>1, <1>2, <1>3, <1>4

LEMMA CallsInvCall ==
  ASSUME TypeOK, CallsInv,
         LogInsert \/ TreeInsert \/ SyncPages \/ TruncateLog \/ OpenCatalog \/ WriteCatalog
  PROVE  CallsInv'
<1> DEFINE Behind ==
      \A s \in Stores : /\ \A p \in Pair : todo[1] = Log(s, p) => Logged(s, p)'
                        /\ todo[1] = Sync(s) => pages'[s] = mem'[s]
<1>1. ASSUME Advances(1), Behind, job.kind = "create_index" => mem'[Table] = mem[Table]
      PROVE  CallsInv'
  <2>1. DoneWell(1)
    <3>1. 1 # 2
      BY ONLY TRUE
    <3> QED
      BY <1>1, <3>1, Zenon DEF DoneWell
  <2> QED
    BY <1>1, <2>1, CallsAdvance
<1>2. CASE LogInsert
  <2>1. PICK s \in Stores, p \in Pair : todo[1] = Log(s, p) /\ Logged(s, p)' /\ Advances(1)
    BY <1>2, LogInsertDoes
  <2>2. ASSUME NEW r \in Stores PROVE todo[1] # Sync(r)
    BY <2>1, Distinct
  <2>3. ASSUME NEW r \in Stores, NEW q \in Pair, todo[1] = Log(r, q) PROVE Logged(r, q)'
    <3>1. Log(r, q) = Log(s, p)
      BY <2>1, <2>3
    <3>2. r = s /\ q = p
      BY ONLY <3>1, Distinct
    <3> QED
      BY <2>1, <3>2
  <2>4. mem' = mem
    BY <1>2 DEF LogInsert
  <2> QED
    BY <1>1, <2>1, <2>2, <2>3, <2>4
<1>3. CASE TreeInsert
  <2>1. PICK s \in Stores, p \in Pair :
          s = This /\ todo[1] = Put(s, p) /\ mem' = [mem EXCEPT ![s] = Append(@, p)] /\ Advances(1)
    BY <1>3, TreeInsertDoes
  <2>2. job.kind = "create_index" => mem'[Table] = mem[Table]
    <3> SUFFICES ASSUME job.kind = "create_index" PROVE mem'[Table] = mem[Table]
      OBVIOUS
    <3>1. This # Table
      BY <1>3, FirstCall DEF TreeInsert, Calling
    <3>2. mem \in [Stores -> Seq(Pair)] /\ Table \in Stores
      BY TableIsNoIndex DEF TypeOK, PairsIn
    <3> QED
      BY <2>1, <3>1, <3>2
  <2>3. ASSUME NEW r \in Stores PROVE todo[1] # Sync(r) /\ \A q \in Pair : todo[1] # Log(r, q)
    BY <2>1, Distinct
  <2> QED
    BY <1>1, <2>1, <2>2, <2>3
<1>4. CASE SyncPages
  <2>1. PICK s \in Stores : /\ todo[1] = Sync(s) /\ pages' = [pages EXCEPT ![s] = mem[s]]
                            /\ Advances(1)
    BY <1>4, SyncPagesDoes
  <2>2. mem' = mem /\ pages \in [Stores -> Seq(Pair)]
    BY <1>4 DEF SyncPages, TypeOK, DiskOK, PairsIn
  <2>3. pages'[s] = mem'[s]
    BY <2>1, <2>2
  <2>4. ASSUME NEW r \in Stores PROVE \A q \in Pair : todo[1] # Log(r, q)
    BY <2>1, Distinct
  <2>5. ASSUME NEW r \in Stores, todo[1] = Sync(r) PROVE pages'[r] = mem'[r]
    <3>1. r = s
      BY <2>1, <2>5, Distinct
    <3> QED
      BY <2>3, <3>1
  <2> QED
    BY <1>1, <2>1, <2>2, <2>4, <2>5
<1>5. CASE TruncateLog
  <2>1. PICK s \in Stores : todo[1] = Truncate(s) /\ Advances(1)
    BY <1>5, TruncateLogDoes
  <2>2. mem' = mem
    BY <1>5 DEF TruncateLog
  <2>3. ASSUME NEW r \in Stores PROVE todo[1] # Sync(r) /\ \A q \in Pair : todo[1] # Log(r, q)
    BY <2>1, Distinct
  <2> QED
    BY <1>1, <2>1, <2>2, <2>3
<1>6. CASE OpenCatalog \/ WriteCatalog
  <2>1. /\ Advances(1) \/ (Advances(2) /\ todo[2].call = "write_catalog")
        /\ todo[1].call \in {"open_catalog", "write_catalog"} /\ mem' = mem
    BY <1>6, CatalogCallsDo
  <2>2. ASSUME NEW r PROVE todo[1] # Sync(r) /\ \A q : todo[1] # Log(r, q)
    <3>1. Sync(r).call = "sync" /\ \A q : Log(r, q).call = "log_insert"
      BY ONLY TRUE DEF Log, Sync
    <3> QED
      BY <2>1, <3>1
  <2>3. CASE Advances(1)
    BY <1>1, <2>1, <2>2, <2>3
  <2>4. CASE Advances(2) /\ todo[2].call = "write_catalog"
    <3>1. DoneWell(2)
      <4>1. 2 # 1
        BY ONLY TRUE
      <4> QED
        BY <2>1, <2>4, <4>1 DEF DoneWell
    <3> QED
      BY <2>4, <3>1, CallsAdvance
  <2> QED
    BY <2>1, <2>3, <2>4
<1> QED
  BY <1>2, <1>3, <1>4, <1>5, <1>6

LEMMA InsertInvCall ==
  ASSUME TypeOK, CallsInv, InsertInv,
         LogInsert \/ TreeInsert \/ SyncPages \/ TruncateLog \/ OpenCatalog \/ WriteCatalog
  PROVE  InsertInv'
<1> SUFFICES ASSUME job.kind = "insert", LogInsert \/ TreeInsert PROVE InsertInv'
  <2>1. job' = job
    BY DEF LogInsert, TreeInsert, SyncPages, TruncateLog, OpenCatalog, WriteCatalog
  <2>2. job.kind = "insert" => LogInsert \/ TreeInsert
    <3>1. SyncPages \/ TruncateLog => job.kind # "insert"
      BY FirstCall, Head1 DEF SyncPages, TruncateLog, Calling
    <3>2. OpenCatalog \/ WriteCatalog => job.kind # "insert"
      BY CatalogCallsDo
    <3> QED
      BY <3>1, <3>2
  <2> QED
    BY <2>1, <2>2 DEF InsertInv
<1>1. Advances(1)
  BY LogInsertDoes, TreeInsertDoes
<1>2. job' = job /\ cols' = cols /\ open' = open /\ \A s : Due(s)' = Due(s)
  BY <1>1 DEF Advances, Due, Entry
<1>3. /\ PairsIn(mem) /\ PairsIn(log) /\ synced \in [Stores -> Nat]
      /\ {Table} \cup open \subseteq Stores
  BY TableIsNoIndex DEF TypeOK, DiskOK
<1>4. ASSUME NEW s \in {Table} \cup open, NEW d, d = Due(s)
      PROVE  /\ Waiting(Log(s, d))' \/ Logged(s, d)'
             /\ Waiting(Put(s, d))' \/ InTree(s, d)'
  <2>1. /\ Waiting(Log(s, d)) \/ Logged(s, d)
        /\ Waiting(Put(s, d)) \/ InTree(s, d)
        /\ s \in Stores
    BY <1>3, <1>4 DEF InsertInv
  <2>2. \A x : Waiting(x) /\ x # todo[1] => Waiting(x)'
    <3> SUFFICES ASSUME NEW x, Waiting(x), x # todo[1] PROVE Waiting(x)'
      OBVIOUS
    <3>1. \A i \in 1 .. 1 : todo[i] # x
      OBVIOUS
    <3> QED
      BY <1>1, <3>1, StillWaiting DEF Waiting
  <2>3. CASE LogInsert
    <3>1. PICK t \in Stores, p \in Pair :
            /\ t = This /\ todo[1] = Log(t, p) /\ Logged(t, p)'
            /\ \A r \in Stores : r # t => log'[r] = log[r] /\ synced'[r] = synced[r]
            /\ behind \subseteq behind'
      BY <2>3, LogInsertDoes
    <3>2. mem' = mem
      BY <2>3 DEF LogInsert
    <3>3. p = Due(t)
      <4>1. todo[1].pair = Due(This)
        BY <2>3, FirstCall DEF LogInsert, Calling
      <4> QED
        BY <3>1, <4>1 DEF Log
    <3>4. Waiting(Put(s, d))' \/ InTree(s, d)'
      BY <2>1, <2>2, <3>1, <3>2, Distinct DEF InTree
    <3>5. CASE s = t
      BY <1>4, <3>1, <3>3, <3>4, <3>5
    <3>6. CASE s # t
      <4>1. log'[s] = log[s] /\ synced'[s] = synced[s]
        BY <2>1, <3>1, <3>6
      <4>2. Logged(s, d) => Logged(s, d)'
        BY <3>1, <4>1 DEF Logged
      <4>3. Waiting(Log(s, d)) => Waiting(Log(s, d))'
        BY <2>2, <3>1, <3>6, Distinct
      <4> QED
        BY <2>1, <3>4, <4>2, <4>3
    <3> QED
      BY <3>5, <3>6
  <2>4. CASE TreeInsert
    <3>1. PICK t \in Stores, p \in Pair :
            /\ t = This /\ todo[1] = Put(t, p) /\ InTree(t, p)'
            /\ mem' = [mem EXCEPT ![t] = Append(@, p)]
      BY <2>4, TreeInsertDoes
    <3>2. log' = log /\ synced' = synced /\ behind' = behind
      BY <2>4 DEF TreeInsert
    <3>3. p = Due(t)
      <4>1. todo[1].pair = Due(This)
        BY <2>4, FirstCall DEF TreeInsert, Calling
      <4> QED
        BY <3>1, <4>1 DEF Put
    <3>4. Waiting(Log(s, d))' \/ Logged(s, d)'
      BY <2>1, <2>2, <3>1, <3>2, Distinct DEF Logged
    <3>5. CASE s = t
      BY <1>4, <3>1, <3>3, <3>4, <3>5
    <3>6. CASE s # t
      <4>1. mem'[s] = mem[s]
        BY <1>3, <2>1, <3>1, <3>6 DEF PairsIn
      <4> QED
        BY <2>1, <2>2, <3>1, <3>4, <3>6, <4>1, Distinct DEF InTree
    <3> QED
      BY <3>5, <3>6
  <2> QED
    BY <2>3, <2>4
<1>5. \A i \in 1 .. Len(todo') : \A j \in 1 .. i : todo'[i].store = Table => todo'[j].store = Table
  <2> SUFFICES ASSUME NEW i \in 1 .. Len(todo'), NEW j \in 1 .. i, todo'[i].store = Table
               PROVE  todo'[j].store = Table
    OBVIOUS
  <2>1. Len(todo) \in Nat /\ Len(todo') = Len(todo) - 1
    BY <1>1 DEF Advances
  <2>2. i + 1 \in 1 .. Len(todo) /\ j + 1 \in 1 .. i + 1 /\ j \in 1 .. Len(todo')
    BY <2>1
  <2>3. todo'[i] = todo[i + 1] /\ todo'[j] = todo[j + 1]
    BY <1>1, <2>2 DEF Advances
  <2> QED
    BY <2>2, <2>3 DEF InsertInv
<1>6. ASSUME NEW s \in {Table} \cup open
      PROVE  /\ Waiting(Log(s, Due(s)))' \/ Logged(s, Due(s))'
             /\ Waiting(Put(s, Due(s)))' \/ InTree(s, Due(s))'
  <2>1. PICK d : d = Due(s)
    OBVIOUS
  <2>2. Due(s)' = d
    BY <1>2, <2>1
  <2>3. /\ Waiting(Log(s, d))' \/ Logged(s, d)'
        /\ Waiting(Put(s, d))' \/ InTree(s, d)'
    BY <1>4, <2>1
  <2> QED
    BY <2>2, <2>3 DEF Waiting, Logged, InTree
<1> QED
  BY <1>2, <1>5, <1>6 DEF InsertInv

LEMMA CreateInvCall ==
  ASSUME TypeOK, CallsInv, CreateInv,
         LogInsert \/ TreeInsert \/ SyncPages \/ TruncateLog \/ OpenCatalog \/ WriteCatalog
  PROVE  CreateInv'
<1>0. job' = job
  BY DEF LogInsert, TreeInsert, SyncPages, TruncateLog, OpenCatalog, WriteCatalog
<1> SUFFICES ASSUME job.kind = "create_index" PROVE CreateInv'
  BY <1>0 DEF CreateInv
<1>c. PICK c : c = job.col
  OBVIOUS
<1>1. c \in IndexColumns /\ c \in Stores /\ c # Table /\ job'.col = c
  BY <1>0, <1>c, JobForms, TableIsNoIndex DEF TypeOK
<1>2. PairsIn(mem) /\ PairsIn(pages) /\ mem \in [Stores -> Seq(Pair)] /\ pages \in [Stores -> Seq(Pair)]
  BY DEF TypeOK, DiskOK, PairsIn
<1>3. TreeInsert \/ mem' = mem
  BY DEF LogInsert, TreeInsert, SyncPages, TruncateLog, OpenCatalog, WriteCatalog
<1>4. SyncPages \/ pages' = pages
  BY DEF LogInsert, TreeInsert, SyncPages, TruncateLog, OpenCatalog, WriteCatalog, disk
<1>5. TreeInsert => \E p \in Pair :
        todo[1] = Put(c, p) /\ mem' = [mem EXCEPT ![c] = Append(@, p)] /\ Advances(1)
  <2> SUFFICES ASSUME TreeInsert
               PROVE  \E p \in Pair : /\ todo[1] = Put(c, p)
                                      /\ mem' = [mem EXCEPT ![c] = Append(@, p)] /\ Advances(1)
    OBVIOUS
  <2>1. PICK s \in Stores, p \in Pair :
          s = This /\ todo[1] = Put(s, p) /\ mem' = [mem EXCEPT ![s] = Append(@, p)] /\ Advances(1)
    BY TreeInsertDoes
  <2>2. This = c
    BY <1>c, FirstCall DEF TreeInsert, Calling
  <2> QED
    BY <2>1, <2>2 DEF Up
<1>6. mem'[Table] = mem[Table] /\ \A e \in ToSet(mem[c]) : e \in ToSet(mem'[c])
  <2>1. CASE mem' = mem
    BY <2>1
  <2>2. CASE TreeInsert
    <3>1. PICK p \in Pair : mem' = [mem EXCEPT ![c] = Append(@, p)]
      BY <1>5, <2>2
    <3>2. mem'[Table] = mem[Table] /\ mem'[c] = Append(mem[c], p) /\ mem[c] \in Seq(Pair)
      BY <1>1, <1>2, <3>1, TableIsNoIndex
    <3>3. /\ Append(mem[c], p) \in Seq(Pair)
          /\ Len(mem[c]) \in Nat /\ Len(Append(mem[c], p)) = Len(mem[c]) + 1
          /\ \A i \in 1 .. Len(mem[c]) : Append(mem[c], p)[i] = mem[c][i]
      BY <3>2, Appended
    <3>4. DOMAIN mem[c] = 1 .. Len(mem[c]) /\ DOMAIN mem'[c] = 1 .. Len(mem[c]) + 1
      BY <3>2, <3>3, LenProperties
    <3> QED
      BY <3>2, <3>3, <3>4 DEF ToSet
  <2> QED
    BY <1>3, <2>1, <2>2
<1>7. \A id \in Ids : /\ EntryOf(c, id)' = EntryOf(c, id)
                      /\ Row(mem'[Table], id) = Row(mem[Table], id)
  <2>1. cols' = cols
    BY DEF LogInsert, TreeInsert, SyncPages, TruncateLog, OpenCatalog, WriteCatalog
  <2> QED
    BY <1>0, <1>6, <2>1 DEF EntryOf, Entry
<1>8. \E n \in Nat :    /\ (n = 1 \/ n = 2) /\ Advances(n)
                        /\ n = 2 => /\ OpenCatalog \/ WriteCatalog
                                    /\ todo[1].call \in {"open_catalog", "write_catalog"}
                                    /\ todo[2].call = "write_catalog"
  <2>1. CASE Advances(1)
    <3>1. 1 # 2
      BY ONLY TRUE
    <3> QED
      BY <2>1, <3>1
  <2>2. CASE OpenCatalog \/ WriteCatalog
    BY <2>1, <2>2, CatalogCallsDo
  <2> QED
    BY <2>1, <2>2, LogInsertDoes, TreeInsertDoes, SyncPagesDoes, TruncateLogDoes
<1>9. PICK n \in Nat :    /\ (n = 1 \/ n = 2) /\ Advances(n)
                          /\ n = 2 => /\ OpenCatalog \/ WriteCatalog
                                      /\ todo[1].call \in {"open_catalog", "write_catalog"}
                                      /\ todo[2].call = "write_catalog"
  BY <1>8
<1>10. ASSUME NEW x, x.call \in {"insert", "sync"}, Waiting(x), todo[1] # x
       PROVE  Waiting(x)'
  <2>1. \A i \in 1 .. n : i = 1 \/ (i = 2 /\ n = 2)
    BY <1>9
  <2>2. \A i \in 1 .. n : todo[i] # x
    BY <1>9, <1>10, <2>1
  <2> QED
    BY <1>9, <1>10, <2>2, StillWaiting DEF Waiting
<1>11. ASSUME NEW id \in Ids, Row(mem[Table], id) # NoRow, NEW e, e = EntryOf(c, id)
       PROVE  e \in ToSet(mem'[c]) \/ Waiting(Put(c, e))'
  <2>1. e \in ToSet(mem[c]) \/ Waiting(Put(c, e))
    BY <1>c, <1>11 DEF CreateInv
  <2>2. Put(c, e).call = "insert"
    BY DEF Put
  <2>3. CASE todo[1] = Put(c, e)
    <3>1. todo[1].call = "insert"
      BY <2>2, <2>3
    <3>2. TreeInsert
      <4>1. Head(todo) = todo[1]
        BY Head1 DEF LogInsert, TreeInsert, SyncPages, TruncateLog, OpenCatalog, WriteCatalog, Calling
      <4> QED
        BY <3>1, <4>1 DEF LogInsert, TreeInsert, SyncPages, TruncateLog, OpenCatalog, WriteCatalog, Calling
    <3>3. PICK p \in Pair : todo[1] = Put(c, p) /\ mem' = [mem EXCEPT ![c] = Append(@, p)]
      BY <1>5, <3>2
    <3>4. Put(c, e) = Put(c, p)
      BY <2>3, <3>3
    <3>5. p = e
      BY <3>4, Distinct
    <3>6. mem'[c] = Append(mem[c], p) /\ mem[c] \in Seq(Pair)
      BY <1>1, <1>2, <3>3
    <3>7. /\ Append(mem[c], p) \in Seq(Pair)
          /\ Len(mem[c]) \in Nat /\ Len(Append(mem[c], p)) = Len(mem[c]) + 1
          /\ Append(mem[c], p)[Len(mem[c]) + 1] = p
      BY <3>6, Appended
    <3>8. DOMAIN mem'[c] = 1 .. Len(mem[c]) + 1 /\ Len(mem[c]) + 1 \in 1 .. Len(mem[c]) + 1
      BY <3>6, <3>7, LenProperties
    <3> QED
      BY <3>5, <3>6, <3>7, <3>8 DEF ToSet
  <2>4. CASE todo[1] # Put(c, e)
    BY <1>6, <1>10, <2>1, <2>2, <2>4
  <2> QED
    BY <2>3, <2>4
<1>12. Waiting(Sync(c))' \/ pages'[c] = mem'[c]
  <2>1. Sync(c).call = "sync"
    BY DEF Sync
  <2>2. CASE TreeInsert
    <3>1. PICK p \in Pair : todo[1] = Put(c, p)
      BY <1>5, <2>2
    <3>2. todo[1].call = "insert" /\ todo[1] # Sync(c) /\ Len(todo) \in Nat /\ 1 \in 1 .. Len(todo)
      BY <2>2, <3>1, Distinct, Head1 DEF Put, TreeInsert, Calling
    <3>3. PICK j \in 1 + 1 .. Len(todo) : todo[j] = Sync(c)
      BY <1>c, <3>2 DEF CreateInv
    <3>4. j \in 1 .. Len(todo)
      BY <3>2
    <3>5. Waiting(Sync(c))
      BY <3>3, <3>4 DEF Waiting
    <3> QED
      BY <1>10, <2>1, <3>2, <3>5
  <2>3. CASE SyncPages
    <3>1. PICK s \in Stores : s = This /\ pages' = [pages EXCEPT ![s] = mem[s]]
      BY <2>3, SyncPagesDoes
    <3>2. This = c
      BY <1>c, <2>3, FirstCall DEF SyncPages, Calling
    <3>3. mem' = mem
      BY <2>3 DEF SyncPages
    <3> QED
      BY <1>2, <3>1, <3>2, <3>3
  <2>4. CASE ~TreeInsert /\ ~SyncPages
    <3>1. mem' = mem /\ pages' = pages
      BY <1>3, <1>4, <2>4
    <3>2. Waiting(Sync(c)) \/ pages[c] = mem[c]
      BY <1>c DEF CreateInv
    <3>3. todo[1] # Sync(c)
      <4>1. Head(todo) = todo[1]
        BY Head1 DEF LogInsert, TreeInsert, SyncPages, TruncateLog, OpenCatalog, WriteCatalog, Calling
      <4>2. todo[1].call # "sync"
        BY <2>4, <4>1 DEF LogInsert, TreeInsert, SyncPages, TruncateLog, OpenCatalog, WriteCatalog, Calling
      <4> QED
        BY <2>1, <4>2
    <3> QED
      BY <1>10, <2>1, <3>1, <3>2, <3>3
  <2> QED
    BY <2>2, <2>3, <2>4
<1>13. ASSUME NEW i \in 1 .. Len(todo'), todo'[i].call = "insert"
       PROVE  \E j \in i + 1 .. Len(todo') : todo'[j] = Sync(c)
  <2>1. n \in Nat /\ n > 0 /\ Len(todo) \in Nat /\ Len(todo') = Len(todo) - n
    <3>1. n > 0
      BY ONLY <1>9
    <3> QED
      BY <1>9, <3>1 DEF Advances
  <2>2. i + n \in 1 .. Len(todo)
    BY <2>1
  <2>3. todo[i + n].call = "insert"
    BY <1>9, <1>13 DEF Advances
  <2>4. PICK j \in (i + n) + 1 .. Len(todo) : todo[j] = Sync(c)
    BY <1>c, <2>2, <2>3 DEF CreateInv
  <2>5. j - n \in i + 1 .. Len(todo') /\ (j - n) + n = j /\ j - n \in 1 .. Len(todo')
    BY <2>1
  <2> QED
    BY <1>9, <2>4, <2>5 DEF Advances
<1>14. ASSUME NEW id \in Ids, Row(mem'[Table], id) # NoRow
       PROVE  EntryOf(c, id)' \in ToSet(mem'[c]) \/ Waiting(Put(c, EntryOf(c, id)))'
  <2>1. PICK e : e = EntryOf(c, id)
    OBVIOUS
  <2>2. EntryOf(c, id)' = e /\ Row(mem[Table], id) # NoRow
    BY <1>7, <1>14, <2>1
  <2>3. e \in ToSet(mem'[c]) \/ Waiting(Put(c, e))'
    BY <1>11, <2>1, <2>2
  <2> QED
    BY <2>2, <2>3 DEF Waiting
<1> QED
  BY <1>0, <1>1, <1>12, <1>13, <1>14 DEF CreateInv, Waiting

-----------------------------------------------------------------------------
(* CallsInv, InsertInv and CreateInv at the beginning of a statement.      *)

\* Nothing is left to do and no statement is being executed.
LEMMA Quiet ==
  ASSUME todo' = << >>, job'.kind \in {"idle", "down"}
  PROVE  CallsInv' /\ InsertInv' /\ CreateInv'
<1>1. \A i \in 1 .. Len(todo') : FALSE
  BY NoPairs
<1> QED
  BY <1>1 DEF CallsInv, InsertInv, CreateInv

LEMMA InsertBegins ==
  ASSUME TypeOK, NEW id \in Ids, NEW v \in Values, Insert(id, v)
  PROVE  todo' \in Seq(Call) /\ CallsInv' /\ InsertInv' /\ CreateInv'
<1>1. PICK row : row = <<id, v>>
  OBVIOUS
<1>2. row \in TablePair
  BY <1>1 DEF TablePair
<1>3. PICK order \in SetToSeqs(open) : todo' = InsertCalls(row, order)
  BY <1>1 DEF Insert
<1>4. job' = [kind |-> "insert", row |-> row] /\ open' = open /\ cols' = cols
  BY <1>1 DEF Insert
<1>5. PICK a, b : /\ a = [s \in Stores |-> Log(s, DueOf(row, s))]
                  /\ b = [s \in Stores |-> Put(s, DueOf(row, s))]
  OBVIOUS
<1>6. /\ todo' \in Seq(Call) /\ PairsOf(todo', {Table} \cup open, a, b)
      /\ \A i \in 1 .. Len(todo') : \A j \in 1 .. i : todo'[i].store = Table => todo'[j].store = Table
  BY <1>2, <1>3, <1>5, InsertCallsAre
<1>7. ASSUME NEW s \in {Table} \cup open
      PROVE  a[s] = Log(s, DueOf(row, s)) /\ b[s] = Put(s, DueOf(row, s)) /\ Due(s)' = DueOf(row, s)
  <2>1. s \in Stores
    BY TableIsNoIndex DEF TypeOK
  <2>2. Due(s)' = DueOf(row, s)
    BY <1>4 DEF Due, DueOf, Entry
  <2> QED
    BY <1>5, <2>1, <2>2
<1>8. ASSUME NEW i \in 1 .. Len(todo') PROVE CallInv(todo[i])' /\ Follows(i)'
  <2>1. PICK s \in {Table} \cup open : todo'[i] = a[s] \/ (todo'[i] = b[s] /\ i > 1 /\ todo'[i - 1] = a[s])
    BY <1>6 DEF PairsOf
  <2>2. PICK d : d = DueOf(row, s)
    OBVIOUS
  <2>3. Due(s)' = d /\ s \in {Table} \cup open'
    BY <1>4, <1>7, <2>2
  <2>4. \/ todo'[i] = Log(s, d)
        \/ todo'[i] = Put(s, d) /\ i > 1 /\ todo'[i - 1] = Log(s, d)
    BY <1>7, <2>1, <2>2
  <2>5. job'.kind = "insert"
    BY <1>4
  <2>6. CASE todo'[i] = Log(s, d)
    <3>1. /\ todo'[i].call = "log_insert" /\ todo'[i].store = s /\ todo'[i].pair = d
      BY <2>6 DEF Log
    <3> QED
      BY <2>3, <2>5, <3>1 DEF CallInv, Follows
  <2>7. CASE todo'[i] = Put(s, d) /\ i > 1 /\ todo'[i - 1] = Log(s, d)
    <3>1. todo'[i].call = "insert" /\ todo'[i].store = s /\ todo'[i].pair = d /\ i # 1
      BY <2>7 DEF Put
    <3> QED
      BY <2>3, <2>5, <2>7, <3>1 DEF CallInv, Follows
  <2> QED
    BY <2>4, <2>6, <2>7
<1>9. CallsInv'
  BY <1>4, <1>8 DEF CallsInv
<1>10. ASSUME NEW s \in {Table} \cup open
       PROVE  Waiting(Log(s, Due(s)))' /\ Waiting(Put(s, Due(s)))'
  <2>1. PICK d : d = DueOf(row, s)
    OBVIOUS
  <2>2. Due(s)' = d /\ a[s] = Log(s, d) /\ b[s] = Put(s, d)
    BY <1>7, <2>1
  <2>3. (\E k \in 1 .. Len(todo') : todo'[k] = a[s]) /\ (\E k \in 1 .. Len(todo') : todo'[k] = b[s])
    BY <1>6 DEF PairsOf
  <2>4. /\ \E k \in 1 .. Len(todo') : todo'[k] = Log(s, Due(s)')
        /\ \E k \in 1 .. Len(todo') : todo'[k] = Put(s, Due(s)')
    BY <2>2, <2>3
  <2> QED
    BY <2>4 DEF Waiting
<1>11. InsertInv'
  BY <1>4, <1>6, <1>10 DEF InsertInv
<1>12. CreateInv'
  BY <1>4 DEF CreateInv
<1> QED
  BY <1>6, <1>9, <1>11, <1>12

LEMMA CheckpointBegins ==
  ASSUME TypeOK, Checkpoint
  PROVE  todo' \in Seq(Call) /\ CallsInv' /\ InsertInv' /\ CreateInv'
<1>1. PICK order \in SetToSeqs(open) : todo' = CheckpointCalls(order)
  BY DEF Checkpoint
<1>2. job' = [kind |-> "checkpoint"] /\ open' = open
  BY DEF Checkpoint
<1>3. PICK a, b : a = [s \in Stores |-> Sync(s)] /\ b = [s \in Stores |-> Truncate(s)]
  OBVIOUS
<1>4. todo' \in Seq(Call) /\ PairsOf(todo', {Table} \cup open, a, b)
  BY <1>1, <1>3, CheckpointCallsAre
<1>5. \A s \in {Table} \cup open : a[s] = Sync(s) /\ b[s] = Truncate(s)
  BY <1>3, TableIsNoIndex DEF TypeOK
<1>6. ASSUME NEW i \in 1 .. Len(todo') PROVE CallInv(todo[i])' /\ Follows(i)'
  <2>1. PICK s \in {Table} \cup open : todo'[i] = a[s] \/ (todo'[i] = b[s] /\ i > 1 /\ todo'[i - 1] = a[s])
    BY <1>4 DEF PairsOf
  <2>2. job'.kind = "checkpoint" /\ s \in {Table} \cup open'
    BY <1>2
  <2>3. CASE todo'[i] = Sync(s)
    <3>1. todo'[i].call = "sync" /\ todo'[i].store = s
      BY <2>3 DEF Sync
    <3> QED
      BY <2>2, <3>1 DEF CallInv, Follows
  <2>4. CASE todo'[i] = Truncate(s) /\ i > 1 /\ todo'[i - 1] = Sync(s)
    <3>1. todo'[i].call = "truncate" /\ todo'[i].store = s /\ i # 1
      BY <2>4 DEF Truncate
    <3> QED
      BY <2>2, <2>4, <3>1 DEF CallInv, Follows
  <2> QED
    BY <1>5, <2>1, <2>3, <2>4
<1> QED
  BY <1>2, <1>4, <1>6 DEF CallsInv, InsertInv, CreateInv

LEMMA CreateTableBegins ==
  ASSUME TypeOK, NEW header \in Headers, CreateTable(header)
  PROVE  todo' \in Seq(Call) /\ CallsInv' /\ InsertInv' /\ CreateInv'
<1>1. job' = [kind |-> "create_table"] /\ todo' = SaveCatalog
  BY DEF CreateTable
<1>2. [call |-> "open_catalog"] \in Call /\ [call |-> "write_catalog"] \in Call
  BY TableIsNoIndex, CallTypes
<1>3. /\ todo' \in Seq(Call) /\ Len(todo') = 2
      /\ todo'[1] = [call |-> "open_catalog"] /\ todo'[2] = [call |-> "write_catalog"]
  BY <1>1, <1>2 DEF SaveCatalog
<1>4. ASSUME NEW i \in 1 .. Len(todo') PROVE CallInv(todo[i])' /\ Follows(i)'
  <2>1. i = 1 \/ i = 2
    BY <1>3
  <2>2. CASE i = 1
    BY <1>1, <1>3, <2>2 DEF CallInv, Follows
  <2>3. CASE i = 2
    BY <1>1, <1>3, <2>3 DEF CallInv, Follows
  <2> QED
    BY <2>1, <2>2, <2>3
<1> QED
  BY <1>1, <1>3, <1>4 DEF CallsInv, InsertInv, CreateInv

LEMMA CreateIndexBegins ==
  ASSUME TypeOK, NEW c \in IndexColumns, CreateIndex(c)
  PROVE  todo' \in Seq(Call) /\ CallsInv' /\ InsertInv' /\ CreateInv'
<1>1. /\ job' = [kind |-> "create_index", col |-> c] /\ todo' = CreateIndexCalls(c)
      /\ c \in open' /\ cols' = cols
  BY DEF CreateIndex
<1>2. mem'[Table] = mem[Table]
  BY TableIsNoIndex DEF CreateIndex, TypeOK, PairsIn
<1>3. \A id \in Ids : EntryOf(c, id)' = EntryOf(c, id) /\ Row(mem'[Table], id) = Row(mem[Table], id)
  BY <1>1, <1>2 DEF EntryOf, Entry
<1>4. /\ todo' \in Seq(Call)
      /\ \A k \in 1 .. Len(todo') :
           \/ /\ \E id \in Ids :
                   /\ Row(mem[Table], id) # NoRow
                   /\ \/ todo'[k] = Log(c, EntryOf(c, id))
                      \/ /\ todo'[k] = Put(c, EntryOf(c, id))
                         /\ k > 1 /\ todo'[k - 1] = Log(c, EntryOf(c, id))
              /\ \E j \in k + 1 .. Len(todo') : todo'[j] = Sync(c)
           \/ todo'[k] = Sync(c)
           \/ todo'[k] = Truncate(c) /\ k > 1 /\ todo'[k - 1] = Sync(c)
           \/ /\ todo'[k] = [call |-> "open_catalog"]
              /\ k < Len(todo') /\ todo'[k + 1] = [call |-> "write_catalog"]
           \/ todo'[k] = [call |-> "write_catalog"]
      /\ \A id \in Ids : Row(mem[Table], id) # NoRow =>
           \E k \in 1 .. Len(todo') : todo'[k] = Put(c, EntryOf(c, id))
      /\ \E k \in 1 .. Len(todo') : todo'[k] = Sync(c)
  BY <1>1, CreateIndexCallsAre
<1>5. ASSUME NEW k \in 1 .. Len(todo')
      PROVE  /\ CallInv(todo[k])' /\ Follows(k)'
             /\ todo'[k].call = "insert" => \E j \in k + 1 .. Len(todo') : todo'[j] = Sync(c)
  <2>1. ASSUME NEW id \in Ids, Row(mem[Table], id) # NoRow,
               \/ todo'[k] = Log(c, EntryOf(c, id))
               \/ /\ todo'[k] = Put(c, EntryOf(c, id))
                  /\ k > 1 /\ todo'[k - 1] = Log(c, EntryOf(c, id)),
               \E j \in k + 1 .. Len(todo') : todo'[j] = Sync(c)
        PROVE  CallInv(todo[k])' /\ Follows(k)'
    <3>1. PICK e : e = EntryOf(c, id) /\ EntryOf(c, id)' = e
      BY <1>3
    <3>2. CASE todo'[k] = Log(c, e)
      BY <1>1, <1>3, <2>1, <3>1, <3>2 DEF CallInv, Follows, Log
    <3>3. CASE todo'[k] = Put(c, e) /\ k > 1 /\ todo'[k - 1] = Log(c, e)
      <4>1. CallInv(todo[k])'
        BY <1>1, <1>3, <2>1, <3>1, <3>3 DEF CallInv, Put
      <4>2. k # 1
        BY <3>3
      <4>3. Follows(k)'
        BY <3>3, <4>2 DEF Follows, Put
      <4> QED
        BY <4>1, <4>3
    <3> QED
      BY <2>1, <3>1, <3>2, <3>3
  <2>2. CASE todo'[k] = Sync(c)
    BY <1>1, <2>2 DEF CallInv, Follows, Sync
  <2>3. CASE todo'[k] = Truncate(c) /\ k > 1 /\ todo'[k - 1] = Sync(c)
    <3>1. k # 1
      BY <2>3
    <3> QED
      BY <1>1, <2>3, <3>1 DEF CallInv, Follows, Truncate
  <2>4. CASE /\ todo'[k] = [call |-> "open_catalog"]
             /\ k < Len(todo') /\ todo'[k + 1] = [call |-> "write_catalog"]
    BY <1>1, <2>4 DEF CallInv, Follows
  <2>5. CASE todo'[k] = [call |-> "write_catalog"]
    BY <1>1, <2>5 DEF CallInv, Follows
  <2>6. Sync(c).call # "insert" /\ Truncate(c).call # "insert"
    BY DEF Sync, Truncate
  <2> QED
    BY <1>4, <2>1, <2>2, <2>3, <2>4, <2>5, <2>6
<1>6. CallsInv'
  BY <1>1, <1>5 DEF CallsInv
<1>7. CreateInv'
  BY <1>1, <1>3, <1>4, <1>5 DEF CreateInv, Waiting
<1>8. InsertInv'
  BY <1>1 DEF InsertInv
<1> QED
  BY <1>4, <1>6, <1>7, <1>8

-----------------------------------------------------------------------------
(* Types.                                                                  *)

\* What replay makes of the files of a store.
LEMMA RecoveredTypes ==
  ASSUME DiskOK, NEW s \in Stores
  PROVE  /\ pages[s] \in Seq(Pair) /\ log[s] \in Seq(Pair) /\ Recovered(s) \in Seq(Pair)
         /\ s = Table => /\ pages[s] \in Seq(TablePair) /\ log[s] \in Seq(TablePair)
                         /\ Recovered(s) \in Seq(TablePair)
<1>1. /\ pages \in [Stores -> Seq(Pair)] /\ pages[Table] \in Seq(TablePair)
      /\ log \in [Stores -> Seq(Pair)] /\ log[Table] \in Seq(TablePair)
  BY DEF DiskOK, PairsIn
<1>2. Recovered(s) \in Seq(Pair)
  BY <1>1, Concatenated DEF Recovered
<1>3. s = Table => Recovered(s) \in Seq(TablePair)
  BY <1>1, Concatenated DEF Recovered
<1> QED
  BY <1>1, <1>2, <1>3

LEMMA RecoveredToTypes ==
  ASSUME DiskOK, NEW s \in Stores, NEW n \in Nat, n <= Len(log[s])
  PROVE  /\ RecoveredTo(s, n) \in Seq(Pair) /\ SubSeq(log[s], 1, n) \in Seq(Pair)
         /\ s = Table => RecoveredTo(s, n) \in Seq(TablePair) /\ SubSeq(log[s], 1, n) \in Seq(TablePair)
<1>1. /\ pages[s] \in Seq(Pair) /\ log[s] \in Seq(Pair)
      /\ s = Table => pages[s] \in Seq(TablePair) /\ log[s] \in Seq(TablePair)
  BY RecoveredTypes
<1>2. /\ SubSeq(log[s], 1, n) \in Seq(Pair)
      /\ s = Table => SubSeq(log[s], 1, n) \in Seq(TablePair)
  BY <1>1, PrefixOf
<1> QED
  BY <1>1, <1>2, Concatenated DEF RecoveredTo

\* What a store may hold once it is opened, damaged or not.
LEMMA HeldTypes ==
  ASSUME DiskOK, NEW s \in Stores, NEW held \in Held(s)
  PROVE  held \in Seq(Pair) /\ (s = Table => held \in Seq(TablePair))
<1>1. CASE s \in lost
  <2>1. held \in Garbage
    BY <1>1 DEF Held
  <2>2. held \in Seq(TablePair)
    BY <2>1, DatabaseAssumption DEF TablePair
  <2>3. TablePair \subseteq Pair
    BY DatabaseAssumption DEF TablePair, Pair
  <2> HIDE DEF TablePair, Pair
  <2>4. held \in Seq(Pair)
    BY <2>2, <2>3
  <2> QED
    BY <2>2, <2>4
<1>2. CASE s \notin lost
  <2>1. held = Recovered(s)
    BY <1>2 DEF Held
  <2> QED
    BY <2>1, RecoveredTypes
<1> QED
  BY <1>1, <1>2

LEMMA CatalogTypes ==
  ASSUME NEW h \in AllHeaders, NEW i \in SUBSET IndexColumns, IsFiniteSet(i)
  PROVE  [cols |-> h, indexes |-> i] \in Catalogs
BY DEF Catalogs

LEMMA CatalogParts ==
  ASSUME NEW c \in Catalogs
  PROVE  /\ c.cols \in AllHeaders /\ c.indexes \in SUBSET IndexColumns /\ IsFiniteSet(c.indexes)
         /\ \A kept \in SUBSET c.indexes : [c EXCEPT !.indexes = kept] \in Catalogs
<1>1. c \in [cols : AllHeaders, indexes : SUBSET IndexColumns] /\ IsFiniteSet(c.indexes)
  BY DEF Catalogs
<1>2. c.cols \in AllHeaders /\ c.indexes \in SUBSET IndexColumns
  BY <1>1
<1>3. ASSUME NEW kept \in SUBSET c.indexes PROVE [c EXCEPT !.indexes = kept] \in Catalogs
  <2>1. IsFiniteSet(kept)
    BY <1>1, FS_Subset
  <2>2. kept \in SUBSET IndexColumns
    BY <1>2
  <2>3. [c EXCEPT !.indexes = kept] = [cols |-> c.cols, indexes |-> kept]
    BY <1>1
  <2> QED
    BY <1>2, <2>1, <2>2, <2>3, CatalogTypes
<1> QED
  BY <1>1, <1>2, <1>3

LEMMA JobTypes ==
  /\ \A k \in {"idle", "down", "checkpoint", "create_table"} : [kind |-> k] \in Job
  /\ \A row \in TablePair : [kind |-> "insert", row |-> row] \in Job
  /\ \A c \in IndexColumns : [kind |-> "create_index", col |-> c] \in Job
BY DEF Job

LEMMA TypeInit == Init => TypeOK
<1> SUFFICES ASSUME Init PROVE TypeOK
  OBVIOUS
<1>1. PairsIn([s \in Stores |-> << >>])
  BY NoPairs, TableIsNoIndex DEF PairsIn
<1>2. PairsIn(mem) /\ DiskOK
  <2>1. PairsIn(mem) /\ PairsIn(pages) /\ PairsIn(log)
    BY <1>1 DEF Init
  <2>2. \A s \in Stores : synced[s] = 0 /\ log[s] = << >>
    BY DEF Init
  <2>3. \A s \in Stores : synced[s] <= Len(log[s])
    BY <2>2, NoPairs
  <2>4. synced \in [Stores -> Nat]
    BY DEF Init
  <2> QED
    BY <2>1, <2>3, <2>4 DEF DiskOK
<1>3. job \in Job
  BY JobTypes DEF Init
<1>4. todo \in Seq(Call)
  BY DEF Init
<1>5. IsFiniteSet({})
  BY FS_EmptySet
<1>6. /\ cols \in AllHeaders /\ open \in SUBSET IndexColumns /\ IsFiniteSet(open)
  BY <1>5 DEF Init, AllHeaders
<1>6a. catalog \in Catalogs /\ versions \in SUBSET Catalogs
  <2>1. EmptyCatalog \in Catalogs
    BY <1>5, CatalogTypes DEF EmptyCatalog, AllHeaders
  <2> QED
    BY <2>1 DEF Init
<1>6b. SetsOK
  BY DEF Init, SetsOK
<1>7. acked \in [Ids -> Cells] /\ complete \in SUBSET IndexColumns /\ cutback \in BOOLEAN
  BY DEF Init, Cells
<1> QED
  BY <1>2, <1>3, <1>4, <1>6, <1>6a, <1>6b, <1>7 DEF TypeOK

LEMMA StopTypes ==
  ASSUME TypeOK, Stop
  PROVE  /\ job' = [kind |-> "down"] /\ job' \in Job /\ cols' \in AllHeaders
         /\ open' = {} /\ open' \in SUBSET IndexColumns /\ IsFiniteSet(open')
         /\ PairsIn(mem') /\ complete' \in SUBSET IndexColumns /\ cutback' \in BOOLEAN
<1>1. PairsIn([s \in Stores |-> << >>])
  BY NoPairs, TableIsNoIndex DEF PairsIn
<1>2. PairsIn(mem')
  BY <1>1 DEF Stop
<1>3. job' \in Job
  BY JobTypes DEF Stop
<1>4. complete' \in SUBSET IndexColumns /\ cutback' \in BOOLEAN
  BY DEF Stop, TypeOK
<1> QED
  BY <1>2, <1>3, <1>4, FS_EmptySet DEF Stop, AllHeaders

\* The sets of stores.
LEMMA SetsStep ==
  ASSUME TypeOK, CallsInv, [Next]_vars
  PROVE  SetsOK'
<1>1. /\ mixed \subseteq Stores /\ torn \subseteq Stores /\ behind \subseteq Stores
      /\ unsynced \subseteq Stores /\ lost \subseteq Stores
  BY DEF TypeOK, SetsOK
<1>2. \A stores : DirtyIn(stores) \subseteq Stores /\ DirtyOnceOpen(stores) \subseteq Stores
  BY DatabaseAssumption DEF DirtyIn, DirtyOnceOpen
<1>3. \A s : {s} \cap Large \subseteq Stores
  BY DatabaseAssumption
<1>4. ASSUME todo # << >>, Head(todo).call \in {"log_insert", "insert", "sync", "truncate"}
      PROVE  This \in Stores
  BY <1>4, FirstCall
<1>5. ASSUME Interrupted
      PROVE  /\ mixed' \subseteq Stores /\ torn' \subseteq Stores /\ behind' \subseteq Stores
             /\ unsynced' \subseteq Stores
  <2>1. CASE UNCHANGED disk
    BY <1>1, <2>1 DEF disk
  <2>2. ASSUME todo # << >>, Head(todo).call \in {"log_insert", "sync", "truncate"}
        PROVE  This \in Stores
    BY <1>4, <2>2
  <2> QED
    BY <1>1, <1>5, <2>1, <2>2 DEF Interrupted, EmptyLog, Calling
<1>6. ASSUME Stop PROVE lost' \subseteq lost \cup mixed'
  BY <1>6 DEF Stop
<1>7. CASE Throw \/ Kill
  <2>1. Interrupted
    BY <1>7 DEF Throw, Kill
  <2>2. lost' \subseteq lost \cup HalfChanged \/ lost' \subseteq lost \cup mixed'
    BY <1>6, <1>7 DEF Throw, Kill
  <2>3. HalfChanged \subseteq Stores
    BY <1>3 DEF HalfChanged
  <2> QED
    BY <1>1, <1>5, <2>1, <2>2, <2>3 DEF SetsOK
<1>8. CASE LogInsert
  <2>1. This \in Stores
    BY <1>4, <1>8 DEF LogInsert, Calling
  <2> QED
    BY <1>1, <1>8, <2>1 DEF LogInsert, SetsOK
<1>9. CASE TreeInsert
  BY <1>1, <1>3, <1>9 DEF TreeInsert, SetsOK
<1>10. CASE SyncPages \/ TruncateLog
  BY <1>1, <1>10 DEF SyncPages, TruncateLog, EmptyLog, SetsOK
<1>11. CASE PowerLoss
  BY <1>1, <1>11 DEF PowerLoss, SetsOK
<1>12. CASE Open
  <2>1. PICK e : e \subseteq Stores /\ mixed' = mixed \cup e
    BY <1>2, <1>12 DEF Open
  <2> QED
    BY <1>1, <1>12, <2>1 DEF Open, SetsOK
<1>13. ASSUME NEW c \in IndexColumns, CreateIndex(c) PROVE SetsOK'
  <2>1. PICK e : e \subseteq Stores /\ mixed' = mixed \cup e
    BY <1>2, <1>13 DEF CreateIndex
  <2> QED
    BY <1>1, <1>13, <2>1 DEF CreateIndex, SetsOK
<1>14. CASE Select
  <2>1. PICK s \in Stores : mixed' = mixed \cup {s}
    BY <1>2, <1>14 DEF Select
  <2> QED
    BY <1>1, <1>14, <2>1 DEF Select, SetsOK
<1>15. CASE UNCHANGED <<disk, lost>>
  BY <1>1, <1>15 DEF disk, SetsOK
<1>16. CASE OpenCatalog \/ WriteCatalog \/ Reply \/ Checkpoint
  BY <1>15, <1>16 DEF OpenCatalog, WriteCatalog, Reply, Checkpoint
<1>17. ASSUME NEW id \in Ids, NEW v \in Values, Insert(id, v) PROVE SetsOK'
  BY <1>15, <1>17 DEF Insert
<1>18. ASSUME NEW header \in Headers, CreateTable(header) PROVE SetsOK'
  BY <1>15, <1>18 DEF CreateTable
<1>19. CASE UNCHANGED vars
  BY <1>15, <1>19 DEF vars
<1> QED
  BY <1>7, <1>8, <1>9, <1>10, <1>11, <1>12, <1>13, <1>14, <1>16, <1>17, <1>18, <1>19 DEF Next

LEMMA TypeStep ==
  ASSUME TypeOK, CallsInv, [Next]_vars
  PROVE  TypeOK'
<1>1. /\ job \in Job /\ todo \in Seq(Call) /\ cols \in AllHeaders
      /\ open \in SUBSET IndexColumns /\ IsFiniteSet(open)
      /\ PairsIn(mem) /\ DiskOK
      /\ catalog \in Catalogs /\ versions \in SUBSET Catalogs
      /\ acked \in [Ids -> Cells] /\ complete \in SUBSET IndexColumns /\ cutback \in BOOLEAN
  BY DEF TypeOK
<1>s. SetsOK'
  BY SetsStep
<1>2. /\ UNCHANGED <<pages, log, synced>> => DiskOK'
      /\ UNCHANGED disk => DiskOK'
      /\ UNCHANGED saved => catalog' \in Catalogs /\ versions' \in SUBSET Catalogs
  BY <1>1 DEF DiskOK, PairsIn, disk, saved
<1>3. UNCHANGED mem => PairsIn(mem')
  BY <1>1
<1>4. ASSUME NEW id \in Ids, NEW v \in Values, Insert(id, v)
      PROVE  TypeOK'
  <2>1. todo' \in Seq(Call)
    BY <1>4, InsertBegins
  <2>2. job' \in Job
    BY <1>4, JobTypes DEF Insert, TablePair
  <2>3. acked' \in [Ids -> Cells]
    BY <1>1, <1>4 DEF Insert, Cells
  <2> QED
    BY <1>1, <1>2, <1>s, <1>4, <2>1, <2>2, <2>3 DEF TypeOK, Insert
<1>5. CASE Checkpoint
  <2>1. todo' \in Seq(Call)
    BY <1>5, CheckpointBegins
  <2>2. job' \in Job
    BY <1>5, JobTypes DEF Checkpoint
  <2> QED
    BY <1>1, <1>2, <1>s, <1>5, <2>1, <2>2 DEF TypeOK, Checkpoint
<1>6. ASSUME NEW c \in IndexColumns, CreateIndex(c)
      PROVE  TypeOK'
  <2>1. todo' \in Seq(Call)
    BY <1>6, CreateIndexBegins
  <2>2. job' \in Job
    BY <1>6, JobTypes DEF CreateIndex
  <2>3. open' \in SUBSET IndexColumns /\ IsFiniteSet(open')
    BY <1>1, <1>6, FS_AddElement DEF CreateIndex
  <2>4. PairsIn(mem')
    <3>1. c \in Stores /\ c # Table
      BY TableIsNoIndex
    <3>2. PICK held \in Held(c) : mem' = [mem EXCEPT ![c] = held]
      BY <1>6 DEF CreateIndex
    <3>3. held \in Seq(Pair)
      BY <1>1, <3>1, HeldTypes
    <3>4. PairsIn([mem EXCEPT ![c] = held])
      BY <1>1, <3>1, <3>3, PairsReplaced
    <3> QED
      BY <3>2, <3>4
  <2> QED
    BY <1>1, <1>2, <1>s, <1>6, <2>1, <2>2, <2>3, <2>4 DEF TypeOK, CreateIndex
<1>7. ASSUME NEW header \in Headers, CreateTable(header)
      PROVE  TypeOK'
  <2>1. todo' \in Seq(Call)
    BY <1>7, CreateTableBegins
  <2>2. job' \in Job
    BY <1>7, JobTypes DEF CreateTable
  <2>3. cols' \in AllHeaders
    BY <1>7 DEF CreateTable, AllHeaders
  <2> QED
    BY <1>1, <1>2, <1>s, <1>7, <2>1, <2>2, <2>3 DEF TypeOK, CreateTable
<1>8. CASE LogInsert
  <2>1. DiskOK'
    BY <1>8, DiskTypes DEF DiskCall
  <2>2. todo' \in Seq(Call)
    BY <1>8, LogInsertDoes DEF Advances
  <2> QED
    BY <1>1, <1>2, <1>s, <1>8, <2>1, <2>2 DEF TypeOK, LogInsert
<1>9. CASE TreeInsert
  <2>1. PICK s \in Stores, p \in Pair :
          /\ s = Table => p \in TablePair
          /\ mem' = [mem EXCEPT ![s] = Append(@, p)] /\ Advances(1)
    BY <1>9, TreeInsertDoes
  <2>2. PairsIn(mem')
    BY <1>1, <2>1, PairAppended
  <2>3. todo' \in Seq(Call)
    BY <2>1 DEF Advances
  <2> QED
    BY <1>1, <1>2, <1>s, <1>9, <2>2, <2>3 DEF TypeOK, TreeInsert
<1>10. CASE SyncPages
  <2>1. DiskOK'
    BY <1>10, DiskTypes DEF DiskCall
  <2>2. todo' \in Seq(Call)
    BY <1>10, SyncPagesDoes DEF Advances
  <2> QED
    BY <1>1, <1>2, <1>s, <1>10, <2>1, <2>2 DEF TypeOK, SyncPages
<1>11. CASE TruncateLog
  <2>1. DiskOK'
    BY <1>11, DiskTypes DEF DiskCall
  <2>2. todo' \in Seq(Call)
    BY <1>11, TruncateLogDoes DEF Advances
  <2> QED
    BY <1>1, <1>2, <1>s, <1>11, <2>1, <2>2 DEF TypeOK, TruncateLog
<1>12. CASE OpenCatalog \/ WriteCatalog
  <2>1. todo' \in Seq(Call)
    BY <1>12, CatalogCallsDo DEF Advances
  <2>2. catalog' \in Catalogs /\ versions' \in SUBSET Catalogs
    <3>1. /\ catalog' \in {EmptyCatalog, [cols |-> cols, indexes |-> open], catalog}
          /\ versions' = versions \cup {catalog'}
      BY <1>12, CatalogCallsDo
    <3>2. EmptyCatalog \in Catalogs
      BY FS_EmptySet, CatalogTypes DEF EmptyCatalog, AllHeaders
    <3>3. [cols |-> cols, indexes |-> open] \in Catalogs
      BY <1>1, CatalogTypes
    <3> QED
      BY <1>1, <3>1, <3>2, <3>3
  <2> QED
    BY <1>1, <1>2, <1>s, <1>12, <2>1, <2>2 DEF TypeOK, OpenCatalog, WriteCatalog
<1>13. CASE Reply
  <2>1. job' \in Job
    BY <1>13, JobTypes DEF Reply
  <2>2. acked' \in [Ids -> Cells]
    BY <1>1, <1>13, JobForms DEF Reply, TablePair, Cells
  <2>3. complete' \in SUBSET IndexColumns
    BY <1>1, <1>13, JobForms DEF Reply
  <2> QED
    BY <1>1, <1>2, <1>s, <1>13, <2>1, <2>2, <2>3 DEF TypeOK, Reply
<1>14. CASE Throw
  <2>1. DiskOK'
    BY <1>14, DiskTypes DEF Throw, DiskCall
  <2>2. todo' \in Seq(Call) /\ UNCHANGED <<saved, acked>>
    BY <1>14 DEF Throw
  <2>3. CASE job.kind = "checkpoint"
    <3>1. Stop
      BY <1>14, <2>3 DEF Throw
    <3> QED
      BY <1>1, <1>2, <1>s, <2>1, <2>2, <3>1, StopTypes DEF TypeOK
  <2>4. CASE job.kind # "checkpoint"
    <3>1. job' = [kind |-> "idle"] /\ UNCHANGED <<cols, open, mem, complete, cutback>>
      BY <1>14, <2>4 DEF Throw
    <3> QED
      BY <1>1, <1>2, <1>s, <2>1, <2>2, <3>1, JobTypes DEF TypeOK
  <2> QED
    BY <2>3, <2>4
<1>15. CASE Kill
  <2>1. DiskOK'
    BY <1>15, DiskTypes DEF Kill, DiskCall
  <2>2. todo' \in Seq(Call) /\ UNCHANGED <<saved, acked>> /\ Stop
    BY <1>15 DEF Kill
  <2> QED
    BY <1>1, <1>2, <1>s, <2>1, <2>2, StopTypes DEF TypeOK
<1>16. CASE PowerLoss
  <2>1. PICK left \in [Stores -> UNION {synced[s] .. Len(log[s]) : s \in Stores}] :
          /\ \A s \in Stores : left[s] \in synced[s] .. Len(log[s])
          /\ log' = [s \in Stores |-> SubSeq(log[s], 1, left[s])]
          /\ synced' = left
    BY <1>16 DEF PowerLoss
  <2>2. pages' = pages /\ UNCHANGED <<job, todo, cols, open, mem, acked>>
    BY <1>16 DEF PowerLoss
  <2>2a. catalog' \in Catalogs /\ versions' \in SUBSET Catalogs
    <3>1. PICK version \in versions : \E kept \in SUBSET version.indexes :
            catalog' = [version EXCEPT !.indexes = kept]
      BY <1>16 DEF PowerLoss
    <3>2. version \in Catalogs
      BY <1>1
    <3>3. catalog' \in Catalogs
      BY <3>1, <3>2, CatalogParts
    <3> QED
      BY <1>16, <3>3 DEF PowerLoss
  <2>2b. complete' \in SUBSET IndexColumns
    BY <1>1, <1>16 DEF PowerLoss
  <2>3. ASSUME NEW s \in Stores
        PROVE  /\ left[s] \in 0 .. Len(log[s])
               /\ log'[s] \in Seq(Pair) /\ (s = Table => log'[s] \in Seq(TablePair))
               /\ Len(log'[s]) = left[s]
    <3>1. log[s] \in Seq(Pair) /\ (s = Table => log[s] \in Seq(TablePair)) /\ synced[s] \in Nat
      BY <1>1, RecoveredTypes DEF DiskOK
    <3>2. left[s] \in synced[s] .. Len(log[s]) /\ Len(log[s]) \in Nat
      BY <2>1, <3>1, LenProperties
    <3>3. left[s] \in 0 .. Len(log[s]) /\ left[s] \in Nat /\ left[s] <= Len(log[s])
      BY <3>1, <3>2
    <3>4. log'[s] = SubSeq(log[s], 1, left[s])
      BY <2>1
    <3> QED
      BY SMTT(30), <3>1, <3>3, <3>4, PrefixOf
  <2>4. DiskOK'
    <3>1. PairsIn(log')
      BY <2>1, <2>3, TableIsNoIndex DEF PairsIn
    <3>2. synced' \in [Stores -> Nat]
      BY <2>1, <2>3
    <3>3. \A s \in Stores : synced'[s] <= Len(log'[s])
      BY SMTT(30), <2>1, <2>3
    <3>4. PairsIn(pages')
      BY <1>1, <2>2 DEF DiskOK
    <3> QED
      BY <3>1, <3>2, <3>3, <3>4 DEF DiskOK
  <2>5. cutback' \in BOOLEAN
    BY <1>1, <1>16 DEF PowerLoss
  <2> QED
    BY <1>1, <1>s, <2>2, <2>2a, <2>2b, <2>4, <2>5 DEF TypeOK
<1>17. CASE Open
  <2>1. job' \in Job
    BY <1>17, JobTypes DEF Open
  <2>2. PairsIn(mem')
    <3>1. \A s \in Stores : mem'[s] \in IF s \in {Table} \cup catalog.indexes THEN Held(s) ELSE {<< >>}
      BY <1>17 DEF Open
    <3>2. ASSUME NEW s \in Stores
          PROVE  mem'[s] \in Seq(Pair) /\ (s = Table => mem'[s] \in Seq(TablePair))
      <4>1. mem'[s] \in Held(s) \/ mem'[s] = << >>
        BY <3>1
      <4> QED
        BY <1>1, <4>1, HeldTypes, NoPairs
    <3>3. \E range : mem' \in [Stores -> range]
      BY <1>17 DEF Open
    <3>4. mem' \in [Stores -> Seq(Pair)]
      BY <3>2, <3>3
    <3> QED
      BY <3>2, <3>4, TableIsNoIndex DEF PairsIn
  <2>3. cols' \in AllHeaders /\ open' \in SUBSET IndexColumns /\ IsFiniteSet(open')
    BY <1>1, <1>17, CatalogParts DEF Open
  <2> QED
    BY <1>1, <1>2, <1>s, <1>17, <2>1, <2>2, <2>3 DEF TypeOK, Open
<1>18. CASE UNCHANGED vars
  BY <1>1, <1>2, <1>s, <1>18 DEF TypeOK, vars
<1>19. CASE Select
  BY <1>1, <1>2, <1>s, <1>19 DEF TypeOK, Select
<1> QED
  BY <1>4, <1>5, <1>6, <1>7, <1>8, <1>9, <1>10, <1>11, <1>12, <1>13, <1>14, <1>15, <1>16, <1>17, <1>18,
     <1>19
     DEF Next

-----------------------------------------------------------------------------
(* What the statement under way has done, over every step.                 *)

LEMMA JobStep ==
  ASSUME TypeOK, CallsInv, InsertInv, CreateInv, [Next]_vars
  PROVE  CallsInv' /\ InsertInv' /\ CreateInv'
<1>1. CASE LogInsert \/ TreeInsert \/ SyncPages \/ TruncateLog \/ OpenCatalog \/ WriteCatalog
  BY <1>1, CallsInvCall, InsertInvCall, CreateInvCall
<1>2. CASE Reply \/ Throw \/ Kill \/ PowerLoss \/ Open \/ Select
  <2>1. todo' = << >>
    BY <1>2 DEF Reply, Throw, Kill, PowerLoss, Open, Select, Up, Idle, CallsInv
  <2>2. job'.kind \in {"idle", "down"}
    BY <1>2 DEF Reply, Throw, Kill, PowerLoss, Open, Select, Stop, Up, Idle
  <2> QED
    BY <2>1, <2>2, Quiet
<1>3. CASE UNCHANGED vars
  <2>1. UNCHANGED <<job, todo, cols, open, mem, pages, log, synced, behind>>
    BY <1>3 DEF vars, disk
  <2>2. CallsInv'
    BY <2>1 DEF CallsInv, CallInv, Follows, Due, Entry, EntryOf, Logged
  <2>3. InsertInv'
    BY <2>1 DEF InsertInv, Waiting, Due, Entry, Logged, InTree
  <2>4. CreateInv'
    BY <2>1 DEF CreateInv, Waiting, EntryOf, Entry
  <2> QED
    BY <2>2, <2>3, <2>4
<1> QED
  BY <1>1, <1>2, <1>3, InsertBegins, CheckpointBegins, CreateIndexBegins, CreateTableBegins DEF Next

\* Which steps a closed database takes, and what every other step starts from.
LEMMA UpAndDown ==
  ASSUME TypeOK, CallsInv, [Next]_vars
  PROVE  \/ Up /\ Up' /\ ~PowerLoss /\ ~Open
         \/ Up /\ Stop /\ ~Up' /\ Interrupted /\ UNCHANGED <<catalog, acked>>
         \/ ~Up /\ PowerLoss /\ ~Up'
         \/ ~Up /\ Open /\ Up'
         \/ UNCHANGED vars
<1>1. todo # << >> => Up
  BY DEF CallsInv, Up
<1>2. CASE Throw
  <2>1. todo # << >> /\ Interrupted /\ UNCHANGED <<catalog, acked>>
    BY <1>2 DEF Throw, Calling, saved
  <2>2. Stop \/ job' = [kind |-> "idle"]
    BY <1>2 DEF Throw
  <2> QED
    BY <1>1, <1>2, <2>1, <2>2 DEF Stop, Up, PowerLoss, Open
<1>3. CASE Kill
  BY <1>3 DEF Kill, Stop, Up, saved
<1>4. CASE LogInsert \/ TreeInsert \/ SyncPages \/ TruncateLog \/ OpenCatalog \/ WriteCatalog
  <2>1. todo # << >> /\ job' = job
    BY <1>4 DEF LogInsert, TreeInsert, SyncPages, TruncateLog, OpenCatalog, WriteCatalog, Calling
  <2> QED
    BY <1>1, <2>1 DEF Up, PowerLoss, Open
<1>5. CASE \/ \E id \in Ids, v \in Values : Insert(id, v)
           \/ Checkpoint
           \/ \E c \in IndexColumns : CreateIndex(c)
           \/ \E header \in Headers : CreateTable(header)
           \/ Reply
           \/ Select
  <2>1. /\ job.kind # "down"
        /\ job'.kind \in {"insert", "checkpoint", "create_index", "create_table", "idle"}
    <3>1. ASSUME NEW id \in Ids, NEW v \in Values, Insert(id, v)
          PROVE  job.kind = "idle" /\ job'.kind = "insert"
      BY <3>1 DEF Insert, Idle
    <3>2. Checkpoint => job.kind = "idle" /\ job'.kind = "checkpoint"
      BY DEF Checkpoint, Idle
    <3>3. ASSUME NEW c \in IndexColumns, CreateIndex(c)
          PROVE  job.kind = "idle" /\ job'.kind = "create_index"
      BY <3>3 DEF CreateIndex, Idle
    <3>4. ASSUME NEW header \in Headers, CreateTable(header)
          PROVE  job.kind = "idle" /\ job'.kind = "create_table"
      BY <3>4 DEF CreateTable, Idle
    <3>5. Reply => job.kind # "down" /\ job'.kind = "idle"
      BY DEF Reply
    <3>6. Select => job.kind = "idle" /\ job'.kind = "idle"
      BY DEF Select, Idle
    <3> QED
      BY <1>5, <3>1, <3>2, <3>3, <3>4, <3>5, <3>6
  <2>2. ~PowerLoss /\ ~Open
    BY ONLY <2>1 DEF PowerLoss, Open, Up
  <2> QED
    BY <2>1, <2>2 DEF Up
<1>6. CASE PowerLoss
  BY <1>6 DEF PowerLoss, Up
<1>7. CASE Open
  BY <1>7 DEF Open, Up
<1> QED
  BY <1>2, <1>3, <1>4, <1>5, <1>6, <1>7 DEF Next

LEMMA DownStep ==
  ASSUME TypeOK, CallsInv, DownInv, [Next]_vars
  PROVE  DownInv'
<1>1. CASE Stop
  BY <1>1 DEF Stop, DownInv
<1>2. CASE ~Up /\ PowerLoss
  BY <1>2 DEF PowerLoss, DownInv, Up
<1>3. CASE UNCHANGED vars
  BY <1>3 DEF vars, DownInv, Up
<1> QED
  BY <1>1, <1>2, <1>3, UpAndDown DEF DownInv

LEMMA CompleteStep ==
  ASSUME TypeOK, CallsInv, CompleteInv, [Next]_vars
  PROVE  CompleteInv'
<1>1. CASE Up /\ Up' /\ ~PowerLoss /\ ~Open
  <2>1. \A c \in complete : c \in open
    BY <1>1 DEF CompleteInv
  <2>2. open \subseteq open' /\ \A c \in complete' : c \in complete \/ c \in open'
    <3>1. CASE Reply
      BY <3>1 DEF Reply, CallsInv
    <3>2. CASE Throw
      <4>1. ~Stop
        BY <1>1 DEF Stop, Up
      <4> QED
        BY <3>2, <4>1 DEF Throw
    <3>3. CASE Kill
      BY <1>1, <3>3 DEF Kill, Stop, Up
    <3>4. CASE UNCHANGED vars
      BY <3>4 DEF vars
    <3>5. CASE \E id \in Ids, v \in Values : Insert(id, v)
      BY <3>5 DEF Insert
    <3>6. CASE Checkpoint
      BY <3>6 DEF Checkpoint
    <3>7. CASE \E c \in IndexColumns : CreateIndex(c)
      BY <3>7 DEF CreateIndex
    <3>8. CASE \E header \in Headers : CreateTable(header)
      BY <3>8 DEF CreateTable
    <3>9. CASE LogInsert \/ TreeInsert \/ SyncPages \/ TruncateLog \/ OpenCatalog \/ WriteCatalog
      BY <3>9 DEF LogInsert, TreeInsert, SyncPages, TruncateLog, OpenCatalog, WriteCatalog
    <3>10. CASE Select
      BY <3>10 DEF Select
    <3> QED
      BY <1>1, <3>1, <3>2, <3>3, <3>4, <3>5, <3>6, <3>7, <3>8, <3>9, <3>10 DEF Next
  <2> QED
    BY <1>1, <2>1, <2>2 DEF CompleteInv
<1>2. CASE Stop /\ ~Up' /\ UNCHANGED catalog
  BY <1>2 DEF Stop, CompleteInv
<1>3. CASE ~Up /\ PowerLoss
  <2>1. complete' = complete \cap catalog'.indexes /\ behind' \subseteq behind /\ ~Up'
    BY <1>3 DEF PowerLoss, Up
  <2>2. \A c \in complete : c \notin behind
    BY <1>3 DEF CompleteInv
  <2> QED
    BY <2>1, <2>2 DEF CompleteInv
<1>4. CASE ~Up /\ Open /\ Up'
  BY <1>4 DEF Open, CompleteInv
<1>5. CASE UNCHANGED vars
  BY <1>5 DEF vars, disk, saved, CompleteInv, Up
<1> QED
  BY <1>1, <1>2, <1>3, <1>4, <1>5, UpAndDown

-----------------------------------------------------------------------------
(* The elements of the sequences.                                          *)

LEMMA SetOf ==
  ASSUME NEW S, NEW s \in Seq(S)
  PROVE  ToSet(s) = {s[i] : i \in 1 .. Len(s)} /\ ToSet(s) \subseteq S
<1>1. DOMAIN s = 1 .. Len(s) /\ \A i \in 1 .. Len(s) : s[i] \in S
  BY LenProperties, ElementOfSeq
<1> QED
  BY <1>1 DEF ToSet

LEMMA SetAppend ==
  ASSUME NEW S, NEW s \in Seq(S), NEW p \in S
  PROVE  ToSet(Append(s, p)) = ToSet(s) \cup {p}
<1> DEFINE t == Append(s, p)
<1>1. /\ t \in Seq(S) /\ Len(s) \in Nat /\ Len(t) = Len(s) + 1
      /\ t[Len(s) + 1] = p /\ \A i \in 1 .. Len(s) : t[i] = s[i]
  BY Appended
<1>2. ToSet(t) = {t[i] : i \in 1 .. Len(t)} /\ ToSet(s) = {s[i] : i \in 1 .. Len(s)}
  BY <1>1, SetOf
<1>3. \A i : i \in 1 .. Len(t) <=> i \in 1 .. Len(s) \/ i = Len(s) + 1
  BY <1>1
<1> HIDE DEF t
<1>4. ToSet(t) = ToSet(s) \cup {p}
  BY <1>1, <1>2, <1>3
<1> QED
  BY <1>4 DEF t

LEMMA SetConcat ==
  ASSUME NEW S, NEW s \in Seq(S), NEW t \in Seq(S)
  PROVE  ToSet(s \o t) = ToSet(s) \cup ToSet(t)
<1> DEFINE u == s \o t
<1>1. /\ u \in Seq(S)
      /\ Len(s) \in Nat /\ Len(t) \in Nat /\ Len(u) = Len(s) + Len(t)
      /\ \A i \in 1 .. Len(s) : u[i] = s[i]
      /\ \A i \in 1 .. Len(t) : u[Len(s) + i] = t[i]
  BY Concatenated
<1>2. ToSet(u) = {u[i] : i \in 1 .. Len(u)} /\ ToSet(s) = {s[i] : i \in 1 .. Len(s)}
      /\ ToSet(t) = {t[i] : i \in 1 .. Len(t)}
  BY <1>1, SetOf
<1> HIDE DEF u
<1>3. /\ \A i \in 1 .. Len(s) : i \in 1 .. Len(u)
      /\ \A i \in 1 .. Len(t) : Len(s) + i \in 1 .. Len(u)
      /\ \A i \in 1 .. Len(u) : i \in 1 .. Len(s) \/ i - Len(s) \in 1 .. Len(t)
      /\ \A i \in 1 .. Len(u) : Len(s) + (i - Len(s)) = i
  BY <1>1
<1>4. ASSUME NEW e \in ToSet(u) PROVE e \in ToSet(s) \cup ToSet(t)
  <2>1. PICK i \in 1 .. Len(u) : e = u[i]
    BY <1>2
  <2>2. CASE i \in 1 .. Len(s)
    BY <1>1, <1>2, <2>1, <2>2
  <2>3. CASE i - Len(s) \in 1 .. Len(t)
    <3>1. u[Len(s) + (i - Len(s))] = t[i - Len(s)]
      BY <1>1, <2>3
    <3>2. Len(s) + (i - Len(s)) = i
      BY <1>3
    <3> QED
      BY <1>2, <2>1, <2>3, <3>1, <3>2
  <2> QED
    BY <1>3, <2>2, <2>3
<1>5. ToSet(s) \subseteq ToSet(u)
  BY <1>1, <1>2, <1>3
<1>6. ToSet(t) \subseteq ToSet(u)
  <2> SUFFICES ASSUME NEW e \in ToSet(t) PROVE e \in ToSet(u)
    OBVIOUS
  <2>1. PICK i \in 1 .. Len(t) : e = t[i]
    BY <1>2
  <2>2. u[Len(s) + i] = e /\ Len(s) + i \in 1 .. Len(u)
    BY <1>1, <1>3, <2>1
  <2> QED
    BY <1>2, <2>2
<1>7. ToSet(u) = ToSet(s) \cup ToSet(t)
  BY <1>4, <1>5, <1>6
<1> QED
  BY <1>7 DEF u

\* A prefix of a prefix, and a prefix of a journal that grew.
LEMMA PrefixLaws ==
  ASSUME NEW S, NEW s \in Seq(S), NEW n \in Nat, n <= Len(s)
  PROVE  /\ SubSeq(SubSeq(s, 1, n), 1, n) = SubSeq(s, 1, n)
         /\ ToSet(SubSeq(s, 1, n)) \subseteq ToSet(s)
         /\ \A p \in S : SubSeq(Append(s, p), 1, n) = SubSeq(s, 1, n)
         /\ \A m \in Nat : m <= n => SubSeq(SubSeq(s, 1, n), 1, m) = SubSeq(s, 1, m)
<1> DEFINE t == SubSeq(s, 1, n)
<1>1. Len(s) \in Nat
  BY LenProperties
<1>2. /\ t \in Seq(S) /\ Len(t) = n
      /\ \A i \in 1 .. n : t[i] = s[i]
  BY PrefixOf
<1> HIDE DEF t
<1>3. ASSUME NEW m \in Nat, m <= n PROVE SubSeq(t, 1, m) = SubSeq(s, 1, m)
  <2>1. m <= Len(s)
    BY <1>1, <1>3
  <2>2. /\ SubSeq(t, 1, m) \in Seq(S) /\ Len(SubSeq(t, 1, m)) = m
        /\ \A i \in 1 .. m : SubSeq(t, 1, m)[i] = t[i]
    BY <1>2, <1>3, PrefixOf
  <2>3. /\ SubSeq(s, 1, m) \in Seq(S) /\ Len(SubSeq(s, 1, m)) = m
        /\ \A i \in 1 .. m : SubSeq(s, 1, m)[i] = s[i]
    BY <2>1, PrefixOf
  <2>4. \A i \in 1 .. m : i \in 1 .. n
    BY <1>3
  <2> QED
    BY <1>2, <2>2, <2>3, <2>4, SeqEqual
<1>4. ASSUME NEW p \in S PROVE SubSeq(Append(s, p), 1, n) = t
  <2>1. /\ Append(s, p) \in Seq(S) /\ Len(Append(s, p)) = Len(s) + 1
        /\ \A i \in 1 .. Len(s) : Append(s, p)[i] = s[i]
    BY Appended
  <2>2. n <= Len(Append(s, p)) /\ \A i \in 1 .. n : i \in 1 .. Len(s)
    BY <1>1, <2>1
  <2>3. /\ SubSeq(Append(s, p), 1, n) \in Seq(S) /\ Len(SubSeq(Append(s, p), 1, n)) = n
        /\ \A i \in 1 .. n : SubSeq(Append(s, p), 1, n)[i] = Append(s, p)[i]
    BY <2>1, <2>2, PrefixOf
  <2> QED
    BY <1>2, <2>1, <2>2, <2>3, SeqEqual
<1>5. ToSet(t) \subseteq ToSet(s)
  <2>1. ToSet(t) = {t[i] : i \in 1 .. n} /\ ToSet(s) = {s[i] : i \in 1 .. Len(s)}
    BY <1>2, SetOf
  <2>2. \A i \in 1 .. n : i \in 1 .. Len(s)
    BY <1>1
  <2> QED
    BY <1>2, <2>1, <2>2
<1>6. n <= n
  OBVIOUS
<1> QED
  BY <1>3, <1>4, <1>5, <1>6 DEF t

-----------------------------------------------------------------------------
(* What a call does to the disk, answered or not.                          *)

\* The files of store s are as they were, or have one more record, or the pages
\* of the tree, or no record any more.
Moves(s) ==
  \/ /\ pages'[s] = pages[s] /\ log'[s] = log[s] /\ synced'[s] \in {synced[s], Len(log[s])}
     /\ s \in behind => s \in behind'
  \/ /\ todo # << >> /\ s = This /\ todo[1] = Log(s, todo[1].pair)
     /\ todo[1].pair \in Pair /\ (s = Table => todo[1].pair \in TablePair)
     /\ pages'[s] = pages[s] /\ log'[s] = Append(log[s], todo[1].pair)
     /\ synced'[s] \in {synced[s], Len(log[s]) + 1}
     /\ s \in behind => s \in behind'
  \/ /\ s = This /\ todo[1] = Sync(s) /\ pages'[s] = mem[s] /\ log'[s] = log[s]
     /\ synced'[s] = synced[s]
     /\ s \in behind => s \in behind'
  \/ /\ s = This /\ todo[1] = Truncate(s) /\ pages[s] = mem[s]
     /\ pages'[s] = pages[s] /\ log'[s] = << >> /\ synced'[s] = 0

LEMMA DiskMoves ==
  ASSUME TypeOK, CallsInv, DiskCall, NEW s \in Stores
  PROVE  Moves(s)
<1>1. /\ pages \in [Stores -> Seq(Pair)] /\ log \in [Stores -> Seq(Pair)] /\ synced \in [Stores -> Nat]
  BY DEF TypeOK, DiskOK, PairsIn
<1>2. CASE Alike
  <2>1. synced'[s] \in {synced[s], Len(log[s])}
    BY <1>1, <1>2 DEF Alike
  <2> QED
    BY <1>2, <2>1 DEF Alike, Moves
<1>3. CASE Wrote
  <2>1. todo # << >> /\ Head(todo).call = "log_insert"
    BY <1>3 DEF Wrote, Calling
  <2>2. Head(todo) = todo[1] /\ todo[1] \in Call
    BY <2>1, Head1
  <2>3. /\ This = todo[1].store /\ This \in Stores /\ todo[1].pair \in Pair
        /\ This = Table => todo[1].pair \in TablePair
        /\ todo[1] = Log(todo[1].store, todo[1].pair)
    BY <2>1, <2>2, FirstCall, CallForms
  <2>4. CASE s # This
    <3>1. log'[s] = log[s] /\ synced'[s] = synced[s]
      BY <1>1, <1>3, <2>4 DEF Wrote
    <3>2. pages' = pages /\ behind' = behind
      BY <1>3 DEF Wrote
    <3> QED
      BY <3>1, <3>2 DEF Moves
  <2>5. CASE s = This
    <3>1. log'[s] = Append(log[s], todo[1].pair) /\ synced'[s] \in {synced[s], Len(log[s]) + 1}
      BY <1>1, <1>3, <2>2, <2>5 DEF Wrote
    <3>2. pages' = pages /\ behind' = behind
      BY <1>3 DEF Wrote
    <3> QED
      BY <2>1, <2>3, <2>5, <3>1, <3>2 DEF Moves
  <2> QED
    BY <2>4, <2>5
<1>4. CASE Flushed
  <2>1. todo # << >> /\ Head(todo).call = "sync"
    BY <1>4 DEF Flushed, Calling
  <2>2. Head(todo) = todo[1] /\ todo[1] \in Call
    BY <2>1, Head1
  <2>3. This = todo[1].store /\ todo[1] = Sync(todo[1].store)
    BY <2>1, <2>2, FirstCall, CallForms
  <2>4. log' = log /\ synced' = synced /\ behind' = behind
    BY <1>4 DEF Flushed
  <2>5. CASE s # This
    <3>1. pages'[s] = pages[s]
      BY <1>1, <1>4, <2>5 DEF Flushed
    <3> QED
      BY <2>4, <3>1 DEF Moves
  <2>6. CASE s = This
    <3>1. pages'[s] = mem[s]
      BY <1>1, <1>4, <2>6 DEF Flushed
    <3> QED
      BY <2>3, <2>4, <2>6, <3>1 DEF Moves
  <2> QED
    BY <2>5, <2>6
<1>5. CASE Emptied
  <2>1. todo # << >> /\ Head(todo).call = "truncate"
    BY <1>5 DEF Emptied, Calling
  <2>2. Head(todo) = todo[1] /\ todo[1] \in Call /\ Follows(1)
    BY <2>1, Head1
  <2>3. /\ This = todo[1].store /\ todo[1] = Truncate(todo[1].store)
    BY <2>1, <2>2, FirstCall, CallForms
  <2>4. pages[This] = mem[This]
    BY <2>1, <2>2, <2>3 DEF Follows
  <2>5. CASE s # This
    <3>1. log'[s] = log[s] /\ synced'[s] = synced[s]
      BY <1>1, <1>5, <2>5 DEF Emptied
    <3>2. pages' = pages /\ (s \in behind => s \in behind')
      BY <1>5, <2>5 DEF Emptied
    <3> QED
      BY <3>1, <3>2 DEF Moves
  <2>6. CASE s = This
    <3>1. log'[s] = << >> /\ synced'[s] = 0 /\ pages' = pages
      BY <1>1, <1>5, <2>6 DEF Emptied
    <3> QED
      BY <2>3, <2>4, <2>6, <3>1 DEF Moves
  <2> QED
    BY <2>5, <2>6
<1> QED
  BY <1>2, <1>3, <1>4, <1>5, DiskCases

-----------------------------------------------------------------------------
(* No index is ahead of the table.                                         *)

\* What the pair of a call to an index refers to is in the table already, and so
\* is the row of a call to the table in the journal before it is in the tree.
LEMMA CallRefers ==
  ASSUME TypeOK, CallsInv, InsertInv, todo # << >>,
         Head(todo).call \in {"log_insert", "insert"}, This # Table
  PROVE  HasRow(mem[Table], todo[1].pair[2])
<1>1. /\ Len(todo) > 0 /\ 1 \in 1 .. Len(todo) /\ Len(todo) \in Nat
      /\ Head(todo) = todo[1] /\ CallInv(todo[1]) /\ job \in Job
  BY Head1
<1>2. This = todo[1].store /\ This \in Stores
  BY FirstCall
<1>3. mem[Table] \in Seq(TablePair) /\ Len(mem[Table]) \in Nat
  BY LenProperties DEF TypeOK, PairsIn
<1>4. CASE job.kind = "insert"
  <2>1. todo[1].pair = Entry(This, job.row) /\ job.row \in TablePair
    BY <1>1, <1>2, <1>4, FirstCall DEF Due
  <2>2. todo[1].pair[2] = job.row[1]
    BY <2>1 DEF Entry
  <2>3. ~Waiting(Put(Table, Due(Table)))
    <3> SUFFICES ASSUME NEW i \in 1 .. Len(todo), todo[i] = Put(Table, Due(Table)) PROVE FALSE
      BY DEF Waiting
    <3>1. todo[i].store = Table /\ 1 \in 1 .. i
      BY <1>1 DEF Put
    <3>2. todo[1].store = Table
      BY <1>4, <3>1 DEF InsertInv
    <3> QED
      BY <1>2, <3>2
  <2>4. InTree(Table, job.row)
    BY <1>4, <2>3 DEF InsertInv, Due
  <2>5. Len(mem[Table]) \in 1 .. Len(mem[Table]) /\ mem[Table][Len(mem[Table])][1] = job.row[1]
    BY <1>3, <2>4 DEF InTree
  <2> QED
    BY <2>2, <2>5 DEF HasRow
<1>5. CASE job.kind = "create_index"
  <2>1. PICK id \in Ids : Row(mem[Table], id) # NoRow /\ todo[1].pair = EntryOf(job.col, id)
    BY <1>1, <1>5 DEF CallInv
  <2>2. HasRow(mem[Table], id)
    BY <1>3, <2>1, RowNone
  <2>3. todo[1].pair[2] = id
    BY <2>1 DEF EntryOf, Entry
  <2> QED
    BY <2>2, <2>3
<1> QED
  BY <1>1, <1>4, <1>5 DEF CallInv

\* The disk may change in the middle of a statement.
LEMMA AheadOnDisk ==
  ASSUME TypeOK, CallsInv, InsertInv, AheadInv, ~cutback, Table \notin lost, Up, DiskCall
  PROVE  /\ Table \notin behind' =>
              \A id \in Nat : HasRow(mem[Table], id) => HasRow(Recovered(Table)', id)
         /\ \A c \in IndexColumns \ lost : \A e \in ToSet(Recovered(c)') : HasRow(mem[Table], e[2])
<1>1. DiskOK /\ DiskOK'
  BY DiskTypes DEF TypeOK
<1>2. mem \in [Stores -> Seq(Pair)] /\ mem[Table] \in Seq(TablePair)
  BY DEF TypeOK, PairsIn
<1>3. ASSUME NEW s \in Stores, todo # << >>, todo[1] = Log(s, todo[1].pair)
      PROVE  Head(todo).call \in {"log_insert", "insert"}
  <2>1. Head(todo) = todo[1]
    BY <1>3, Head1
  <2> QED
    BY <1>3, <2>1 DEF Log
<1>4. ASSUME Table \notin behind', NEW id \in Nat, HasRow(mem[Table], id)
      PROVE  HasRow(Recovered(Table)', id)
  <2>1. Table \notin behind => HasRow(Recovered(Table), id)
    BY <1>4 DEF AheadInv
  <2>2. pages[Table] \in Seq(TablePair) /\ log[Table] \in Seq(TablePair)
    BY <1>1, TableIsNoIndex, RecoveredTypes
  <2>3. Table \notin behind => HasRow(pages[Table], id) \/ HasRow(log[Table], id)
    BY <2>1, <2>2, RowConcat DEF Recovered
  <2>4. Recovered(Table)' = pages'[Table] \o log'[Table]
    BY DEF Recovered
  <2>5. Moves(Table)
    BY DiskMoves, TableIsNoIndex
  <2>6. CASE /\ pages'[Table] = pages[Table] /\ log'[Table] = log[Table]
             /\ Table \in behind => Table \in behind'
    BY <1>4, <2>1, <2>4, <2>6 DEF Recovered
  <2>7. CASE /\ todo[1].pair \in TablePair /\ Table \notin behind
             /\ pages'[Table] = pages[Table] /\ log'[Table] = Append(log[Table], todo[1].pair)
    <3>1. PICK t : t = Append(log[Table], todo[1].pair)
      OBVIOUS
    <3>2. t \in Seq(TablePair)
      BY <2>2, <2>7, <3>1, Appended
    <3>3. HasRow(log[Table], id) => HasRow(t, id)
      BY <2>2, <2>7, <3>1, RowAppend
    <3>4. HasRow(pages[Table] \o t, id)
      BY <2>2, <2>3, <2>7, <3>2, <3>3, RowConcat
    <3>5. Recovered(Table)' = pages[Table] \o t
      BY <2>4, <2>7, <3>1
    <3> QED
      BY <3>4, <3>5
  <2>8. CASE pages'[Table] = mem[Table] /\ log'[Table] = log[Table]
    BY <1>2, <1>4, <2>2, <2>4, <2>8, RowConcat
  <2>9. CASE pages'[Table] = mem[Table] /\ log'[Table] = << >>
    BY <1>2, <1>4, <2>4, <2>9, NoPairs, RowConcat
  <2> QED
    BY <1>4, <2>5, <2>6, <2>7, <2>8, <2>9 DEF Moves
<1>5. ASSUME NEW c \in IndexColumns \ lost, NEW e \in ToSet(Recovered(c)') PROVE HasRow(mem[Table], e[2])
  <2>1. c \in Stores /\ c # Table
    BY TableIsNoIndex
  <2>2. pages[c] \in Seq(Pair) /\ log[c] \in Seq(Pair) /\ mem[c] \in Seq(Pair)
    BY <1>1, <1>2, <2>1, RecoveredTypes
  <2>3. /\ ToSet(Recovered(c)) = ToSet(pages[c]) \cup ToSet(log[c])
        /\ pages'[c] \in Seq(Pair) /\ log'[c] \in Seq(Pair)
    BY <1>1, <2>1, <2>2, SetConcat DEF Recovered, DiskOK, PairsIn
  <2>4. Recovered(c)' = pages'[c] \o log'[c]
    BY DEF Recovered
  <2>5. e \in ToSet(pages'[c]) \/ e \in ToSet(log'[c])
    BY <2>3, <2>4, SetConcat
  <2>6. /\ \A d \in ToSet(pages[c]) \cup ToSet(log[c]) : HasRow(mem[Table], d[2])
        /\ \A d \in ToSet(mem[c]) : HasRow(mem[Table], d[2])
    BY <2>3 DEF AheadInv, Rows0
  <2>7. Moves(c)
    BY <2>1, DiskMoves
  <2>8. CASE pages'[c] = pages[c] /\ log'[c] = log[c]
    BY <2>5, <2>6, <2>8
  <2>9. CASE /\ todo # << >> /\ c = This /\ todo[1] = Log(c, todo[1].pair) /\ todo[1].pair \in Pair
             /\ pages'[c] = pages[c] /\ log'[c] = Append(log[c], todo[1].pair)
    <3>1. ToSet(log'[c]) = ToSet(log[c]) \cup {todo[1].pair}
      BY <2>2, <2>9, SetAppend
    <3>2. HasRow(mem[Table], todo[1].pair[2])
      BY <1>3, <2>1, <2>9, CallRefers
    <3> QED
      BY <2>5, <2>6, <2>9, <3>1, <3>2
  <2>10. CASE pages'[c] = mem[c] /\ log'[c] = log[c]
    BY <2>5, <2>6, <2>10
  <2>11. CASE pages'[c] = mem[c] /\ log'[c] = << >>
    <3>1. ToSet(log'[c]) = {}
      BY <2>11 DEF ToSet
    <3> QED
      BY <2>5, <2>6, <2>11, <3>1
  <2> QED
    BY <2>7, <2>8, <2>9, <2>10, <2>11 DEF Moves
<1> QED
  BY <1>4, <1>5

\* A damaged store stays damaged.
LEMMA LostGrows ==
  ASSUME [Next]_vars
  PROVE  lost \subseteq lost'
BY DEF Next, vars, Insert, Checkpoint, CreateIndex, CreateTable, Select, LogInsert, TreeInsert,
       SyncPages, TruncateLog, OpenCatalog, WriteCatalog, Reply, Throw, Kill, Stop, PowerLoss, Open

LEMMA AheadStep ==
  ASSUME TypeOK, CallsInv, InsertInv, DownInv, AheadInv, [Next]_vars
  PROVE  AheadInv'
<1>1. lost \subseteq lost'
  BY LostGrows
<1>1a. ~cutback' => ~cutback
  BY DEF Next, vars, Insert, Checkpoint, CreateIndex, CreateTable, Select, LogInsert, TreeInsert,
         SyncPages, TruncateLog, OpenCatalog, WriteCatalog, Reply, Throw, Kill, Stop, PowerLoss, Open
<1> SUFFICES ASSUME ~cutback, ~cutback', Table \notin lost, Table \notin lost' PROVE AheadInv'
  BY <1>1, <1>1a DEF AheadInv
<1>2. /\ Up /\ Table \notin behind =>
           \A id \in Nat : HasRow(mem[Table], id) => HasRow(Recovered(Table), id)
      /\ ~Up => Table \notin behind
      /\ \A c \in IndexColumns \ lost :
           /\ \A e \in ToSet(Recovered(c)) : HasRow(Rows0, e[2])
           /\ \A e \in ToSet(mem[c]) : HasRow(Rows0, e[2])
  BY DEF AheadInv
<1>3. /\ DiskOK /\ mem \in [Stores -> Seq(Pair)] /\ mem[Table] \in Seq(TablePair)
      /\ \A c \in IndexColumns : c \in Stores /\ c # Table
      /\ Table \in Stores
  BY TableIsNoIndex DEF TypeOK, PairsIn
<1>4. CASE Up /\ Stop /\ ~Up' /\ Interrupted
  <2>0. Table \notin behind'
    BY <1>4 DEF Stop
  <2>1. /\ \A id \in Nat : HasRow(mem[Table], id) => HasRow(Recovered(Table)', id)
        /\ \A c \in IndexColumns \ lost : \A e \in ToSet(Recovered(c)') : HasRow(mem[Table], e[2])
    BY <1>4, <2>0, AheadOnDisk DEF DiskCall
  <2>2. \A c \in IndexColumns : mem'[c] = << >> /\ ToSet(mem'[c]) = {}
    BY <1>3, <1>4 DEF Stop, ToSet
  <2>3. Rows0' = Recovered(Table)'
    BY <1>4 DEF Rows0
  <2>4. DiskOK'
    BY <1>4, DiskTypes DEF DiskCall
  <2>5. ASSUME NEW c \in IndexColumns \ lost, NEW e \in ToSet(Recovered(c)') PROVE HasRow(Rows0', e[2])
    <3>1. pages'[c] \o log'[c] \in Seq(Pair)
      BY <1>3, <2>4, Concatenated DEF DiskOK, PairsIn
    <3>2. Recovered(c)' = pages'[c] \o log'[c]
      BY DEF Recovered
    <3>3. e \in Pair
      BY <2>5, <3>1, <3>2, SetOf
    <3>4. e[2] \in Nat
      BY <3>3 DEF Pair
    <3> QED
      BY <2>1, <2>3, <2>5, <3>4
  <2> QED
    BY <1>1, <1>4, <2>0, <2>2, <2>5 DEF AheadInv
<1>5. CASE Up /\ Up' /\ UNCHANGED mem /\ DiskCall
  <2>1. /\ Table \notin behind' =>
             \A id \in Nat : HasRow(mem[Table], id) => HasRow(Recovered(Table)', id)
        /\ \A c \in IndexColumns \ lost : \A e \in ToSet(Recovered(c)') : HasRow(mem[Table], e[2])
    BY <1>5, AheadOnDisk
  <2>2. Rows0' = mem[Table] /\ Rows0 = mem[Table] /\ mem' = mem
    BY <1>5 DEF Rows0
  <2> QED
    BY <1>1, <1>2, <1>5, <2>1, <2>2 DEF AheadInv
<1>6. CASE TreeInsert
  <2>1. PICK s \in Stores, p \in Pair :
          /\ s = This /\ todo[1] = Put(s, p) /\ (s = Table => p \in TablePair)
          /\ mem' = [mem EXCEPT ![s] = Append(@, p)] /\ Logged(s, p)
    BY <1>6, TreeInsertDoes
  <2>2. /\ todo # << >> /\ Head(todo).call = "insert" /\ job' = job /\ UNCHANGED files
    BY <1>6 DEF TreeInsert, Calling, files
  <2>3. Up /\ Up'
    BY <2>2 DEF CallsInv, Up
  <2>4. Rows0 = mem[Table] /\ Rows0' = mem'[Table] /\ \A s1 : Recovered(s1)' = Recovered(s1)
    BY <2>2, <2>3 DEF Rows0, Recovered, files
  <2>4a. behind' = behind
    BY <2>2 DEF files
  <2>5. s \notin behind => HasRow(Recovered(s), p[1])
    <3> SUFFICES ASSUME s \notin behind PROVE HasRow(Recovered(s), p[1])
      OBVIOUS
    <3>1. pages[s] \in Seq(Pair) /\ log[s] \in Seq(Pair) /\ Len(log[s]) \in Nat
      BY <1>3, RecoveredTypes, LenProperties
    <3>2. Len(log[s]) \in 1 .. Len(log[s]) /\ log[s][Len(log[s])] = p
      BY <2>1, <3>1 DEF Logged
    <3>3. HasRow(log[s], p[1])
      BY <3>1, <3>2 DEF HasRow
    <3>4. HasRow(pages[s] \o log[s], p[1])
      BY <3>1, <3>3, RowConcat
    <3> QED
      BY <3>4 DEF Recovered
  <2>6. CASE s = Table
    <3>1. \A id : HasRow(mem'[Table], id) <=> HasRow(mem[Table], id) \/ p[1] = id
      BY <1>3, <2>1, <2>6, RowAppend
    <3>2. \A c \in IndexColumns : mem'[c] = mem[c]
      BY <1>3, <2>1, <2>6
    <3>3. Table \notin behind' =>
            \A id \in Nat : HasRow(mem'[Table], id) => HasRow(Recovered(Table)', id)
      BY <1>2, <2>3, <2>4, <2>4a, <2>5, <2>6, <3>1
    <3>4. \A id : HasRow(Rows0, id) => HasRow(Rows0', id)
      BY <2>4, <3>1
    <3> QED
      BY <1>1, <1>2, <2>3, <2>4, <3>2, <3>3, <3>4 DEF AheadInv
  <2>7. CASE s # Table
    <3>1. HasRow(mem[Table], p[2])
      <4>1. HasRow(mem[Table], todo[1].pair[2])
        BY <2>1, <2>2, <2>7, CallRefers
      <4> QED
        BY <2>1, <4>1 DEF Put
    <3>2. mem'[Table] = mem[Table]
      BY <1>3, <2>1, <2>7
    <3>3. ASSUME NEW c \in IndexColumns \ lost, NEW e \in ToSet(mem'[c]) PROVE HasRow(mem[Table], e[2])
      <4>1. CASE c = s
        <5>1. ToSet(mem'[c]) = ToSet(mem[c]) \cup {p}
          BY <1>3, <2>1, <4>1, SetAppend
        <5> QED
          BY <1>2, <2>4, <3>1, <3>3, <5>1
      <4>2. CASE c # s
        <5>1. mem'[c] = mem[c]
          BY <1>3, <2>1, <4>2
        <5> QED
          BY <1>2, <2>4, <3>3, <5>1
      <4> QED
        BY <4>1, <4>2
    <3> QED
      BY <1>1, <1>2, <2>3, <2>4, <2>4a, <3>2, <3>3 DEF AheadInv
  <2> QED
    BY <2>6, <2>7
<1>7. ASSUME NEW c \in IndexColumns, CreateIndex(c) PROVE AheadInv'
  <2>1. PICK held \in Held(c) : mem' = [mem EXCEPT ![c] = held]
    BY <1>7 DEF CreateIndex
  <2>2. UNCHANGED files /\ job.kind = "idle" /\ job'.kind = "create_index"
    BY <1>7 DEF CreateIndex, Idle, files
  <2>3. /\ Up /\ Up' /\ mem'[Table] = mem[Table] /\ \A s1 : Recovered(s1)' = Recovered(s1)
        /\ behind' = behind
    BY <1>3, <2>1, <2>2 DEF Up, Recovered, files
  <2>4. Rows0' = Rows0 /\ Rows0 = mem[Table]
    BY <2>3 DEF Rows0
  <2>5. \A d \in IndexColumns \ lost : mem'[d] = mem[d] \/ mem'[d] = Recovered(d)
    BY <1>3, <2>1 DEF Held
  <2> QED
    BY <1>1, <1>2, <2>3, <2>4, <2>5 DEF AheadInv
<1>8. CASE Open
  <2>1. ~Up /\ job'.kind = "idle" /\ UNCHANGED files
    BY <1>8 DEF Open, files
  <2>2. \A s \in Stores : mem'[s] \in IF s \in {Table} \cup catalog.indexes THEN Held(s) ELSE {<< >>}
    BY <1>8 DEF Open
  <2>3. mem'[Table] = Recovered(Table)
    BY <1>3, <2>2 DEF Held
  <2>4. Up' /\ (\A s1 : Recovered(s1)' = Recovered(s1)) /\ behind' = behind
    BY <2>1 DEF Up, Recovered, files
  <2>5. Rows0' = Rows0 /\ Rows0 = Recovered(Table)
    BY <2>1, <2>3, <2>4 DEF Rows0
  <2>6. \A d \in IndexColumns \ lost : mem'[d] = << >> \/ mem'[d] = Recovered(d)
    BY <1>3, <2>2 DEF Held
  <2>7. ToSet(<< >>) = {}
    BY DEF ToSet
  <2> QED
    BY <1>1, <1>2, <2>3, <2>4, <2>5, <2>6, <2>7 DEF AheadInv
<1>9. CASE UNCHANGED <<mem, files>> /\ (Up <=> Up')
  <2>1. \A s : Recovered(s)' = Recovered(s)
    BY <1>9 DEF Recovered, files
  <2>2. Rows0' = Rows0 /\ mem' = mem /\ behind' = behind
    BY <1>9, <2>1 DEF Rows0, files
  <2> QED
    BY <1>1, <1>2, <1>9, <2>1, <2>2 DEF AheadInv
<1>10. CASE UNCHANGED vars
  <2>1. UNCHANGED <<mem, files>> /\ (Up <=> Up')
    BY <1>10 DEF vars, disk, files, Up
  <2> QED
    BY <1>9, <2>1
<1>11. CASE Up /\ Up' /\ ~PowerLoss /\ ~Open
  <2>1. CASE LogInsert
    BY <1>5, <1>11, <2>1 DEF LogInsert, DiskCall
  <2>2. CASE SyncPages
    BY <1>5, <1>11, <2>2 DEF SyncPages, DiskCall
  <2>3. CASE TruncateLog
    BY <1>5, <1>11, <2>3 DEF TruncateLog, DiskCall
  <2>4. CASE Throw
    <3>1. ~Stop
      BY <1>11 DEF Stop, Up
    <3> QED
      BY <1>5, <1>11, <2>4, <3>1 DEF Throw, DiskCall
  <2>5. CASE Kill
    BY <1>11, <2>5 DEF Kill, Stop, Up
  <2>6. ASSUME NEW id \in Ids, NEW v \in Values, Insert(id, v) PROVE AheadInv'
    BY <1>9, <1>11, <2>6 DEF Insert, disk, files
  <2>7. CASE Checkpoint
    BY <1>9, <1>11, <2>7 DEF Checkpoint, disk, files
  <2>8. ASSUME NEW header \in Headers, CreateTable(header) PROVE AheadInv'
    BY <1>9, <1>11, <2>8 DEF CreateTable, disk, files
  <2>9. CASE OpenCatalog \/ WriteCatalog \/ Reply
    BY <1>9, <1>11, <2>9 DEF OpenCatalog, WriteCatalog, Reply, disk, files
  <2>10. CASE Select
    BY <1>9, <1>11, <2>10 DEF Select, files
  <2> QED
    BY <1>6, <1>7, <1>10, <1>11, <2>1, <2>2, <2>3, <2>4, <2>5, <2>6, <2>7, <2>8, <2>9, <2>10 DEF Next
<1>12. CASE ~Up /\ PowerLoss /\ ~Up'
  <2>1. PICK left \in [Stores -> UNION {synced[s] .. Len(log[s]) : s \in Stores}] :
          /\ \A s \in Stores : left[s] \in synced[s] .. Len(log[s])
          /\ log' = [s \in Stores |-> SubSeq(log[s], 1, left[s])]
          /\ cutback' = (cutback \/ left[Table] < Len(log[Table]))
    BY <1>12 DEF PowerLoss
  <2>2. mem' = mem /\ pages' = pages /\ behind' \subseteq behind
    BY <1>12 DEF PowerLoss
  <2>3. ASSUME NEW s \in Stores
        PROVE  /\ pages[s] \in Seq(Pair) /\ log[s] \in Seq(Pair)
               /\ left[s] \in Nat /\ left[s] <= Len(log[s]) /\ Len(log[s]) \in Nat
               /\ Recovered(s)' = pages[s] \o SubSeq(log[s], 1, left[s])
    <3>1. pages[s] \in Seq(Pair) /\ log[s] \in Seq(Pair) /\ synced[s] \in Nat
      BY <1>3, RecoveredTypes DEF DiskOK
    <3>2. Len(log[s]) \in Nat /\ left[s] \in synced[s] .. Len(log[s])
      BY <2>1, <3>1, LenProperties
    <3>3. log'[s] = SubSeq(log[s], 1, left[s])
      BY <2>1
    <3> QED
      BY <2>2, <3>1, <3>2, <3>3 DEF Recovered
  <2>4. Recovered(Table)' = Recovered(Table)
    <3>1. ~(left[Table] < Len(log[Table]))
      BY <2>1
    <3>2. left[Table] = Len(log[Table])
      BY <1>3, <2>3, <3>1
    <3>3. SubSeq(log[Table], 1, Len(log[Table])) = log[Table]
      BY <1>3, <2>3, PrefixOf
    <3> QED
      BY <1>3, <2>3, <3>2, <3>3 DEF Recovered
  <2>5. Rows0' = Rows0
    BY <1>12, <2>4 DEF Rows0
  <2>6. ASSUME NEW c \in IndexColumns, NEW e \in ToSet(Recovered(c)') PROVE e \in ToSet(Recovered(c))
    <3>1. c \in Stores
      BY <1>3
    <3>2. /\ pages[c] \in Seq(Pair) /\ log[c] \in Seq(Pair)
          /\ left[c] \in Nat /\ left[c] <= Len(log[c])
          /\ Recovered(c)' = pages[c] \o SubSeq(log[c], 1, left[c])
      BY <2>3, <3>1
    <3>3. SubSeq(log[c], 1, left[c]) \in Seq(Pair) /\ ToSet(SubSeq(log[c], 1, left[c])) \subseteq ToSet(log[c])
      BY <3>2, PrefixOf, PrefixLaws
    <3>4. PICK q : q = SubSeq(log[c], 1, left[c])
      OBVIOUS
    <3>5. e \in ToSet(pages[c] \o q)
      BY <2>6, <3>2, <3>4
    <3>6. q \in Seq(Pair) /\ ToSet(q) \subseteq ToSet(log[c])
      BY <3>3, <3>4
    <3>7. /\ ToSet(pages[c] \o q) = ToSet(pages[c]) \cup ToSet(q)
          /\ ToSet(pages[c] \o log[c]) = ToSet(pages[c]) \cup ToSet(log[c])
      BY <3>2, <3>6, SetConcat
    <3> QED
      BY <3>5, <3>6, <3>7 DEF Recovered
  <2> QED
    BY <1>1, <1>2, <1>12, <2>2, <2>5, <2>6 DEF AheadInv
<1> QED
  BY <1>4, <1>8, <1>10, <1>11, <1>12, UpAndDown

-----------------------------------------------------------------------------
LEMMA InitInv == Init => IndInv
<1> SUFFICES ASSUME Init PROVE IndInv
  OBVIOUS
<1>1. TypeOK
  BY TypeInit
<1>2. /\ todo = << >> /\ job.kind = "down" /\ open = {} /\ complete = {} /\ behind = {} /\ ~Up
      /\ \A s \in Stores : mem[s] = << >> /\ pages[s] = << >> /\ log[s] = << >>
  BY DEF Init, Up
<1>3. CallsInv /\ InsertInv /\ CreateInv
  BY <1>2 DEF CallsInv, InsertInv, CreateInv
<1>4. DownInv /\ CompleteInv
  BY <1>2 DEF DownInv, CompleteInv
<1>5. AheadInv
  <2>1. \A c \in IndexColumns : Recovered(c) = << >> /\ mem[c] = << >>
    BY <1>2, TableIsNoIndex DEF Recovered
  <2>2. ToSet(<< >>) = {}
    BY DEF ToSet
  <2> QED
    BY <1>2, <2>1, <2>2 DEF AheadInv
<1> QED
  BY <1>1, <1>3, <1>4, <1>5 DEF IndInv

\* The invariant the other theorems rest on: what is journalled and in the trees
\* at each call of a statement, and what the failures of one leave behind.
THEOREM Invariance == Spec => []IndInv
<1>1. IndInv /\ [Next]_vars => IndInv'
  BY TypeStep, JobStep, DownStep, AheadStep, CompleteStep DEF IndInv
<1> QED
  BY <1>1, InitInv, PTL DEF Spec

\* A pair in a table's rows has a value, which is not NoRow.
LEMMA RowValue ==
  ASSUME NEW s \in Seq(TablePair), NEW id
  PROVE  /\ Row(s, id) \in Cells
         /\ HasRow(s, id) => Row(s, id) \in Values /\ Row(s, id) # NoRow /\ id \in Ids
<1>1. CASE HasRow(s, id)
  <2>1. PICK i \in 1 .. Len(s) : s[i][1] = id /\ Row(s, id) = s[i][2]
    BY <1>1, RowSome
  <2>2. s[i] \in TablePair
    BY ElementOfSeq
  <2> QED
    BY <2>1, <2>2, DatabaseAssumption DEF TablePair, Cells
<1>2. CASE ~HasRow(s, id)
  BY <1>2, RowNone DEF Cells
<1> QED
  BY <1>1, <1>2

\* IndexNeverAhead: no entry of an index refers to a row the table does not have, on
\* the disk or in memory, as long as the table lost no records of its journal and
\* neither it nor the index was damaged.
THEOREM IndexesFollow == Spec => []IndexNeverAhead
<1>1. IndInv => IndexNeverAhead
  <2> SUFFICES ASSUME IndInv, ~cutback, Table \notin lost, NEW c \in Stores \ ({Table} \cup lost)
               PROVE  /\ Table \notin behind =>
                           \A e \in ToSet(Recovered(c)) : Row(Recovered(Table), e[2]) # NoRow
                      /\ \A e \in ToSet(mem[c]) : Row(mem[Table], e[2]) # NoRow
    BY DEF IndexNeverAhead
  <2>1. /\ Up /\ Table \notin behind =>
             \A id \in Nat : HasRow(mem[Table], id) => HasRow(Recovered(Table), id)
        /\ \A e \in ToSet(Recovered(c)) : HasRow(Rows0, e[2])
        /\ \A e \in ToSet(mem[c]) : HasRow(Rows0, e[2])
        /\ ~Up => mem[c] = << >>
    BY DEF IndInv, AheadInv, DownInv, Stores
  <2>2. Recovered(c) \in Seq(Pair) /\ Recovered(Table) \in Seq(TablePair)
    BY RecoveredTypes, TableIsNoIndex DEF IndInv, TypeOK
  <2>3. mem[Table] \in Seq(TablePair)
    BY DEF IndInv, TypeOK, PairsIn
  <2>4. ASSUME Table \notin behind, NEW e \in ToSet(Recovered(c))
        PROVE  Row(Recovered(Table), e[2]) # NoRow
    <3>1. e[2] \in Nat
      BY <2>2, <2>4, SetOf DEF Pair
    <3>2. HasRow(Recovered(Table), e[2])
      BY <2>1, <2>4, <3>1 DEF Rows0
    <3> QED
      BY <2>2, <3>2, RowValue
  <2>5. ASSUME NEW e \in ToSet(mem[c]) PROVE Row(mem[Table], e[2]) # NoRow
    <3>1. Up
      BY <2>1, <2>5 DEF ToSet
    <3>2. HasRow(mem[Table], e[2])
      BY <2>1, <3>1 DEF Rows0
    <3> QED
      BY <2>3, <3>2, RowValue
  <2> QED
    BY <2>4, <2>5
<1> QED
  BY <1>1, Invariance, PTL

-----------------------------------------------------------------------------
(* The rows a power failure may leave.                                     *)

\* Safe[id] when the page file of the table holds pg, and its journal lg, of
\* which sy records are on the disk.
Left(pg, lg, sy, id) == {Row(pg \o SubSeq(lg, 1, n), id) : n \in sy .. Len(lg)}

LEMMA LeftTypes ==
  ASSUME NEW pg \in Seq(TablePair), NEW lg \in Seq(TablePair), NEW sy \in Nat, sy <= Len(lg), NEW id
  PROVE  /\ Left(pg, lg, sy, id) \in (SUBSET Cells) \ {{}}
         /\ Row(pg \o lg, id) \in Left(pg, lg, sy, id)
<1>1. Len(lg) \in Nat /\ Len(lg) \in sy .. Len(lg) /\ Len(lg) <= Len(lg)
  BY LenProperties
<1>2. SubSeq(lg, 1, Len(lg)) = lg
  BY <1>1, PrefixOf
<1>3. Row(pg \o lg, id) \in Left(pg, lg, sy, id)
  BY <1>1, <1>2 DEF Left
<1>4. ASSUME NEW n \in sy .. Len(lg) PROVE Row(pg \o SubSeq(lg, 1, n), id) \in Cells
  <2>1. n \in Nat /\ n <= Len(lg)
    BY <1>1
  <2>2. SubSeq(lg, 1, n) \in Seq(TablePair)
    BY <2>1, PrefixOf
  <2>3. pg \o SubSeq(lg, 1, n) \in Seq(TablePair)
    BY <2>2, Concatenated
  <2> QED
    BY <2>3, RowValue
<1> QED
  BY <1>3, <1>4 DEF Left

\* One more record, synced or not: its row, or one of the earlier ones.
LEMMA LeftByAppend ==
  ASSUME NEW pg \in Seq(TablePair), NEW lg \in Seq(TablePair), NEW sy \in Nat, sy <= Len(lg), NEW id,
         NEW p \in TablePair, NEW sy2, sy2 \in {sy, Len(lg) + 1}
  PROVE  \A row \in Left(pg, Append(lg, p), sy2, id) :
           row \in Left(pg, lg, sy, id) \/ (p[1] = id /\ row = p[2])
<1> SUFFICES ASSUME NEW row \in Left(pg, Append(lg, p), sy2, id)
             PROVE  row \in Left(pg, lg, sy, id) \/ (p[1] = id /\ row = p[2])
  OBVIOUS
<1> DEFINE more == Append(lg, p)
<1>1. Len(lg) \in Nat /\ more \in Seq(TablePair) /\ Len(more) = Len(lg) + 1
  BY Appended
<1>2. PICK n \in sy2 .. Len(more) : row = Row(pg \o SubSeq(more, 1, n), id)
  BY DEF Left
<1>3. n \in Nat /\ n <= Len(more) /\ (n <= Len(lg) \/ n = Len(more)) /\ (n <= Len(lg) => n \in sy .. Len(lg))
  BY <1>1
<1>4. CASE n <= Len(lg)
  <2>1. SubSeq(more, 1, n) = SubSeq(lg, 1, n)
    BY <1>3, <1>4, PrefixLaws
  <2> QED
    BY <1>2, <1>3, <1>4, <2>1 DEF Left
<1>5. CASE n = Len(more)
  <2> HIDE DEF more
  <2>1. SubSeq(more, 1, n) = more
    BY <1>1, <1>3, <1>5, PrefixOf
  <2>2. Row(pg \o more, id) = IF HasRow(more, id) THEN Row(more, id) ELSE Row(pg, id)
    BY <1>1, RowConcat
  <2>3. /\ Row(more, id) = IF p[1] = id THEN p[2] ELSE Row(lg, id)
        /\ HasRow(more, id) <=> HasRow(lg, id) \/ p[1] = id
    BY RowAppend DEF more
  <2>4. Row(pg \o lg, id) = IF HasRow(lg, id) THEN Row(lg, id) ELSE Row(pg, id)
    BY RowConcat
  <2>5. Row(pg \o lg, id) \in Left(pg, lg, sy, id)
    BY LeftTypes
  <2> QED
    BY <1>2, <2>1, <2>2, <2>3, <2>4, <2>5
<1> QED
  BY <1>3, <1>4, <1>5

\* The pages replaced by those of the tree: its row, or one the journal has.
LEMMA LeftBySync ==
  ASSUME NEW pg \in Seq(TablePair), NEW lg \in Seq(TablePair), NEW sy \in Nat, sy <= Len(lg), NEW id,
         NEW tree \in Seq(TablePair), NEW row \in Left(tree, lg, sy, id)
  PROVE  row \in Left(pg, lg, sy, id) \/ row = Row(tree, id)
<1>1. PICK n \in sy .. Len(lg) : row = Row(tree \o SubSeq(lg, 1, n), id)
  BY DEF Left
<1>2. n \in Nat /\ n <= Len(lg)
  BY LenProperties
<1>3. PICK t : t = SubSeq(lg, 1, n)
  OBVIOUS
<1>4. t \in Seq(TablePair)
  BY <1>2, <1>3, PrefixOf
<1>5. /\ Row(tree \o t, id) = IF HasRow(t, id) THEN Row(t, id) ELSE Row(tree, id)
      /\ Row(pg \o t, id) = IF HasRow(t, id) THEN Row(t, id) ELSE Row(pg, id)
  BY <1>4, RowConcat
<1>6. Row(pg \o t, id) \in Left(pg, lg, sy, id)
  BY <1>3 DEF Left
<1> QED
  BY <1>1, <1>3, <1>5, <1>6

\* The journal emptied: the row of the pages.
LEMMA LeftByTruncate ==
  ASSUME NEW pg \in Seq(TablePair), NEW id, NEW row \in Left(pg, << >>, 0, id)
  PROVE  row = Row(pg, id)
<1>1. PICK n \in 0 .. Len(<< >>) : row = Row(pg \o SubSeq(<< >>, 1, n), id)
  BY DEF Left
<1>2. n = 0 /\ n \in Nat /\ n <= Len(<< >>)
  BY <1>1, NoPairs
<1>3. SubSeq(<< >>, 1, n) = << >>
  <2>1. << >> \in Seq(TablePair) /\ Len(<< >>) = n
    BY <1>2, NoPairs
  <2> QED
    BY <1>2, <2>1, PrefixOf
<1>4. pg \o << >> = pg
  BY ConcatEmptySeq
<1> QED
  BY <1>1, <1>3, <1>4

\* The journal cut by a power failure: one of the rows it had already.
LEMMA LeftByCut ==
  ASSUME NEW pg \in Seq(TablePair), NEW lg \in Seq(TablePair), NEW sy \in Nat, NEW id,
         NEW n \in Nat, sy <= n, n <= Len(lg), NEW row \in Left(pg, SubSeq(lg, 1, n), n, id)
  PROVE  row \in Left(pg, lg, sy, id)
<1>1. Len(SubSeq(lg, 1, n)) = n /\ n <= n /\ Len(lg) \in Nat
  BY PrefixOf, LenProperties
<1>2. SubSeq(SubSeq(lg, 1, n), 1, n) = SubSeq(lg, 1, n)
  BY PrefixLaws
<1>3. PICK m \in n .. n : row = Row(pg \o SubSeq(SubSeq(lg, 1, n), 1, m), id)
  BY <1>1 DEF Left
<1>4. m = n /\ n \in sy .. Len(lg)
  BY <1>1, <1>3
<1> QED
  BY <1>2, <1>3, <1>4 DEF Left

\* The journal synced as it is: fewer of the rows it had already.
LEMMA LeftBySyncOfLog ==
  ASSUME NEW pg, NEW lg \in Seq(TablePair), NEW sy \in Nat, sy <= Len(lg), NEW id,
         NEW sy2, sy2 \in {sy, Len(lg)}, NEW row \in Left(pg, lg, sy2, id)
  PROVE  row \in Left(pg, lg, sy, id)
<1>1. PICK n \in sy2 .. Len(lg) : row = Row(pg \o SubSeq(lg, 1, n), id)
  BY DEF Left
<1>2. n \in sy .. Len(lg)
  BY LenProperties
<1> QED
  BY <1>1, <1>2 DEF Left

\* A last record that is on the disk is the row, whatever fails.
LEMMA LeftByLast ==
  ASSUME NEW pg \in Seq(TablePair), NEW lg \in Seq(TablePair), Len(lg) > 0
  PROVE  Left(pg, lg, Len(lg), lg[Len(lg)][1]) = {lg[Len(lg)][2]}
<1> DEFINE id == lg[Len(lg)][1]
<1>1. Len(lg) \in Nat /\ Len(lg) \in 1 .. Len(lg) /\ \A j \in Len(lg) + 1 .. Len(lg) : FALSE
  BY LenProperties
<1>2. SubSeq(lg, 1, Len(lg)) = lg
  <2>1. Len(lg) <= Len(lg)
    BY <1>1
  <2> QED
    BY <1>1, <2>1, PrefixOf
<1>3. HasRow(lg, id) /\ Row(lg, id) = lg[Len(lg)][2]
  <2>1. HasRow(lg, id)
    BY <1>1 DEF HasRow
  <2> QED
    BY <1>1, <2>1, RowAt
<1>4. Row(pg \o lg, id) = lg[Len(lg)][2]
  BY <1>3, RowConcat
<1>5. \A n \in Len(lg) .. Len(lg) : n = Len(lg)
  BY <1>1
<1>6. Len(lg) \in Len(lg) .. Len(lg)
  BY <1>1
<1> QED
  BY <1>2, <1>4, <1>5, <1>6 DEF Left

-----------------------------------------------------------------------------
(* The table is a RowStore.                                                *)

LEMMA SafeIs ==
  /\ Safe = [id \in Ids |-> Left(pages[Table], log[Table], synced[Table], id)]
  /\ Safe' = [id \in Ids |-> Left(pages'[Table], log'[Table], synced'[Table], id)]
BY DEF Safe, Left, RecoveredTo

LEMMA TableFiles ==
  ASSUME DiskOK
  PROVE  /\ pages[Table] \in Seq(TablePair) /\ log[Table] \in Seq(TablePair)
         /\ synced[Table] \in Nat /\ synced[Table] <= Len(log[Table])
BY TableIsNoIndex, RecoveredTypes DEF DiskOK

LEMMA PossibleIs ==
  ASSUME NEW id \in Ids
  PROVE  /\ Rows!Possible(id) = Safe[id] \cup {Shown[id]} \cup {row[2] : row \in {r \in Pending : r[1] = id}}
         /\ Rows!Cells = Cells
BY DEF Rows!Possible, Rows!Cells, Cells, Pending

\* What the files become is what Settle, GiveUp and Crash allow.
LEMMA SafeTypes ==
  ASSUME DiskOK'
  PROVE  Safe' \in [Ids -> (SUBSET Cells) \ {{}}]
<1>1. /\ pages'[Table] \in Seq(TablePair) /\ log'[Table] \in Seq(TablePair)
      /\ synced'[Table] \in Nat /\ synced'[Table] <= Len(log'[Table])
  BY TableIsNoIndex DEF DiskOK, PairsIn
<1>2. \A id \in Ids : Left(pages'[Table], log'[Table], synced'[Table], id) \in (SUBSET Cells) \ {{}}
  BY <1>1, LeftTypes
<1> QED
  BY <1>2, SafeIs

LEMMA SafeSettles ==
  ASSUME TypeOK, CallsInv, Up, DiskCall, NEW id \in Ids
  PROVE  Safe'[id] \subseteq Rows!Possible(id)
<1>1. PICK pg, lg, sy : pg = pages[Table] /\ lg = log[Table] /\ sy = synced[Table]
  OBVIOUS
<1>2. pg \in Seq(TablePair) /\ lg \in Seq(TablePair) /\ sy \in Nat /\ sy <= Len(lg)
  BY <1>1, TableFiles DEF TypeOK
<1>3. PICK tree : tree = mem[Table]
  OBVIOUS
<1>4. tree \in Seq(TablePair) /\ Shown[id] = Row(tree, id)
  BY <1>3 DEF TypeOK, PairsIn, Shown
<1>5. /\ Safe[id] = Left(pg, lg, sy, id)
      /\ Safe'[id] = Left(pages'[Table], log'[Table], synced'[Table], id)
  BY <1>1, SafeIs
<1>6. /\ Left(pg, lg, sy, id) \subseteq Rows!Possible(id) /\ Row(tree, id) \in Rows!Possible(id)
      /\ \A row \in Pending : row[1] = id => row[2] \in Rows!Possible(id)
  BY <1>4, <1>5, PossibleIs
<1>7. Moves(Table)
  BY DiskMoves, TableIsNoIndex
<1> SUFFICES ASSUME NEW row \in Safe'[id] PROVE row \in Rows!Possible(id)
  OBVIOUS
<1>8. CASE pages'[Table] = pg /\ log'[Table] = lg /\ synced'[Table] \in {sy, Len(lg)}
  <2>1. row \in Left(pg, lg, sy, id)
    BY <1>2, <1>5, <1>8, LeftBySyncOfLog
  <2> QED
    BY <1>6, <2>1
<1>9. CASE /\ todo # << >> /\ This = Table /\ todo[1] = Log(Table, todo[1].pair)
           /\ todo[1].pair \in TablePair
           /\ pages'[Table] = pg /\ log'[Table] = Append(lg, todo[1].pair)
           /\ synced'[Table] \in {sy, Len(lg) + 1}
  <2>1. PICK p : p = todo[1].pair
    OBVIOUS
  <2>2. PICK sy2 : sy2 = synced'[Table]
    OBVIOUS
  <2>3. row \in Left(pg, Append(lg, p), sy2, id) /\ p \in TablePair /\ sy2 \in {sy, Len(lg) + 1}
    BY <1>5, <1>9, <2>1, <2>2
  <2>4. row \in Left(pg, lg, sy, id) \/ (p[1] = id /\ row = p[2])
    BY <1>2, <2>3, LeftByAppend
  <2>5. p \in Pending
    <3>1. Head(todo) = todo[1] /\ todo[1].call = "log_insert" /\ Head(todo).call = "log_insert"
      BY <1>9, Head1 DEF Log
    <3>2. job.kind = "insert" /\ todo[1].pair = Due(Table)
      BY <1>9, <3>1, FirstCall
    <3> QED
      BY <2>1, <3>2 DEF Due, Pending
  <2> QED
    BY <1>6, <2>4, <2>5
<1>10. CASE pages'[Table] = tree /\ log'[Table] = lg /\ synced'[Table] = sy
  <2>1. row \in Left(pg, lg, sy, id) \/ row = Row(tree, id)
    BY <1>2, <1>4, <1>5, <1>10, LeftBySync
  <2> QED
    BY <1>6, <2>1
<1>11. CASE pages'[Table] = tree /\ log'[Table] = << >> /\ synced'[Table] = 0
  <2>1. row = Row(tree, id)
    BY <1>4, <1>5, <1>11, LeftByTruncate
  <2> QED
    BY <1>6, <2>1
<1> QED
  BY <1>1, <1>3, <1>7, <1>8, <1>9, <1>10, <1>11 DEF Moves

\* Init of both.
LEMMA RowsInit == Init => Rows!Init
<1> SUFFICES ASSUME Init PROVE Rows!Init
  OBVIOUS
<1>1. pages[Table] = << >> /\ log[Table] = << >> /\ synced[Table] = 0 /\ ~Up /\ Pending = {}
  BY TableIsNoIndex DEF Init, Up, Pending
<1>2. Recovered(Table) = << >>
  BY <1>1 DEF Recovered
<1>3. \A id \in Ids : Row(<< >>, id) = NoRow
  BY DEF Row
<1>4. Shown = [id \in Ids |-> NoRow]
  BY <1>1, <1>2, <1>3 DEF Shown
<1>5. ASSUME NEW id \in Ids PROVE Left(<< >>, << >>, 0, id) = {NoRow}
  <2>1. /\ Left(<< >>, << >>, 0, id) \in (SUBSET Cells) \ {{}}
    <3>1. 0 \in Nat /\ 0 <= Len(<< >>)
      BY NoPairs
    <3> QED
      BY <3>1, NoPairs, LeftTypes
  <2>2. \A row \in Left(<< >>, << >>, 0, id) : row = NoRow
    BY <1>3, NoPairs, LeftByTruncate
  <2> QED
    BY <2>1, <2>2
<1>6. Safe = [id \in Ids |-> {NoRow}]
  BY <1>1, <1>5, SafeIs
<1> QED
  BY <1>1, <1>4, <1>6 DEF Rows!Init, Init, Pending

\* What a RowStore may be once its table is damaged: anything of that form.
LEMMA RowsTypes ==
  ASSUME TypeOK'
  PROVE  Rows!TypeOK'
<1>1. mem'[Table] \in Seq(TablePair) /\ DiskOK'
  BY DEF TypeOK, PairsIn
<1>2. Recovered(Table)' \in Seq(TablePair)
  <2>1. pages'[Table] \in Seq(TablePair) /\ log'[Table] \in Seq(TablePair)
    BY <1>1 DEF DiskOK, PairsIn
  <2>2. pages'[Table] \o log'[Table] \in Seq(TablePair)
    BY <2>1, Concatenated
  <2> QED
    BY <2>2 DEF Recovered
<1>3. \A id \in Ids : Row(mem'[Table], id) \in Cells /\ Row(Recovered(Table)', id) \in Cells
  BY <1>1, <1>2, RowValue
<1>4. Shown' \in [Ids -> Cells]
  BY <1>3 DEF Shown
<1>5. Safe' \in [Ids -> (SUBSET Cells) \ {{}}]
  BY <1>1, SafeTypes
<1>6. Pending' \in {{}} \cup {{row} : row \in Ids \X Values}
  <2>1. job' \in Job
    BY DEF TypeOK
  <2>2. job'.kind = "insert" => job'.row \in Ids \X Values
    BY <2>1 DEF Job, TablePair
  <2>3. Pending' = IF job'.kind = "insert" THEN {job'.row} ELSE {}
    BY DEF Pending
  <2> QED
    BY <2>2, <2>3
<1>7. acked' \in [Ids -> Cells]
  BY DEF TypeOK
<1>8. Cells = Rows!Cells
  BY DEF Cells, Rows!Cells
<1>9. (Table \in lost)' \in BOOLEAN
  OBVIOUS
<1> QED
  BY <1>4, <1>5, <1>6, <1>7, <1>8, <1>9 DEF Rows!TypeOK

\* The variables of a RowStore that is not damaged.
rows == <<Shown, Safe, Pending, acked>>

LEMMA SameStore ==
  ASSUME Table \notin lost, Table \notin lost', UNCHANGED rows
  PROVE  UNCHANGED Rows!vars
<1>1. (Table \in lost)' = (Table \in lost)
  OBVIOUS
<1> QED
  BY <1>1 DEF rows, Rows!vars

\* Shown and Safe depend on the table in memory and its files, and on no other.
LEMMA SameRows ==
  ASSUME mem'[Table] = mem[Table], UNCHANGED files, Up, Up'
  PROVE  Shown' = Shown /\ Safe' = Safe
<1>1. Shown' = [id \in Ids |-> Row(mem'[Table], id)] /\ Shown = [id \in Ids |-> Row(mem[Table], id)]
  BY DEF Shown
<1>2. Safe' = Safe
  BY SafeIs DEF files
<1> QED
  BY <1>1, <1>2

LEMMA ShownIs ==
  ASSUME TypeOK
  PROVE  /\ Shown \in [Ids -> Cells]
         /\ Up => Shown = [id \in Ids |-> Row(mem[Table], id)]
         /\ ~Up => Shown = [id \in Ids |-> Row(Recovered(Table), id)]
         /\ mem[Table] \in Seq(TablePair)
<1>1. mem[Table] \in Seq(TablePair) /\ Recovered(Table) \in Seq(TablePair)
  BY TableIsNoIndex, RecoveredTypes DEF TypeOK, PairsIn
<1>2. \A id \in Ids : Row(mem[Table], id) \in Cells /\ Row(Recovered(Table), id) \in Cells
  BY <1>1, RowValue
<1> QED
  BY <1>1, <1>2 DEF Shown

LEMMA BeginRefines ==
  ASSUME NEW id \in Ids, NEW v \in Values, Insert(id, v)
  PROVE  Rows!Begin(id, v)
<1>1. /\ job.kind = "idle" /\ job' = [kind |-> "insert", row |-> <<id, v>>]
      /\ mem' = mem /\ UNCHANGED files /\ acked' = [acked EXCEPT ![id] = NoRow]
  BY DEF Insert, Idle, disk, files
<1>2. Pending = {} /\ Pending' = {<<id, v>>} /\ Up /\ Up'
  BY <1>1 DEF Pending, Up
<1>3. Shown' = Shown /\ Safe' = Safe
  BY <1>1, <1>2, SameRows
<1> QED
  BY <1>1, <1>2, <1>3 DEF Rows!Begin, Pending

LEMMA TreeInsertRefines ==
  ASSUME TypeOK, CallsInv, TreeInsert
  PROVE  Rows!Apply \/ UNCHANGED rows
<1>1. PICK s \in Stores, p \in Pair :
        /\ s = This /\ todo[1] = Put(s, p) /\ (s = Table => p \in TablePair)
        /\ mem' = [mem EXCEPT ![s] = Append(@, p)]
  BY TreeInsertDoes
<1>2. /\ todo # << >> /\ Head(todo).call = "insert" /\ job' = job /\ UNCHANGED files
      /\ acked' = acked
  BY DEF TreeInsert, Calling, files
<1>3. Up /\ Up' /\ Pending' = Pending
  BY <1>2 DEF CallsInv, Up, Pending
<1>4. mem \in [Stores -> Seq(Pair)] /\ mem[Table] \in Seq(TablePair) /\ Table \in Stores
  BY TableIsNoIndex DEF TypeOK, PairsIn
<1>5. CASE s # Table
  <2>1. mem'[Table] = mem[Table]
    BY <1>1, <1>4, <1>5
  <2>2. Shown' = Shown /\ Safe' = Safe
    BY <1>2, <1>3, <2>1, SameRows
  <2> QED
    BY <1>2, <1>3, <2>2 DEF rows
<1>6. CASE s = Table
  <2>1. job.kind = "insert" /\ p = job.row /\ p \in Pending
    <3>1. job.kind = "insert"
      BY <1>1, <1>2, <1>6, FirstCall, Head1
    <3>2. todo[1].pair = Due(Table) /\ todo[1].pair = p
      BY <1>1, <1>2, <1>6, <3>1, FirstCall DEF Put
    <3> QED
      BY <3>1, <3>2 DEF Due, Pending
  <2>2. mem'[Table] = Append(mem[Table], p) /\ p \in TablePair
    BY <1>1, <1>4, <1>6
  <2>3. \A id \in Ids : Row(mem'[Table], id) = IF p[1] = id THEN p[2] ELSE Row(mem[Table], id)
    BY <1>4, <2>2, RowAppend
  <2>4. /\ Shown' = [id \in Ids |-> Row(mem'[Table], id)]
        /\ Shown = [id \in Ids |-> Row(mem[Table], id)]
    BY <1>3 DEF Shown
  <2>5. Shown' = [Shown EXCEPT ![p[1]] = p[2]]
    BY <2>3, <2>4
  <2>6. Safe' = Safe
    BY <1>2, SafeIs DEF files
  <2> QED
    BY <1>2, <1>3, <2>1, <2>5, <2>6 DEF Rows!Apply, Pending
<1> QED
  BY <1>5, <1>6

\* A call that changes the disk, or fails and ends the statement, or the program.
LEMMA SettleRefines ==
  ASSUME TypeOK, CallsInv, Up, Up', UNCHANGED <<mem, acked>>, DiskCall
  PROVE  /\ job' = job => Rows!Settle
         /\ job'.kind # "insert" => Rows!GiveUp
<1>1. DiskOK'
  BY DiskTypes
<1>2. Safe' \in [Ids -> (SUBSET Cells) \ {{}}]
  BY <1>1, SafeTypes
<1>3. \A id \in Ids : Safe'[id] \subseteq Rows!Possible(id)
  BY SafeSettles
<1>4. Shown' = Shown
  BY DEF Shown
<1>5. Cells = Rows!Cells
  BY DEF Cells, Rows!Cells
<1>6. job' = job => Pending' = Pending
  BY DEF Pending
<1>7. job'.kind # "insert" => Pending' = {}
  BY DEF Pending
<1> QED
  BY <1>2, <1>3, <1>4, <1>5, <1>6, <1>7 DEF Rows!Settle, Rows!GiveUp, Pending

LEMMA CrashRefines ==
  ASSUME TypeOK, CallsInv, Up, Stop, Interrupted, UNCHANGED acked
  PROVE  Rows!Crash
<1>1. DiskOK' /\ ~Up' /\ Pending' = {}
  BY DiskTypes DEF DiskCall, Stop, Up, Pending
<1>2. Safe' \in [Ids -> (SUBSET Cells) \ {{}}]
  BY <1>1, SafeTypes
<1>3. \A id \in Ids : Safe'[id] \subseteq Rows!Possible(id)
  BY SafeSettles DEF DiskCall
<1>4. /\ pages'[Table] \in Seq(TablePair) /\ log'[Table] \in Seq(TablePair)
      /\ synced'[Table] \in Nat /\ synced'[Table] <= Len(log'[Table])
  BY <1>1, TableIsNoIndex DEF DiskOK, PairsIn
<1>5. Shown' = [id \in Ids |-> Row(pages'[Table] \o log'[Table], id)]
  BY <1>1 DEF Shown, Recovered
<1>6. \A id \in Ids : Row(pages'[Table] \o log'[Table], id) \in Left(pages'[Table], log'[Table], synced'[Table], id)
  BY <1>4, LeftTypes
<1>7. \A id \in Ids : Shown'[id] \in Safe'[id] /\ Safe'[id] \subseteq Cells
  BY <1>2, <1>5, <1>6, SafeIs
<1>8. Shown' \in [Ids -> Cells]
  BY <1>5, <1>7
<1>9. Cells = Rows!Cells
  BY DEF Cells, Rows!Cells
<1> QED
  BY <1>1, <1>2, <1>3, <1>7, <1>8, <1>9 DEF Rows!Crash, Pending

LEMMA PowerLossRefines ==
  ASSUME TypeOK, PowerLoss
  PROVE  Rows!Crash
<1>1. PICK left \in [Stores -> UNION {synced[s] .. Len(log[s]) : s \in Stores}] :
        /\ \A s \in Stores : left[s] \in synced[s] .. Len(log[s])
        /\ log' = [s \in Stores |-> SubSeq(log[s], 1, left[s])]
        /\ synced' = left
  BY DEF PowerLoss
<1>2. /\ UNCHANGED <<job, pages, acked>> /\ ~Up /\ ~Up' /\ Pending = {} /\ Pending' = {}
  BY DEF PowerLoss, Up, Pending
<1>3. PICK pg, lg, sy, n : pg = pages[Table] /\ lg = log[Table] /\ sy = synced[Table] /\ n = left[Table]
  OBVIOUS
<1>4. pg \in Seq(TablePair) /\ lg \in Seq(TablePair) /\ sy \in Nat /\ sy <= Len(lg) /\ Len(lg) \in Nat
  BY <1>3, TableFiles, LenProperties DEF TypeOK
<1>5. n \in Nat /\ sy <= n /\ n <= Len(lg)
  <2>1. n \in sy .. Len(lg)
    BY <1>1, <1>3, TableIsNoIndex
  <2> QED
    BY <1>4, <2>1
<1>6. PICK cut : cut = SubSeq(lg, 1, n)
  OBVIOUS
<1>7. cut \in Seq(TablePair) /\ n <= Len(cut)
  BY <1>4, <1>5, <1>6, PrefixOf
<1>8. pages'[Table] = pg /\ log'[Table] = cut /\ synced'[Table] = n
  BY <1>1, <1>2, <1>3, <1>6, TableIsNoIndex
<1>9. \A id \in Ids : Safe'[id] = Left(pg, cut, n, id) /\ Safe[id] = Left(pg, lg, sy, id)
  BY <1>3, <1>8, SafeIs
<1>10. \A id \in Ids : /\ Left(pg, cut, n, id) \in (SUBSET Cells) \ {{}}
                       /\ Row(pg \o cut, id) \in Left(pg, cut, n, id)
  BY <1>4, <1>5, <1>7, LeftTypes
<1>11. \A id \in Ids : Left(pg, cut, n, id) \subseteq Left(pg, lg, sy, id)
  BY <1>4, <1>5, <1>6, LeftByCut
<1>12. Safe' \in [Ids -> (SUBSET Cells) \ {{}}]
  BY <1>8, <1>10, SafeIs
<1>13. Shown' = [id \in Ids |-> Row(pg \o cut, id)]
  BY <1>2, <1>8 DEF Shown, Recovered
<1>14. \A id \in Ids : /\ Safe'[id] \subseteq Rows!Possible(id) /\ Shown'[id] \in Rows!Possible(id)
                       /\ Shown'[id] \in Cells
  BY <1>9, <1>10, <1>11, <1>13, PossibleIs
<1>15. Shown' \in [Ids -> Cells]
  BY <1>13, <1>14
<1>16. Cells = Rows!Cells
  BY DEF Cells, Rows!Cells
<1> QED
  BY <1>2, <1>12, <1>14, <1>15, <1>16 DEF Rows!Crash, Pending

\* An INSERT is answered when nothing waits any more: its row is the last of the
\* tree and the last record of the journal, on the disk, or promised to nobody.
LEMMA ReplyRefines ==
  ASSUME TypeOK, CallsInv, InsertInv, Reply
  PROVE  Rows!Acknowledge \/ Rows!GiveUp \/ UNCHANGED rows
<1>1. /\ todo = << >> /\ job.kind \notin {"idle", "down"} /\ job' = [kind |-> "idle"]
      /\ mem' = mem /\ UNCHANGED files
      /\ acked' = IF job.kind = "insert" /\ Table \notin behind
                  THEN [acked EXCEPT ![job.row[1]] = job.row[2]] ELSE acked
  BY DEF Reply, disk, files
<1>2. Up /\ Up' /\ Pending' = {}
  BY <1>1 DEF Up, Pending
<1>3. Shown' = Shown /\ Safe' = Safe
  BY <1>1, <1>2, SameRows
<1>4. CASE job.kind # "insert"
  <2>1. Pending = {}
    BY <1>4 DEF Pending
  <2> QED
    BY <1>1, <1>2, <1>3, <1>4, <2>1 DEF rows
<1>6. CASE Table \in behind
  <2>1. DiskOK'
    BY <1>1 DEF files, TypeOK, DiskOK, PairsIn
  <2>2. Safe' \in [Ids -> (SUBSET Cells) \ {{}}]
    BY <2>1, SafeTypes
  <2>3. \A id \in Ids : Safe'[id] \subseteq Rows!Possible(id)
    BY <1>3, PossibleIs
  <2>4. Cells = Rows!Cells
    BY DEF Cells, Rows!Cells
  <2> QED
    BY <1>1, <1>2, <1>3, <1>6, <2>2, <2>3, <2>4 DEF Rows!GiveUp
<1>5. CASE job.kind = "insert" /\ Table \notin behind
  <2>1. PICK row : row = job.row
    OBVIOUS
  <2>2. row \in TablePair /\ row[1] \in Ids /\ Pending = {row}
    BY <1>5, <2>1, JobForms DEF TypeOK, TablePair, Pending
  <2>3. ~Waiting(Log(Table, row)) /\ ~Waiting(Put(Table, row))
    BY <1>1, NoPairs DEF Waiting
  <2>4. Logged(Table, row) /\ InTree(Table, row)
    BY <1>5, <2>1, <2>3 DEF InsertInv, Due
  <2>5. mem[Table] \in Seq(TablePair) /\ Len(mem[Table]) \in Nat
    BY LenProperties DEF TypeOK, PairsIn
  <2>6. Row(mem[Table], row[1]) = row[2]
    <3>1. /\ Len(mem[Table]) \in 1 .. Len(mem[Table]) /\ mem[Table][Len(mem[Table])] = row
          /\ \A j \in Len(mem[Table]) + 1 .. Len(mem[Table]) : FALSE
      BY <2>4, <2>5 DEF InTree
    <3> QED
      BY <2>5, <3>1, RowAt
  <2>7. Safe[row[1]] = {row[2]}
    <3>1. PICK pg, lg : pg = pages[Table] /\ lg = log[Table]
      OBVIOUS
    <3>2. pg \in Seq(TablePair) /\ lg \in Seq(TablePair)
      BY <3>1, TableFiles DEF TypeOK
    <3>3. Len(lg) > 0 /\ lg[Len(lg)] = row /\ synced[Table] = Len(lg)
      BY <1>5, <2>4, <3>1 DEF Logged
    <3>4. Left(pg, lg, Len(lg), row[1]) = {row[2]}
      BY <3>2, <3>3, LeftByLast
    <3> QED
      BY <2>2, <3>1, <3>3, <3>4, SafeIs
  <2>8. Shown[row[1]] = row[2]
    BY <1>2, <2>2, <2>6 DEF Shown
  <2> QED
    BY <1>1, <1>2, <1>3, <1>5, <2>1, <2>2, <2>7, <2>8 DEF Rows!Acknowledge, Pending
<1> QED
  BY <1>4, <1>5, <1>6

\* Every other step is a stutter of the RowStore.
LEMMA QuietRefines ==
  ASSUME TypeOK, CallsInv, Table \notin lost,
         \/ Checkpoint
         \/ \E c \in IndexColumns : CreateIndex(c)
         \/ \E header \in Headers : CreateTable(header)
         \/ OpenCatalog \/ WriteCatalog \/ Open \/ Select
         \/ UNCHANGED vars
  PROVE  UNCHANGED rows
<1>1. UNCHANGED acked /\ UNCHANGED files
  BY DEF Checkpoint, CreateIndex, CreateTable, OpenCatalog, WriteCatalog, Open, Select, vars, disk, files
<1>2. Pending' = Pending
  <2>1. (job'.kind # "insert" /\ job.kind # "insert") \/ job' = job
    <3>1. CASE Checkpoint \/ \E header \in Headers : CreateTable(header)
      BY <3>1 DEF Checkpoint, CreateTable, Idle
    <3>2. ASSUME NEW c \in IndexColumns, CreateIndex(c)
          PROVE  job'.kind # "insert" /\ job.kind # "insert"
      BY <3>2 DEF CreateIndex, Idle
    <3>3. CASE Open
      BY <3>3 DEF Open, Up
    <3>4. CASE OpenCatalog \/ WriteCatalog \/ Select \/ UNCHANGED vars
      BY <3>4 DEF OpenCatalog, WriteCatalog, Select, vars
    <3> QED
      BY <3>1, <3>2, <3>3, <3>4
  <2> QED
    BY <2>1 DEF Pending
<1>3. Safe' = Safe
  BY <1>1, SafeIs DEF files
<1>4. Shown' = Shown
  <2>1. CASE Open
    <3>1. ~Up /\ Up' /\ mem'[Table] = Recovered(Table)
      BY <2>1, TableIsNoIndex DEF Open, Up, Held
    <3> QED
      BY <3>1 DEF Shown
  <2>2. CASE OpenCatalog \/ WriteCatalog \/ Select \/ UNCHANGED vars
    <3>1. UNCHANGED <<job, mem, pages, log>>
      BY <1>1, <2>2 DEF OpenCatalog, WriteCatalog, Select, vars, files
    <3> QED
      BY <3>1 DEF Shown, Up, Recovered
  <2>3. CASE Checkpoint \/ \E header \in Headers : CreateTable(header)
    <3>1. Up /\ Up' /\ mem' = mem
      BY <2>3 DEF Checkpoint, CreateTable, Idle, Up
    <3> QED
      BY <1>1, <3>1, SameRows
  <2>4. ASSUME NEW c \in IndexColumns, CreateIndex(c)
        PROVE  Shown' = Shown
    <3>1. Up /\ Up' /\ \E held : mem' = [mem EXCEPT ![c] = held]
      BY <2>4 DEF CreateIndex, Idle, Up
    <3>2. mem'[Table] = mem[Table]
      BY <3>1, TableIsNoIndex DEF TypeOK, PairsIn
    <3> QED
      BY <1>1, <3>1, <3>2, SameRows
  <2> QED
    BY <2>1, <2>2, <2>3, <2>4
<1> QED
  BY <1>1, <1>2, <1>3, <1>4 DEF rows

\* A step while the table is whole.
LEMMA RowsKeep ==
  ASSUME TypeOK, CallsInv, InsertInv, Table \notin lost, [Next]_vars
  PROVE  Rows!Keep \/ UNCHANGED rows
<1>1. ASSUME NEW id \in Ids, NEW v \in Values, Insert(id, v) PROVE Rows!Keep
  BY <1>1, BeginRefines DEF Rows!Keep
<1>2. CASE LogInsert \/ SyncPages \/ TruncateLog
  <2>1. todo # << >> /\ UNCHANGED <<job, mem, acked>>
    BY <1>2 DEF LogInsert, SyncPages, TruncateLog, Calling
  <2>2. Up /\ Up'
    BY <2>1 DEF CallsInv, Up
  <2>3. DiskCall
    BY <1>2 DEF DiskCall
  <2> QED
    BY <2>1, <2>2, <2>3, SettleRefines DEF Rows!Keep
<1>3. CASE TreeInsert
  BY <1>3, TreeInsertRefines DEF Rows!Keep
<1>4. CASE Reply
  BY <1>4, ReplyRefines DEF Rows!Keep
<1>5. CASE Throw
  <2>1. todo # << >> /\ Interrupted /\ DiskCall /\ UNCHANGED acked
    BY <1>5 DEF Throw, Calling, DiskCall
  <2>2. Up
    BY <2>1 DEF CallsInv, Up
  <2>3. CASE Stop
    BY <2>1, <2>2, <2>3, CrashRefines DEF Rows!Keep
  <2>4. CASE ~Stop
    <3>1. job' = [kind |-> "idle"] /\ UNCHANGED mem
      BY <1>5, <2>4 DEF Throw
    <3>2. Up'
      BY <3>1 DEF Up
    <3> QED
      BY <2>1, <2>2, <3>1, <3>2, SettleRefines DEF Rows!Keep
  <2> QED
    BY <2>3, <2>4
<1>6. CASE Kill
  BY <1>6, CrashRefines DEF Rows!Keep, Kill
<1>7. CASE PowerLoss
  BY <1>7, PowerLossRefines DEF Rows!Keep
<1> QED
  BY <1>1, <1>2, <1>3, <1>4, <1>5, <1>6, <1>7, QuietRefines DEF Next

LEMMA RowsStep ==
  ASSUME TypeOK, TypeOK', CallsInv, InsertInv, [Next]_vars
  PROVE  [Rows!Next]_(Rows!vars)
<1>1. CASE Table \in lost'
  BY <1>1, RowsTypes DEF Rows!Next, Rows!Ruin
<1>2. CASE Table \notin lost'
  <2>1. Table \notin lost
    BY <1>2, LostGrows
  <2>2. CASE Rows!Keep
    BY <1>2, <2>1, <2>2 DEF Rows!Next
  <2>3. CASE UNCHANGED rows
    BY <1>2, <2>1, <2>3, SameStore
  <2> QED
    BY <2>1, <2>2, <2>3, RowsKeep
<1> QED
  BY <1>1, <1>2

\* ImplementsRowStore: whatever fails, and wherever the process or the power stops,
\* the table with its journal and its page file is a RowStore, until it is damaged.
THEOREM Refinement == Spec => ImplementsRowStore
<1>1. IndInv /\ IndInv' /\ [Next]_vars => [Rows!Next]_(Rows!vars)
  BY RowsStep DEF IndInv
<1> QED
  BY <1>1, RowsInit, Invariance, PTL DEF Spec, ImplementsRowStore, Rows!Spec

-----------------------------------------------------------------------------
(* What a RowStore promises of answered rows follows from its actions.     *)

\* The row being inserted into a whole table has not been answered for: without this
\* Apply could replace a row that was.
PendingUnanswered == Table \notin lost => \A row \in Pending : acked[row[1]] = NoRow

RowsInv == Rows!TypeOK /\ PendingUnanswered /\ Rows!AckedRowsStay

\* A step chooses among the possible rows of an id, and while the last INSERT of
\* the id is answered for its row is the only possible one.
LEMMA OnlyPossible ==
  ASSUME RowsInv, Table \notin lost, NEW id \in Ids, acked[id] # NoRow
  PROVE  Rows!Possible(id) = {acked[id]}
<1>1. {r \in Pending : r[1] = id} = {}
  BY DEF RowsInv, PendingUnanswered
<1> QED
  BY <1>1 DEF RowsInv, Rows!AckedRowsStay, Rows!Possible

\* Every action of a RowStore keeps the invariant.
LEMMA KeepInv ==
  ASSUME NoRow \notin Values, RowsInv, Table \notin lost, Rows!Keep
  PROVE  /\ Shown' \in [Ids -> Cells] /\ Safe' \in [Ids -> (SUBSET Cells) \ {{}}]
         /\ acked' \in [Ids -> Cells] /\ Pending' \in {{}} \cup {{row} : row \in Ids \X Values}
         /\ \A row \in Pending' : acked'[row[1]] = NoRow
         /\ \A id \in Ids : acked'[id] # NoRow => Shown'[id] = acked'[id] /\ Safe'[id] = {acked'[id]}
<1> DEFINE Goal == /\ Shown' \in [Ids -> Cells] /\ Safe' \in [Ids -> (SUBSET Cells) \ {{}}]
                   /\ acked' \in [Ids -> Cells]
                   /\ Pending' \in {{}} \cup {{row} : row \in Ids \X Values}
                   /\ \A row \in Pending' : acked'[row[1]] = NoRow
                   /\ \A id \in Ids : acked'[id] # NoRow =>
                        Shown'[id] = acked'[id] /\ Safe'[id] = {acked'[id]}
<1>a. Rows!Cells = Cells
  BY DEF Rows!Cells, Cells
<1>b. /\ Shown \in [Ids -> Cells] /\ Safe \in [Ids -> (SUBSET Cells) \ {{}}]
      /\ acked \in [Ids -> Cells] /\ Pending \in {{}} \cup {{row} : row \in Ids \X Values}
  BY <1>a DEF RowsInv, Rows!TypeOK
<1>c. /\ \A row \in Pending : acked[row[1]] = NoRow
      /\ \A id \in Ids : acked[id] # NoRow => Shown[id] = acked[id] /\ Safe[id] = {acked[id]}
  BY DEF RowsInv, PendingUnanswered, Rows!AckedRowsStay
<1>d. \A row \in Pending : row \in Ids \X Values
  BY <1>b
<1>e. \A id \in Ids : acked[id] # NoRow => Rows!Possible(id) = {acked[id]}
  BY OnlyPossible
<1>f. NoRow \in Cells /\ Values \subseteq Cells
  BY DEF Cells
<1> HIDE DEF Cells
<1>1. ASSUME NEW id \in Ids, NEW v \in Values, Rows!Begin(id, v) PROVE Goal
  <2>1. Pending' = {<<id, v>>} /\ <<id, v>> \in Ids \X Values /\ acked' = [acked EXCEPT ![id] = NoRow]
    BY <1>1 DEF Rows!Begin
  <2>2. Shown' = Shown /\ Safe' = Safe
    BY <1>1 DEF Rows!Begin
  <2>3. \A row \in Pending' : acked'[row[1]] = NoRow
    BY <1>b, <2>1
  <2>4. acked' \in [Ids -> Cells] /\ \A i \in Ids : acked'[i] = IF i = id THEN NoRow ELSE acked[i]
    BY <1>b, <1>f, <2>1
  <2> QED
    BY <1>b, <1>c, <2>1, <2>2, <2>3, <2>4
<1>2. CASE Rows!Apply
  <2>1. PICK row \in Pending : Shown' = [Shown EXCEPT ![row[1]] = row[2]]
    BY <1>2 DEF Rows!Apply
  <2>2. row[1] \in Ids /\ row[2] \in Values /\ acked[row[1]] = NoRow
    BY <1>c, <1>d, <2>1
  <2>3. Safe' = Safe /\ Pending' = Pending /\ acked' = acked
    BY <1>2 DEF Rows!Apply
  <2>4. Shown' \in [Ids -> Cells] /\ \A i \in Ids : Shown'[i] = IF i = row[1] THEN row[2] ELSE Shown[i]
    BY <1>b, <1>f, <2>1, <2>2
  <2> QED
    BY <1>b, <1>c, <2>2, <2>3, <2>4
<1>3. CASE Rows!Settle
  <2>1. \A id \in Ids : acked[id] # NoRow => Safe'[id] = {acked[id]}
    <3>1. Safe' \in [Ids -> (SUBSET Cells) \ {{}}] /\ \A id \in Ids : Safe'[id] \subseteq Rows!Possible(id)
      BY <1>3, <1>a DEF Rows!Settle
    <3> QED
      BY <1>e, <3>1
  <2> QED
    BY <1>3, <1>a, <1>b, <1>c, <2>1 DEF Rows!Settle
<1>4. CASE Rows!Acknowledge
  <2>1. PICK row \in Pending :
          /\ Shown[row[1]] = row[2]
          /\ Safe[row[1]] = {row[2]}
          /\ acked' = [acked EXCEPT ![row[1]] = row[2]]
    BY <1>4 DEF Rows!Acknowledge
  <2>2. row[1] \in Ids /\ row[2] \in Values
    BY <1>d, <2>1
  <2>3. Pending' = {} /\ Shown' = Shown /\ Safe' = Safe
    BY <1>4 DEF Rows!Acknowledge
  <2>4. acked' \in [Ids -> Cells] /\ \A i \in Ids : acked'[i] = IF i = row[1] THEN row[2] ELSE acked[i]
    BY <1>b, <1>f, <2>1, <2>2
  <2> QED
    BY <1>b, <1>c, <2>1, <2>2, <2>3, <2>4
<1>5. CASE Rows!GiveUp
  <2>1. \A id \in Ids : acked[id] # NoRow => Safe'[id] = {acked[id]}
    <3>1. Safe' \in [Ids -> (SUBSET Cells) \ {{}}] /\ \A id \in Ids : Safe'[id] \subseteq Rows!Possible(id)
      BY <1>5, <1>a DEF Rows!GiveUp
    <3> QED
      BY <1>e, <3>1
  <2> QED
    BY <1>5, <1>a, <1>b, <1>c, <2>1 DEF Rows!GiveUp
<1>6. CASE Rows!Crash
  <2>1. \A id \in Ids : acked[id] # NoRow =>
          Safe'[id] = {acked[id]} /\ Shown'[id] = acked[id]
    <3>1. /\ Safe' \in [Ids -> (SUBSET Cells) \ {{}}]
          /\ \A id \in Ids : Safe'[id] \subseteq Rows!Possible(id) /\ Shown'[id] \in Rows!Possible(id)
      BY <1>6, <1>a DEF Rows!Crash
    <3> QED
      BY <1>e, <3>1
  <2> QED
    BY <1>6, <1>a, <1>b, <2>1 DEF Rows!Crash
<1> QED
  BY <1>1, <1>2, <1>3, <1>4, <1>5, <1>6 DEF Rows!Keep

LEMMA RowsStepInv ==
  ASSUME NoRow \notin Values, RowsInv, [Rows!Next]_(Rows!vars)
  PROVE  RowsInv'
<1>1. CASE Table \notin lost' /\ Table \notin lost /\ Rows!Keep
  <2>1. (Table \in lost)' \in BOOLEAN
    OBVIOUS
  <2>2. Rows!Cells = Cells
    BY DEF Rows!Cells, Cells
  <2>3. Rows!TypeOK'
    BY <1>1, <2>1, <2>2, KeepInv DEF Rows!TypeOK
  <2>4. PendingUnanswered' /\ Rows!AckedRowsStay'
    BY <1>1, KeepInv DEF PendingUnanswered, Rows!AckedRowsStay
  <2> QED
    BY <2>3, <2>4 DEF RowsInv
<1>2. CASE Table \in lost' /\ Rows!Ruin
  <2>1. PendingUnanswered' /\ Rows!AckedRowsStay'
    BY <1>2 DEF PendingUnanswered, Rows!AckedRowsStay
  <2> QED
    BY <1>2, <2>1 DEF RowsInv, Rows!Ruin
<1>3. CASE UNCHANGED Rows!vars
  <2>1. /\ Shown' = Shown /\ Safe' = Safe /\ Pending' = Pending /\ acked' = acked
        /\ (Table \in lost)' = (Table \in lost)
    BY <1>3, Zenon DEF Rows!vars
  <2>2. Rows!TypeOK'
    BY <2>1 DEF RowsInv, Rows!TypeOK, Rows!Cells
  <2>3. PendingUnanswered' /\ Rows!AckedRowsStay'
    BY <2>1 DEF RowsInv, PendingUnanswered, Rows!AckedRowsStay
  <2> QED
    BY <2>2, <2>3 DEF RowsInv
<1> QED
  BY <1>1, <1>2, <1>3 DEF Rows!Next

\* AckedRowsStay: until a crash finds the page file of the table half written, a row
\* that was answered for, and not behind a torn record, is shown, and is all that a
\* crash at any moment of any statement can leave, until its id is inserted again.
\* The calls and files of the database are not looked at: it is so in every RowStore.
THEOREM Durability == Spec => []AckedRowsStay
<1>1. NoRow \notin Values
  BY DatabaseAssumption
<1>2. Rows!Init => RowsInv
  BY DEF Rows!Init, RowsInv, Rows!TypeOK, PendingUnanswered, Rows!AckedRowsStay, Rows!Cells
<1>3. RowsInv /\ [Rows!Next]_(Rows!vars) => RowsInv'
  BY <1>1, RowsStepInv
<1>4. RowsInv => AckedRowsStay
  BY DEF RowsInv, AckedRowsStay
<1> QED
  BY <1>2, <1>3, <1>4, Refinement, PTL DEF ImplementsRowStore, Rows!Spec

-----------------------------------------------------------------------------
(* An index has every row that was answered for.                           *)

\* Whether an index is on the first column never changes, so neither do its entries.
LEMMA EntriesStay ==
  ASSUME ColumnsStay, TypeOK, TypeOK', NEW c \in IndexColumns, NEW row
  PROVE  Entry(c, row)' = Entry(c, row)
<1>1. \A h \in AllHeaders : c = h[1] <=> c = DefaultHeader[1]
  BY DEF ColumnsStay, AllHeaders
<1>2. cols \in AllHeaders /\ cols' \in AllHeaders
  BY DEF TypeOK
<1>3. c = cols[1] <=> c = cols'[1]
  BY <1>1, <1>2
<1> QED
  BY <1>3 DEF Entry

LEMMA SyncedSet ==
  ASSUME DiskOK, NEW c \in Stores
  PROVE  ToSet(RecoveredTo(c, synced[c])) = ToSet(pages[c]) \cup ToSet(SubSeq(log[c], 1, synced[c]))
<1>1. /\ pages[c] \in Seq(Pair) /\ log[c] \in Seq(Pair) /\ synced[c] \in Nat /\ synced[c] <= Len(log[c])
  BY RecoveredTypes DEF DiskOK
<1>2. SubSeq(log[c], 1, synced[c]) \in Seq(Pair)
  BY <1>1, PrefixOf
<1>3. \A s, t \in Seq(Pair) : ToSet(s \o t) = ToSet(s) \cup ToSet(t)
  BY SetConcat
<1> QED
  BY <1>1, <1>2, <1>3 DEF RecoveredTo

\* The same of the disk after a step.
LEMMA SyncedSetAfter ==
  ASSUME DiskOK', NEW c \in Stores
  PROVE  ToSet(RecoveredTo(c, synced[c])') = ToSet(pages'[c]) \cup ToSet(SubSeq(log'[c], 1, synced'[c]))
<1>1. /\ pages'[c] \in Seq(Pair) /\ log'[c] \in Seq(Pair) /\ synced'[c] \in Nat
      /\ synced'[c] <= Len(log'[c])
  BY DEF DiskOK, PairsIn
<1>2. SubSeq(log'[c], 1, synced'[c]) \in Seq(Pair)
  BY <1>1, PrefixOf
<1>3. RecoveredTo(c, synced[c])' = pages'[c] \o SubSeq(log'[c], 1, synced'[c])
  BY DEF RecoveredTo
<1>4. \A s, t \in Seq(Pair) : ToSet(s \o t) = ToSet(s) \cup ToSet(t)
  BY SetConcat
<1> QED
  BY <1>1, <1>2, <1>3, <1>4

\* The files may change in the middle of a statement, and lose no entry of an index.
LEMMA KeptOnDisk ==
  ASSUME TypeOK, CallsInv, DiskCall,
         NEW c \in Stores, c \in open, NEW e, Kept(c, e), c \notin behind'
  PROVE  e \in ToSet(RecoveredTo(c, synced[c])')
<1>1. DiskOK /\ DiskOK'
  BY DiskTypes DEF TypeOK
<1>2. /\ pages[c] \in Seq(Pair) /\ log[c] \in Seq(Pair) /\ synced[c] \in Nat /\ synced[c] <= Len(log[c])
      /\ Len(log[c]) \in Nat
  BY <1>1, RecoveredTypes, LenProperties DEF DiskOK
<1>3. /\ c \notin behind => e \in ToSet(pages[c]) \cup ToSet(SubSeq(log[c], 1, synced[c]))
      /\ e \in ToSet(mem[c])
  BY <1>1, SyncedSet DEF Kept
<1>4. ToSet(RecoveredTo(c, synced[c])') = ToSet(pages'[c]) \cup ToSet(SubSeq(log'[c], 1, synced'[c]))
  BY <1>1, SyncedSetAfter
<1>5. Moves(c)
  BY DiskMoves
<1>6. CASE /\ pages'[c] = pages[c] /\ log'[c] = log[c] /\ synced'[c] \in {synced[c], Len(log[c])}
           /\ c \notin behind
  <2>1. PICK lg, sy : lg = log[c] /\ sy = synced[c]
    OBVIOUS
  <2>2. lg \in Seq(Pair) /\ sy \in Nat /\ sy <= Len(lg) /\ Len(lg) \in Nat
    BY <1>2, <2>1
  <2>3. SubSeq(lg, 1, Len(lg)) = lg
    BY <2>2, PrefixOf
  <2>4. ToSet(SubSeq(lg, 1, sy)) \subseteq ToSet(lg)
    BY <2>2, PrefixLaws
  <2>5. ToSet(SubSeq(lg, 1, sy)) \subseteq ToSet(SubSeq(log'[c], 1, synced'[c]))
    BY <1>6, <2>1, <2>3, <2>4
  <2> QED
    BY <1>3, <1>4, <1>6, <2>1, <2>5
<1>7. CASE /\ todo[1].pair \in Pair /\ c \notin behind
           /\ pages'[c] = pages[c] /\ log'[c] = Append(log[c], todo[1].pair)
           /\ synced'[c] \in {synced[c], Len(log[c]) + 1}
  <2>1. PICK lg, p, sy, more : lg = log[c] /\ p = todo[1].pair /\ sy = synced[c] /\ more = log'[c]
    OBVIOUS
  <2>2. /\ lg \in Seq(Pair) /\ p \in Pair /\ sy \in Nat /\ sy <= Len(lg) /\ Len(lg) \in Nat
        /\ more = Append(lg, p)
    BY <1>2, <1>7, <2>1
  <2>3. SubSeq(more, 1, sy) = SubSeq(lg, 1, sy)
    BY <2>2, PrefixLaws
  <2>4. SubSeq(more, 1, Len(lg) + 1) = more /\ ToSet(more) = ToSet(lg) \cup {p}
    <3>1. more \in Seq(Pair) /\ Len(more) = Len(lg) + 1
      BY <2>2, Appended
    <3>2. Len(more) \in Nat /\ Len(more) <= Len(more)
      BY <2>2, <3>1
    <3> QED
      BY <2>2, <3>1, <3>2, PrefixOf, SetAppend
  <2>5. ToSet(SubSeq(lg, 1, sy)) \subseteq ToSet(lg)
    BY <2>2, PrefixLaws
  <2>6. ToSet(SubSeq(lg, 1, sy)) \subseteq ToSet(SubSeq(log'[c], 1, synced'[c]))
    BY <1>7, <2>1, <2>3, <2>4, <2>5
  <2> QED
    BY <1>3, <1>4, <1>7, <2>1, <2>6
<1>8. CASE pages'[c] = mem[c]
  BY <1>3, <1>4, <1>8
<1> QED
  BY <1>5, <1>6, <1>7, <1>8 DEF Moves

\* The two ways in which there is one more entry to be found: a row is answered
\* for, and an index is.
LEMMA KeptByInsert ==
  ASSUME TypeOK, CallsInv, InsertInv, Reply, job.kind = "insert", NEW c \in IndexColumns, c \in open
  PROVE  Kept(c, Entry(c, job.row))
<1>1. PICK e : e = Entry(c, job.row)
  OBVIOUS
<1>2. c \in Stores /\ c # Table /\ Due(c) = e
  BY <1>1, TableIsNoIndex DEF Due
<1>3. ~Waiting(Log(c, e)) /\ ~Waiting(Put(c, e))
  BY NoPairs DEF Waiting, Reply
<1>4. Logged(c, e) /\ InTree(c, e)
  BY <1>2, <1>3 DEF InsertInv
<1>5. /\ log[c] \in Seq(Pair) /\ Len(log[c]) \in Nat /\ mem[c] \in Seq(Pair) /\ Len(mem[c]) \in Nat
  BY <1>2, RecoveredTypes, LenProperties DEF TypeOK, PairsIn
<1>6. e \in ToSet(mem[c])
  <2>1. Len(mem[c]) \in 1 .. Len(mem[c])
    BY <1>4, <1>5 DEF InTree
  <2> QED
    BY <1>4, <1>5, <2>1, SetOf DEF InTree
<1>7. ASSUME c \notin behind PROVE e \in ToSet(log[c]) /\ SubSeq(log[c], 1, synced[c]) = log[c]
  <2>1. Len(log[c]) > 0 /\ log[c][Len(log[c])] = e /\ synced[c] = Len(log[c])
    BY <1>4, <1>7 DEF Logged
  <2>2. Len(log[c]) \in 1 .. Len(log[c]) /\ Len(log[c]) <= Len(log[c])
    BY <1>5, <2>1
  <2> QED
    BY <1>5, <2>1, <2>2, SetOf, PrefixOf
<1>8. c \notin behind => e \in ToSet(RecoveredTo(c, synced[c]))
  BY <1>2, <1>7, SyncedSet DEF TypeOK
<1> QED
  BY <1>1, <1>6, <1>8 DEF Kept

LEMMA KeptByCreate ==
  ASSUME TypeOK, CallsInv, CreateInv, AckedRowsStay, Table \notin lost, Reply,
         job.kind = "create_index", NEW id \in Ids, acked[id] # NoRow
  PROVE  Kept(job.col, Entry(job.col, <<id, acked[id]>>))
<1>1. PICK c : c = job.col
  OBVIOUS
<1>2. c \in IndexColumns /\ c \in Stores /\ Up /\ todo = << >>
  BY <1>1, JobForms, TableIsNoIndex DEF TypeOK, Reply, Up
<1>3. Row(mem[Table], id) = acked[id]
  BY <1>2 DEF AckedRowsStay, Rows!AckedRowsStay, Shown
<1>4. PICK e : e = EntryOf(c, id)
  OBVIOUS
<1>5. e = Entry(c, <<id, acked[id]>>)
  BY <1>3, <1>4 DEF EntryOf
<1>6. ~Waiting(Put(c, e)) /\ ~Waiting(Sync(c))
  BY <1>2, NoPairs DEF Waiting
<1>7. e \in ToSet(mem[c]) /\ pages[c] = mem[c]
  BY <1>1, <1>3, <1>4, <1>6 DEF CreateInv
<1>8. e \in ToSet(RecoveredTo(c, synced[c]))
  BY <1>2, <1>7, SyncedSet DEF TypeOK
<1> QED
  BY <1>1, <1>5, <1>7, <1>8 DEF Kept

LEMMA KeptSame ==
  ASSUME UNCHANGED <<mem, files, open>>, NEW c, NEW e, Kept(c, e)
  PROVE  Kept(c, e)'
<1>1. /\ mem' = mem /\ pages' = pages /\ log' = log /\ synced' = synced /\ behind' = behind
      /\ open' = open
  BY DEF files
<1>2. RecoveredTo(c, synced[c])' = RecoveredTo(c, synced[c])
  BY <1>1 DEF RecoveredTo
<1> QED
  BY <1>1, <1>2 DEF Kept

\* What an index that was answered for has, it keeps.
LEMMA KeptStep ==
  ASSUME IndInv, IndInv', [Next]_vars, NEW c \in IndexColumns, c \in complete \ lost, NEW e,
         Kept(c, e)
  PROVE  Kept(c, e)'
<1>1. /\ TypeOK /\ CallsInv /\ InsertInv /\ DownInv /\ CompleteInv /\ DiskOK /\ DiskOK'
      /\ mem \in [Stores -> Seq(Pair)]
      /\ c \in Stores /\ c # Table
  BY TableIsNoIndex DEF IndInv, TypeOK, PairsIn
<1>2. UNCHANGED files => RecoveredTo(c, synced[c])' = RecoveredTo(c, synced[c]) /\ behind' = behind
  BY DEF RecoveredTo, files
<1>3. /\ pages[c] \in Seq(Pair) /\ log[c] \in Seq(Pair) /\ synced[c] \in Nat /\ synced[c] <= Len(log[c])
      /\ Len(log[c]) \in Nat
  BY <1>1, RecoveredTypes, LenProperties DEF DiskOK
<1>4. c \notin behind => e \in ToSet(pages[c]) \cup ToSet(SubSeq(log[c], 1, synced[c]))
  BY <1>1, SyncedSet DEF Kept
<1>5. CASE Up /\ Stop /\ Interrupted
  <2>1. c \in open
    BY <1>1, <1>5 DEF CompleteInv
  <2>2. c \notin behind' => e \in ToSet(RecoveredTo(c, synced[c])')
    BY <1>1, <1>5, <2>1, KeptOnDisk DEF DiskCall
  <2>3. c \notin open'
    BY <1>5 DEF Stop
  <2> QED
    BY <2>2, <2>3 DEF Kept
<1>6. CASE ~Up /\ PowerLoss
  <2>1. PICK left \in [Stores -> UNION {synced[s] .. Len(log[s]) : s \in Stores}] :
          /\ \A s \in Stores : left[s] \in synced[s] .. Len(log[s])
          /\ log' = [s \in Stores |-> SubSeq(log[s], 1, left[s])]
          /\ synced' = left
    BY <1>6 DEF PowerLoss
  <2>2. UNCHANGED <<pages, open>> /\ c \notin open' /\ c \notin behind
    BY <1>1, <1>6 DEF PowerLoss, DownInv, CompleteInv
  <2>3. PICK lg, sy, n : lg = log[c] /\ sy = synced[c] /\ n = left[c]
    OBVIOUS
  <2>4. PICK cut : cut = SubSeq(lg, 1, n)
    OBVIOUS
  <2>5. n \in Nat /\ sy \in Nat /\ sy <= n /\ n <= Len(lg) /\ n <= n
    <3>1. n \in sy .. Len(lg)
      BY <1>1, <2>1, <2>3
    <3> QED
      BY <1>3, <2>3, <3>1
  <2>6. cut \in Seq(Pair) /\ Len(cut) = n
    BY <1>3, <2>3, <2>4, <2>5, PrefixOf
  <2>7. SubSeq(cut, 1, sy) = SubSeq(lg, 1, sy) /\ SubSeq(cut, 1, n) = cut
    <3>1. lg \in Seq(Pair)
      BY <1>3, <2>3
    <3> QED
      BY <2>4, <2>5, <3>1, PrefixLaws
  <2>8. ToSet(SubSeq(cut, 1, sy)) \subseteq ToSet(cut)
    BY <2>5, <2>6, PrefixLaws
  <2>9. log'[c] = cut /\ synced'[c] = n
    BY <1>1, <2>1, <2>3, <2>4
  <2>10. ToSet(RecoveredTo(c, synced[c])') = ToSet(pages[c]) \cup ToSet(cut)
    BY <1>1, <2>2, <2>7, <2>9, SyncedSetAfter
  <2> QED
    BY <1>4, <2>2, <2>3, <2>7, <2>8, <2>10 DEF Kept
<1>7. CASE ~Up /\ Open
  <2>1. open' = catalog.indexes /\ UNCHANGED files
    BY <1>7 DEF Open, files
  <2>2. c \in open' => mem'[c] = pages[c] \o log[c]
    <3>1. c \in catalog.indexes => mem'[c] \in Held(c)
      BY <1>1, <1>7 DEF Open
    <3>2. Held(c) = {Recovered(c)}
      BY DEF Held
    <3> QED
      BY <2>1, <3>1, <3>2 DEF Recovered
  <2>3. ToSet(pages[c] \o log[c]) = ToSet(pages[c]) \cup ToSet(log[c])
    BY <1>3, SetConcat
  <2>4. ToSet(SubSeq(log[c], 1, synced[c])) \subseteq ToSet(log[c])
    BY <1>3, PrefixLaws
  <2>5. c \notin behind
    BY <1>1, <1>7 DEF CompleteInv
  <2>6. Kept(c, e) => e \in ToSet(RecoveredTo(c, synced[c]))
    BY <2>5 DEF Kept
  <2> QED
    BY <1>2, <1>4, <2>1, <2>2, <2>3, <2>4, <2>5, <2>6 DEF Kept
<1>8. CASE UNCHANGED vars
  <2>1. UNCHANGED <<mem, files, open>>
    BY <1>8 DEF vars, disk, files
  <2> QED
    BY <2>1, KeptSame
<1>9. CASE Up /\ Up' /\ ~PowerLoss /\ ~Open
  <2>1. c \in open /\ e \in ToSet(mem[c])
    BY <1>1, <1>9 DEF CompleteInv, Kept
  <2>2. CASE UNCHANGED mem /\ DiskCall
    <3>1. c \notin behind' => e \in ToSet(RecoveredTo(c, synced[c])')
      BY <1>1, <2>1, <2>2, KeptOnDisk
    <3> QED
      BY <2>1, <2>2, <3>1 DEF Kept
  <2>3. CASE LogInsert \/ SyncPages \/ TruncateLog
    BY <2>2, <2>3 DEF LogInsert, SyncPages, TruncateLog, DiskCall
  <2>4. CASE UNCHANGED <<mem, files>>
    BY <1>2, <2>1, <2>4 DEF Kept
  <2>5. CASE Throw
    <3>1. ~Stop
      BY <1>9 DEF Stop, Up
    <3> QED
      BY <2>2, <2>5, <3>1 DEF Throw, DiskCall
  <2>6. CASE TreeInsert
    <3>1. PICK s \in Stores, p \in Pair : mem' = [mem EXCEPT ![s] = Append(@, p)]
      BY <1>1, <2>6, TreeInsertDoes
    <3>2. UNCHANGED files
      BY <2>6 DEF TreeInsert, files
    <3>3. ToSet(mem[c]) \subseteq ToSet(mem'[c])
      <4>1. CASE s = c
        <5>1. mem'[c] = Append(mem[c], p) /\ mem[c] \in Seq(Pair)
          BY <1>1, <3>1, <4>1
        <5> QED
          BY <5>1, SetAppend
      <4>2. CASE s # c
        BY <1>1, <3>1, <4>2
      <4> QED
        BY <4>1, <4>2
    <3> QED
      BY <1>2, <2>1, <3>2, <3>3 DEF Kept
  <2>7. ASSUME NEW d \in IndexColumns, CreateIndex(d) PROVE Kept(c, e)'
    <3>1. d # c /\ UNCHANGED files /\ \E held : mem' = [mem EXCEPT ![d] = held]
      BY <2>1, <2>7 DEF CreateIndex, files
    <3>2. mem'[c] = mem[c]
      BY <1>1, <3>1
    <3> QED
      BY <1>2, <2>1, <3>1, <3>2 DEF Kept
  <2>8. CASE \/ \E id \in Ids, v \in Values : Insert(id, v)
             \/ Checkpoint
             \/ \E header \in Headers : CreateTable(header)
             \/ OpenCatalog \/ WriteCatalog \/ Reply \/ Select
    <3>1. UNCHANGED <<mem, files>>
      BY <2>8 DEF Insert, Checkpoint, CreateTable, OpenCatalog, WriteCatalog, Reply, Select, disk, files
    <3> QED
      BY <2>4, <3>1
  <2>9. ~Kill
    BY <1>9 DEF Kill, Stop, Up
  <2> QED
    BY <1>8, <1>9, <2>3, <2>5, <2>6, <2>7, <2>8, <2>9 DEF Next
<1> QED
  BY <1>1, <1>5, <1>6, <1>7, <1>8, <1>9, UpAndDown

\* When an answer becomes one to be found.
LEMMA NewAnswers ==
  ASSUME TypeOK, CallsInv, [Next]_vars
  PROVE  /\ \A id \in Ids : acked'[id] = acked[id] \/ acked'[id] = NoRow
                            \/ (Reply /\ job.kind = "insert" /\ job.row = <<id, acked'[id]>>)
         /\ complete' \subseteq complete
              \/ (Reply /\ job.kind = "create_index" /\ complete' = complete \cup {job.col})
<1>1. acked \in [Ids -> Cells]
  BY DEF TypeOK
<1>2. CASE Reply
  <2>1. CASE job.kind = "insert"
    <3>1. job.row \in TablePair
      BY <2>1, JobForms DEF TypeOK
    <3>2. PICK row : row = job.row
      OBVIOUS
    <3>3. row = <<row[1], row[2]>> /\ \A id \in Ids : acked'[id] = acked[id]
                                        \/ (id = row[1] /\ acked'[id] = row[2])
      <4>1. row = <<row[1], row[2]>> /\ acked' \in {acked, [acked EXCEPT ![row[1]] = row[2]]}
        BY <1>2, <2>1, <3>1, <3>2 DEF Reply, TablePair
      <4> QED
        BY <1>1, <4>1
    <3>4. complete' = complete
      BY <1>2, <2>1 DEF Reply
    <3> QED
      BY <1>2, <2>1, <3>2, <3>3, <3>4
  <2>2. CASE job.kind # "insert"
    BY <1>2, <2>2 DEF Reply
  <2> QED
    BY <2>1, <2>2
<1>3. ASSUME NEW id \in Ids, NEW v \in Values, Insert(id, v)
      PROVE  complete' = complete /\ \A i \in Ids : acked'[i] = acked[i] \/ acked'[i] = NoRow
  BY <1>1, <1>3 DEF Insert
<1>4. CASE Throw \/ Kill
  BY <1>4 DEF Throw, Kill, Stop
<1>5. CASE \/ Checkpoint
           \/ \E c \in IndexColumns : CreateIndex(c)
           \/ \E header \in Headers : CreateTable(header)
           \/ LogInsert \/ TreeInsert \/ SyncPages \/ TruncateLog \/ OpenCatalog \/ WriteCatalog
           \/ PowerLoss \/ Open \/ Select
           \/ UNCHANGED vars
  <2>1. acked' = acked /\ complete' \subseteq complete
    BY <1>5 DEF Checkpoint, CreateIndex, CreateTable, LogInsert, TreeInsert, SyncPages, TruncateLog,
           OpenCatalog, WriteCatalog, PowerLoss, Open, Select, vars
  <2> QED
    BY <2>1
<1> QED
  BY <1>2, <1>3, <1>4, <1>5 DEF Next

LEMMA FoundStep ==
  ASSUME ColumnsStay, IndInv, IndInv', AckedRowsStay, FoundInv, [Next]_vars
  PROVE  FoundInv'
<1>1. TypeOK /\ TypeOK' /\ CallsInv /\ InsertInv /\ CreateInv /\ CompleteInv
  BY DEF IndInv
<1> SUFFICES ASSUME Table \notin lost', NEW c \in complete' \ lost', NEW id \in Ids,
                    acked'[id] # NoRow
             PROVE  Kept(c, Entry(c, <<id, acked[id]>>))'
  BY DEF FoundInv
<1>a. Table \notin lost /\ c \notin lost
  BY LostGrows
<1>2. PICK row : row = <<id, acked'[id]>>
  OBVIOUS
<1>3. PICK e : e = Entry(c, row)
  OBVIOUS
<1>4. c \in IndexColumns
  BY <1>1 DEF TypeOK
<1>5. Entry(c, row)' = e
  BY <1>1, <1>3, <1>4, EntriesStay
<1> SUFFICES Kept(c, e)'
  BY <1>2, <1>5 DEF Kept, Entry
<1>6. CASE c \in complete /\ acked'[id] = acked[id]
  <2>1. Kept(c, e)
    BY <1>a, <1>2, <1>3, <1>6 DEF FoundInv
  <2> QED
    BY <1>a, <1>4, <1>6, <2>1, KeptStep
<1>7. CASE c \in complete /\ acked'[id] # acked[id]
  <2>1. Reply /\ job.kind = "insert" /\ job.row = row
    BY <1>1, <1>2, <1>7, NewAnswers
  <2>2. c \in open
    BY <1>1, <1>7, <2>1 DEF CompleteInv, Reply, Up
  <2>3. Kept(c, e)
    BY <1>1, <1>3, <1>4, <2>1, <2>2, KeptByInsert
  <2> QED
    BY <2>1, <2>3, KeptSame DEF Reply, disk, files
<1>8. CASE c \notin complete
  <2>1. Reply /\ job.kind = "create_index" /\ c = job.col
    BY <1>1, <1>8, NewAnswers
  <2>2. acked' = acked
    BY <2>1 DEF Reply
  <2>3. Kept(c, e)
    BY <1>a, <1>1, <1>2, <1>3, <2>1, <2>2, KeptByCreate
  <2> QED
    BY <2>1, <2>3, KeptSame DEF Reply, disk, files
<1> QED
  BY <1>6, <1>7, <1>8

\* IndexFindsAckedRows: until the table or the index is damaged, a query through an
\* index that was answered for finds every row that was, now and after any crash but
\* for the entries behind a torn record in the index's own journal, as long as no
\* CREATE TABLE makes another column of the index's the first one.
THEOREM IndexesFind ==
  ASSUME ColumnsStay
  PROVE  Spec => []IndexFindsAckedRows
<1>1. Init => FoundInv
  BY DEF Init, FoundInv
<1>2. IndInv /\ IndInv' /\ AckedRowsStay /\ FoundInv /\ [Next]_vars => FoundInv'
  BY FoundStep
<1>3. FoundInv => IndexFindsAckedRows
  BY DEF FoundInv, Kept, IndexFindsAckedRows
<1> QED
  BY <1>1, <1>2, <1>3, Invariance, Durability, PTL DEF Spec
=============================================================================
