------------------------------ MODULE WalProofs ------------------------------
(***************************************************************************)
(* Proofs about Wal, for every number of inserts: what replay() reads from *)
(* a journal, and that crashes, torn writes and failed calls at any moment *)
(* leave what was acknowledged, in order, and bring nothing back.          *)
(***************************************************************************)
EXTENDS Wal, SequenceTheorems, SetInduction

-----------------------------------------------------------------------------
(* Files of cells.                                                         *)

Cell == {[is |-> "length"], Fragment} \cup [is : {"body", "crc"}, of : Nat]

IsBody(f, p) == p \in 1 .. Len(f) /\ f[p].is = "body"
Holds(f, r) == \E p \in 1 .. Len(f) : IsBody(f, p) /\ f[p].of = r
Prefix(f, g) == Len(f) <= Len(g) /\ \A p \in 1 .. Len(f) : f[p] = g[p]

\* The bodies of f come in the order of their numbers.
Ordered(f) == \A p, q \in 1 .. Len(f) : IsBody(f, p) /\ IsBody(f, q) /\ p < q => f[p].of < f[q].of

\* Every body of f has a number above low and at most high.
Within(f, low, high) == \A p \in 1 .. Len(f) : IsBody(f, p) => low < f[p].of /\ f[p].of <= high

\* The first k records of f pass replay()'s tests.
Reads(f, k) == 3 * k <= Len(f) /\ \A i \in 1 .. k : Readable(f, i)

\* A file is a sequence: its length and its cells.
LEMMA FileCells ==
  ASSUME NEW f \in Seq(Cell)
  PROVE  Len(f) \in Nat /\ DOMAIN f = 1 .. Len(f) /\ \A p \in 1 .. Len(f) : f[p] \in Cell
BY LenProperties, ElementOfSeq

\* replay() yields one record for each of the readable triples at the start.
LEMMA ReplayProperties ==
  ASSUME NEW f \in Seq(Cell)
  PROVE  \E n \in Nat :
           /\ Reads(f, n)
           /\ \A k \in Nat : Reads(f, k) => k <= n
           /\ Replay(f) = [i \in 1 .. n |-> f[3 * i - 1].of]
           /\ Len(Replay(f)) = n
<1> DEFINE R == {k \in 0 .. Len(f) \div 3 : \A i \in 1 .. k : Readable(f, i)}
<1>1. Len(f) \in Nat /\ Len(f) \div 3 \in Nat /\ 3 * (Len(f) \div 3) <= Len(f)
  BY FileCells
<1>2. \A k \in Nat : k \in R <=> Reads(f, k)
  BY <1>1 DEF Reads
<1>3. 0 \in R
  BY <1>1
<1>4. Max(R) \in R /\ \A k \in R : k <= Max(R)
  <2> HIDE DEF R
  <2>1. R \in SUBSET (0 .. Len(f) \div 3)
    BY DEF R
  <2> QED
    BY <1>1, <1>3, <2>1, MaxProperties
<1>5. Max(R) \in Nat
  BY <1>4, <1>1
<1>6. Replay(f) = [i \in 1 .. Max(R) |-> f[3 * i - 1].of]
  BY DEF Replay
<1> HIDE DEF R
<1>7. Len(Replay(f)) = Max(R)
  BY <1>5, <1>6
<1> QED
  BY <1>2, <1>4, <1>5, <1>6, <1>7

\* A record is replayed when it stands in one of those triples.
LEMMA ReplayedRecords ==
  ASSUME NEW f \in Seq(Cell), NEW r
  PROVE  r \in Replayed(f) <=> \E k \in Nat \ {0} : Reads(f, k) /\ r = f[3 * k - 1].of
<1>1. PICK n \in Nat :
        /\ Reads(f, n)
        /\ \A k \in Nat : Reads(f, k) => k <= n
        /\ Replay(f) = [i \in 1 .. n |-> f[3 * i - 1].of]
  BY ReplayProperties
<1>2. Replayed(f) = {f[3 * i - 1].of : i \in 1 .. n}
  <2>1. DOMAIN Replay(f) = 1 .. n /\ \A i \in 1 .. n : Replay(f)[i] = f[3 * i - 1].of
    BY ONLY <1>1
  <2>2. Replayed(f) = {Replay(f)[i] : i \in DOMAIN Replay(f)}
    BY ONLY DEF Replayed, ToSet
  <2> QED
    BY ONLY <2>1, <2>2
<1>3. \A k \in 1 .. n : Reads(f, k)
  BY <1>1, FileCells DEF Reads
<1>4. \A k \in Nat \ {0} : Reads(f, k) => k \in 1 .. n
  BY <1>1
<1>5. ASSUME r \in Replayed(f)
      PROVE  \E k \in Nat \ {0} : Reads(f, k) /\ r = f[3 * k - 1].of
  <2>1. PICK k \in 1 .. n : r = f[3 * k - 1].of
    BY <1>2, <1>5
  <2>2. k \in Nat \ {0} /\ Reads(f, k)
    BY <1>3
  <2> QED
    BY <2>1, <2>2
<1>6. ASSUME NEW k \in Nat \ {0}, Reads(f, k), r = f[3 * k - 1].of
      PROVE  r \in Replayed(f)
  BY <1>2, <1>4, <1>6
<1> QED
  BY <1>5, <1>6

\* The three cells of each of those triples are in the file, a body in the middle.
LEMMA TripleInFile ==
  ASSUME NEW f \in Seq(Cell), NEW k \in Nat, Reads(f, k), NEW i \in 1 .. k
  PROVE  /\ 3 * i - 2 \in 1 .. Len(f)
         /\ 3 * i - 1 \in 1 .. Len(f)
         /\ 3 * i \in 1 .. Len(f)
         /\ IsBody(f, 3 * i - 1)
<1>1. Len(f) \in Nat /\ 3 * k <= Len(f) /\ 3 * i <= 3 * k
  BY FileCells DEF Reads
<1>2. Readable(f, i)
  BY DEF Reads
<1>3. 3 * i - 2 \in 1 .. Len(f) /\ 3 * i - 1 \in 1 .. Len(f) /\ 3 * i \in 1 .. Len(f)
  BY <1>1
<1> QED
  BY <1>2, <1>3 DEF Readable, IsBody

\* What is read from a file is read from every file that goes on from it.
LEMMA ReadsGrows ==
  ASSUME NEW f \in Seq(Cell), NEW g \in Seq(Cell), Prefix(f, g), NEW k \in Nat, Reads(f, k)
  PROVE  Reads(g, k)
<1>1. \A i \in 1 .. k : /\ 3 * i - 2 \in 1 .. Len(f)
                        /\ 3 * i - 1 \in 1 .. Len(f)
                        /\ 3 * i \in 1 .. Len(f)
  BY TripleInFile
<1>2. \A i \in 1 .. k : Readable(g, i)
  BY <1>1 DEF Reads, Readable, Prefix
<1>3. 3 * k <= Len(g)
  BY FileCells DEF Reads, Prefix
<1> QED
  BY <1>2, <1>3 DEF Reads

\* A file that goes on from another is replayed to no fewer records.
LEMMA ReplayGrows ==
  ASSUME NEW f \in Seq(Cell), NEW g \in Seq(Cell), Prefix(f, g)
  PROVE  Replayed(f) \subseteq Replayed(g)
<1> SUFFICES ASSUME NEW r \in Replayed(f) PROVE r \in Replayed(g)
  OBVIOUS
<1>1. PICK k \in Nat \ {0} : Reads(f, k) /\ r = f[3 * k - 1].of
  BY ReplayedRecords
<1>2. k \in 1 .. k
  OBVIOUS
<1>3. Reads(g, k) /\ g[3 * k - 1] = f[3 * k - 1]
  BY <1>1, <1>2, ReadsGrows, TripleInFile DEF Prefix
<1> QED
  BY <1>1, <1>3, ReplayedRecords

\* A replayed record's body is in the file, and with it every body in front of it
\* is replayed: in what replay() has read nothing else has the form of a body.
LEMMA ReplayHasNoHoles ==
  ASSUME NEW f \in Seq(Cell), Ordered(f),
         NEW r \in Replayed(f), NEW a \in Nat, Holds(f, a), a < r
  PROVE  a \in Replayed(f)
<1>1. PICK k \in Nat \ {0} : Reads(f, k) /\ r = f[3 * k - 1].of
  BY ReplayedRecords
<1>2. PICK p \in 1 .. Len(f) : IsBody(f, p) /\ f[p].of = a
  BY DEF Holds
<1>3. Len(f) \in Nat /\ 3 * k - 1 \in 1 .. Len(f) /\ IsBody(f, 3 * k - 1)
  BY <1>1, FileCells, TripleInFile
<1>4. f[3 * k - 1] \in Cell /\ f[3 * k - 1].is = "body"
  BY <1>3, FileCells DEF IsBody
<1>5. r \in Nat
  BY <1>1, <1>4 DEF Cell, Fragment
<1>6. p < 3 * k - 1
  <2>1. ~(3 * k - 1 < p) /\ 3 * k - 1 # p
    BY <1>1, <1>2, <1>3, <1>5 DEF Ordered
  <2> QED
    BY <1>3, <2>1
<1>7. PICK i \in 1 .. k : p \in {3 * i - 2, 3 * i - 1, 3 * i}
  <2> DEFINE j == (p + 2) \div 3
  <2>1. j \in Nat /\ 3 * j <= p + 2 /\ p + 2 < 3 * j + 3
    BY <1>3
  <2> HIDE DEF j
  <2>2. j \in 1 .. k /\ p \in {3 * j - 2, 3 * j - 1, 3 * j}
    BY <1>6, <2>1
  <2> QED
    BY <2>2
<1>8. Readable(f, i)
  BY <1>1 DEF Reads
<1>9. p = 3 * i - 1
  BY <1>2, <1>7, <1>8 DEF Readable, IsBody
<1>10. Reads(f, i)
  BY <1>1, <1>3 DEF Reads
<1> QED
  BY <1>2, <1>9, <1>10, ReplayedRecords

\* replay() keeps the order.
LEMMA ReplayOrdered ==
  ASSUME NEW f \in Seq(Cell), Ordered(f),
         NEW i \in 1 .. Len(Replay(f)), NEW j \in 1 .. Len(Replay(f)), i < j
  PROVE  Replay(f)[i] < Replay(f)[j]
<1>1. PICK n \in Nat :
        /\ Reads(f, n)
        /\ Replay(f) = [k \in 1 .. n |-> f[3 * k - 1].of]
        /\ Len(Replay(f)) = n
  BY ReplayProperties
<1>2. \A k \in 1 .. n : IsBody(f, 3 * k - 1)
  BY <1>1, TripleInFile
<1>3. 3 * i - 1 < 3 * j - 1
  BY <1>1
<1>4. f[3 * i - 1].of < f[3 * j - 1].of
  BY <1>1, <1>2, <1>3 DEF Ordered, IsBody
<1> QED
  BY <1>1, <1>4

-----------------------------------------------------------------------------
(* The invariant.                                                          *)

TypeOK ==
  /\ pc \in {"down", "idle", "writing", "fsync", "truncated"}
  /\ file \in Seq(Cell) /\ disk \in Seq(Cell)
  /\ cut \in BOOLEAN /\ whole \in BOOLEAN
  /\ issued \in Nat /\ cutAt \in Nat /\ gone \in Nat
  /\ part \in 0 .. 3
  /\ acked \in SUBSET Nat /\ heard \in SUBSET Nat

\* The numbers in the files: in order, younger than the truncation each file has
\* seen, and the record being written is the youngest.
NumbersInv ==
  /\ gone <= cutAt /\ cutAt <= issued
  /\ Ordered(file) /\ Within(file, cutAt, issued)
  /\ Ordered(disk) /\ Within(disk, gone, issued)
  /\ pc = "writing" => cutAt < issued
  /\ pc = "writing" /\ part < 2 => Within(file, cutAt, issued - 1)

\* How far the disk is behind the file.
DiskInv ==
  /\ ~cut => Prefix(disk, file)
  /\ cut => acked = {}
  /\ heard \subseteq acked

\* What was acknowledged is in both files, if not always where replay() gets to.
AckedInv ==
  /\ \A a \in acked : Holds(file, a) /\ Holds(disk, a)
  /\ pc = "fsync" => Holds(file, issued)

\* A record begun after a whole one stands where replay() looks for it.
Aligned(k) ==
  /\ Reads(file, k) /\ Len(file) = 3 * k + part
  /\ \A i \in 1 .. part : file[3 * k + i] = Layout(issued)[i]

WholeInv ==
  /\ pc = "writing" => part \in 0 .. 2
  /\ pc = "fsync" => part = 3
  /\ pc = "writing" /\ part > 1 => Holds(file, issued)
  /\ pc \in {"writing", "fsync"} /\ whole => \E k \in Nat : Aligned(k)

HeardInv == heard \subseteq Replayed(file) /\ heard \subseteq Replayed(disk)

IndInv == TypeOK /\ NumbersInv /\ DiskInv /\ AckedInv /\ WholeInv /\ HeardInv

\* A cell at the end: what was there stays where it was.
LEMMA AppendCell ==
  ASSUME NEW f \in Seq(Cell), NEW c \in Cell
  PROVE  /\ Append(f, c) \in Seq(Cell)
         /\ Len(Append(f, c)) = Len(f) + 1
         /\ Append(f, c)[Len(f) + 1] = c
         /\ Prefix(f, Append(f, c))
BY AppendProperties, FileCells DEF Prefix

\* It keeps the order if it is no body, or one with a greater number.
LEMMA AppendOrdered ==
  ASSUME NEW f \in Seq(Cell), NEW c \in Cell, NEW low \in Nat, NEW high \in Nat,
         Ordered(f), Within(f, low, high),
         c.is = "body" => low < c.of /\ c.of <= high /\ Within(f, low, c.of - 1)
  PROVE  Ordered(Append(f, c)) /\ Within(Append(f, c), low, high)
<1> DEFINE g == Append(f, c)
<1>1. /\ g \in Seq(Cell) /\ Len(f) \in Nat /\ Len(g) = Len(f) + 1 /\ g[Len(f) + 1] = c
      /\ \A p \in 1 .. Len(f) : g[p] = f[p]
  BY AppendCell, FileCells DEF Prefix
<1>2. \A p \in 1 .. Len(g) : g[p] \in Cell
  BY <1>1, FileCells
<1> HIDE DEF g
<1>3. \A p \in 1 .. Len(f) : IsBody(g, p) <=> IsBody(f, p)
  BY <1>1 DEF IsBody
<1>4. ASSUME NEW p \in 1 .. Len(g), IsBody(g, p)
      PROVE  low < g[p].of /\ g[p].of <= high
  <2>1. CASE p \in 1 .. Len(f)
    BY <1>1, <1>3, <1>4, <2>1 DEF Within
  <2>2. CASE p = Len(f) + 1
    BY <1>1, <1>4, <2>2 DEF IsBody
  <2> QED
    BY <1>1, <2>1, <2>2
<1>5. ASSUME NEW p \in 1 .. Len(g), NEW q \in 1 .. Len(g), IsBody(g, p), IsBody(g, q), p < q
      PROVE  g[p].of < g[q].of
  <2>1. p \in 1 .. Len(f)
    BY <1>1, <1>5
  <2>2. CASE q \in 1 .. Len(f)
    BY <1>1, <1>3, <1>5, <2>1, <2>2 DEF Ordered
  <2>3. CASE q = Len(f) + 1
    <3>1. c.is = "body"
      BY <1>1, <1>5, <2>3 DEF IsBody
    <3>2. f[p].of <= c.of - 1
      BY <1>3, <1>5, <2>1, <3>1 DEF Within
    <3>3. f[p] \in Cell /\ f[p].is = "body"
      BY <1>3, <1>5, <2>1, FileCells DEF IsBody
    <3>4. f[p].of \in Nat /\ c.of \in Nat
      BY <3>1, <3>3 DEF Cell, Fragment
    <3> QED
      BY <1>1, <2>1, <2>3, <3>2, <3>4
  <2> QED
    BY <1>1, <2>2, <2>3
<1> QED
  BY <1>4, <1>5 DEF Ordered, Within, g

\* The beginning of a file has its bodies in the same order, and a file that goes
\* on from another holds what that holds.
LEMMA PrefixFacts ==
  ASSUME NEW f \in Seq(Cell), NEW g \in Seq(Cell), Prefix(f, g)
  PROVE  /\ Ordered(g) => Ordered(f)
         /\ \A low, high : Within(g, low, high) => Within(f, low, high)
         /\ \A r : Holds(f, r) => Holds(g, r)
<1>1. \A p \in 1 .. Len(f) : p \in 1 .. Len(g) /\ g[p] = f[p] /\ (IsBody(f, p) <=> IsBody(g, p))
  BY FileCells DEF Prefix, IsBody
<1> QED
  BY <1>1 DEF Ordered, Within, Holds

\* A file goes on from itself, and so on.
LEMMA PrefixOrder ==
  ASSUME NEW f \in Seq(Cell), NEW g \in Seq(Cell), NEW h \in Seq(Cell)
  PROVE  /\ Prefix(f, f) /\ Prefix(<< >>, f)
         /\ Prefix(f, g) /\ Prefix(g, h) => Prefix(f, h)
<1>1. Len(f) \in Nat /\ Len(g) \in Nat /\ Len(h) \in Nat
  BY FileCells
<1> QED
  BY <1>1 DEF Prefix

\* Nothing can be wrong with an empty file.
LEMMA EmptyFile ==
  /\ << >> \in Seq(Cell) /\ Ordered(<< >>)
  /\ \A low, high : Within(<< >>, low, high)
BY DEF Ordered, Within, IsBody

\* A greater bound is a bound too.
LEMMA WithinWider ==
  ASSUME NEW f \in Seq(Cell), NEW low \in Nat, NEW high \in Int, NEW lower \in Nat,
         NEW higher \in Int, lower <= low, high <= higher, Within(f, low, high)
  PROVE  Within(f, lower, higher)
<1>1. ASSUME NEW p \in 1 .. Len(f), IsBody(f, p)
      PROVE  lower < f[p].of /\ f[p].of <= higher
  <2>1. f[p] \in Cell /\ f[p].is = "body"
    BY <1>1, FileCells DEF IsBody
  <2>2. f[p].of \in Nat
    BY <2>1 DEF Cell, Fragment
  <2> QED
    BY <1>1, <2>2 DEF Within
<1> QED
  BY <1>1 DEF Within

-----------------------------------------------------------------------------
(* Every step preserves the invariant.                                     *)

\* The journal is empty at the start.
LEMMA InitInv == Init => IndInv
<1> SUFFICES ASSUME Init PROVE IndInv
  OBVIOUS
<1>1. Prefix(<< >>, << >>)
  BY EmptyFile, PrefixOrder
<1>2. TypeOK
  <2>1. file \in Seq(Cell) /\ disk \in Seq(Cell)
    BY EmptyFile DEF Init
  <2>2. cut \in BOOLEAN /\ whole \in BOOLEAN
    BY DEF Init
  <2>3. acked \in SUBSET Nat /\ heard \in SUBSET Nat
    BY DEF Init
  <2>4. pc \in {"down", "idle", "writing", "fsync", "truncated"} /\ issued \in Nat
          /\ cutAt \in Nat /\ gone \in Nat /\ part \in 0 .. 3
    BY DEF Init
  <2> QED
    BY <2>1, <2>2, <2>3, <2>4 DEF TypeOK
<1>3. NumbersInv
  BY EmptyFile DEF Init, NumbersInv
<1>4. DiskInv /\ AckedInv /\ WholeInv /\ HeardInv
  BY <1>1 DEF Init, DiskInv, AckedInv, WholeInv, HeardInv
<1> QED
  BY <1>2, <1>3, <1>4 DEF IndInv

\* Steps that only change what the process does next: Kill, Open, a failed fsync.
LEMMA QuietInv ==
  ASSUME IndInv, pc' \in {"down", "idle"},
         UNCHANGED <<file, disk, cut, issued, part, acked, whole, heard, cutAt, gone>>
  PROVE  IndInv'
<1> USE DEF IndInv
<1>1. TypeOK' /\ NumbersInv'
  BY DEF TypeOK, NumbersInv
<1>2. DiskInv' /\ AckedInv' /\ WholeInv' /\ HeardInv'
  BY DEF DiskInv, AckedInv, WholeInv, HeardInv
<1> QED
  BY <1>1, <1>2

\* A record is begun: its number is new, and when the file ends in a whole record
\* it begins where replay() will look.
LEMMA LogInsertInv ==
  ASSUME IndInv, LogInsert
  PROVE  IndInv'
<1> USE DEF IndInv
<1>1. /\ pc' = "writing" /\ issued' = issued + 1 /\ part' = 0 /\ whole' = Whole(file)
      /\ UNCHANGED <<file, disk, cut, acked, heard, cutAt, gone>>
  BY DEF LogInsert
<1>2. Whole(file) \in BOOLEAN
  BY DEF Whole
<1>3. TypeOK'
  BY <1>1, <1>2 DEF TypeOK
<1>4. NumbersInv'
  <2>1. Within(file, cutAt, issued + 1) /\ Within(disk, gone, issued + 1)
    BY WithinWider DEF TypeOK, NumbersInv
  <2> QED
    BY <1>1, <2>1 DEF TypeOK, NumbersInv
<1>5. DiskInv' /\ AckedInv' /\ HeardInv'
  BY <1>1 DEF DiskInv, AckedInv, HeardInv
<1>6. ASSUME Whole(file)
      PROVE  \E k \in Nat : Aligned(k)'
  <2>1. PICK k \in Nat : Reads(file, k) /\ Len(Replay(file)) = k
    BY ReplayProperties DEF TypeOK
  <2>2. Len(file) = 3 * k + 0
    BY <1>6, <2>1, FileCells DEF Whole, TypeOK
  <2> QED
    BY <1>1, <2>1, <2>2 DEF Aligned
<1>7. WholeInv'
  BY <1>1, <1>6 DEF WholeInv
<1> QED
  BY <1>3, <1>4, <1>5, <1>7

\* The cells of a record are cells.
LEMMA LayoutCells ==
  ASSUME NEW r \in Nat
  PROVE  /\ \A i \in 1 .. 3 : Layout(r)[i] \in Cell
         /\ Layout(r)[1].is = "length"
         /\ Layout(r)[2].is = "body" /\ Layout(r)[2].of = r
         /\ Layout(r)[3] = [is |-> "crc", of |-> r] /\ Layout(r)[3].is = "crc"
BY DEF Layout, Cell

\* The next cell of the record is written.
LEMMA WriteCellInv ==
  ASSUME IndInv, WriteCell
  PROVE  IndInv'
<1> USE DEF IndInv
<1> DEFINE c == Layout(issued)[part + 1]
<1>1. /\ pc = "writing" /\ file' = Append(file, c) /\ part' = part + 1
      /\ pc' = IF part' = 3 THEN "fsync" ELSE "writing"
      /\ UNCHANGED <<disk, cut, issued, acked, whole, heard, cutAt, gone>>
  BY DEF WriteCell, Written
<1>2. part \in 0 .. 2 /\ issued \in Nat /\ cutAt \in Nat /\ cutAt < issued
  BY <1>1 DEF TypeOK, WholeInv, NumbersInv
<1>3. /\ c \in Cell
      /\ part = 0 => c.is = "length"
      /\ part = 1 => c.is = "body" /\ c.of = issued
      /\ part = 2 => c = [is |-> "crc", of |-> issued] /\ c.is = "crc"
  BY <1>2, LayoutCells
<1> HIDE DEF c
<1>4. /\ file' \in Seq(Cell) /\ Len(file') = Len(file) + 1 /\ file'[Len(file) + 1] = c
      /\ Prefix(file, file')
  BY <1>1, <1>3, AppendCell DEF TypeOK
<1>5. TypeOK'
  BY <1>1, <1>2, <1>4 DEF TypeOK
<1>6. NumbersInv'
  <2>1. c.is = "body" => cutAt < c.of /\ c.of <= issued /\ Within(file, cutAt, c.of - 1)
    BY <1>1, <1>2, <1>3 DEF NumbersInv
  <2>2. Ordered(file') /\ Within(file', cutAt, issued)
    BY <1>1, <1>2, <1>3, <2>1, AppendOrdered DEF TypeOK, NumbersInv
  <2>3. ASSUME part = 0
        PROVE  Within(file', cutAt, issued - 1)
    <3>1. Within(file, cutAt, issued - 1) /\ issued - 1 \in Nat
      BY <1>1, <1>2, <2>3 DEF NumbersInv
    <3> QED
      BY <1>1, <1>2, <1>3, <2>3, <3>1, AppendOrdered DEF TypeOK, NumbersInv
  <2> QED
    BY <1>1, <1>2, <2>2, <2>3 DEF NumbersInv
<1>7. DiskInv'
  BY <1>1, <1>4, PrefixOrder DEF DiskInv, TypeOK
<1>8. /\ \A r : Holds(file, r) => Holds(file', r)
      /\ part = 1 => Holds(file', issued)
  <2>1. file \in Seq(Cell) /\ Len(file) \in Nat
    BY FileCells DEF TypeOK
  <2>2. \A r : Holds(file, r) => Holds(file', r)
    BY <1>4, <2>1, PrefixFacts
  <2>3. part = 1 => Holds(file', issued)
    BY <1>3, <1>4, <2>1 DEF Holds, IsBody
  <2> QED
    BY <2>2, <2>3
<1>9. AckedInv'
  BY <1>1, <1>2, <1>8 DEF AckedInv, WholeInv
<1>10. ASSUME whole
       PROVE  \E k \in Nat : Aligned(k)'
  <2>1. PICK k \in Nat : Aligned(k)
    BY <1>1, <1>10 DEF WholeInv
  <2>2. Len(file) = 3 * k + part /\ Len(file) \in Nat
    BY <2>1, FileCells DEF Aligned, TypeOK
  <2>3. Reads(file', k)
    BY <1>4, <2>1, ReadsGrows DEF Aligned, TypeOK
  <2>4. \A i \in 1 .. part + 1 : file'[3 * k + i] = Layout(issued)[i]
    <3>1. \A i \in 1 .. part : file'[3 * k + i] = Layout(issued)[i]
      BY <1>2, <1>4, <2>1, <2>2 DEF Aligned, Prefix
    <3>2. file'[3 * k + (part + 1)] = Layout(issued)[part + 1]
      BY <1>2, <1>4, <2>2 DEF c
    <3> QED
      BY <1>2, <3>1, <3>2
  <2>5. Len(file') = 3 * k + part'
    BY <1>1, <1>2, <1>4, <2>2
  <2> QED
    BY <1>1, <2>3, <2>4, <2>5 DEF Aligned
<1>11. WholeInv'
  BY <1>1, <1>2, <1>8, <1>10 DEF WholeInv
<1>12. HeardInv'
  BY <1>1, <1>4, ReplayGrows DEF HeardInv, TypeOK
<1> QED
  BY <1>5, <1>6, <1>7, <1>9, <1>11, <1>12

\* A write fails: what log_insert leaves may end in a fragment.
LEMMA WriteFailsInv ==
  ASSUME IndInv, WriteFails
  PROVE  IndInv'
<1> USE DEF IndInv
<1>1. /\ file' = file \/ file' = Append(file, Fragment)
      /\ pc' = "idle"
      /\ UNCHANGED <<disk, cut, issued, part, acked, whole, heard, cutAt, gone>>
  BY DEF WriteFails
<1>2. file' \in Seq(Cell) /\ Prefix(file, file')
  BY <1>1, AppendCell, PrefixOrder DEF Cell, TypeOK
<1>3. TypeOK'
  BY <1>1, <1>2 DEF TypeOK
<1>4. Ordered(file') /\ Within(file', cutAt, issued)
  <2>1. Fragment \in Cell /\ Fragment.is # "body"
    BY DEF Cell, Fragment
  <2>2. Ordered(Append(file, Fragment)) /\ Within(Append(file, Fragment), cutAt, issued)
    BY <2>1, AppendOrdered DEF TypeOK, NumbersInv
  <2> QED
    BY <1>1, <2>2 DEF NumbersInv
<1>5. NumbersInv'
  BY <1>1, <1>4 DEF NumbersInv
<1>6. DiskInv'
  BY <1>1, <1>2, PrefixOrder DEF DiskInv, TypeOK
<1>7. AckedInv' /\ WholeInv'
  BY <1>1, <1>2, PrefixFacts DEF AckedInv, WholeInv, TypeOK
<1>8. HeardInv'
  BY <1>1, <1>2, ReplayGrows DEF HeardInv, TypeOK
<1> QED
  BY <1>3, <1>5, <1>6, <1>7, <1>8

\* After an fsync the disk holds what the file holds.
LEMMA FlushInv ==
  ASSUME IndInv, Flush, pc' = "idle",
         UNCHANGED <<file, issued, part, whole, cutAt>>,
         acked' \in SUBSET Nat, heard' \subseteq acked',
         \A a \in acked' : Holds(file, a),
         heard' \subseteq Replayed(file)
  PROVE  IndInv'
<1> USE DEF IndInv
<1>1. disk' = file /\ cut' = FALSE /\ gone' = cutAt
  BY DEF Flush
<1>2. TypeOK'
  BY <1>1 DEF TypeOK
<1>3. NumbersInv'
  BY <1>1 DEF NumbersInv, TypeOK
<1>4. DiskInv'
  BY <1>1, PrefixOrder DEF DiskInv, TypeOK
<1>5. AckedInv' /\ WholeInv' /\ HeardInv'
  BY <1>1 DEF AckedInv, WholeInv, HeardInv
<1> QED
  BY <1>2, <1>3, <1>4, <1>5

\* log_insert returns.
LEMMA AcknowledgeInv ==
  ASSUME IndInv, Acknowledge
  PROVE  IndInv'
<1> USE DEF IndInv
<1>1. /\ pc = "fsync" /\ Flush /\ pc' = "idle"
      /\ acked' = acked \cup {issued}
      /\ heard' = IF whole THEN heard \cup {issued} ELSE heard
      /\ UNCHANGED <<file, issued, part, whole, cutAt>>
  BY DEF Acknowledge
<1>2. \A a \in acked' : Holds(file, a)
  BY <1>1 DEF AckedInv
<1>3. acked' \in SUBSET Nat /\ heard' \subseteq acked'
  BY <1>1 DEF TypeOK, DiskInv
<1>4. ASSUME whole
      PROVE  issued \in Replayed(file)
  <2>1. PICK k \in Nat : Aligned(k)
    BY <1>1, <1>4 DEF WholeInv
  <2>2. part = 3 /\ Layout(issued)[1].is = "length" /\ Layout(issued)[2].is = "body"
          /\ Layout(issued)[2].of = issued /\ Layout(issued)[3] = [is |-> "crc", of |-> issued]
    BY <1>1, LayoutCells DEF WholeInv, TypeOK
  <2>3. /\ file[3 * k + 1] = Layout(issued)[1]
        /\ file[3 * k + 2] = Layout(issued)[2]
        /\ file[3 * k + 3] = Layout(issued)[3]
    BY <2>1, <2>2 DEF Aligned
  <2>4. Readable(file, k + 1)
    <3>1. 3 * (k + 1) - 2 = 3 * k + 1 /\ 3 * (k + 1) - 1 = 3 * k + 2 /\ 3 * (k + 1) = 3 * k + 3
      OBVIOUS
    <3> QED
      BY <2>2, <2>3, <3>1 DEF Readable
  <2>5. Reads(file, k + 1)
    BY <2>1, <2>2, <2>4 DEF Aligned, Reads
  <2>6. k + 1 \in Nat \ {0} /\ issued = file[3 * (k + 1) - 1].of
    BY <2>2, <2>3
  <2> QED
    BY <2>5, <2>6, ReplayedRecords DEF TypeOK
<1>5. heard' \subseteq Replayed(file)
  BY <1>1, <1>4 DEF HeardInv
<1> QED
  BY <1>1, <1>2, <1>3, <1>5, FlushInv

\* The truncation is on the disk.
LEMMA TruncateSyncInv ==
  ASSUME IndInv, TruncateSync
  PROVE  IndInv'
BY FlushInv DEF TruncateSync, IndInv, TypeOK, DiskInv, AckedInv, HeardInv

\* The file is emptied: the disk may hold the old records, all of them older.
LEMMA TruncateInv ==
  ASSUME IndInv, Truncate
  PROVE  IndInv'
<1> USE DEF IndInv
<1>1. /\ pc' = "truncated" /\ file' = << >> /\ cut' = TRUE /\ cutAt' = issued
      /\ acked' = {} /\ heard' = {}
      /\ UNCHANGED <<disk, issued, part, whole, gone>>
  BY DEF Truncate
<1>2. TypeOK'
  <2>1. file' \in Seq(Cell) /\ cut' \in BOOLEAN
    BY <1>1, EmptyFile
  <2>2. acked' \in SUBSET Nat /\ heard' \in SUBSET Nat
    BY <1>1
  <2> QED
    BY <1>1, <2>1, <2>2 DEF TypeOK
<1>3. NumbersInv'
  BY <1>1, EmptyFile DEF NumbersInv, TypeOK
<1>4. DiskInv' /\ AckedInv' /\ WholeInv' /\ HeardInv'
  BY <1>1 DEF DiskInv, AckedInv, WholeInv, HeardInv
<1> QED
  BY <1>2, <1>3, <1>4

\* The kernel writes back one more thing.
LEMMA WritebackInv ==
  ASSUME IndInv, Writeback
  PROVE  IndInv'
<1> USE DEF IndInv
<1>1. UNCHANGED <<pc, file, issued, part, acked, whole, heard, cutAt>>
  BY DEF Writeback
<1>2. CASE cut /\ disk' = << >> /\ cut' = FALSE /\ gone' = cutAt
  <2>1. acked = {} /\ heard = {}
    BY <1>2 DEF DiskInv
  <2>2. TypeOK'
    <3>1. disk' \in Seq(Cell) /\ cut' \in BOOLEAN
      BY <1>2, EmptyFile
    <3> QED
      BY <1>1, <1>2, <3>1 DEF TypeOK
  <2>3. NumbersInv'
    BY <1>1, <1>2, EmptyFile DEF NumbersInv, TypeOK
  <2>4. DiskInv'
    BY <1>1, <1>2, PrefixOrder DEF DiskInv, TypeOK
  <2>5. AckedInv' /\ WholeInv' /\ HeardInv'
    BY <1>1, <1>2, <2>1 DEF AckedInv, WholeInv, Aligned, HeardInv
  <2> QED
    BY <2>2, <2>3, <2>4, <2>5
<1>3. CASE /\ ~cut /\ Len(disk) < Len(file)
           /\ disk' = SubSeq(file, 1, Len(disk) + 1)
           /\ UNCHANGED <<cut, gone>>
  <2>1. Len(disk) \in Nat /\ Len(file) \in Nat /\ \A p \in 1 .. Len(disk) + 1 : file[p] \in Cell
    BY <1>3, FileCells DEF TypeOK
  <2>2. /\ disk' \in Seq(Cell) /\ Len(disk') = Len(disk) + 1
        /\ \A p \in 1 .. Len(disk) + 1 : disk'[p] = file[p]
    BY <1>3, <2>1, SubSeqProperties
  <2>3. Prefix(disk', file)
    BY <1>3, <2>1, <2>2 DEF Prefix
  <2>4. Prefix(disk, disk')
    BY <1>3, <2>1, <2>2 DEF DiskInv, Prefix
  <2>5. TypeOK'
    BY <1>1, <1>3, <2>2 DEF TypeOK
  <2>6. Ordered(disk') /\ Within(disk', gone, issued)
    <3>1. Ordered(disk') /\ Within(disk', cutAt, issued)
      BY <2>2, <2>3, PrefixFacts DEF TypeOK, NumbersInv
    <3> QED
      BY <2>2, <3>1, WithinWider DEF TypeOK, NumbersInv
  <2>7. NumbersInv'
    BY <1>1, <1>3, <2>6 DEF NumbersInv
  <2>8. DiskInv'
    BY <1>1, <1>3, <2>3 DEF DiskInv
  <2>9. WholeInv'
    BY <1>1, <1>3 DEF WholeInv, Aligned
  <2>10. AckedInv' /\ HeardInv'
    <3>1. Replayed(disk) \subseteq Replayed(disk')
      BY <2>2, <2>4, ReplayGrows DEF TypeOK
    <3>2. HeardInv'
      BY <1>1, <1>3, <3>1 DEF HeardInv
    <3>3. \A a \in acked : Holds(disk', a)
      BY <2>2, <2>4, PrefixFacts DEF AckedInv, TypeOK
    <3>4. AckedInv'
      BY <1>1, <1>3, <3>3 DEF AckedInv
    <3> QED
      BY <3>2, <3>4
  <2> QED
    BY <2>5, <2>7, <2>8, <2>9, <2>10
<1> QED
  BY <1>2, <1>3 DEF Writeback

\* The power fails: the file is what the disk held, or a little more.
LEMMA PowerLossInv ==
  ASSUME IndInv, PowerLoss
  PROVE  IndInv'
<1> USE DEF IndInv
<1>1. /\ pc' = "down" /\ disk' = file' /\ cut' = FALSE /\ cutAt' = gone
      /\ UNCHANGED <<issued, part, acked, whole, heard, gone>>
  BY DEF PowerLoss
<1>2. file' = disk \/ file' = Append(disk, Fragment)
  BY DEF PowerLoss
<1>3. file' \in Seq(Cell) /\ Prefix(disk, file')
  BY <1>2, AppendCell, PrefixOrder DEF Cell, TypeOK
<1>4. TypeOK'
  BY <1>1, <1>3 DEF TypeOK
<1>5. Ordered(file') /\ Within(file', gone, issued)
  <2>1. Fragment \in Cell /\ Fragment.is # "body"
    BY DEF Cell, Fragment
  <2>2. Ordered(Append(disk, Fragment)) /\ Within(Append(disk, Fragment), gone, issued)
    BY <2>1, AppendOrdered DEF TypeOK, NumbersInv
  <2> QED
    BY <1>2, <2>2 DEF NumbersInv
<1>6. NumbersInv'
  BY <1>1, <1>5 DEF NumbersInv, TypeOK
<1>7. DiskInv'
  BY <1>1, <1>3, PrefixOrder DEF DiskInv
<1>8. AckedInv' /\ WholeInv' /\ HeardInv'
  BY <1>1, <1>3, PrefixFacts, ReplayGrows DEF AckedInv, WholeInv, HeardInv, TypeOK
<1> QED
  BY <1>4, <1>6, <1>7, <1>8

\* Every step keeps the invariant.
LEMMA StepInv == IndInv /\ [Next]_vars => IndInv'
<1> SUFFICES ASSUME IndInv, [Next]_vars PROVE IndInv'
  OBVIOUS
<1>1. CASE LogInsert
  BY <1>1, LogInsertInv
<1>2. CASE WriteCell
  BY <1>2, WriteCellInv
<1>3. CASE WriteFails
  BY <1>3, WriteFailsInv
<1>4. CASE Acknowledge
  BY <1>4, AcknowledgeInv
<1>5. CASE FsyncFails \/ Kill \/ Open
  BY <1>5, QuietInv DEF FsyncFails, Kill, Open
<1>6. CASE Truncate
  BY <1>6, TruncateInv
<1>7. CASE TruncateSync
  BY <1>7, TruncateSyncInv
<1>8. CASE Writeback
  BY <1>8, WritebackInv
<1>9. CASE PowerLoss
  BY <1>9, PowerLossInv
<1>10. CASE UNCHANGED vars
  BY <1>10 DEF vars, IndInv, TypeOK, NumbersInv, DiskInv, AckedInv, WholeInv, HeardInv, Aligned
<1> QED
  BY <1>1, <1>2, <1>3, <1>4, <1>5, <1>6, <1>7, <1>8, <1>9, <1>10 DEF Next

\* The inductive invariant holds in every reachable state of the journal.
THEOREM Invariance == Spec => []IndInv
<1>1. Init => IndInv
  BY InitInv
<1>2. IndInv /\ [Next]_vars => IndInv'
  BY StepInv
<1> QED
  BY <1>1, <1>2, PTL DEF Spec

-----------------------------------------------------------------------------
(* The invariants the run checks.                                          *)

\* HeardRecordsSurvive for any number of inserts, crashes and failed calls: what
\* was acknowledged on a journal that ended in a whole record is on the disk where
\* replay() reads it.
THEOREM Durability == Spec => []HeardRecordsSurvive
<1>1. IndInv => HeardRecordsSurvive
  BY DEF IndInv, HeardInv, HeardRecordsSurvive
<1> QED
  BY <1>1, Invariance, PTL

\* ReplayIsPrefix: replay() yields records in their order, and with one of them
\* every acknowledged record before it.
THEOREM NoHoles == Spec => []ReplayIsPrefix
<1>1. ASSUME IndInv PROVE ReplayIsPrefix
  <2>1. ASSUME NEW f \in {file, disk}
        PROVE  /\ \A i, j \in 1 .. Len(Replay(f)) : i < j => Replay(f)[i] < Replay(f)[j]
               /\ \A r \in Replayed(f), a \in acked : a < r => a \in Replayed(f)
    <3>1. f \in Seq(Cell) /\ Ordered(f) /\ \A a \in acked : a \in Nat /\ Holds(f, a)
      BY <1>1 DEF IndInv, TypeOK, NumbersInv, AckedInv
    <3>2. \A i, j \in 1 .. Len(Replay(f)) : i < j => Replay(f)[i] < Replay(f)[j]
      BY <3>1, ReplayOrdered
    <3>3. \A r \in Replayed(f), a \in acked : a < r => a \in Replayed(f)
      BY <3>1, ReplayHasNoHoles
    <3> QED
      BY <3>2, <3>3
  <2> QED
    BY <2>1 DEF ReplayIsPrefix
<1> QED
  BY <1>1, Invariance, PTL

\* NothingResurrected: a record whose truncation has reached the disk is replayed
\* neither from the disk nor from the file.
THEOREM TruncationIsFinal == Spec => []NothingResurrected
<1>1. ASSUME IndInv PROVE NothingResurrected
  <2>1. ASSUME NEW f \in {file, disk}, NEW r \in Replayed(f)
        PROVE  gone < r /\ r <= issued
    <3>1. f \in Seq(Cell) /\ Within(f, gone, issued)
      BY <1>1, WithinWider DEF IndInv, TypeOK, NumbersInv
    <3>2. PICK k \in Nat \ {0} : Reads(f, k) /\ r = f[3 * k - 1].of
      BY <3>1, ReplayedRecords
    <3>3. 3 * k - 1 \in 1 .. Len(f) /\ IsBody(f, 3 * k - 1)
      <4>1. k \in 1 .. k
        OBVIOUS
      <4> QED
        BY <3>1, <3>2, <4>1, TripleInFile
    <3> QED
      BY <3>1, <3>2, <3>3 DEF Within
  <2> QED
    BY <2>1 DEF NothingResurrected
<1> QED
  BY <1>1, Invariance, PTL
=============================================================================
