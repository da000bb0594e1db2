-------------------------- MODULE PageManagerProofs --------------------------
(***************************************************************************)
(* Proofs about PageManager, for every CacheSize >= 1, every number of     *)
(* pages and every set of page contents.                                   *)
(***************************************************************************)
EXTENDS PageManager, SequenceTheorems, FiniteSetTheorems, TLAPS

-----------------------------------------------------------------------------
(* Lists without duplicates, as lru_ is one.                               *)

Elements(s) == {s[i] : i \in 1 .. Len(s)}
Injective(s) == \A i, j \in 1 .. Len(s) : s[i] = s[j] => i = j
Prefix(s, t) == Len(s) <= Len(t) /\ \A i \in 1 .. Len(s) : s[i] = t[i]

\* Putting an element in front of a sequence shifts the others by one.
LEMMA ConsProperties ==
  ASSUME NEW S, NEW s \in Seq(S), NEW p \in S
  PROVE  /\ <<p>> \o s \in Seq(S)
         /\ Len(<<p>> \o s) = Len(s) + 1
         /\ \A k \in 1 .. Len(s) + 1 :
              (<<p>> \o s)[k] = IF k = 1 THEN p ELSE s[k - 1]
<1>1. <<p>> \in Seq(S) /\ Len(<<p>>) = 1 /\ <<p>>[1] = p
  OBVIOUS
<1> QED
  BY <1>1, ConcatProperties

\* Removing position i leaves the others, those behind it one place earlier.
LEMMA RemoveAtProperties ==
  ASSUME NEW S, NEW s \in Seq(S), NEW i \in 1 .. Len(s)
  PROVE  /\ RemoveAt(s, i) \in Seq(S)
         /\ Len(RemoveAt(s, i)) = Len(s) - 1
         /\ \A k \in 1 .. Len(s) - 1 :
              RemoveAt(s, i)[k] = IF k < i THEN s[k] ELSE s[k + 1]
<1> DEFINE l == SubSeq(s, 1, i - 1)
           r == SubSeq(s, i + 1, Len(s))
<1>0. Len(s) \in Nat /\ \A k \in 1 .. Len(s) : s[k] \in S
  BY LenProperties
<1>1. /\ l \in Seq(S)
      /\ Len(l) = i - 1
      /\ \A k \in 1 .. i - 1 : l[k] = s[k]
  <2>1. \A k \in 1 .. i - 1 : s[k] \in S
    BY <1>0
  <2> QED
    BY <1>0, <2>1, SubSeqProperties
<1>2. /\ r \in Seq(S)
      /\ Len(r) = Len(s) - i
      /\ \A k \in 1 .. Len(s) - i : r[k] = s[i + k]
  <2>1. \A k \in i + 1 .. Len(s) : s[k] \in S
    BY <1>0
  <2> QED
    BY <1>0, <2>1, SubSeqProperties
<1>4. RemoveAt(s, i) = l \o r
  BY DEF RemoveAt, l, r
<1> HIDE DEF l, r
<1>3. /\ l \o r \in Seq(S)
      /\ Len(l \o r) = Len(l) + Len(r)
      /\ \A k \in 1 .. Len(l) + Len(r) :
           (l \o r)[k] = IF k <= Len(l) THEN l[k] ELSE r[k - Len(l)]
  BY <1>1, <1>2, ConcatProperties
<1>5. ASSUME NEW k \in 1 .. Len(s) - 1
      PROVE  (l \o r)[k] = IF k < i THEN s[k] ELSE s[k + 1]
  <2>1. CASE k < i
    BY <1>0, <1>1, <1>2, <1>3, <2>1
  <2>2. CASE ~(k < i)
    <3>1. k - Len(l) \in 1 .. Len(s) - i /\ i + (k - Len(l)) = k + 1
      BY <1>0, <1>1, <2>2
    <3>2. r[k - Len(l)] = s[i + (k - Len(l))]
      BY <1>2, <3>1
    <3> QED
      BY <1>0, <1>1, <1>2, <1>3, <2>2, <3>1, <3>2
  <2> QED
    BY <2>1, <2>2
<1> QED
  BY <1>0, <1>1, <1>2, <1>3, <1>4, <1>5

\* Moving an element that stands at position i to the front shifts the i - 1
\* before it and no other.
LEMMA ToFrontFound ==
  ASSUME NEW S, NEW s \in Seq(S), Injective(s),
         NEW i \in 1 .. Len(s)
  PROVE  /\ ToFront(s, s[i]) \in Seq(S)
         /\ Len(ToFront(s, s[i])) = Len(s)
         /\ \A k \in 1 .. Len(s) : ToFront(s, s[i])[k] =
              IF k = 1 THEN s[i] ELSE IF k <= i THEN s[k - 1] ELSE s[k]
<1> DEFINE p == s[i]
<1>0. Len(s) \in Nat /\ p \in S
  BY LenProperties
<1>1. (CHOOSE j \in 1 .. Len(s) : s[j] = p) = i
  BY DEF Injective
<1>2. ToFront(s, p) = <<p>> \o RemoveAt(s, i)
  BY <1>1 DEF ToFront
<1> HIDE DEF p
<1>3. /\ RemoveAt(s, i) \in Seq(S)
      /\ Len(RemoveAt(s, i)) = Len(s) - 1
      /\ \A k \in 1 .. Len(s) - 1 :
           RemoveAt(s, i)[k] = IF k < i THEN s[k] ELSE s[k + 1]
  BY RemoveAtProperties
<1> DEFINE r == RemoveAt(s, i)
<1> HIDE DEF r
<1>4. /\ <<p>> \o r \in Seq(S)
      /\ Len(<<p>> \o r) = Len(r) + 1
      /\ \A k \in 1 .. Len(r) + 1 : (<<p>> \o r)[k] = IF k = 1 THEN p ELSE r[k - 1]
  BY <1>0, <1>3, ConsProperties DEF r
<1>5. ASSUME NEW k \in 1 .. Len(s)
      PROVE  (<<p>> \o r)[k] =
               IF k = 1 THEN p ELSE IF k <= i THEN s[k - 1] ELSE s[k]
  <2>1. CASE k = 1
    BY <1>0, <1>3, <1>4, <2>1 DEF r
  <2>2. CASE k # 1
    <3>1. k - 1 \in 1 .. Len(s) - 1 /\ (k - 1) + 1 = k /\ (k - 1 < i <=> k <= i)
      BY <1>0, <2>2
    <3>2. r[k - 1] = IF k <= i THEN s[k - 1] ELSE s[k]
      BY <1>3, <3>1 DEF r
    <3> QED
      BY <1>0, <1>3, <1>4, <2>2, <3>2 DEF r
  <2> QED
    BY <2>1, <2>2
<1> QED
  BY <1>0, <1>2, <1>3, <1>4, <1>5 DEF p, r

\* An element that is not in the list is put in front of all of it.
LEMMA ToFrontAbsent ==
  ASSUME NEW s, NEW p, p \notin Elements(s)
  PROVE  ToFront(s, p) = <<p>> \o s
BY DEF ToFront, Elements

\* ToFront keeps a list free of duplicates and adds at most p.
LEMMA ToFrontProperties ==
  ASSUME NEW S, NEW s \in Seq(S), Injective(s), NEW p \in S
  PROVE  /\ ToFront(s, p) \in Seq(S)
         /\ Injective(ToFront(s, p))
         /\ Elements(ToFront(s, p)) = Elements(s) \cup {p}
<1>0. Len(s) \in Nat
  BY LenProperties
<1>1. CASE p \in Elements(s)
  <2>1. PICK i \in 1 .. Len(s) : s[i] = p
    BY <1>1 DEF Elements
  <2> DEFINE t == ToFront(s, p)
  <2>2. /\ t \in Seq(S)
        /\ Len(t) = Len(s)
        /\ \A k \in 1 .. Len(s) : t[k] =
             IF k = 1 THEN s[i] ELSE IF k <= i THEN s[k - 1] ELSE s[k]
    BY <2>1, ToFrontFound
  <2> HIDE DEF t
  <2>3. Injective(t)
    <3>1. SUFFICES ASSUME NEW j \in 1 .. Len(s), NEW k \in 1 .. Len(s), t[j] = t[k]
                   PROVE  j = k
      BY <2>2 DEF Injective
    <3> DEFINE from(n) == IF n = 1 THEN i ELSE IF n <= i THEN n - 1 ELSE n
    <3>2. /\ from(j) \in 1 .. Len(s) /\ t[j] = s[from(j)]
          /\ from(k) \in 1 .. Len(s) /\ t[k] = s[from(k)]
      BY <1>0, <2>2
    <3>3. from(j) = from(k)
      BY <3>1, <3>2 DEF Injective
    <3> QED
      BY <1>0, <3>3
  <2>4. ASSUME NEW j \in 1 .. Len(s) PROVE s[j] \in Elements(t)
    <3>1. CASE j = i
      BY <1>0, <2>2, <3>1 DEF Elements
    <3>2. CASE j < i
      <4>1. j + 1 \in 1 .. Len(s) /\ t[j + 1] = s[(j + 1) - 1] /\ (j + 1) - 1 = j
        BY <1>0, <2>2, <3>2
      <4> QED
        BY <2>2, <4>1 DEF Elements
    <3>3. CASE j > i
      <4>1. t[j] = s[j]
        BY <1>0, <2>2, <3>3
      <4> QED
        BY <2>2, <4>1 DEF Elements
    <3> QED
      BY <3>1, <3>2, <3>3
  <2>5. ASSUME NEW k \in 1 .. Len(t) PROVE t[k] \in Elements(s)
    BY <1>0, <2>2 DEF Elements
  <2>6. Elements(t) = Elements(s)
    BY <2>4, <2>5 DEF Elements
  <2> QED
    BY <1>1, <2>2, <2>3, <2>6 DEF t
<1>2. CASE p \notin Elements(s)
  <2> DEFINE t == <<p>> \o s
  <2>1. /\ t \in Seq(S)
        /\ Len(t) = Len(s) + 1
        /\ \A k \in 1 .. Len(s) + 1 : t[k] = IF k = 1 THEN p ELSE s[k - 1]
    BY ConsProperties
  <2> HIDE DEF t
  <2>2. \A k \in 1 .. Len(s) : p # s[k]
    BY <1>2 DEF Elements
  <2>3. Injective(t)
    <3>1. SUFFICES ASSUME NEW j \in 1 .. Len(s) + 1, NEW k \in 1 .. Len(s) + 1,
                          t[j] = t[k]
                   PROVE  j = k
      BY <2>1 DEF Injective
    <3>2. CASE j = 1 \/ k = 1
      <4>1. \A n \in 1 .. Len(s) + 1 : n # 1 => n - 1 \in 1 .. Len(s) /\ t[n] = s[n - 1]
        BY <1>0, <2>1
      <4> QED
        BY <1>0, <2>1, <2>2, <3>1, <3>2, <4>1
    <3>3. CASE j # 1 /\ k # 1
      <4>1. j - 1 \in 1 .. Len(s) /\ k - 1 \in 1 .. Len(s) /\ s[j - 1] = s[k - 1]
        BY <1>0, <2>1, <3>1, <3>3
      <4> QED
        BY <1>0, <4>1 DEF Injective
    <3> QED
      BY <3>2, <3>3
  <2>4. ASSUME NEW j \in 1 .. Len(s) PROVE s[j] \in Elements(t)
    <3>1. j + 1 \in 1 .. Len(t) /\ t[j + 1] = s[(j + 1) - 1] /\ (j + 1) - 1 = j
      BY <1>0, <2>1
    <3> QED
      BY <3>1 DEF Elements
  <2>5. p \in Elements(t)
    BY <1>0, <2>1 DEF Elements
  <2>6. \A k \in 1 .. Len(t) : t[k] \in Elements(s) \cup {p}
    BY <1>0, <2>1 DEF Elements
  <2>7. Elements(t) = Elements(s) \cup {p}
    BY <2>4, <2>5, <2>6 DEF Elements
  <2> QED
    BY <1>2, <2>1, <2>3, <2>7, ToFrontAbsent DEF t
<1> QED
  BY <1>1, <1>2

\* A hit moves the same page to the front of the list and of the history.
LEMMA PrefixOnHit ==
  ASSUME NEW S, NEW s \in Seq(S), NEW t \in Seq(S), Injective(s), Injective(t),
         Prefix(s, t), NEW p \in Elements(s)
  PROVE  Prefix(ToFront(s, p), ToFront(t, p))
<1>0. Len(s) \in Nat /\ Len(t) \in Nat
  BY LenProperties
<1>1. PICK i \in 1 .. Len(s) : s[i] = p
  BY DEF Elements
<1>2. i \in 1 .. Len(t) /\ t[i] = p
  BY <1>0, <1>1 DEF Prefix
<1>3. /\ Len(ToFront(s, p)) = Len(s)
      /\ \A k \in 1 .. Len(s) : ToFront(s, p)[k] =
           IF k = 1 THEN p ELSE IF k <= i THEN s[k - 1] ELSE s[k]
  BY <1>1, ToFrontFound
<1>4. /\ Len(ToFront(t, p)) = Len(t)
      /\ \A k \in 1 .. Len(t) : ToFront(t, p)[k] =
           IF k = 1 THEN p ELSE IF k <= i THEN t[k - 1] ELSE t[k]
  BY <1>2, ToFrontFound
<1>5. ASSUME NEW k \in 1 .. Len(s) PROVE ToFront(s, p)[k] = ToFront(t, p)[k]
  BY SMTT(30), <1>0, <1>3, <1>4 DEF Prefix
<1> QED
  BY <1>0, <1>3, <1>4, <1>5 DEF Prefix

\* A miss puts the page before what is left of the list, and takes it out of
\* the older part of the history.
LEMMA PrefixOnMiss ==
  ASSUME NEW S, NEW s \in Seq(S), NEW t \in Seq(S), Injective(t),
         Prefix(s, t), NEW p \in S, p \notin Elements(s)
  PROVE  Prefix(<<p>> \o s, ToFront(t, p))
<1>0. Len(s) \in Nat /\ Len(t) \in Nat
  BY LenProperties
<1>1. /\ Len(<<p>> \o s) = Len(s) + 1
      /\ \A k \in 1 .. Len(s) + 1 : (<<p>> \o s)[k] = IF k = 1 THEN p ELSE s[k - 1]
  BY ConsProperties
<1>2. CASE p \in Elements(t)
  <2>1. PICK i \in 1 .. Len(t) : t[i] = p
    BY <1>2 DEF Elements
  <2>2. i > Len(s)
    BY <1>0, <2>1 DEF Prefix, Elements
  <2>3. /\ Len(ToFront(t, p)) = Len(t)
        /\ \A k \in 1 .. Len(t) : ToFront(t, p)[k] =
             IF k = 1 THEN p ELSE IF k <= i THEN t[k - 1] ELSE t[k]
    BY <2>1, ToFrontFound
  <2>4. ASSUME NEW k \in 1 .. Len(s) + 1 PROVE (<<p>> \o s)[k] = ToFront(t, p)[k]
    <3>1. k \in 1 .. Len(t) /\ k <= i
      BY <1>0, <2>2
    <3>2. CASE k = 1
      BY <1>1, <2>3, <3>1, <3>2
    <3>3. CASE k # 1
      <4>1. k - 1 \in 1 .. Len(s)
        BY <1>0, <3>3
      <4>2. s[k - 1] = t[k - 1]
        BY <4>1 DEF Prefix
      <4> QED
        BY <1>1, <2>3, <3>1, <3>3, <4>2
    <3> QED
      BY <3>2, <3>3
  <2> QED
    BY <1>0, <1>1, <2>2, <2>3, <2>4 DEF Prefix
<1>3. CASE p \notin Elements(t)
  <2>1. /\ Len(<<p>> \o t) = Len(t) + 1
        /\ \A k \in 1 .. Len(t) + 1 : (<<p>> \o t)[k] = IF k = 1 THEN p ELSE t[k - 1]
    BY ConsProperties
  <2>2. ToFront(t, p) = <<p>> \o t
    BY <1>3, ToFrontAbsent
  <2>3. ASSUME NEW k \in 1 .. Len(s) + 1 PROVE (<<p>> \o s)[k] = (<<p>> \o t)[k]
    <3>1. k \in 1 .. Len(t) + 1
      BY <1>0 DEF Prefix
    <3>2. k # 1 => k - 1 \in 1 .. Len(s)
      BY <1>0
    <3>3. k # 1 => s[k - 1] = t[k - 1]
      BY <3>2 DEF Prefix
    <3> QED
      BY <1>1, <2>1, <3>1, <3>3
  <2> QED
    BY <1>0, <1>1, <2>1, <2>2, <2>3 DEF Prefix
<1> QED
  BY <1>2, <1>3

-----------------------------------------------------------------------------
(* The inductive invariant: the cache and its list, then the pages.        *)

ListInv ==
  /\ Injective(lru)
  /\ Cached = Elements(lru)
  /\ Len(lru) = Cardinality(Cached)
  /\ Cardinality(Cached) <= CacheSize
  /\ Injective(recency)
  /\ Prefix(lru, recency)

SizeInv ==
  /\ durableSize <= fileSize
  /\ kept <= durableSize
  /\ pc = "down" => cache = << >> /\ used <= fileSize
  /\ pc # "down" => fileSize <= pageCount /\ used <= pageCount
  /\ \A p \in Cached : p < pageCount

PageInv ==
  /\ \A p \in PageIds : p >= fileSize => file[p] = Blank
  /\ \A p \in PageIds : p >= durableSize => durable[p] = Blank
  /\ \A p \in PageIds : p >= Size => versions[p] = {Blank}
  /\ CleanMatchesFile
  /\ UsedPagesReachFile
  /\ CrashKeepsAVersion

\* There are finitely many pages.
LEMMA PageIdsFinite == IsFiniteSet(PageIds)
BY FS_Interval, PageManagerAssumption DEF PageIds, PageManagerAssumption

\* So the cache is finite, and its size is a number.
LEMMA CachedFinite == TypeOK => IsFiniteSet(Cached) /\ Cardinality(Cached) \in Nat
BY PageIdsFinite, FS_Subset, FS_CardinalityType DEF TypeOK

\* An eviction takes the last page of the list out of the cache, and makes room.
LEMMA Eviction ==
  ASSUME TypeOK, ListInv
  PROVE  /\ Full => Victim \in Cached
         /\ Remaining \subseteq Cached
         /\ LruRest \in Seq(PageIds)
         /\ Injective(LruRest)
         /\ Elements(LruRest) = Remaining
         /\ Len(LruRest) = Cardinality(Remaining)
         /\ Cardinality(Remaining) < CacheSize
         /\ Prefix(LruRest, recency)
<1>0. Len(lru) \in Nat /\ lru \in [1 .. Len(lru) -> PageIds] /\ lru \in Seq(PageIds)
  BY LenProperties DEF TypeOK
<1>1. Cardinality(Cached) \in Nat /\ IsFiniteSet(Cached)
  BY CachedFinite
<1>2. CASE Full
  <2>1. Len(lru) \in 1 .. Len(lru) /\ Len(lru) = CacheSize
    BY <1>0, <1>1, <1>2, PageManagerAssumption DEF Full, ListInv, PageManagerAssumption
  <2>2. Victim \in Cached
    BY <2>1 DEF Victim, ListInv, Elements
  <2>3. /\ LruRest \in Seq(PageIds)
        /\ Len(LruRest) = Len(lru) - 1
        /\ \A i \in 1 .. Len(lru) - 1 : LruRest[i] = lru[i]
    <3>1. \A i \in 1 .. Len(lru) - 1 : lru[i] \in PageIds
      BY <1>0
    <3>2. LruRest = SubSeq(lru, 1, Len(lru) - 1)
      BY <1>2 DEF LruRest
    <3> QED
      BY <1>0, <2>1, <3>1, <3>2, SubSeqProperties
  <2>4. Remaining = Cached \ {Victim}
    BY <1>2 DEF Remaining
  <2>5. Injective(LruRest)
    BY <1>0, <2>3 DEF ListInv, Injective
  <2>6. Elements(LruRest) = Remaining
    <3>1. \A i \in 1 .. Len(lru) - 1 : lru[i] # Victim
      BY <1>0, <2>1 DEF Victim, ListInv, Injective
    <3>2. \A i \in 1 .. Len(lru) : i \in 1 .. Len(lru) - 1 \/ lru[i] = Victim
      BY <1>0 DEF Victim
    <3>3. ASSUME NEW q \in Elements(LruRest) PROVE q \in Remaining
      <4>1. PICK i \in 1 .. Len(lru) - 1 : q = lru[i]
        BY <1>0, <2>3 DEF Elements
      <4>2. q \in Elements(lru) /\ q # Victim
        BY <1>0, <3>1, <4>1 DEF Elements
      <4> QED
        BY <2>4, <4>2 DEF ListInv
    <3>4. ASSUME NEW q \in Remaining PROVE q \in Elements(LruRest)
      <4>1. PICK i \in 1 .. Len(lru) : lru[i] = q
        BY <2>4 DEF Elements, ListInv
      <4>2. i \in 1 .. Len(lru) - 1
        BY <2>4, <3>2, <4>1
      <4> QED
        BY <2>3, <4>1, <4>2 DEF Elements
    <3> QED
      BY <3>3, <3>4
  <2>7. Cardinality(Remaining) = Cardinality(Cached) - 1
    BY <1>1, <2>2, <2>4, FS_RemoveElement
  <2>8. Prefix(LruRest, recency)
    BY <1>0, <2>3 DEF ListInv, Prefix
  <2> QED
    BY <1>1, <2>1, <2>2, <2>3, <2>4, <2>5, <2>6, <2>7, <2>8, PageManagerAssumption
    DEF ListInv, PageManagerAssumption
<1>3. CASE ~Full
  BY <1>0, <1>1, <1>3, PageManagerAssumption
  DEF Full, Remaining, LruRest, ListInv, PageManagerAssumption, TypeOK
<1> QED
  BY <1>2, <1>3

\* What an eviction leaves in the file: the victim's page if it was dirty.
LEMMA EvictedPages ==
  ASSUME TypeOK, ListInv, SizeInv, PageInv, pc # "down", EvictOneIfFull
  PROVE  /\ file' \in [PageIds -> Contents]
         /\ fileSize' \in 0 .. MaxPages
         /\ fileSize <= fileSize' /\ fileSize' <= pageCount
         /\ \A q \in PageIds : q >= fileSize' => file'[q] = Blank
         /\ \A q \in PageIds : q \in Remaining \/ q \notin Cached => file'[q] = file[q]
         /\ \A q \in Cached : q \notin Remaining => file'[q] = cache[q].page
         /\ used > fileSize' => used - 1 \in Remaining /\ cache[used - 1].dirty
<1>0. Full => Victim \in Cached
  BY Eviction
<1>1. MaxPages \in Nat /\ PageIds = 0 .. MaxPages - 1
  BY PageManagerAssumption DEF PageManagerAssumption, PageIds
<1>2. CASE Full /\ cache[Victim].dirty
  <2> DEFINE v == Victim
  <2>1. /\ v \in Cached /\ v \in PageIds /\ v < pageCount
        /\ cache[v].page \in Contents
        /\ Remaining = Cached \ {v}
        /\ cache[v].dirty
    BY <1>0, <1>2 DEF TypeOK, Entry, Remaining, SizeInv
  <2>2. file' = [file EXCEPT ![v] = cache[v].page] /\ fileSize' = Extended(v)
    BY <1>2 DEF EvictOneIfFull, FlushEntry
  <2> HIDE DEF v
  <2>3. fileSize' \in 0 .. MaxPages /\ fileSize <= fileSize' /\ v < fileSize'
        /\ fileSize' <= pageCount
    BY <1>1, <2>1, <2>2 DEF Extended, TypeOK, SizeInv
  <2>4. \A q \in PageIds : q >= fileSize' => file'[q] = Blank
    BY <1>1, <2>1, <2>2, <2>3 DEF TypeOK, PageInv
  <2>5. used > fileSize' => used - 1 \in Remaining /\ cache[used - 1].dirty
    BY <1>1, <2>1, <2>3 DEF TypeOK, PageInv, UsedPagesReachFile
  <2> QED
    BY <2>1, <2>2, <2>3, <2>4, <2>5 DEF TypeOK
<1>3. CASE ~(Full /\ cache[Victim].dirty)
  <2>1. file' = file /\ fileSize' = fileSize
    BY <1>3 DEF EvictOneIfFull, FlushEntry
  <2>2. ASSUME NEW q \in Cached, q \notin Remaining PROVE file[q] = cache[q].page
    BY <1>0, <1>3, <2>2 DEF Remaining, PageInv, CleanMatchesFile, TypeOK, Entry
  <2>3. used > fileSize => used - 1 \in Remaining /\ cache[used - 1].dirty
    BY <1>3 DEF Remaining, PageInv, UsedPagesReachFile
  <2> QED
    BY <2>1, <2>2, <2>3 DEF TypeOK, PageInv, SizeInv
<1> QED
  BY <1>2, <1>3

\* A page that enters the cache keeps the list in step with it.
LEMMA InsertList ==
  ASSUME TypeOK, ListInv, NEW p \in PageIds, p \notin Cached,
         NEW entry \in Entry, Insert(p, entry)
  PROVE  /\ lru' \in Seq(PageIds) /\ recency' \in Seq(PageIds)
         /\ Cached' = Remaining \cup {p}
         /\ cache' \in [Cached' -> Entry]
         /\ cache'[p] = entry
         /\ \A q \in Remaining : cache'[q] = cache[q]
         /\ ListInv'
<1>1. /\ Remaining \subseteq Cached
      /\ LruRest \in Seq(PageIds)
      /\ Injective(LruRest)
      /\ Elements(LruRest) = Remaining
      /\ Len(LruRest) = Cardinality(Remaining)
      /\ Cardinality(Remaining) < CacheSize
      /\ Prefix(LruRest, recency)
  BY Eviction
<1>2. /\ cache' = [q \in Remaining \cup {p} |-> IF q = p THEN entry ELSE cache[q]]
      /\ lru' = <<p>> \o LruRest
      /\ recency' = ToFront(recency, p)
  BY DEF Insert
<1>3. p \notin Remaining
  BY <1>1
<1>4. lru' = ToFront(LruRest, p)
  BY <1>1, <1>2, <1>3, ToFrontAbsent
<1>5. lru' \in Seq(PageIds) /\ Injective(lru') /\ Elements(lru') = Remaining \cup {p}
  BY <1>1, <1>4, ToFrontProperties
<1>6. Cached' = Remaining \cup {p}
  BY <1>2 DEF Cached
<1>7. Cardinality(Remaining \cup {p}) = Cardinality(Remaining) + 1
      /\ Cardinality(Remaining) \in Nat
  BY <1>1, <1>3, CachedFinite, FS_Subset, FS_AddElement, FS_CardinalityType
<1>8. Len(lru') = Cardinality(Remaining) + 1
  BY <1>1, <1>2, ConsProperties
<1>9. recency' \in Seq(PageIds) /\ Injective(recency')
  BY <1>2, ToFrontProperties DEF TypeOK, ListInv
<1>10. Prefix(lru', recency')
  BY <1>1, <1>2, <1>3, PrefixOnMiss DEF TypeOK, ListInv
<1>11. cache' \in [Cached' -> Entry] /\ cache'[p] = entry
       /\ \A q \in Remaining : cache'[q] = cache[q]
  BY <1>1, <1>2, <1>3 DEF TypeOK, Cached
<1>12. Cardinality(Remaining) + 1 <= CacheSize
  BY <1>1, <1>7, PageManagerAssumption DEF PageManagerAssumption
<1> QED
  BY <1>5, <1>6, <1>7, <1>8, <1>9, <1>10, <1>11, <1>12 DEF ListInv

\* So does load_into_cache, on a hit and on a miss.
LEMMA LoadList ==
  ASSUME TypeOK, ListInv, NEW p \in PageIds,
         NEW entry \in Entry, LoadIntoCache(p, entry)
  PROVE  /\ lru' \in Seq(PageIds) /\ recency' \in Seq(PageIds)
         /\ Cached' = IF p \in Cached THEN Cached ELSE Remaining \cup {p}
         /\ cache' \in [Cached' -> Entry]
         /\ cache'[p] = entry
         /\ \A q \in Cached' : q # p => q \in Cached /\ cache'[q] = cache[q]
         /\ ListInv'
<1>1. CASE p \in Cached
  <2>1. /\ cache' = [cache EXCEPT ![p] = entry]
        /\ lru' = ToFront(lru, p)
        /\ recency' = ToFront(recency, p)
    BY <1>1 DEF LoadIntoCache, Touch
  <2>2. Cached' = Cached
    BY <1>1, <2>1 DEF Cached, TypeOK
  <2>3. p \in Elements(lru)
    BY <1>1 DEF ListInv
  <2>4. lru' \in Seq(PageIds) /\ Injective(lru') /\ Elements(lru') = Elements(lru)
    <3>1. lru \in Seq(PageIds) /\ Injective(lru)
      BY DEF TypeOK, ListInv
    <3>2. Elements(lru') = Elements(lru) \cup {p}
      BY <2>1, <3>1, ToFrontProperties
    <3> QED
      BY <2>1, <2>3, <3>1, <3>2, ToFrontProperties
  <2>5. Len(lru') = Len(lru)
    <3>1. PICK i \in 1 .. Len(lru) : lru[i] = p
      BY <2>3 DEF Elements
    <3> QED
      BY <2>1, <3>1, ToFrontFound DEF TypeOK, ListInv
  <2>6. recency' \in Seq(PageIds) /\ Injective(recency')
    BY <2>1, ToFrontProperties DEF TypeOK, ListInv
  <2>7. Prefix(lru', recency')
    BY <2>1, <2>3, PrefixOnHit DEF TypeOK, ListInv
  <2>8. cache' \in [Cached -> Entry] /\ cache'[p] = entry
        /\ \A q \in Cached : q # p => cache'[q] = cache[q]
    BY <1>1, <2>1 DEF TypeOK, Cached
  <2> QED
    BY <1>1, <2>2, <2>4, <2>5, <2>6, <2>7, <2>8 DEF ListInv
<1>2. CASE p \notin Cached
  <2>1. Insert(p, entry)
    BY <1>2 DEF LoadIntoCache, Touch
  <2>2. Remaining \subseteq Cached
    BY Eviction
  <2> QED
    BY <1>2, <2>1, <2>2, InsertList
<1> QED
  BY <1>1, <1>2

\* What load_into_cache does to the pages: only p's own may look different.
LEMMA LoadPages ==
  ASSUME TypeOK, ListInv, SizeInv, PageInv, pc # "down",
         NEW p \in PageIds, NEW entry \in Entry, LoadIntoCache(p, entry)
  PROVE  /\ file' \in [PageIds -> Contents]
         /\ fileSize' \in 0 .. MaxPages
         /\ fileSize <= fileSize' /\ fileSize' <= pageCount
         /\ \A q \in PageIds : q >= fileSize' => file'[q] = Blank
         /\ \A q \in PageIds : q \in Cached' \/ q \notin Cached => file'[q] = file[q]
         /\ \A q \in PageIds : file'[q] \in {file[q], View(q)}
         /\ \A q \in PageIds : q # p => View(q)' = View(q)
         /\ View(p)' = entry.page
         /\ \A q \in Cached' : q # p => file'[q] = file[q]
         /\ used > fileSize' => /\ used - 1 \in Cached'
                                /\ cache[used - 1].dirty
                                /\ used - 1 \in Cached
<1>0. /\ Cached' = IF p \in Cached THEN Cached ELSE Remaining \cup {p}
      /\ cache'[p] = entry
      /\ \A q \in Cached' : q # p => q \in Cached /\ cache'[q] = cache[q]
      /\ Cached \subseteq PageIds
  BY LoadList DEF TypeOK
<1>1. CASE p \in Cached
  <2>1. file' = file /\ fileSize' = fileSize /\ Cached' = Cached
    BY <1>0, <1>1 DEF LoadIntoCache, Touch
  <2> QED
    BY <1>0, <1>1, <2>1 DEF TypeOK, PageInv, SizeInv, UsedPagesReachFile, View
<1>2. CASE p \notin Cached
  <2>1. EvictOneIfFull /\ Remaining \subseteq Cached
    BY <1>2, Eviction DEF LoadIntoCache, Touch, Insert
  <2>2. Cached' = Remaining \cup {p}
    BY <1>0, <1>2
  <2>3. /\ file' \in [PageIds -> Contents]
        /\ fileSize' \in 0 .. MaxPages
        /\ fileSize <= fileSize' /\ fileSize' <= pageCount
        /\ \A q \in PageIds : q >= fileSize' => file'[q] = Blank
        /\ \A q \in PageIds : q \in Remaining \/ q \notin Cached => file'[q] = file[q]
        /\ \A q \in Cached : q \notin Remaining => file'[q] = cache[q].page
        /\ used > fileSize' => used - 1 \in Remaining /\ cache[used - 1].dirty
    BY <2>1, EvictedPages
  <2>4. ASSUME NEW q \in PageIds, q # p PROVE View(q)' = View(q)
    BY <1>0, <2>1, <2>2, <2>3, <2>4 DEF View
  <2>5. ASSUME NEW q \in PageIds PROVE file'[q] \in {file[q], View(q)}
    BY <2>1, <2>3 DEF View
  <2> QED
    BY <1>0, <1>2, <2>1, <2>2, <2>3, <2>4, <2>5 DEF View
<1> QED
  BY <1>1, <1>2

-----------------------------------------------------------------------------
(* Every step preserves the invariant.                                     *)

IndInv == TypeOK /\ ListInv /\ SizeInv /\ PageInv

\* The constants that bound pages and cache are natural numbers.
LEMMA Bounds ==
  /\ MaxPages \in Nat /\ Blank \in Contents
  /\ PageIds = 0 .. MaxPages - 1
BY PageManagerAssumption DEF PageManagerAssumption, PageIds

\* The invariant holds before the first Open.
LEMMA InitInv == Init => IndInv
<1> SUFFICES ASSUME Init PROVE IndInv
  OBVIOUS
<1>1. Cached = {} /\ cache \in [Cached -> Entry]
  BY DEF Init, Cached
<1>2. << >> \in Seq(PageIds) /\ Len(<< >>) = 0
  BY EmptySeq
<1>3. TypeOK
  BY <1>1, <1>2, Bounds DEF Init, TypeOK
<1>4. ListInv
  BY <1>1, <1>2, FS_EmptySet, PageManagerAssumption
  DEF Init, ListInv, Injective, Elements, Prefix, PageManagerAssumption
<1>5. SizeInv /\ PageInv
  BY <1>1, Bounds DEF Init, SizeInv, PageInv, Size, CleanMatchesFile,
     UsedPagesReachFile, CrashKeepsAVersion, View
<1> QED
  BY <1>3, <1>4, <1>5 DEF IndInv

\* read_page keeps the invariant, on a hit and on a miss with an eviction.
LEMMA ReadInv ==
  ASSUME IndInv, NEW p \in PageIds, ReadPage(p)
  PROVE  IndInv'
<1> DEFINE entry == IF p \in Cached THEN cache[p] ELSE [page |-> file[p], dirty |-> FALSE]
<1> USE DEF IndInv
<1>1. entry \in Entry /\ entry.page = View(p) /\ (p \notin Cached => ~entry.dirty)
      /\ View(p) \in Contents
  BY DEF TypeOK, Entry, View
<1>2. LoadIntoCache(p, entry) /\ pc = "idle" /\ p < pageCount /\ reply' = View(p)
      /\ UNCHANGED <<pc, pageCount, durable, durableSize, versions, used, kept>>
  BY DEF ReadPage
<1> HIDE DEF entry
<1>3. /\ lru' \in Seq(PageIds) /\ recency' \in Seq(PageIds)
      /\ Cached' = IF p \in Cached THEN Cached ELSE Remaining \cup {p}
      /\ cache' \in [Cached' -> Entry]
      /\ cache'[p] = entry
      /\ \A q \in Cached' : q # p => q \in Cached /\ cache'[q] = cache[q]
      /\ ListInv'
  BY <1>1, <1>2, LoadList
<1>4. /\ file' \in [PageIds -> Contents]
      /\ fileSize' \in 0 .. MaxPages
      /\ fileSize <= fileSize' /\ fileSize' <= pageCount
      /\ \A q \in PageIds : q >= fileSize' => file'[q] = Blank
      /\ \A q \in PageIds : q \in Cached' \/ q \notin Cached => file'[q] = file[q]
      /\ \A q \in PageIds : file'[q] \in {file[q], View(q)}
      /\ \A q \in PageIds : q # p => View(q)' = View(q)
      /\ View(p)' = entry.page
      /\ used > fileSize' => /\ used - 1 \in Cached'
                             /\ cache[used - 1].dirty
                             /\ used - 1 \in Cached
  BY <1>1, <1>2, LoadPages
<1>5. Cached' \subseteq PageIds
  BY <1>3, Eviction DEF TypeOK
<1>6. TypeOK'
  BY <1>1, <1>2, <1>3, <1>4, <1>5 DEF TypeOK
<1>7. SizeInv'
  BY <1>2, <1>3, <1>4, Bounds DEF SizeInv, TypeOK
<1>8. PageInv'
  <2>1. CleanMatchesFile'
    <3>1. ASSUME NEW q \in Cached', ~cache'[q].dirty
          PROVE  cache'[q].page = file'[q]
      <4>1. q \in PageIds /\ file'[q] = file[q]
        BY <1>4, <1>5
      <4>2. CASE q # p
        BY <1>3, <3>1, <4>1, <4>2 DEF PageInv, CleanMatchesFile
      <4>3. CASE q = p /\ p \in Cached
        BY <1>3, <3>1, <4>1, <4>3 DEF PageInv, CleanMatchesFile, entry
      <4>4. CASE q = p /\ p \notin Cached
        BY <1>3, <3>1, <4>1, <4>4 DEF entry
      <4> QED
        BY <4>2, <4>3, <4>4
    <3> QED
      BY <3>1 DEF CleanMatchesFile
  <2>2. UsedPagesReachFile'
    <3>1. used > fileSize' => cache'[used - 1].dirty
      BY <1>3, <1>4 DEF entry
    <3> QED
      BY <1>2, <1>4, <3>1 DEF UsedPagesReachFile
  <2>3. CrashKeepsAVersion'
    BY <1>1, <1>2, <1>4 DEF PageInv, CrashKeepsAVersion
  <2> QED
    BY <1>2, <1>4, <2>1, <2>2, <2>3 DEF PageInv, Size
<1> QED
  BY <1>3, <1>6, <1>7, <1>8

\* write_page keeps the invariant: the new content is one of its versions.
LEMMA WriteInv ==
  ASSUME IndInv, NEW p \in PageIds, NEW c \in Contents, WritePage(p, c)
  PROVE  IndInv'
<1> DEFINE entry == [page |-> c, dirty |-> TRUE]
<1> USE DEF IndInv
<1>1. entry \in Entry /\ entry.page = c /\ entry.dirty
  BY DEF Entry
<1>2. LoadIntoCache(p, entry) /\ pc = "idle" /\ p < pageCount /\ reply' = "ok"
      /\ versions' = [versions EXCEPT ![p] = @ \cup {c}]
      /\ used' = (IF p < used THEN used ELSE p + 1)
      /\ UNCHANGED <<pc, pageCount, durable, durableSize, kept>>
  BY DEF WritePage
<1> HIDE DEF entry
<1>3. /\ lru' \in Seq(PageIds) /\ recency' \in Seq(PageIds)
      /\ Cached' = IF p \in Cached THEN Cached ELSE Remaining \cup {p}
      /\ cache' \in [Cached' -> Entry]
      /\ cache'[p] = entry
      /\ \A q \in Cached' : q # p => q \in Cached /\ cache'[q] = cache[q]
      /\ ListInv'
  BY <1>1, <1>2, LoadList
<1>4. /\ file' \in [PageIds -> Contents]
      /\ fileSize' \in 0 .. MaxPages
      /\ fileSize <= fileSize' /\ fileSize' <= pageCount
      /\ \A q \in PageIds : q >= fileSize' => file'[q] = Blank
      /\ \A q \in PageIds : q \in Cached' \/ q \notin Cached => file'[q] = file[q]
      /\ \A q \in PageIds : file'[q] \in {file[q], View(q)}
      /\ \A q \in PageIds : q # p => View(q)' = View(q)
      /\ View(p)' = entry.page
      /\ used > fileSize' => /\ used - 1 \in Cached'
                             /\ cache[used - 1].dirty
                             /\ used - 1 \in Cached
  BY <1>1, <1>2, LoadPages
<1>5. Cached' \subseteq PageIds
  BY <1>3, Eviction DEF TypeOK
<1>6. /\ versions' \in [PageIds -> SUBSET Contents]
      /\ used' \in 0 .. MaxPages
      /\ \A q \in PageIds : versions[q] \subseteq versions'[q]
      /\ c \in versions'[p]
      /\ \A q \in PageIds : q # p => versions'[q] = versions[q]
  BY <1>2, Bounds DEF TypeOK
<1>7. TypeOK'
  BY <1>1, <1>2, <1>3, <1>4, <1>5, <1>6 DEF TypeOK
<1>8. SizeInv'
  BY <1>2, <1>3, <1>4, Bounds DEF SizeInv, TypeOK
<1>9. PageInv'
  <2>1. CleanMatchesFile'
    BY <1>1, <1>3, <1>4, <1>5 DEF PageInv, CleanMatchesFile
  <2>2. UsedPagesReachFile'
    <3>1. CASE used' = used
      BY <1>1, <1>2, <1>3, <1>4, <3>1 DEF UsedPagesReachFile
    <3>2. CASE used' = p + 1
      <4>1. used' - 1 = p /\ p \in Cached'
        BY <1>3, <3>2, Bounds
      <4> QED
        BY <1>1, <1>3, <4>1 DEF UsedPagesReachFile
    <3> QED
      BY <1>2, <3>1, <3>2
  <2>3. CrashKeepsAVersion'
    <3>1. ASSUME NEW q \in PageIds
          PROVE  /\ View(q)' \in versions'[q]
                 /\ file'[q] \in versions'[q]
                 /\ durable'[q] \in versions'[q]
      <4>1. View(q) \in versions'[q] /\ file[q] \in versions'[q]
            /\ durable[q] \in versions'[q]
        BY <1>6 DEF PageInv, CrashKeepsAVersion
      <4> QED
        BY <1>1, <1>2, <1>4, <1>6, <4>1
    <3> QED
      BY <3>1 DEF CrashKeepsAVersion
  <2> QED
    BY <1>2, <1>4, <1>6, <2>1, <2>2, <2>3, Bounds DEF PageInv, Size, TypeOK
<1> QED
  BY <1>3, <1>7, <1>8, <1>9

\* allocate_page keeps the invariant: the new last page is dirty in the cache.
LEMMA AllocateInv ==
  ASSUME IndInv, AllocatePage
  PROVE  IndInv'
<1> USE DEF IndInv
<1> DEFINE entry == [page |-> Blank, dirty |-> TRUE]
<1>0. PICK p \in PageIds : p = pageCount
  BY Bounds DEF AllocatePage, TypeOK
<1>1. entry \in Entry /\ entry.page = Blank /\ entry.dirty
  BY Bounds DEF Entry
<1>2. /\ p \in PageIds /\ p \notin Cached /\ Insert(p, entry)
      /\ pc = "idle" /\ p + 1 \in 0 .. MaxPages
      /\ pageCount' = p + 1 /\ used' = p + 1 /\ reply' = "ok"
      /\ UNCHANGED <<pc, durable, durableSize, versions, kept>>
  BY <1>0, Bounds DEF AllocatePage, TypeOK, SizeInv
<1>3. LoadIntoCache(p, entry)
  BY <1>2 DEF LoadIntoCache, Touch
<1> HIDE DEF entry
<1>4. /\ lru' \in Seq(PageIds) /\ recency' \in Seq(PageIds)
      /\ Cached' = IF p \in Cached THEN Cached ELSE Remaining \cup {p}
      /\ cache' \in [Cached' -> Entry]
      /\ cache'[p] = entry
      /\ \A q \in Cached' : q # p => q \in Cached /\ cache'[q] = cache[q]
      /\ ListInv'
  BY <1>1, <1>2, <1>3, LoadList
<1>5. /\ file' \in [PageIds -> Contents]
      /\ fileSize' \in 0 .. MaxPages
      /\ fileSize <= fileSize' /\ fileSize' <= pageCount
      /\ \A q \in PageIds : q >= fileSize' => file'[q] = Blank
      /\ \A q \in PageIds : q \in Cached' \/ q \notin Cached => file'[q] = file[q]
      /\ \A q \in PageIds : file'[q] \in {file[q], View(q)}
      /\ \A q \in PageIds : q # p => View(q)' = View(q)
      /\ View(p)' = entry.page
  BY <1>1, <1>2, <1>3, LoadPages
<1>6. Cached' \subseteq PageIds
  BY <1>2, <1>4, Eviction DEF TypeOK
<1>7. TypeOK'
  BY <1>1, <1>2, <1>4, <1>5, <1>6 DEF TypeOK
<1>8. SizeInv'
  BY <1>0, <1>2, <1>4, <1>5, Bounds DEF SizeInv, TypeOK
<1>9. PageInv'
  <2>1. CleanMatchesFile'
    BY <1>1, <1>4, <1>5, <1>6 DEF PageInv, CleanMatchesFile
  <2>2. UsedPagesReachFile'
    <3>1. used' - 1 = p /\ p \in Cached'
      BY <1>0, <1>2, <1>4, Bounds
    <3> QED
      BY <1>1, <1>4, <3>1 DEF UsedPagesReachFile
  <2>3. CrashKeepsAVersion'
    <3>1. Blank \in versions[p]
      BY <1>0, <1>2, Bounds DEF PageInv, Size, TypeOK
    <3> QED
      BY <1>1, <1>2, <1>5, <3>1 DEF PageInv, CrashKeepsAVersion
  <2> QED
    BY <1>0, <1>2, <1>5, <2>1, <2>2, <2>3, Bounds DEF PageInv, Size, TypeOK
<1> QED
  BY <1>4, <1>7, <1>8, <1>9

\* ListInv speaks of the list, the map and the order of use only.
LEMMA SameList ==
  ASSUME ListInv, UNCHANGED <<lru, recency>>, Cached' = Cached
  PROVE  ListInv'
BY DEF ListInv

\* An exception in the middle of load_into_cache leaves one entry fewer.
LEMMA LoadFailsInv ==
  ASSUME IndInv, NEW p \in PageIds, LoadFails(p)
  PROVE  IndInv'
<1> USE DEF IndInv
<1>1. /\ pc = "idle" /\ reply' = "error"
      /\ UNCHANGED <<pc, pageCount, durable, durableSize, versions, used, kept, recency>>
  BY DEF LoadFails, history
<1>2. CASE UNCHANGED <<cache, lru, file, fileSize>>
  <2>1. ListInv'
    BY <1>1, <1>2, SameList DEF Cached
  <2>2. TypeOK' /\ SizeInv'
    BY <1>1, <1>2 DEF TypeOK, SizeInv, Cached
  <2>3. PageInv'
    BY <1>1, <1>2 DEF PageInv, Size, Cached, CleanMatchesFile, UsedPagesReachFile,
       CrashKeepsAVersion, View
  <2> QED
    BY <2>1, <2>2, <2>3
<1>3. CASE /\ EvictOneIfFull
           /\ cache' = [q \in Remaining |-> cache[q]]
           /\ lru' = LruRest
  <2>1. /\ Remaining \subseteq Cached /\ Cached \subseteq PageIds
        /\ LruRest \in Seq(PageIds)
        /\ Injective(LruRest)
        /\ Elements(LruRest) = Remaining
        /\ Len(LruRest) = Cardinality(Remaining)
        /\ Cardinality(Remaining) < CacheSize
        /\ Prefix(LruRest, recency)
    BY Eviction DEF TypeOK
  <2>2. /\ file' \in [PageIds -> Contents]
        /\ fileSize' \in 0 .. MaxPages
        /\ fileSize <= fileSize' /\ fileSize' <= pageCount
        /\ \A q \in PageIds : q >= fileSize' => file'[q] = Blank
        /\ \A q \in PageIds : q \in Remaining \/ q \notin Cached => file'[q] = file[q]
        /\ \A q \in Cached : q \notin Remaining => file'[q] = cache[q].page
        /\ used > fileSize' => used - 1 \in Remaining /\ cache[used - 1].dirty
    BY <1>1, <1>3, EvictedPages
  <2>3. Cached' = Remaining /\ \A q \in Remaining : cache'[q] = cache[q]
    BY <1>3 DEF Cached
  <2>4. cache' \in [Remaining -> Entry]
    BY <1>3, <2>1 DEF TypeOK
  <2>5. ListInv'
    <3>1. Cardinality(Remaining) <= CacheSize
      BY <2>1, CachedFinite, FS_Subset, FS_CardinalityType, PageManagerAssumption
      DEF PageManagerAssumption
    <3> QED
      BY <1>1, <1>3, <2>1, <2>3, <3>1 DEF ListInv
  <2>6. TypeOK'
    BY <1>1, <1>3, <2>1, <2>2, <2>3, <2>4 DEF TypeOK
  <2>7. SizeInv'
    BY <1>1, <2>1, <2>2, <2>3, Bounds DEF SizeInv, TypeOK
  <2>8. ASSUME NEW q \in PageIds
        PROVE  View(q)' = View(q) /\ file'[q] \in {file[q], View(q)}
    BY <2>1, <2>2, <2>3 DEF View
  <2>9. PageInv'
    <3>1. CleanMatchesFile'
      BY <2>1, <2>2, <2>3 DEF PageInv, CleanMatchesFile
    <3>2. UsedPagesReachFile'
      BY <1>1, <2>2, <2>3 DEF UsedPagesReachFile
    <3>3. CrashKeepsAVersion'
      BY <1>1, <2>8 DEF PageInv, CrashKeepsAVersion
    <3> QED
      BY <1>1, <2>2, <3>1, <3>2, <3>3 DEF PageInv, Size
  <2> QED
    BY <2>5, <2>6, <2>7, <2>9
<1> QED
  BY <1>2, <1>3 DEF LoadFails

\* allocate_page that throws keeps the invariant: the number it used up is
\* not counted as handed out.
LEMMA AllocateFailsInv ==
  ASSUME IndInv, AllocateFails
  PROVE  IndInv'
<1> USE DEF IndInv, history, disk
<1>1. ListInv'
  BY SameList DEF AllocateFails, Cached
<1>0. /\ pc = "idle" /\ pageCount \in Nat /\ pageCount < MaxPages
      /\ pageCount' = pageCount + 1 /\ reply' = "error" /\ Cached' = Cached
      /\ UNCHANGED <<pc, cache, lru, disk, history>>
  BY DEF AllocateFails, Cached, TypeOK
<1>2. TypeOK'
  BY <1>0, Bounds DEF TypeOK
<1>4. SizeInv'
  BY <1>0, Bounds DEF TypeOK, SizeInv
<1>3. PageInv'
  <2>1. \A q \in PageIds : q >= Size' => q >= Size
    BY <1>0, Bounds DEF Size
  <2>2. CleanMatchesFile' /\ UsedPagesReachFile' /\ CrashKeepsAVersion'
    BY <1>0 DEF PageInv, CleanMatchesFile, UsedPagesReachFile, CrashKeepsAVersion, View
  <2> QED
    BY <1>0, <2>1, <2>2 DEF PageInv
<1> QED
  BY <1>1, <1>2, <1>3, <1>4

\* Steps that change only pc between two running states, or the reply.
LEMMA QuietInv ==
  ASSUME IndInv,
         UNCHANGED <<pageCount, cache, lru, disk, history>>,
         pc' = pc \/ (pc # "down" /\ pc' \in {"idle", "sync", "close", "closing"}),
         reply' = reply \/ reply' \in {"none", "ok", "error"}
  PROVE  IndInv'
<1> USE DEF IndInv, history, disk
<1>1. ListInv'
  BY SameList DEF Cached
<1>2. TypeOK' /\ SizeInv'
  BY DEF TypeOK, SizeInv, Cached
<1>3. PageInv'
  BY DEF TypeOK, PageInv, Size, Cached, CleanMatchesFile,
     UsedPagesReachFile, CrashKeepsAVersion, View
<1> QED
  BY <1>1, <1>2, <1>3

\* The flush loop makes one more entry clean, and its page of the file equal.
LEMMA SyncFlushInv ==
  ASSUME IndInv, NEW p \in PageIds, SyncFlush(p)
  PROVE  IndInv'
<1> USE DEF IndInv
<1>1. /\ pc \in {"sync", "close"} /\ p \in Cached /\ p < pageCount
      /\ file' = [file EXCEPT ![p] = cache[p].page]
      /\ fileSize' = Extended(p)
      /\ cache' = [cache EXCEPT ![p].dirty = FALSE]
      /\ UNCHANGED <<pc, pageCount, lru, durable, durableSize, versions, used, kept,
                     recency, reply>>
  BY DEF SyncFlush, FlushEntry, SizeInv, history
<1>2. /\ Cached' = Cached /\ cache' \in [Cached -> Entry]
      /\ ~cache'[p].dirty /\ cache'[p].page = cache[p].page
      /\ \A q \in Cached : q # p => cache'[q] = cache[q]
  BY <1>1 DEF TypeOK, Cached, Entry
<1>3. /\ file' \in [PageIds -> Contents] /\ file'[p] = View(p)
      /\ \A q \in PageIds : q # p => file'[q] = file[q]
  BY <1>1 DEF TypeOK, Entry, View
<1>4. /\ fileSize' \in 0 .. MaxPages /\ fileSize <= fileSize' /\ p < fileSize'
      /\ fileSize' <= pageCount
  BY <1>1, Bounds DEF Extended, TypeOK, SizeInv
<1>5. ListInv'
  BY <1>1, <1>2, SameList
<1>6. TypeOK' /\ SizeInv'
  BY <1>1, <1>2, <1>3, <1>4, Bounds DEF TypeOK, SizeInv
<1>7. PageInv'
  <2>1. CleanMatchesFile'
    BY <1>1, <1>2, <1>3 DEF PageInv, CleanMatchesFile, View, TypeOK
  <2>2. UsedPagesReachFile'
    <3>1. used > fileSize' => used > fileSize /\ used - 1 # p
      BY <1>4, Bounds DEF TypeOK
    <3> QED
      BY <1>1, <1>2, <3>1 DEF PageInv, UsedPagesReachFile
  <2>3. ASSUME NEW q \in PageIds PROVE View(q)' = View(q)
    BY <1>2, <1>3 DEF View
  <2>4. CrashKeepsAVersion'
    BY <1>1, <1>3, <2>3 DEF PageInv, CrashKeepsAVersion
  <2>5. \A q \in PageIds : q >= fileSize' => file'[q] = Blank
    BY <1>3, <1>4, Bounds DEF PageInv, TypeOK
  <2> QED
    BY <1>1, <2>1, <2>2, <2>4, <2>5 DEF PageInv, Size
<1> QED
  BY <1>5, <1>6, <1>7

\* When nothing is dirty the file is what every reader sees, so fsync puts
\* exactly that on the disk.
LEMMA SyncDoneInv ==
  ASSUME IndInv, SyncDone
  PROVE  IndInv'
<1> USE DEF IndInv
<1>1. /\ pc \in {"sync", "close"} /\ pc' \in {"idle", "closing"}
      /\ reply' \in {"ok", "none"}
      /\ \A q \in Cached : ~cache[q].dirty
      /\ durable' = file /\ durableSize' = fileSize
      /\ versions' = [q \in PageIds |-> {View(q)}]
      /\ kept' = used
      /\ UNCHANGED <<pageCount, cache, lru, file, fileSize, used, recency>>
  BY DEF SyncDone
<1>2. Cached' = Cached
  BY <1>1 DEF Cached
<1>3. ASSUME NEW q \in PageIds
      PROVE  View(q) = file[q] /\ View(q)' = View(q) /\ View(q) \in Contents
  BY <1>1, <1>2 DEF View, PageInv, CleanMatchesFile, TypeOK
<1>4. used <= fileSize
  BY <1>1, Bounds DEF PageInv, UsedPagesReachFile, TypeOK
<1>5. ListInv'
  BY <1>1, <1>2, SameList
<1>6. TypeOK'
  BY <1>1, <1>2, <1>3 DEF TypeOK
<1>7. SizeInv'
  BY <1>1, <1>2, <1>4 DEF TypeOK, SizeInv
<1>8. PageInv'
  <2>1. CleanMatchesFile'
    BY <1>1, <1>2 DEF PageInv, CleanMatchesFile
  <2>2. UsedPagesReachFile'
    BY <1>1, <1>4, Bounds DEF UsedPagesReachFile, TypeOK
  <2>3. CrashKeepsAVersion'
    BY <1>1, <1>3 DEF CrashKeepsAVersion
  <2>4. \A q \in PageIds : q >= pageCount => View(q) = Blank
    BY <1>1, <1>3, Bounds DEF PageInv, SizeInv, TypeOK
  <2> QED
    BY <1>1, <2>1, <2>2, <2>3, <2>4 DEF PageInv, Size
<1> QED
  BY <1>5, <1>6, <1>7, <1>8

\* A dead process leaves an empty cache, and the file or the disk as it was.
LEMMA ForgetInv ==
  ASSUME IndInv, UNCHANGED <<durable, durableSize, kept>>,
         \/ Forget(fileSize) /\ UNCHANGED <<file, fileSize>>
         \/ Forget(durableSize) /\ file' = durable /\ fileSize' = durableSize
  PROVE  IndInv'
<1> USE DEF IndInv
<1>1. /\ pc' = "down" /\ pageCount' = 0 /\ cache' = << >> /\ lru' = << >>
      /\ recency' = << >> /\ reply' = "none" /\ used' = fileSize'
      /\ versions' = [q \in PageIds |-> IF q < fileSize' THEN versions[q] ELSE {Blank}]
  BY DEF Forget
<1>2. /\ file' \in [PageIds -> Contents] /\ fileSize' \in 0 .. MaxPages
      /\ durableSize <= fileSize'
      /\ \A q \in PageIds : q >= fileSize' => file'[q] = Blank
      /\ \A q \in PageIds : file'[q] \in versions[q] /\ durable[q] \in versions[q]
      /\ \A q \in PageIds : q >= fileSize' => durable[q] = Blank
  BY Bounds DEF TypeOK, SizeInv, PageInv, CrashKeepsAVersion
<1>3. Cached' = {} /\ cache' \in [Cached' -> Entry]
  BY <1>1 DEF Cached
<1>4. << >> \in Seq(PageIds) /\ Len(<< >>) = 0
  BY EmptySeq
<1>5. ListInv'
  BY <1>1, <1>3, <1>4, FS_EmptySet, PageManagerAssumption
  DEF ListInv, Injective, Elements, Prefix, PageManagerAssumption
<1>6. TypeOK'
  BY <1>1, <1>2, <1>3, <1>4, Bounds DEF TypeOK
<1>7. SizeInv'
  BY <1>1, <1>2, <1>3, Bounds DEF SizeInv, TypeOK
<1>8. PageInv'
  <2>1. CleanMatchesFile' /\ UsedPagesReachFile'
    BY <1>1, <1>3 DEF CleanMatchesFile, UsedPagesReachFile
  <2>2. \A q \in PageIds : q >= fileSize' => versions'[q] = {Blank}
    BY <1>1, <1>2, Bounds
  <2>3. ASSUME NEW q \in PageIds
        PROVE  View(q)' \in versions'[q] /\ file'[q] \in versions'[q]
               /\ durable'[q] \in versions'[q]
    <3>1. View(q)' = file'[q]
      BY <1>3 DEF View
    <3>2. CASE q < fileSize'
      BY <1>1, <1>2, <3>1, <3>2
    <3>3. CASE q >= fileSize'
      BY <1>2, <2>2, <3>1, <3>3
    <3> QED
      BY <1>2, <3>2, <3>3, Bounds
  <2>4. CrashKeepsAVersion'
    BY <2>3 DEF CrashKeepsAVersion
  <2>5. Size' = fileSize'
    BY <1>1 DEF Size
  <2>6. \A q \in PageIds : q >= durableSize => durable[q] = Blank
    BY DEF PageInv
  <2> QED
    BY <1>2, <2>1, <2>2, <2>4, <2>5, <2>6 DEF PageInv
<1> QED
  BY <1>5, <1>6, <1>7, <1>8

\* The constructor keeps the invariant.
LEMMA OpenInv ==
  ASSUME IndInv, Open
  PROVE  IndInv'
<1> USE DEF IndInv, history, disk
<1>1. Cached = {} /\ Cached' = Cached
  BY DEF Open, SizeInv, Cached
<1>2. ListInv'
  BY <1>1, SameList DEF Open
<1>3. TypeOK' /\ SizeInv'
  BY <1>1, Bounds DEF Open, TypeOK, SizeInv
<1>4. PageInv'
  BY <1>1, Bounds DEF Open, TypeOK, SizeInv, PageInv, Size, CleanMatchesFile,
     UsedPagesReachFile, CrashKeepsAVersion, View
<1> QED
  BY <1>2, <1>3, <1>4

\* The kernel may write any page of the file back to the disk.
LEMMA WritebackInv ==
  ASSUME IndInv, NEW p \in PageIds, Writeback(p)
  PROVE  IndInv'
<1> USE DEF IndInv, history, process
<1>1. /\ durable' \in [PageIds -> Contents]
      /\ \A q \in PageIds : durable'[q] \in {file[q], durable[q]}
      /\ \A q \in PageIds : q # p => durable'[q] = durable[q]
      /\ durableSize' \in durableSize .. fileSize /\ p < durableSize'
      /\ UNCHANGED <<pc, pageCount, cache, lru, file, fileSize, versions, used, kept,
                     recency, reply>>
      /\ Cached' = Cached
  BY Bounds DEF Writeback, TypeOK, SizeInv, Cached
<1>2. ListInv'
  BY <1>1, SameList
<1>3. TypeOK' /\ SizeInv'
  BY <1>1, Bounds DEF TypeOK, SizeInv
<1>4. PageInv'
  BY <1>1, Bounds DEF TypeOK, PageInv, Size, CleanMatchesFile, UsedPagesReachFile,
     CrashKeepsAVersion, View
<1> QED
  BY <1>2, <1>3, <1>4

\* Every step keeps the invariant.
LEMMA StepInv == IndInv /\ [Next]_vars => IndInv'
<1> SUFFICES ASSUME IndInv, [Next]_vars PROVE IndInv'
  OBVIOUS
<1>1. CASE \E p \in PageIds : ReadPage(p)
  BY <1>1, ReadInv
<1>2. CASE \E p \in PageIds, c \in Contents : WritePage(p, c)
  BY <1>2, WriteInv
<1>3. CASE \E p \in PageIds : OutOfRange(p)
  BY <1>3, QuietInv DEF OutOfRange, process
<1>4. CASE \E p \in PageIds : LoadFails(p)
  BY <1>4, LoadFailsInv
<1>5. CASE AllocatePage
  BY <1>5, AllocateInv
<1>6. CASE AllocateFails
  BY <1>6, AllocateFailsInv
<1>7. CASE SyncStart
  BY <1>7, QuietInv DEF SyncStart
<1>8. CASE \E p \in PageIds : SyncFlush(p)
  BY <1>8, SyncFlushInv
<1>9. CASE SyncDone
  BY <1>9, SyncDoneInv
<1>10. CASE SyncFails
  BY <1>10, QuietInv DEF SyncFails
<1>11. CASE Close \/ Kill \/ PowerLoss
  BY <1>11, ForgetInv DEF Close, Kill, PowerLoss, disk
<1>12. CASE Open
  BY <1>12, OpenInv
<1>13. CASE \E p \in PageIds : Writeback(p)
  BY <1>13, WritebackInv
<1>14. CASE UNCHANGED vars
  BY <1>14, QuietInv DEF vars, process
<1> QED
  BY <1>1, <1>2, <1>3, <1>4, <1>5, <1>6, <1>7, <1>8, <1>9, <1>10, <1>11, <1>12,
     <1>13, <1>14 DEF Next

\* The inductive invariant holds in every reachable state, for every cache
\* size, file size and set of contents.
THEOREM Invariance == Spec => []IndInv
<1>1. Init => IndInv
  BY InitInv
<1>2. IndInv /\ [Next]_vars => IndInv'
  BY StepInv
<1> QED
  BY <1>1, <1>2, PTL DEF Spec

-----------------------------------------------------------------------------
(* The invariants the runs check.                                          *)

\* Every variable of the page manager always has its type.
THEOREM TypeCorrect == Spec => []TypeOK
<1>1. IndInv => TypeOK
  BY DEF IndInv
<1> QED
  BY <1>1, Invariance, PTL

\* The LRU list and the page map of the cache never disagree.
THEOREM ListAndMapAgree == Spec => []LruMatchesCache
<1>1. IndInv => LruMatchesCache
  BY DEF IndInv, ListInv, LruMatchesCache, Elements
<1> QED
  BY <1>1, Invariance, PTL

\* evict_one_if_full always takes the page used longest ago.
THEOREM EvictionOrder == Spec => []EvictsLeastRecent
<1>1. IndInv => EvictsLeastRecent
  BY DEF IndInv, ListInv, EvictsLeastRecent, Prefix
<1> QED
  BY <1>1, Invariance, PTL

\* Dropping a clean page loses nothing.
THEOREM CleanPagesAreOnFile == Spec => []CleanMatchesFile
<1>1. IndInv => CleanMatchesFile
  BY DEF IndInv, PageInv
<1> QED
  BY <1>1, Invariance, PTL

\* No page given out is left beyond the end of the file by a completed sync.
THEOREM PagesReachFile == Spec => []UsedPagesReachFile
<1>1. IndInv => UsedPagesReachFile
  BY DEF IndInv, PageInv
<1> QED
  BY <1>1, Invariance, PTL

\* After any crash every page is one of its versions since the last sync.
THEOREM CrashSafety == Spec => []CrashKeepsAVersion
<1>1. IndInv => CrashKeepsAVersion
  BY DEF IndInv, PageInv
<1> QED
  BY <1>1, Invariance, PTL

\* No crash shortens the file below what was synced.
THEOREM SizeSafety == Spec => []SyncedSizeSurvives
<1>1. IndInv => SyncedSizeSurvives
  BY DEF IndInv, SizeInv, SyncedSizeSurvives
<1> QED
  BY <1>1, Invariance, PTL

-----------------------------------------------------------------------------
(* Refinement: every step is a step of PageStore or changes nothing there. *)

\* The array of pages that PageStore sees is typed.
LEMMA StoreProperties ==
  /\ \A q \in PageIds : Store[q] = View(q)
  /\ (\A q \in PageIds : View(q)' = View(q)) => Store' = Store
  /\ P!PageIds = PageIds
BY DEF Store, P!PageIds, PageIds

\* A page manager that was never opened is an empty PageStore.
LEMMA InitRefines == Init => P!Init
<1> SUFFICES ASSUME Init PROVE P!Init
  OBVIOUS
<1>1. Store = [q \in PageIds |-> Blank]
  BY DEF Init, Store, View, Cached
<1> QED
  BY <1>1, StoreProperties DEF Init, P!Init, Size

\* read_page is a Read: eviction and loading change no page a reader can see.
LEMMA ReadRefines ==
  ASSUME IndInv, NEW p \in PageIds, ReadPage(p)
  PROVE  P!Read(p)
<1> DEFINE entry == IF p \in Cached THEN cache[p] ELSE [page |-> file[p], dirty |-> FALSE]
<1>1. entry \in Entry /\ entry.page = View(p)
  BY DEF IndInv, TypeOK, Entry, View
<1>2. LoadIntoCache(p, entry) /\ pc = "idle" /\ p < pageCount /\ reply' = View(p)
      /\ UNCHANGED <<pc, pageCount, versions, used, kept>>
  BY DEF ReadPage
<1> HIDE DEF entry
<1>3. \A q \in PageIds : View(q)' = View(q)
  BY <1>1, <1>2, LoadPages DEF IndInv
<1> QED
  BY <1>2, <1>3, StoreProperties DEF P!Read, Size

\* write_page is a Write of that page alone.
LEMMA WriteRefines ==
  ASSUME IndInv, NEW p \in PageIds, NEW c \in Contents, WritePage(p, c)
  PROVE  P!Write(p, c)
<1> DEFINE entry == [page |-> c, dirty |-> TRUE]
<1>1. entry \in Entry /\ entry.page = c
  BY DEF Entry
<1>2. LoadIntoCache(p, entry) /\ pc = "idle" /\ p < pageCount /\ reply' = "ok"
      /\ versions' = [versions EXCEPT ![p] = @ \cup {c}]
      /\ used' = (IF p < used THEN used ELSE p + 1)
      /\ UNCHANGED <<pc, pageCount, kept>>
  BY DEF WritePage
<1> HIDE DEF entry
<1>3. View(p)' = c /\ \A q \in PageIds : q # p => View(q)' = View(q)
  BY <1>1, <1>2, LoadPages DEF IndInv
<1>4. Store' = [Store EXCEPT ![p] = c]
  BY <1>3 DEF Store
<1> QED
  BY <1>2, <1>4 DEF P!Write, Size

\* allocate_page is an Allocate: what lies past the end reads as zeros.
LEMMA AllocateRefines ==
  ASSUME IndInv, AllocatePage
  PROVE  P!Allocate
<1> DEFINE entry == [page |-> Blank, dirty |-> TRUE]
<1>1. entry \in Entry /\ entry.page = Blank
  BY Bounds DEF Entry
<1>2. PICK p \in PageIds : p = pageCount
  BY Bounds DEF AllocatePage, IndInv, TypeOK
<1>3. /\ p \notin Cached /\ Insert(p, entry) /\ pc = "idle" /\ pageCount < MaxPages
      /\ pageCount' = pageCount + 1 /\ used' = pageCount + 1 /\ reply' = "ok"
      /\ UNCHANGED <<pc, versions, kept>>
  BY <1>2, Bounds DEF AllocatePage, IndInv, TypeOK, SizeInv
<1>4. LoadIntoCache(p, entry)
  BY <1>3 DEF LoadIntoCache, Touch
<1> HIDE DEF entry
<1>5. View(p)' = Blank /\ \A q \in PageIds : q # p => View(q)' = View(q)
  BY <1>1, <1>3, <1>4, LoadPages DEF IndInv
<1>6. View(p) = Blank
  BY <1>2, <1>3, Bounds DEF View, IndInv, TypeOK, SizeInv, PageInv
<1>7. Store' = Store
  BY <1>5, <1>6, StoreProperties
<1> QED
  BY <1>3, <1>7 DEF P!Allocate, Size

\* A load that throws is a call that fails: only the cache has changed.
LEMMA LoadFailsRefines ==
  ASSUME IndInv, NEW p \in PageIds, LoadFails(p)
  PROVE  P!Fails
<1>1. /\ pc = "idle" /\ reply' = "error"
      /\ UNCHANGED <<pc, pageCount, versions, used, kept>>
  BY DEF LoadFails, history
<1>2. CASE UNCHANGED <<cache, file>>
  <2>1. Store' = Store
    BY <1>2 DEF Store, View, Cached
  <2> QED
    BY <1>1, <2>1 DEF P!Fails, Size
<1>3. CASE EvictOneIfFull /\ cache' = [q \in Remaining |-> cache[q]]
  <2>1. /\ Remaining \subseteq Cached
        /\ \A q \in PageIds : q \in Remaining \/ q \notin Cached => file'[q] = file[q]
        /\ \A q \in Cached : q \notin Remaining => file'[q] = cache[q].page
    BY <1>1, <1>3, Eviction, EvictedPages DEF IndInv
  <2>2. Cached' = Remaining /\ \A q \in Remaining : cache'[q] = cache[q]
    BY <1>3 DEF Cached
  <2>3. \A q \in PageIds : View(q)' = View(q)
    BY <2>1, <2>2 DEF View
  <2> QED
    BY <1>1, <2>3, StoreProperties DEF P!Fails, Size
<1> QED
  BY <1>2, <1>3 DEF LoadFails

\* The end of sync() is where PageStore is synced.
LEMMA SyncDoneRefines ==
  ASSUME IndInv, SyncDone
  PROVE  \E answer \in {"none", "ok"} : P!Synced(answer)
<1>1. /\ pc \in {"sync", "close"} /\ pc' \in {"idle", "closing"}
      /\ versions' = [q \in PageIds |-> {View(q)}]
      /\ reply' \in {"none", "ok"}
      /\ kept' = used
      /\ UNCHANGED <<pageCount, cache, file, used>>
  BY DEF SyncDone
<1>2. Store' = Store
  BY <1>1 DEF Store, View, Cached
<1>3. versions' = [q \in P!PageIds |-> {Store[q]}]
  BY <1>1, StoreProperties
<1> QED
  BY <1>1, <1>2, <1>3 DEF P!Synced, Size

\* A death of the process or of the machine is a crash of the page array.
LEMMA ForgetRefines ==
  ASSUME IndInv, IndInv', UNCHANGED kept,
         \/ Forget(fileSize) /\ UNCHANGED <<file, fileSize>>
         \/ Forget(durableSize) /\ file' = durable /\ fileSize' = durableSize
  PROVE  P!Crash
<1>1. /\ pc' = "down" /\ cache' = << >> /\ reply' = "none" /\ used' = fileSize'
      /\ versions' = [q \in PageIds |-> IF q < fileSize' THEN versions[q] ELSE {Blank}]
  BY DEF Forget
<1>2. fileSize' \in kept .. Size
  <2>1. fileSize' \in {fileSize, durableSize}
    OBVIOUS
  <2>2. kept <= durableSize /\ durableSize <= fileSize /\ fileSize <= Size
    BY DEF IndInv, TypeOK, SizeInv, Size
  <2>3. kept \in Nat /\ durableSize \in Nat /\ fileSize \in Nat /\ Size \in Nat
    BY Bounds DEF IndInv, TypeOK, Size
  <2> QED
    BY <2>1, <2>2, <2>3
<1>3. ASSUME NEW q \in PageIds
      PROVE  /\ Store'[q] = file'[q] /\ file'[q] \in Contents
             /\ q < fileSize' => Store'[q] \in versions[q]
             /\ ~(q < fileSize') => Store'[q] = Blank
  <2>1. Store'[q] = file'[q]
    BY <1>1 DEF Store, View, Cached
  <2>2. file'[q] \in versions[q] /\ file'[q] \in Contents
    BY DEF IndInv, TypeOK, PageInv, CrashKeepsAVersion
  <2>3. ~(q < fileSize') => file'[q] = Blank
    BY Bounds DEF IndInv, TypeOK, PageInv
  <2> QED
    BY <2>1, <2>2, <2>3
<1>4. Store' \in [PageIds -> Contents]
  BY <1>3 DEF Store
<1>5. Size' = fileSize'
  BY <1>1 DEF Size
<1> QED
  BY <1>1, <1>2, <1>3, <1>4, <1>5, StoreProperties DEF P!Crash

\* The turns of sync()'s loop, opening the file and write-back are invisible.
LEMMA InternalRefines ==
  ASSUME IndInv,
         \/ \E p \in PageIds : SyncFlush(p)
         \/ Open
         \/ \E p \in PageIds : Writeback(p)
         \/ UNCHANGED vars
  PROVE  UNCHANGED P!vars
<1> USE DEF P!vars, history, disk, process
<1>1. ASSUME NEW p \in PageIds, SyncFlush(p) PROVE UNCHANGED P!vars
  <2>1. /\ p \in Cached /\ pc # "down"
        /\ file' = [file EXCEPT ![p] = cache[p].page]
        /\ cache' = [cache EXCEPT ![p].dirty = FALSE]
        /\ UNCHANGED <<pc, pageCount, versions, used, kept, reply>>
    BY <1>1 DEF SyncFlush, FlushEntry
  <2>2. Cached' = Cached /\ \A q \in Cached : cache'[q].page = cache[q].page
    BY <2>1 DEF Cached, IndInv, TypeOK, Entry
  <2>3. \A q \in PageIds : View(q)' = View(q)
    BY <2>1, <2>2 DEF View, IndInv, TypeOK
  <2> QED
    BY <2>1, <2>3, StoreProperties DEF Size
<1>2. CASE Open
  <2>1. Store' = Store
    BY <1>2 DEF Open, Store, View, Cached
  <2> QED
    BY <1>2, <2>1 DEF Open, Size
<1>3. ASSUME NEW p \in PageIds, Writeback(p) PROVE UNCHANGED P!vars
  <2>1. Store' = Store
    BY <1>3 DEF Writeback, Store, View, Cached
  <2> QED
    BY <1>3, <2>1 DEF Writeback, Size
<1>4. CASE UNCHANGED vars
  <2>1. Store' = Store
    BY <1>4 DEF vars, Store, View, Cached
  <2> QED
    BY <1>4, <2>1 DEF vars, Size
<1> QED
  BY <1>1, <1>2, <1>3, <1>4

\* Every step is a step of PageStore or leaves it as it is.
LEMMA StepRefines ==
  ASSUME IndInv, IndInv', [Next]_vars
  PROVE  [P!Next]_(P!vars)
<1>1. ASSUME NEW p \in PageIds, ReadPage(p) PROVE P!Next
  BY <1>1, ReadRefines, StoreProperties DEF P!Next
<1>2. ASSUME NEW p \in PageIds, NEW c \in Contents, WritePage(p, c) PROVE P!Next
  BY <1>2, WriteRefines, StoreProperties DEF P!Next
<1>3. ASSUME NEW p \in PageIds, OutOfRange(p) PROVE P!Fails
  <2>1. Store' = Store
    BY <1>3 DEF OutOfRange, process, disk, Store, View, Cached
  <2> QED
    BY <1>3, <2>1 DEF OutOfRange, process, history, P!Fails, Size
<1>4. ASSUME NEW p \in PageIds, LoadFails(p) PROVE P!Fails
  BY <1>4, LoadFailsRefines
<1>5. CASE AllocatePage
  BY <1>5, AllocateRefines DEF P!Next
<1>6. CASE AllocateFails
  <2>1. Store' = Store
    BY <1>6 DEF AllocateFails, disk, Store, View, Cached
  <2> QED
    BY <1>6, <2>1 DEF AllocateFails, history, P!AllocateFails, P!Next, Size
<1>7. CASE SyncDone
  BY <1>7, SyncDoneRefines DEF P!Next
<1>8. CASE SyncFails
  <2>1. Store' = Store
    BY <1>8 DEF SyncFails, disk, Store, View, Cached
  <2>2. UNCHANGED <<Store, Size, used, kept, versions>>
    BY <1>8, <2>1 DEF SyncFails, history, Size
  <2>3. reply' = "error" \/ reply' = reply
    BY <1>8 DEF SyncFails
  <2> QED
    BY <2>2, <2>3 DEF P!Fails, P!Next, P!vars
<1>9. CASE SyncStart
  <2>1. Store' = Store
    BY <1>9 DEF SyncStart, disk, Store, View, Cached
  <2>2. P!Call
    BY <1>9, <2>1 DEF SyncStart, history, P!Call, Size
  <2> QED
    BY <2>2 DEF P!Next
<1>10. CASE Close \/ Kill \/ PowerLoss
  BY <1>10, ForgetRefines DEF Close, Kill, PowerLoss, disk, P!Next
<1>11. CASE \/ \E p \in PageIds : SyncFlush(p)
            \/ Open
            \/ \E p \in PageIds : Writeback(p)
            \/ UNCHANGED vars
  BY <1>11, InternalRefines
<1> QED
  BY <1>1, <1>2, <1>3, <1>4, <1>5, <1>6, <1>7, <1>8, <1>9, <1>10, <1>11 DEF Next, P!Next

\* The page manager, with its cache, its failures and its crashes, is a page
\* array that falls back at most to its last completed sync.
THEOREM Refinement == Spec => ImplementsPageStore
<1>1. Init => P!Init
  BY InitRefines
<1>2. IndInv /\ IndInv' /\ [Next]_vars => [P!Next]_(P!vars)
  BY StepRefines
<1>3. Spec => []IndInv
  BY Invariance
<1> QED
  BY <1>1, <1>2, <1>3, PTL DEF Spec, ImplementsPageStore, P!Spec
=============================================================================
