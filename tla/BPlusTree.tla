------------------------------ MODULE BPlusTree ------------------------------
(***************************************************************************)
(* demo-db/src/btree.cpp: the B+ tree over the pages of a PageManager.     *)
(* Page 0 holds the number of the root; every other page holds a node.  A  *)
(* table's tree is filled by insert(), which replaces, and an index's tree *)
(* by insert_dup(), which keeps equal keys side by side in the order they  *)
(* came.  One call is one step: nothing else runs while it works.          *)
(***************************************************************************)
EXTENDS Naturals, FiniteSets, SequencesExt

CONSTANTS MaxKeys,     \* MAX_KEYS of btree.h
          Keys,        \* the keys used
          MaxInserts   \* bound on the number of inserts

\* MAX_KEYS must be even.  A leaf that holds its own upper separator holds it
\* at most MaxKeys/2 times; were MaxKeys odd, its split could produce that
\* separator again and insert_in_parent would put the new leaf one place too
\* far to the right.
ASSUME BPlusTreeAssumption ==
  /\ MaxKeys \in Nat \ {0}
  /\ MaxKeys % 2 = 0
  /\ Keys \subseteq Nat
  /\ MaxInserts \in Nat

VARIABLES node,    \* page id -> the node it holds
          root,    \* root_page_id_
          unique,  \* is this the tree of a table, or of an index
          log      \* history: the <<key, value>> pairs inserted, in order

vars == <<node, root, unique, log>>

\* A node: a leaf has a value for each key and the next leaf (0: none), an
\* internal node one child more than keys.
Leaf(ks, vs, next) == [leaf |-> TRUE, keys |-> ks, values |-> vs, next |-> next]
Internal(ks, cs) == [leaf |-> FALSE, keys |-> ks, children |-> cs]

Init ==
  /\ node = 1 :> Leaf(<< >>, << >>, 0)
  /\ root = 1
  /\ unique \in BOOLEAN
  /\ log = << >>

-----------------------------------------------------------------------------
(* Slips the properties below must notice.                                 *)

\* The two binary searches swapped.
LowerBoundSwapped(ks, k) == Cardinality({i \in DOMAIN ks : ks[i] <= k})

-----------------------------------------------------------------------------
(* Searching.                                                              *)

\* How many of the sorted keys ks precede a new key k: the two standard
\* binary searches.
LowerBound(ks, k) == Cardinality({i \in DOMAIN ks : ks[i] < k})
UpperBound(ks, k) == Cardinality({i \in DOMAIN ks : ks[i] <= k})

\* find_leaf: the pages from the root down to the leaf, the leaf last.
Descent(k, Bound(_, _)) ==
  LET from[p \in DOMAIN node] ==
        IF node[p].leaf THEN <<p>>
        ELSE <<p>> \o from[node[p].children[Bound(node[p].keys, k) + 1]]
  IN  from[root]

FindLeaf(k) == Last(Descent(k, UpperBound))

\* find: the set of the one value found, or the empty set.
Find(k) ==
  LET n == node[FindLeaf(k)]
      i == LowerBound(n.keys, k) + 1
  IN  IF i <= Len(n.keys) /\ n.keys[i] = k THEN {n.values[i]} ELSE {}

\* The positions of the keys of ks that satisfy a test, in order.
Where(ks, Test(_)) == SelectSeq([i \in DOMAIN ks |-> i], LAMBDA i : Test(ks[i]))

\* The leaf that holds the first of the pairs with key k, if any does: a slip is
\* to go where a new pair would go.
FirstLeafAsForInsert(k) == FindLeaf(k)
FirstLeaf(k) == Last(Descent(k, LowerBound))

\* find_all: along the leaf chain until a greater key appears.
FindAll(k) ==
  LET from[p \in DOMAIN node \cup {0}] ==
        IF p = 0 THEN << >>
        ELSE LET n == node[p]
                 hits == Where(n.keys, LAMBDA x : x = k)
             IN  [i \in DOMAIN hits |-> n.values[hits[i]]] \o
                   (IF \E i \in DOMAIN n.keys : n.keys[i] > k
                    THEN << >> ELSE from[n.next])
  IN  from[FirstLeaf(k)]

\* The leftmost leaf, and the chain of leaves from it.
LeafChain ==
  LET left[p \in DOMAIN node] == IF node[p].leaf THEN p ELSE left[node[p].children[1]]
      from[p \in DOMAIN node \cup {0}] ==
        IF p = 0 THEN << >> ELSE <<p>> \o from[node[p].next]
  IN  from[left[root]]

\* scan: every pair along the leaf chain.
Scan ==
  FlattenSeq([i \in DOMAIN LeafChain |->
    LET n == node[LeafChain[i]] IN [j \in DOMAIN n.keys |-> <<n.keys[j], n.values[j]>>]])

-----------------------------------------------------------------------------
(* Inserting.                                                              *)

\* The pages allocated so far are 0 .. Cardinality(DOMAIN nodes).
NextPage(nodes) == Cardinality(DOMAIN nodes) + 1

First(s, n) == SubSeq(s, 1, n)
After(s, n) == SubSeq(s, n + 1, Len(s))

\* More slips: the right half of a leaf does not get the chain; the middle child
\* of an internal node stays in both halves.
SplitLeafCutsChain(nodes, r, p, n) ==
  LET mid == Len(n.keys) \div 2
      right == NextPage(nodes)
  IN  [nodes |-> (right :> Leaf(After(n.keys, mid), After(n.values, mid), 0))
                 @@ (p :> Leaf(First(n.keys, mid), First(n.values, mid), right))
                 @@ nodes,
       root |-> r, carry |-> TRUE, sep |-> n.keys[mid + 1], right |-> right]

SplitInternalSharesChild(nodes, r, p, n) ==
  LET mid == Len(n.keys) \div 2
      right == NextPage(nodes)
  IN  [nodes |-> (right :> Internal(After(n.keys, mid), After(n.children, mid)))
                 @@ (p :> Internal(First(n.keys, mid), First(n.children, mid + 1)))
                 @@ nodes,
       root |-> r, carry |-> TRUE, sep |-> n.keys[mid + 1], right |-> right]

\* An overfull node is split.
Fitting(n) == Len(n.keys) <= MaxKeys

\* A tree under construction: its nodes and root and, while a split still has
\* to be told to the level above, the separator and the new right child.
\* split_leaf: page p gets the first half of leaf n, a new page the rest.
SplitLeaf(nodes, r, p, n) ==
  LET mid == Len(n.keys) \div 2
      right == NextPage(nodes)
  IN  [nodes |-> (right :> Leaf(After(n.keys, mid), After(n.values, mid), n.next))
                 @@ (p :> Leaf(First(n.keys, mid), First(n.values, mid), right))
                 @@ nodes,
       root |-> r, carry |-> TRUE, sep |-> n.keys[mid + 1], right |-> right]

\* split_internal: the middle key goes up and stays in neither half.
SplitInternal(nodes, r, p, n) ==
  LET mid == Len(n.keys) \div 2
      right == NextPage(nodes)
  IN  [nodes |-> (right :> Internal(After(n.keys, mid + 1), After(n.children, mid + 1)))
                 @@ (p :> Internal(First(n.keys, mid), First(n.children, mid + 1)))
                 @@ nodes,
       root |-> r, carry |-> TRUE, sep |-> n.keys[mid + 1], right |-> right]

Settled(nodes, r) == [nodes |-> nodes, root |-> r, carry |-> FALSE]

\* insert_in_parent on the internal node p, when the level below was split.
InsertInParent(p, t) ==
  IF ~t.carry THEN t
  ELSE LET n == t.nodes[p]
           idx == UpperBound(n.keys, t.sep)
           grown == Internal(InsertAt(n.keys, idx + 1, t.sep),
                             InsertAt(n.children, idx + 2, t.right))
       IN  IF Fitting(grown)
           THEN Settled((p :> grown) @@ t.nodes, t.root)
           ELSE SplitInternal(t.nodes, t.root, p, grown)

\* ... and with an empty path: the root itself was split.
NewRoot(t) ==
  IF ~t.carry THEN t
  ELSE LET p == NextPage(t.nodes)
       IN  Settled((p :> Internal(<<t.sep>>, <<t.root, t.right>>)) @@ t.nodes, p)

\* The tree once the changed leaf n is written at the end of a descent.
Grown(path, n) ==
  LET p == Last(path)
      start == IF Fitting(n) THEN Settled((p :> n) @@ node, root)
               ELSE SplitLeaf(node, root, p, n)
  IN  NewRoot(FoldRight(InsertInParent, Front(path), start))

WriteTree(path, n) ==
  LET t == Grown(path, n) IN node' = t.nodes /\ root' = t.root

\* Leaf n with the pair (k, v) at position i.
WithPair(n, i, k, v) == Leaf(InsertAt(n.keys, i, k), InsertAt(n.values, i, v), n.next)

Insert(k, v) ==
  /\ unique
  /\ Len(log) < MaxInserts
  /\ LET path == Descent(k, UpperBound)
         n == node[Last(path)]
         i == LowerBound(n.keys, k) + 1
     IN  IF i <= Len(n.keys) /\ n.keys[i] = k
         THEN /\ node' = [node EXCEPT ![Last(path)].values[i] = v]
              /\ UNCHANGED root
         ELSE WriteTree(path, WithPair(n, i, k, v))
  /\ log' = Append(log, <<k, v>>)
  /\ UNCHANGED unique

InsertDup(k, v) ==
  /\ ~unique
  /\ Len(log) < MaxInserts
  /\ LET path == Descent(k, UpperBound)
         n == node[Last(path)]
     IN  WriteTree(path, WithPair(n, UpperBound(n.keys, k) + 1, k, v))
  /\ log' = Append(log, <<k, v>>)
  /\ UNCHANGED unique

\* The value of an insert is its place in the order of insertion, so that no two
\* are confused.
Next == \E k \in Keys : Insert(k, Len(log) + 1) \/ InsertDup(k, Len(log) + 1)

Spec == Init /\ [][Next]_vars

-----------------------------------------------------------------------------
(* What must hold.                                                         *)

\* The leaves under each page from left to right, with their depth.
LeavesInOrder ==
  LET under[d \in 0 .. Cardinality(DOMAIN node)] ==
        [p \in DOMAIN node |->
           IF node[p].leaf THEN << <<p, d>> >>
           ELSE IF d = Cardinality(DOMAIN node) THEN << >>
           ELSE FlattenSeq([i \in DOMAIN node[p].children |->
                              under[d + 1][node[p].children[i]]])]
  IN  under[0][root]

\* Splits at any level keep the tree balanced and the leaf chain in step with
\* it: next_leaf visits every leaf exactly once, in the order of the tree, and
\* all of them lie at the same depth.  A chain that skips a leaf would hide rows
\* from scan() and not from find().
ChainFollowsTree ==
  /\ LeafChain = [i \in DOMAIN LeavesInOrder |-> LeavesInOrder[i][1]]
  /\ \A i \in DOMAIN LeavesInOrder : LeavesInOrder[i][2] = LeavesInOrder[1][2]

\* No split leaks a page or hangs a node under two parents; no page is too full,
\* and none but the root less than half full.
PagesAreOneTree ==
  LET parents(p) == {<<q, i>> \in (DOMAIN node) \X (1 .. MaxKeys + 1) :
                       /\ ~node[q].leaf
                       /\ i \in DOMAIN node[q].children
                       /\ node[q].children[i] = p}
  IN  \A p \in DOMAIN node :
        /\ Cardinality(parents(p)) = IF p = root THEN 0 ELSE 1
        /\ Len(node[p].keys) <= MaxKeys
        /\ p # root => Len(node[p].keys) >= MaxKeys \div 2

\* The values inserted with key k, in order.
Inserted(k) ==
  LET mine == SelectSeq(log, LAMBDA e : e[1] = k)
  IN  [i \in DOMAIN mine |-> mine[i][2]]

\* The tree of a table is the map of the last value inserted for each key, to
\* find() and to scan() alike.
TableIsMap ==
  unique =>
  /\ \A k \in Keys : Find(k) = IF Inserted(k) = << >> THEN {} ELSE {Last(Inserted(k))}
  /\ ToSet(Scan) = {<<k, Last(Inserted(k))>> : k \in {e[1] : e \in ToSet(log)}}
  /\ \A i \in 1 .. Len(Scan) - 1 : Scan[i][1] < Scan[i + 1][1]

\* The tree of an index returns for each key every value inserted with it, in
\* the order of insertion, also when they are spread over several leaves, to
\* find_all() and to scan() alike.
IndexKeepsAll ==
  ~unique =>
  /\ \A k \in Keys : FindAll(k) = Inserted(k)
  /\ Len(Scan) = Len(log)
  /\ \A i \in 1 .. Len(Scan) - 1 :
       \/ Scan[i][1] < Scan[i + 1][1]
       \/ Scan[i][1] = Scan[i + 1][1] /\ Scan[i][2] < Scan[i + 1][2]

=============================================================================
