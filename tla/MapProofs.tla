------------------------------ MODULE MapProofs -------------------------------
(****************************************************************************)
(* The tree as the map its callers see: one entry of a key, a search that   *)
(* finds it, and calls that do to the entries what those of KVMap do.       *)
(*                                                                          *)
(* OrderProofs shows that every page has a set of keys, its span, that      *)
(* holds its own keys and is parted among its children.  What is left is to *)
(* read that from the root down.  Nothing is shown by induction on a level: *)
(* TreePages is the least set that holds the root and the children of its   *)
(* pages, so a set of pages of the tree that does the same is all of them.  *)
(****************************************************************************)
EXTENDS OrderProofs

\* The tree between calls.
Rest(lev, span) ==
  /\ TreePages \subseteq Pids /\ root \in TreePages /\ split = NoSplit
  /\ \A p \in TreePages : Kids(heap[p]) \subseteq TreePages
  /\ \A A : A \subseteq TreePages /\ root \in A /\ (\A p \in A : Kids(heap[p]) \subseteq A)
              => A = TreePages
  /\ Forest(heap, {root}, TreePages, lev)
  /\ Ordered(heap, TreePages, span) /\ span[root] = Int

\* It is as the invariants say.
LEMMA IdleIsRest ==
  ASSUME IndInv, TreeInv, OrderInv, pc = "idle"
  PROVE  \E lev, span : Rest(lev, span)
<1>1. PICK live, lev : TreeShape(live, lev)
  BY DEF TreeInv
<1>2. PICK span : OrderShape(TreePages, span)
  BY DEF OrderInv
<1>3. split = NoSplit /\ Roots = {root}
  BY <1>1, DownShape DEF Roots
<1>4. /\ TreePages \subseteq Pids /\ root \in TreePages /\ Closed(TreePages)
      /\ \A A : {root} \subseteq A /\ Closed(A) => TreePages \subseteq A
      /\ Forest(heap, {root}, TreePages, lev)
  BY <1>1, <1>3, TreePagesShape
<1>5. Ordered(heap, TreePages, span) /\ span[root] = Int
  BY <1>2, RestOrder
<1>6. \A p \in TreePages : Kids(heap[p]) \subseteq TreePages
  BY <1>4, KidsAreChildren DEF Closed
<1>7. ASSUME NEW A, A \subseteq TreePages, root \in A, \A p \in A : Kids(heap[p]) \subseteq A
      PROVE  A = TreePages
  <2>1. Closed(A)
    BY <1>4, <1>7, KidsAreChildren DEF Closed
  <2> QED BY <1>4, <1>7, <2>1
<1> QED
  BY <1>3, <1>4, <1>5, <1>6, <1>7 DEF Rest

\* A page of the tree, by its kind.
LEMMA TreePage ==
  ASSUME IndInv, NEW lev, NEW span, Rest(lev, span), NEW p \in TreePages
  PROVE  /\ p \in Pids /\ lev[p] \in Nat /\ InOrder(heap[p], span[p], span)
         /\ heap[p].kind = "leaf" => heap[p] \in LeafPages
         /\ heap[p].kind # "leaf" => heap[p] \in InnerOver(Pids) /\ heap[p].size >= 1 /\ heap[p].kind = "inner"
         /\ heap[p].size \in Nat
<1>1. heap \in [Pids -> FitPages(Pids)] /\ p \in Pids
  BY HeapFits DEF IndInv, Rest
<1>2. heap[p] \in FitPages(Pids)
  BY <1>1
<1>3. /\ heap[p].kind = "leaf" => heap[p] \in LeafPages /\ heap[p].size \in 0..(LeafMax - 1)
      /\ heap[p].kind # "leaf" => heap[p] \in InnerOver(Pids) /\ heap[p].size \in 1..(InnerMax - 1)
                                 /\ heap[p].kind = "inner"
  BY <1>2, FitCases
<1>4. heap[p].size \in Nat /\ (heap[p].kind # "leaf" => heap[p].size >= 1)
  BY <1>3, ParameterAssumption
<1> QED
  BY <1>1, <1>3, <1>4 DEF Rest, Forest, Ordered

\* A key in the span of a child is in that of its page, not among the entries of
\* its page, and the search for it goes to that child.
LEMMA KidSpan ==
  ASSUME IndInv, NEW lev, NEW span, Rest(lev, span), NEW p \in TreePages,
         NEW c \in Kids(heap[p]), NEW k \in span[c]
  PROVE  /\ c \in TreePages /\ c # root /\ lev[p] = lev[c] + 1 /\ heap[p].kind # "leaf"
         /\ k \in Int /\ k \in span[p] /\ ~InnerHolds(heap[p], k) /\ c = InnerChild(heap[p], k)
         /\ \A i \in Places(heap[p]) : heap[p].slots[i][1] # k
<1> DEFINE q == heap[p]
           m == InnerSearch(q, k)
<1>1. q.kind # "leaf" /\ q \in InnerOver(Pids) /\ q.size >= 1 /\ InOrder(q, span[p], span) /\ q.size \in Nat
  BY TreePage DEF Kids
<1>2. c \in TreePages /\ c # root /\ lev[p] = lev[c] + 1
  BY DEF Rest, Forest
<1>3. PICK j \in 0..(q.size - 1) : c = q.pids[j]
  BY <1>1 DEF Kids
<1> HIDE DEF q
<1>4. k \in span[p]
  BY <1>1, <1>3 DEF InOrder, Parted
<1>5. k \in Int
  BY <1>1, <1>4 DEF InOrder, AllInts
<1>6. j = m - 1 /\ ~InnerHolds(q, k)
  BY <1>1, <1>3, <1>4, ChildPlace
<1>7. AllInts(span[p]) /\ Sorted(q, span[p])
  BY <1>1 DEF InOrder
<1>8. /\ m \in 1..q.size
      /\ \A i \in 1..(m - 1) : q.slots[i][1] < k
      /\ \A i \in m..(q.size - 1) : q.slots[i][1] >= k
      /\ InnerHolds(q, k) <=> m < q.size /\ q.slots[m][1] = k
  BY <1>1, <1>5, <1>7, InnerSearchPlace
<1> HIDE DEF m
<1>9. ASSUME NEW i \in Places(q) PROVE q.slots[i][1] # k
  <2>1. i \in 1..(q.size - 1) /\ q.slots[i][1] \in Int
    BY <1>1, <1>7 DEF Places, First, Sorted, AllInts
  <2>2. CASE i < m
    BY <1>5, <1>8, <2>1, <2>2
  <2>3. CASE i = m
    <3>1. m < q.size
      BY <1>1, <2>1, <2>3
    <3> QED BY <1>6, <1>8, <2>3, <3>1
  <2>4. CASE i > m
    <3>1. m \in Places(q) /\ m < i /\ i \in Places(q)
      BY <1>1, <1>8, <2>1, <2>4 DEF Places, First
    <3>2. q.slots[m][1] < q.slots[i][1] /\ q.slots[m][1] \in Int
      BY <1>7, <3>1 DEF Sorted, AllInts
    <3>3. q.slots[m][1] >= k
      BY <1>1, <1>8, <2>1, <2>4
    <3> QED BY <1>5, <2>1, <3>2, <3>3
  <2>5. i \in Int /\ m \in Int
    BY <1>1, <1>8, <2>1
  <2> QED BY <2>2, <2>3, <2>4, <2>5
<1>10. c = InnerChild(q, k)
  BY <1>3, <1>6 DEF InnerChild, m
<1> QED
  BY <1>1, <1>2, <1>4, <1>5, <1>6, <1>9, <1>10 DEF q

\* Every page but the root is below the root, and a child of a page of the tree.
LEMMA BelowRoot ==
  ASSUME IndInv, NEW lev, NEW span, Rest(lev, span), NEW r \in TreePages, r # root
  PROVE  lev[r] < lev[root] /\ \E p \in TreePages : r \in Kids(heap[p])
<1> DEFINE A == {p \in TreePages : p = root \/ lev[p] < lev[root]}
           B == TreePages \ {r}
<1>1. \A p \in TreePages : lev[p] \in Nat /\ \A c \in Kids(heap[p]) : c \in TreePages /\ lev[p] = lev[c] + 1
  BY DEF Rest, Forest
<1>2. root \in TreePages
  BY DEF Rest
<1>3. A = TreePages
  <2>1. \A p \in A : Kids(heap[p]) \subseteq A
    BY <1>1, <1>2
  <2>2. A \subseteq TreePages /\ root \in A
    BY <1>2
  <2> HIDE DEF A
  <2> QED BY <2>1, <2>2 DEF Rest
<1>4. ASSUME \A p \in TreePages : r \notin Kids(heap[p]) PROVE FALSE
  <2>1. \A p \in B : Kids(heap[p]) \subseteq B
    BY <1>1, <1>4
  <2>2. B \subseteq TreePages /\ root \in B /\ r \notin B
    BY <1>2
  <2> HIDE DEF B
  <2> QED BY <2>1, <2>2 DEF Rest
<1> QED
  BY <1>3, <1>4

\* On each level a key is in the span of at most one page.
LEMMA OneSpanPerLevel ==
  ASSUME IndInv, NEW lev, NEW span, Rest(lev, span), NEW k
  PROVE  \A p, r \in TreePages : lev[p] = lev[r] /\ k \in span[p] /\ k \in span[r] => r = p
<1> DEFINE Sole(p) == \A r \in TreePages : lev[p] = lev[r] /\ k \in span[p] /\ k \in span[r] => r = p
           A == {p \in TreePages : Sole(p)}
<1>1. root \in TreePages /\ \A p \in TreePages : lev[p] \in Nat
  BY DEF Rest, Forest
<1>2. root \in A
  BY <1>1, BelowRoot
<1>3. ASSUME NEW p \in A, NEW c \in Kids(heap[p]) PROVE c \in A
  <2>1. p \in TreePages /\ c \in TreePages /\ lev[p] = lev[c] + 1
    BY DEF Rest, Forest
  <2>2. ASSUME NEW r \in TreePages, lev[c] = lev[r], k \in span[c], k \in span[r]
        PROVE  r = c
    <3>1. k \in span[p] /\ c = InnerChild(heap[p], k)
      BY <2>1, <2>2, KidSpan
    <3>2. r # root
      <4>1. p = root \/ lev[p] < lev[root]
        BY <2>1, BelowRoot
      <4> QED BY <1>1, <2>1, <2>2, <4>1
    <3>3. PICK q \in TreePages : r \in Kids(heap[q])
      BY <3>2, BelowRoot
    <3>4. k \in span[q] /\ r = InnerChild(heap[q], k) /\ lev[q] = lev[r] + 1
      BY <2>2, <3>3, KidSpan
    <3>5. q = p
      <4>1. Sole(p) /\ lev[p] = lev[q]
        BY <1>1, <2>1, <2>2, <3>4
      <4> QED BY <3>1, <3>4, <4>1
    <3> QED BY <3>1, <3>4, <3>5
  <2> QED BY <2>1, <2>2
<1>4. A \subseteq TreePages /\ \A p \in A : Kids(heap[p]) \subseteq A
  BY <1>3
<1>5. A = TreePages
  <2> HIDE DEF A
  <2> QED BY <1>2, <1>4 DEF Rest
<1> QED
  BY <1>5

\* The entry of a page is a key of no span below the page.
LEMMA HeldAbove ==
  ASSUME IndInv, NEW lev, NEW span, Rest(lev, span), NEW p \in TreePages,
         NEW i \in Places(heap[p]), NEW k, k = heap[p].slots[i][1]
  PROVE  k \in span[p] /\ k \in Int /\ \A r \in TreePages : k \in span[r] => lev[r] >= lev[p]
<1> DEFINE A == {r \in TreePages : k \in span[r] => lev[r] >= lev[p]}
<1>1. root \in TreePages /\ \A r \in TreePages : lev[r] \in Nat
  BY DEF Rest, Forest
<1>2. k \in span[p] /\ k \in Int
  <2>1. InOrder(heap[p], span[p], span)
    BY TreePage
  <2> QED BY <2>1 DEF InOrder, Sorted, AllInts
<1>3. root \in A
  BY <1>1, BelowRoot
<1>4. ASSUME NEW r \in A, NEW c \in Kids(heap[r]) PROVE c \in A
  <2>1. r \in TreePages /\ c \in TreePages /\ lev[r] = lev[c] + 1
    BY DEF Rest, Forest
  <2>2. ASSUME k \in span[c] PROVE lev[c] >= lev[p]
    <3>1. k \in span[r] /\ \A j \in Places(heap[r]) : heap[r].slots[j][1] # k
      BY <2>1, <2>2, KidSpan
    <3>2. lev[r] >= lev[p]
      BY <3>1
    <3>3. lev[r] # lev[p]
      <4>1. lev[r] = lev[p] => r = p
        BY <1>2, <2>1, <3>1, OneSpanPerLevel
      <4> QED BY <3>1, <4>1
    <3> QED BY <1>1, <2>1, <3>2, <3>3
  <2> QED BY <2>1, <2>2
<1>5. A \subseteq TreePages /\ \A r \in A : Kids(heap[r]) \subseteq A
  BY <1>4
<1>6. A = TreePages
  <2> HIDE DEF A
  <2> QED BY <1>3, <1>5 DEF Rest
<1> QED
  BY <1>2, <1>6

\* So two entries of a key are one.
LEMMA OneOfAKey ==
  ASSUME IndInv, NEW lev, NEW span, Rest(lev, span), NEW p \in TreePages, NEW r \in TreePages,
         NEW i \in Places(heap[p]), NEW j \in Places(heap[r]),
         heap[p].slots[i][1] = heap[r].slots[j][1]
  PROVE  p = r /\ i = j
<1>1. lev[p] \in Nat /\ lev[r] \in Nat
  BY DEF Rest, Forest
<1>2. p = r
  <2>1. PICK k : k = heap[p].slots[i][1]
    OBVIOUS
  <2>2. k \in span[p] /\ k \in span[r] /\ lev[p] >= lev[r] /\ lev[r] >= lev[p]
    BY <2>1, HeldAbove
  <2>3. lev[p] = lev[r]
    BY <1>1, <2>2
  <2> QED BY <2>2, <2>3, OneSpanPerLevel
<1>3. Sorted(heap[p], span[p]) /\ AllInts(span[p]) /\ heap[p].size \in Nat
  BY TreePage DEF InOrder
<1>4. i \in Int /\ j \in Int
  BY <1>2, <1>3 DEF Places, First
<1> QED
  BY <1>2, <1>3, <1>4 DEF Sorted, AllInts

-----------------------------------------------------------------------------
\* The index never holds two entries of a key between calls: the assert of
\* inner_page.h:288-290 holds of the whole tree.  LeafMax >= 3 keeps a leaf that
\* is the child of a page from being empty, so Remove replaces a separator by an
\* entry that is there.
THEOREM KeepsOneEntryPerKey == LeafMax >= 3 => (SoundCalls => []OneEntryPerKey)
<1> SUFFICES ASSUME LeafMax >= 3 PROVE SoundCalls => []OneEntryPerKey
  OBVIOUS
<1>1. ASSUME IndInv, TreeInv, OrderInv PROVE OneEntryPerKey
  <2> SUFFICES ASSUME pc = "idle", NEW s \in LiveSlots, NEW t \in LiveSlots,
                      heap[s[1]].slots[s[2]][1] = heap[t[1]].slots[t[2]][1]
               PROVE  s = t
    BY DEF OneEntryPerKey
  <2>1. PICK lev, span : Rest(lev, span)
    BY <1>1, IdleIsRest
  <2>2. ASSUME NEW u \in LiveSlots
        PROVE  u = <<u[1], u[2]>> /\ u[1] \in TreePages /\ u[2] \in Places(heap[u[1]])
    <3>1. /\ u \in TreePages \X (LeafSlots \cup InnerSlots)
          /\ u[2] < heap[u[1]].size /\ (IsLeaf(u[1]) \/ u[2] > 0)
      BY DEF LiveSlots
    <3>2. u[2] \in Nat /\ heap[u[1]].size \in Nat
      BY <1>1, <2>1, <3>1, TreePage, ParameterAssumption DEF LeafSlots, InnerSlots
    <3> QED BY <3>1, <3>2 DEF Places, First, IsLeaf
  <2>3. s[1] = t[1] /\ s[2] = t[2]
    BY <1>1, <2>1, <2>2, OneOfAKey
  <2> QED BY <2>2, <2>3
<1> QED
  BY <1>1, OrderAlways, PTL

\* Lookup is defined by recursion on a page; a function does satisfy it.  f[p] is
\* the answer of the last page on the way from p, whatever p is when the way is a
\* circle.
LEMMA LookupDef ==
  ASSUME IndInv, NEW k
  PROVE  \E f : /\ Lookup(k) = f[root]
                /\ \A p \in Pids :
                     f[p] = IF IsLeaf(p)
                            THEN IF LeafHolds(heap[p], k) THEN Found(LeafValue(heap[p], k)) ELSE NotFound
                            ELSE IF InnerHolds(heap[p], k) THEN Found(InnerValue(heap[p], k))
                                                           ELSE f[InnerChild(heap[p], k)]
<1> DEFINE Body(g, p) == IF IsLeaf(p)
                         THEN IF LeafHolds(heap[p], k) THEN Found(LeafValue(heap[p], k)) ELSE NotFound
                         ELSE IF InnerHolds(heap[p], k) THEN Found(InnerValue(heap[p], k))
                                                        ELSE g[InnerChild(heap[p], k)]
           IsFind(g) == g = [p \in Pids |-> Body(g, p)]
           Halts(p) == IsLeaf(p) \/ InnerHolds(heap[p], k)
           Onward(A) == \A q \in A : ~Halts(q) => InnerChild(heap[q], k) \in A
           Way(p) == {t \in Pids : \A A \in SUBSET Pids : p \in A /\ Onward(A) => t \in A}
           Ends(p) == {t \in Way(p) : Halts(t)}
           End(p) == CHOOSE t : t \in Ends(p)
           f == [p \in Pids |-> Body(<<>>, End(p))]
<1>1. \A p \in Pids : ~IsLeaf(p) => InnerChild(heap[p], k) \in Pids
  <2> SUFFICES ASSUME NEW p \in Pids, ~IsLeaf(p) PROVE InnerChild(heap[p], k) \in Pids
    OBVIOUS
  <2>1. heap[p] \in FitPages(Pids)
    BY HeapFits DEF IndInv
  <2>2. heap[p] \in InnerOver(Pids) /\ heap[p].size >= 1
    BY <2>1, FitCases, ParameterAssumption DEF IsLeaf
  <2> QED
    BY <2>2, InnerSearchRange, InnerFields DEF InnerChild
<1>2. ASSUME NEW p \in Pids, Halts(p) PROVE End(p) = p
  <2>1. \A t \in Way(p) : t = p
    <3>1. {p} \in SUBSET Pids /\ p \in {p} /\ Onward({p})
      BY <1>2
    <3> HIDE DEF Onward
    <3> QED BY <3>1
  <2>2. Ends(p) = {p}
    BY <1>2, <2>1
  <2> HIDE DEF Ends
  <2> QED BY <2>2
<1>3. ASSUME NEW p \in Pids, ~Halts(p) PROVE End(p) = End(InnerChild(heap[p], k))
  <2>1. PICK c \in Pids : c = InnerChild(heap[p], k)
    BY <1>1, <1>3
  <2>2. ASSUME NEW t \in Way(c) PROVE t \in Way(p)
    BY <1>3, <2>1, <2>2
  <2>3. ASSUME NEW t \in Way(p), t # p PROVE t \in Way(c)
    <3> SUFFICES ASSUME NEW A \in SUBSET Pids, c \in A, Onward(A) PROVE t \in A
      OBVIOUS
    <3>1. A \cup {p} \in SUBSET Pids /\ Onward(A \cup {p})
      BY <2>1
    <3> HIDE DEF Onward
    <3> QED BY <2>3, <3>1
  <2> HIDE DEF Way
  <2>4. Ends(p) = Ends(c)
    BY <1>3, <2>2, <2>3
  <2> HIDE DEF Ends
  <2> QED BY <2>1, <2>4
<1> HIDE DEF End
<1>4. \A p \in Pids : f[p] = Body(f, p)
  <2> SUFFICES ASSUME NEW p \in Pids PROVE f[p] = Body(f, p)
    OBVIOUS
  <2>1. f[p] = Body(<<>>, End(p))
    OBVIOUS
  <2>2. CASE Halts(p)
    BY <1>2, <2>1, <2>2
  <2>3. CASE ~Halts(p)
    <3>1. InnerChild(heap[p], k) \in Pids
      BY <1>1, <2>3
    <3>2. f[InnerChild(heap[p], k)] = Body(<<>>, End(InnerChild(heap[p], k)))
      BY <3>1
    <3> HIDE DEF f
    <3> QED BY <1>3, <2>1, <2>3, <3>2
  <2> QED BY <2>2, <2>3
<1>5. IsFind(f)
  <2>1. f = [p \in Pids |-> f[p]]
    OBVIOUS
  <2> HIDE DEF f, Body
  <2> QED BY <1>4, <2>1
<1> DEFINE g == CHOOSE g : IsFind(g)
<1>6. IsFind(g)
  <2> HIDE DEF IsFind, f
  <2> QED BY <1>5, Zenon
<1>7. Lookup(k) = g[root]
  BY Zenon DEF Lookup
<1>8. \A p \in Pids : g[p] = Body(g, p)
  <2> HIDE DEF Body, g
  <2> QED BY <1>6
<1> HIDE DEF g
<1> QED
  BY <1>7, <1>8

\* The way of a key from the root passes through every page whose span it is in.
LEMMA WayPasses ==
  ASSUME IndInv, NEW lev, NEW span, Rest(lev, span), NEW k, NEW f,
         \A p \in Pids : heap[p].kind # "leaf" /\ ~InnerHolds(heap[p], k)
                           => f[p] = f[InnerChild(heap[p], k)],
         NEW p \in TreePages, k \in span[p]
  PROVE  f[p] = f[root]
<1> DEFINE A == {q \in TreePages : k \in span[q] => f[q] = f[root]}
<1>1. ASSUME NEW q \in A, NEW c \in Kids(heap[q]) PROVE c \in A
  <2>1. q \in TreePages /\ c \in TreePages /\ q \in Pids
    BY DEF Rest
  <2>2. ASSUME k \in span[c] PROVE f[c] = f[root]
    <3>1. k \in span[q] /\ heap[q].kind # "leaf" /\ ~InnerHolds(heap[q], k) /\ c = InnerChild(heap[q], k)
      BY <2>1, <2>2, KidSpan
    <3> QED BY <2>1, <3>1
  <2> QED BY <2>1, <2>2
<1>2. A \subseteq TreePages /\ root \in A /\ \A q \in A : Kids(heap[q]) \subseteq A
  BY <1>1 DEF Rest
<1>3. A = TreePages
  <2> HIDE DEF A
  <2> QED BY <1>2 DEF Rest
<1> QED
  BY <1>3

\* A search that has come to the page of an entry stops there, at the entry.
LEMMA SearchStops ==
  ASSUME IndInv, NEW lev, NEW span, Rest(lev, span), NEW p \in TreePages,
         NEW i \in Places(heap[p]), NEW e, e = heap[p].slots[i]
  PROVE  /\ heap[p].kind = "leaf" => LeafHolds(heap[p], e[1]) /\ LeafValue(heap[p], e[1]) = e[2]
         /\ heap[p].kind # "leaf" => InnerHolds(heap[p], e[1]) /\ InnerValue(heap[p], e[1]) = e[2]
<1>1. PICK q : q = heap[p]
  OBVIOUS
<1>2. PICK k : k = e[1]
  OBVIOUS
<1>3. AllInts(span[p]) /\ Sorted(q, span[p]) /\ q.size \in Nat
      /\ (q.kind = "leaf" => q \in LeafPages)
      /\ (q.kind # "leaf" => q \in InnerOver(Pids) /\ q.size >= 1)
  BY <1>1, TreePage DEF InOrder
<1>4. k \in Int /\ i \in Places(q) /\ q.slots[i][1] = k /\ i \in Int /\ i < q.size
  BY <1>1, <1>2, HeldAbove, <1>3 DEF Places, First
<1>5. ASSUME NEW m \in First(q)..q.size,
             \A j \in First(q)..(m - 1) : q.slots[j][1] < k,
             \A j \in m..(q.size - 1) : q.slots[j][1] >= k
      PROVE  m = i
  <2>1. m \in Int /\ i \in First(q)..(q.size - 1)
    BY <1>3, <1>4 DEF First, Places
  <2>2. ~(i < m)
    BY <1>4, <1>5, <2>1
  <2>3. ASSUME m < i PROVE FALSE
    <3>1. m \in Places(q)
      BY <1>3, <1>4, <2>1, <2>3 DEF Places, First
    <3>2. q.slots[m][1] < k /\ q.slots[m][1] \in Int
      BY <1>3, <1>4, <2>3, <3>1 DEF Sorted, AllInts
    <3>3. q.slots[m][1] >= k
      BY <1>3, <1>4, <1>5, <2>1, <3>1 DEF Places
    <3> QED BY <1>4, <3>2, <3>3
  <2> QED BY <1>4, <2>1, <2>2, <2>3
<1>6. CASE q.kind = "leaf"
  <2>1. PICK m : m = LeafSearch(q, k)
    OBVIOUS
  <2>2. /\ m \in 0..q.size
        /\ \A j \in 0..(m - 1) : q.slots[j][1] < k
        /\ \A j \in m..(q.size - 1) : q.slots[j][1] >= k
        /\ LeafHolds(q, k) <=> m < q.size /\ q.slots[m][1] = k
    BY <1>3, <1>4, <1>6, <2>1, LeafSearchPlace
  <2>3. First(q) = 0
    BY <1>6 DEF First
  <2>4. m = i
    BY <1>5, <2>2, <2>3
  <2> QED BY <1>1, <1>2, <1>4, <1>6, <2>1, <2>2, <2>4 DEF LeafValue
<1>7. CASE q.kind # "leaf"
  <2>1. PICK m : m = InnerSearch(q, k)
    OBVIOUS
  <2>2. /\ m \in 1..q.size
        /\ \A j \in 1..(m - 1) : q.slots[j][1] < k
        /\ \A j \in m..(q.size - 1) : q.slots[j][1] >= k
        /\ InnerHolds(q, k) <=> m < q.size /\ q.slots[m][1] = k
    BY <1>3, <1>4, <1>7, <2>1, InnerSearchPlace
  <2>3. First(q) = 1
    BY <1>7 DEF First
  <2>4. m = i
    BY <1>5, <2>2, <2>3
  <2> QED BY <1>1, <1>2, <1>4, <1>7, <2>1, <2>2, <2>4 DEF InnerValue
<1> QED
  BY <1>6, <1>7

\* The places of a page's entries.
LEMMA LivePlace ==
  ASSUME NEW p, NEW e \in Live(p)
  PROVE  \E i \in Places(p) : e = p.slots[i]
BY DEF Live, Places, First

\* Between calls Get finds every entry of the tree, and the value that is in it
\* (unittest.cpp:20-50): no split, borrow or merge puts a separator where the
\* search passes an entry by.
THEOREM KeepsEntriesFound == LeafMax >= 3 => (SoundCalls => []EveryEntryIsFound)
<1> SUFFICES ASSUME LeafMax >= 3 PROVE SoundCalls => []EveryEntryIsFound
  OBVIOUS
<1>1. ASSUME IndInv, TreeInv, OrderInv PROVE EveryEntryIsFound
  <2> SUFFICES ASSUME pc = "idle", NEW e \in Contents PROVE Lookup(e[1]) = Found(e[2])
    BY DEF EveryEntryIsFound
  <2>1. PICK lev, span : Rest(lev, span)
    BY <1>1, IdleIsRest
  <2>2. PICK p \in TreePages : e \in Live(heap[p])
    BY <2>1 DEF Contents, Rest
  <2>3. PICK i \in Places(heap[p]) : e = heap[p].slots[i]
    BY <2>2, LivePlace
  <2>4. PICK k : k = e[1]
    OBVIOUS
  <2>5. k \in span[p] /\ p \in Pids
    BY <1>1, <2>1, <2>3, <2>4, HeldAbove, TreePage
  <2>6. PICK f : /\ Lookup(k) = f[root]
                 /\ \A q \in Pids :
                      f[q] = IF IsLeaf(q)
                             THEN IF LeafHolds(heap[q], k) THEN Found(LeafValue(heap[q], k)) ELSE NotFound
                             ELSE IF InnerHolds(heap[q], k) THEN Found(InnerValue(heap[q], k))
                                                            ELSE f[InnerChild(heap[q], k)]
    BY <1>1, LookupDef
  <2>7. f[p] = f[root]
    <3>1. \A q \in Pids : heap[q].kind # "leaf" /\ ~InnerHolds(heap[q], k)
                            => f[q] = f[InnerChild(heap[q], k)]
      BY <2>6 DEF IsLeaf
    <3> QED BY <1>1, <2>1, <2>5, <3>1, WayPasses
  <2>8. f[p] = Found(e[2])
    <3>1. /\ heap[p].kind = "leaf" => LeafHolds(heap[p], k) /\ LeafValue(heap[p], k) = e[2]
          /\ heap[p].kind # "leaf" => InnerHolds(heap[p], k) /\ InnerValue(heap[p], k) = e[2]
      BY <1>1, <2>1, <2>3, <2>4, SearchStops
    <3> QED BY <2>5, <2>6, <3>1 DEF IsLeaf
  <2> QED BY <2>4, <2>6, <2>7, <2>8
<1> QED
  BY <1>1, OrderAlways, PTL

-----------------------------------------------------------------------------
\* The entries of the tree, as a step changes them.

\* The entries of the pages of T.
Stock(h, T) == UNION {Live(h[p]) : p \in T}

LEMMA LivePlaces ==
  ASSUME NEW p
  PROVE  Live(p) = {p.slots[i] : i \in Places(p)}
BY DEF Live, Places, First

\* An entry is written over another one.
LEMMA RewrittenLive ==
  ASSUME NEW p, NEW S, AllInts(S), Sorted(p, S), NEW i \in Places(p), p.size \in Nat,
         NEW e, NEW q, q.kind = p.kind, q.size = p.size, q.slots[i] = e,
         \A j \in Places(p) : j # i => q.slots[j] = p.slots[j]
  PROVE  Live(q) = (Live(p) \ {p.slots[i]}) \cup {e} /\ p.slots[i] \in Live(p)
<1>1. Places(q) = Places(p)
  BY DEF Places, First
<1>2. \A j \in Places(p) : j # i => p.slots[j] # p.slots[i]
  <2> SUFFICES ASSUME NEW j \in Places(p), j # i PROVE p.slots[j][1] # p.slots[i][1]
    OBVIOUS
  <2>1. i \in Int /\ j \in Int
    BY DEF Places, First
  <2>2. i < j \/ j < i
    BY <2>1
  <2> QED BY <2>2 DEF Sorted, AllInts
<1>3. Live(p) = {p.slots[j] : j \in Places(p)} /\ Live(q) = {q.slots[j] : j \in Places(p)}
  BY <1>1, LivePlaces
<1> QED
  BY <1>2, <1>3

\* A parent's entries when one of them is replaced, or dropped.
LEMMA ParentLive ==
  ASSUME NEW C, NEW p \in InnerOver(C), NEW S, AllInts(S), Sorted(p, S),
         NEW i \in 1..(p.size - 1), NEW e \in Entries
  PROVE  /\ p.slots[i] \in Live(p) /\ p.slots[i][1] \in S
         /\ Live(InnerSetEntry(p, i, e)) = (Live(p) \ {p.slots[i]}) \cup {e}
         /\ Live(InnerDrop(p, i)) = Live(p) \ {p.slots[i]}
<1>1. /\ p.kind = "inner" /\ p.size \in Nat /\ p.size <= InnerMax /\ InnerMax \in Nat
      /\ p.slots \in [InnerSlots -> Entries] /\ First(p) = 1 /\ i \in Nat
  BY InnerFields, ParameterAssumption DEF First
<1>2. i \in Places(p) /\ i \in InnerSlots
  BY <1>1 DEF Places, InnerSlots
<1>3. p.slots[i][1] \in S
  BY <1>2 DEF Sorted
<1>4. Live(InnerSetEntry(p, i, e)) = (Live(p) \ {p.slots[i]}) \cup {e} /\ p.slots[i] \in Live(p)
  <2>1. PICK q : q = InnerSetEntry(p, i, e)
    OBVIOUS
  <2>2. q.kind = p.kind /\ q.size = p.size /\ q.slots = [p.slots EXCEPT ![i] = e]
    BY <2>1 DEF InnerSetEntry, InnerOver
  <2>3. q.slots[i] = e /\ \A j \in Places(p) : j # i => q.slots[j] = p.slots[j]
    BY <1>1, <1>2, <2>2 DEF Places, InnerSlots
  <2>4. i \in Places(p) /\ p.size \in Nat /\ q.kind = p.kind /\ q.size = p.size
    BY <1>1, <1>2, <2>2
  <2>5. Live(q) = (Live(p) \ {p.slots[i]}) \cup {e} /\ p.slots[i] \in Live(p)
    BY <2>3, <2>4, RewrittenLive
  <2> QED BY <2>1, <2>5
<1>5. Live(InnerDrop(p, i)) = Live(p) \ {p.slots[i]}
  <2>1. PICK q : q = InnerDrop(p, i)
    OBVIOUS
  <2>2. q.kind = p.kind /\ q.size = p.size - 1
    BY <2>1 DEF InnerDrop, InnerOver
  <2>3. \A j \in 0..(p.size - 2) : q.slots[j] = IF j >= i THEN p.slots[j + 1] ELSE p.slots[j]
    <3>1. p.size >= 1 /\ i \in 0..(p.size - 1)
      BY <1>1
    <3> QED BY <2>1, <3>1, InnerDropSlots
  <2>4. Deleted(p, i, q)
    BY <1>1, <2>2, <2>3 DEF Deleted
  <2> QED BY <2>1, <2>4, SortedDelete
<1> QED
  BY <1>3, <1>4, <1>5

\* One page of T is written.
LEMMA WrittenStock ==
  ASSUME NEW G, NEW T, NEW c \in T, NEW G2, \A p \in T \ {c} : G2[p] = G[p]
  PROVE  \A e : e \in Stock(G2, T) <=> e \in Live(G2[c]) \/ \E p \in T \ {c} : e \in Live(G[p])
BY DEF Stock

\* An entry changes places with the one between two siblings ...
Swaps(G, T, l, r, par, s, G2, e) ==
  /\ l \in T /\ r \in T /\ par \in T /\ l # r /\ l # par /\ r # par
  /\ \A p \in T \ {l, r, par} : G2[p] = G[p]
  /\ Live(G[l]) \cup Live(G[r]) \cup {s} = Live(G2[l]) \cup Live(G2[r]) \cup {e}
  /\ s \in Live(G[par]) /\ Live(G2[par]) = (Live(G[par]) \ {s}) \cup {e}

LEMMA ExchangedStock ==
  ASSUME NEW G, NEW T, NEW l, NEW r, NEW par, NEW s, NEW G2, NEW e, Swaps(G, T, l, r, par, s, G2, e)
  PROVE  Stock(G2, T) = Stock(G, T)
<1>0. PICK Q, D :
        /\ Q = Live(G[l]) \cup Live(G[r]) \cup {s} /\ Q = Live(G2[l]) \cup Live(G2[r]) \cup {e}
        /\ Live(G[par]) = D \cup {s} /\ Live(G2[par]) = D \cup {e}
  BY DEF Swaps
<1> USE <1>0 DEF Swaps
<1>1. ASSUME NEW x \in Stock(G, T) PROVE x \in Stock(G2, T)
  <2>1. PICK p \in T : x \in Live(G[p])
    BY DEF Stock
  <2>2. CASE p \in {l, r, par}
    <3>1. x \in Q \/ x \in D
      BY <2>1, <2>2
    <3>2. x \in Live(G2[l]) \/ x \in Live(G2[r]) \/ x \in Live(G2[par])
      BY <3>1
    <3> QED BY <3>2 DEF Stock
  <2>3. CASE p \notin {l, r, par}
    <3>1. x \in Live(G2[p])
      BY <2>1, <2>3
    <3> QED BY <3>1 DEF Stock
  <2> QED BY <2>2, <2>3
<1>2. ASSUME NEW x \in Stock(G2, T) PROVE x \in Stock(G, T)
  <2>1. PICK p \in T : x \in Live(G2[p])
    BY DEF Stock
  <2>2. CASE p \in {l, r, par}
    <3>1. x \in Q \/ x \in D
      BY <2>1, <2>2
    <3>2. x \in Live(G[l]) \/ x \in Live(G[r]) \/ x \in Live(G[par])
      BY <3>1
    <3> QED BY <3>2 DEF Stock
  <2>3. CASE p \notin {l, r, par}
    <3>1. x \in Live(G[p])
      BY <2>1, <2>3
    <3> QED BY <3>1 DEF Stock
  <2> QED BY <2>2, <2>3
<1> QED
  BY <1>1, <1>2

\* ... and two siblings become one, whatever becomes of the other's page.
Unites(G, T, l, r, par, s, G2, T2) ==
  /\ l \in T /\ r \in T /\ par \in T /\ l # r /\ l # par /\ r # par
  /\ \A p \in T \ {l, par} : G2[p] = G[p]
  /\ Live(G2[l]) = Live(G[l]) \cup Live(G[r]) \cup {s}
  /\ s \in Live(G[par]) /\ Live(G2[par]) = Live(G[par]) \ {s}
  /\ T2 \subseteq T /\ T \ {r} \subseteq T2

LEMMA JoinedStock ==
  ASSUME NEW G, NEW T, NEW l, NEW r, NEW par, NEW s, NEW G2, NEW T2, Unites(G, T, l, r, par, s, G2, T2)
  PROVE  Stock(G2, T2) = Stock(G, T)
<1> USE DEF Unites
<1>0. l \in T2 /\ par \in T2
  OBVIOUS
<1>1. ASSUME NEW x \in Stock(G, T) PROVE x \in Stock(G2, T2)
  <2>1. PICK p \in T : x \in Live(G[p])
    BY DEF Stock
  <2>2. CASE p \in {l, r, par}
    <3>1. x \in Live(G2[l]) \/ x \in Live(G2[par])
      BY <2>1, <2>2
    <3> QED BY <1>0, <3>1 DEF Stock
  <2>3. CASE p \notin {l, r, par}
    <3>1. x \in Live(G2[p]) /\ p \in T2
      BY <2>1, <2>3
    <3> QED BY <3>1 DEF Stock
  <2> QED BY <2>2, <2>3
<1>2. ASSUME NEW x \in Stock(G2, T2) PROVE x \in Stock(G, T)
  <2>1. PICK p \in T : x \in Live(G2[p])
    BY DEF Stock
  <2>2. CASE p \in {l, par}
    <3>1. x \in Live(G[l]) \/ x \in Live(G[r]) \/ x \in Live(G[par])
      BY <2>1, <2>2
    <3> QED BY <3>1 DEF Stock
  <2>3. CASE p \notin {l, par}
    <3>1. x \in Live(G[p])
      BY <2>1, <2>3
    <3> QED BY <3>1 DEF Stock
  <2> QED BY <2>2, <2>3
<1> QED
  BY <1>1, <1>2

-----------------------------------------------------------------------------
\* BTreeIndex as an implementation of KVMap, one step at a time.

\* The call in progress does to the map, and may answer, what its operation does.
Acts(answer) == pc = "down" /\ ~TookEffect /\ <<Contents', answer>> \in Map!Outcomes(call)

\* What a step is to the callers: a call starts; takes effect and returns; takes
\* effect; returns; or is on its way.
Starts == (\E c \in Calls : Invoke(c)) /\ Contents' = Contents
Answers == \E a : Acts(a) /\ Return(a)
TakesEffect == Acts(Done) /\ pc' # "idle" /\ TookEffect' /\ UNCHANGED <<call, result>>
Ends == TookEffect /\ Return(Done) /\ Contents' = Contents
Within ==
  /\ pc # "idle" /\ pc' # "idle" /\ TookEffect' = TookEffect
  /\ UNCHANGED <<call, result>> /\ Contents' = Contents

MapStep == Starts \/ Answers \/ TakesEffect \/ Ends \/ Within

LEMMA OneClient ==
  \A u, v : [x \in {1} |-> u][1] = u /\ [x \in {1} |-> v] = [[x \in {1} |-> u] EXCEPT ![1] = v]
OBVIOUS

\* Each of them is a step of the map, or none.
LEMMA MapStepRefines ==
  ASSUME IndInv, MapStep
  PROVE  [Map!Next]_Map!vars
<1>1. pc = "down" => call \in Calls /\ call # NoCall
  BY HeapTypes, CallTypes DEF NoCall
<1>7. TookEffect \in BOOLEAN /\ TookEffect' \in BOOLEAN
  BY DEF TookEffect
<1>2. CASE Starts
  <2>1. PICK c \in Calls : Invoke(c)
    BY <1>2 DEF Starts
  <2>2. pc = "idle" /\ pc' = "down" /\ call' = c /\ key' = c.key /\ result' = Pending /\ Contents' = Contents
    BY <1>2, <2>1 DEF Starts, Invoke
  <2>3. TookEffect' = TookEffect
    BY <2>2 DEF TookEffect
  <2>4. c \in Map!Requests
    BY ParameterAssumption DEF Calls, Map!Requests
  <2>5. PICK cl, cl2, re, re2 :
          /\ cl = [x \in {1} |-> NoCall] /\ cl2 = [x \in {1} |-> c]
          /\ re = [x \in {1} |-> result] /\ re2 = [x \in {1} |-> Pending]
    OBVIOUS
  <2>6. cl[1] = NoCall /\ cl2[1] = c /\ cl2 = [cl EXCEPT ![1] = cl2[1]] /\ re2 = [re EXCEPT ![1] = <<"pending">>]
    BY <2>5, OneClient DEF Pending
  <2>7. /\ cl = [x \in {1} |-> IF pc = "idle" THEN NoCall ELSE call]
        /\ cl2 = [x \in {1} |-> IF pc' = "idle" THEN NoCall ELSE call']
        /\ re2 = [x \in {1} |-> result']
    BY <2>2, <2>5
  <2>8. [x \in {1} |-> TookEffect'] = [x \in {1} |-> TookEffect]
    BY <2>3
  <2>9. Map!Invoke(1)
    BY <2>2, <2>4, <2>5, <2>6, <2>7, <2>8 DEF Map!Invoke
  <2> QED BY <2>9 DEF Map!Next
<1>3. CASE Answers
  <2>1. PICK a : Acts(a) /\ Return(a)
    BY <1>3 DEF Answers
  <2>2. pc' = "idle" /\ result' = a /\ TookEffect' = FALSE
    BY <2>1 DEF Return, TookEffect
  <2>3. Map!Return(1, a)
    BY <2>2, OneClient DEF Map!Return
  <2>4. Map!Perform(1)
    BY <1>1, <2>1, <2>3 DEF Map!Perform, Acts
  <2> QED BY <2>4 DEF Map!Next
<1>4. CASE TakesEffect
  <2>4. Map!Perform(1)
    BY <1>1, <1>4 DEF Map!Perform, Acts, TakesEffect, Done
  <2> QED BY <2>4 DEF Map!Next
<1>5. CASE Ends
  <2>1. /\ pc' = "idle" /\ result' = <<"ok">> /\ TookEffect' = FALSE /\ TookEffect = TRUE
        /\ Contents' = Contents
    BY <1>5 DEF Ends, Return, TookEffect, Done
  <2>2. Map!Return(1, <<"ok">>)
    BY <2>1, OneClient DEF Map!Return
  <2>4. Map!Finish(1)
    BY <2>1, <2>2, OneClient DEF Map!Finish
  <2> QED BY <2>4 DEF Map!Next
<1>6. CASE Within
  BY <1>6 DEF Within, Map!vars
<1> QED
  BY <1>2, <1>3, <1>4, <1>5, <1>6 DEF MapStep

\* The pages of the tree are those the roots lead to, and no others.
Rooted ==
  /\ TreePages \subseteq Pids /\ Roots \subseteq TreePages
  /\ \A p \in TreePages : Kids(heap[p]) \subseteq TreePages
  /\ \A A : Roots \subseteq A /\ (\A p \in TreePages : p \in A => Kids(heap[p]) \subseteq A)
              => TreePages \subseteq A

LEMMA TreeIsRooted == IndInv /\ TreeInv => Rooted
<1> SUFFICES ASSUME IndInv, TreeInv PROVE Rooted
  OBVIOUS
<1>1. PICK live, lev : TreeShape(live, lev)
  BY DEF TreeInv
<1>2. /\ TreePages \subseteq Pids /\ Roots \subseteq TreePages /\ Closed(TreePages)
      /\ \A A : Roots \subseteq A /\ Closed(A) => TreePages \subseteq A
  BY <1>1, TreePagesShape
<1>3. \A p \in TreePages : Kids(heap[p]) \subseteq TreePages
  BY <1>2, KidsAreChildren DEF Closed
<1>4. ASSUME NEW A, Roots \subseteq A, \A p \in TreePages : p \in A => Kids(heap[p]) \subseteq A
      PROVE  TreePages \subseteq A
  <2>1. Closed(A \cap TreePages)
    BY <1>2, <1>3, <1>4, KidsAreChildren DEF Closed
  <2>2. TreePages \subseteq A \cap TreePages
    BY <1>2, <1>4, <2>1
  <2> QED BY <2>2
<1> QED
  BY <1>2, <1>3, <1>4 DEF Rooted

\* What the invariants say of a step: the tree before it is in order, and the one
\* after it has no page but those and new ones.
Sound(lev, span) ==
  /\ TreeShape(TreePages, lev) /\ OrderShape(TreePages, span)
  /\ Rooted /\ Rooted' /\ TreePages' \subseteq TreePages \cup (Pids' \ Pids)

\* While nothing is half done the tree is as it is between calls.
LEMMA SoundIsRest ==
  ASSUME IndInv, NEW lev, NEW span, TreeShape(TreePages, lev), OrderShape(TreePages, span), Rooted,
         pc = "idle" \/ (pc = "down" /\ ~Moved)
  PROVE  Rest(lev, span)
<1>1. split = NoSplit /\ Roots = {root} /\ Forest(heap, {root}, TreePages, lev)
  BY DownShape DEF Roots
<1>2. Ordered(heap, TreePages, span) /\ span[root] = Int
  BY RestOrder, DownOrder
<1>3. ASSUME NEW A, A \subseteq TreePages, root \in A, \A p \in A : Kids(heap[p]) \subseteq A
      PROVE  A = TreePages
  <2>1. TreePages \subseteq A
    BY <1>1, <1>3 DEF Rooted
  <2> QED BY <1>3, <2>1
<1> QED
  BY <1>1, <1>2, <1>3 DEF Rest, Rooted

\* The pages of the tree after a step.
LEMMA PagesStay ==
  ASSUME NEW lev, NEW span, Sound(lev, span), Roots \subseteq TreePages',
         \A p \in TreePages : p \in TreePages' => Kids(heap[p]) \subseteq TreePages'
  PROVE  /\ TreePages \subseteq TreePages' /\ TreePages' \subseteq TreePages \cup (Pids' \ Pids)
         /\ Pids' = Pids => TreePages' = TreePages
BY DEF Sound, Rooted

\* They are the same when no page's children change.
LEMMA SamePages ==
  ASSUME NEW lev, NEW span, Sound(lev, span), Pids' = Pids, Roots' = Roots,
         \A p \in TreePages : Kids(heap'[p]) = Kids(heap[p])
  PROVE  TreePages' = TreePages
<1>1. Roots \subseteq TreePages' /\ \A p \in TreePages' : Kids(heap'[p]) \subseteq TreePages'
  BY DEF Sound, Rooted
<1>2. \A p \in TreePages : p \in TreePages' => Kids(heap[p]) \subseteq TreePages'
  BY <1>1
<1> QED
  BY <1>1, <1>2, PagesStay

-----------------------------------------------------------------------------
\* The entries are those of the pages, and the one a split hands up.
LEMMA ContentsStock ==
  /\ split = NoSplit => Contents = Stock(heap, TreePages)
  /\ split # NoSplit => Contents = Stock(heap, TreePages) \cup {split.elem}
BY DEF Contents, Stock

LEMMA ContentsAfter ==
  /\ split' = NoSplit => Contents' = Stock(heap', TreePages')
  /\ split' # NoSplit => Contents' = Stock(heap', TreePages') \cup {split'.elem}
BY DEF Contents, Stock

\* The entry of a slot is the only one of its key.
LEMMA EntryOfSlot ==
  ASSUME IndInv, NEW lev, NEW span, Rest(lev, span), NEW p \in TreePages, NEW i \in Places(heap[p]),
         NEW e, e = heap[p].slots[i]
  PROVE  /\ e \in Contents /\ e \in Live(heap[p]) /\ Contents = Stock(heap, TreePages)
         /\ \A r \in TreePages : \A x \in Live(heap[r]) : x[1] = e[1] => r = p /\ x = e
         /\ \A x \in Contents : x[1] = e[1] => x = e
<1>1. Contents = Stock(heap, TreePages)
  BY ContentsStock DEF Rest
<1>2. e \in Live(heap[p])
  BY LivePlaces
<1>3. ASSUME NEW r \in TreePages, NEW x \in Live(heap[r]), x[1] = e[1] PROVE r = p /\ x = e
  <2>2. PICK j \in Places(heap[r]) : x = heap[r].slots[j]
    BY LivePlace
  <2>3. heap[p].slots[i][1] = heap[r].slots[j][1]
    BY <1>3, <2>2
  <2>4. p = r /\ i = j
    BY <2>3, OneOfAKey
  <2> QED BY <2>2, <2>4
<1> QED
  BY <1>1, <1>2, <1>3 DEF Stock

\* In the pages G it gives way to those of A.
Replaces(G, p, e, A) ==
  /\ Live(G[p]) = (Live(heap[p]) \ {e}) \cup A
  /\ \A r \in TreePages \ {p} : G[r] = heap[r]

LEMMA ReplacedStock ==
  ASSUME IndInv, NEW lev, NEW span, Rest(lev, span), NEW p \in TreePages, NEW i \in Places(heap[p]),
         NEW e, e = heap[p].slots[i], NEW A, NEW G, Replaces(G, p, e, A)
  PROVE  Stock(G, TreePages) = {x \in Contents : x[1] # e[1]} \cup A
<1> USE DEF Replaces
<1>1. /\ Contents = Stock(heap, TreePages)
      /\ \A r \in TreePages : \A x \in Live(heap[r]) : x[1] = e[1] => r = p /\ x = e
  BY EntryOfSlot
<1>2. \A x : x \in Stock(G, TreePages) <=> x \in Live(G[p]) \/ \E r \in TreePages \ {p} : x \in Live(heap[r])
  BY WrittenStock
<1>3. \A x : x \in Contents <=> \E r \in TreePages : x \in Live(heap[r])
  BY <1>1 DEF Stock
<1>4. ASSUME NEW x \in Stock(G, TreePages) PROVE x \in {y \in Contents : y[1] # e[1]} \cup A
  BY <1>1, <1>2, <1>3
<1>5. ASSUME NEW x \in {y \in Contents : y[1] # e[1]} \cup A PROVE x \in Stock(G, TreePages)
  <2>1. CASE x \in A
    BY <1>2, <2>1
  <2>2. CASE x \in Contents /\ x[1] # e[1]
    <3>1. PICK r \in TreePages : x \in Live(heap[r])
      BY <1>3, <2>2
    <3>2. x # e
      BY <2>2
    <3> QED BY <1>2, <3>1, <3>2
  <2> QED BY <2>1, <2>2
<1> QED
  BY <1>4, <1>5

\* A key that belongs in a leaf and is not there is nowhere.
LEMMA MissMeansAbsent ==
  ASSUME IndInv, NEW lev, NEW span, Rest(lev, span), NEW c \in TreePages, IsLeaf(c),
         NEW k \in span[c], ~LeafHolds(heap[c], k)
  PROVE  \A x \in Contents : x[1] # k
<1> SUFFICES ASSUME NEW x \in Contents, x[1] = k PROVE FALSE
  OBVIOUS
<1>1. Contents = Stock(heap, TreePages)
  BY ContentsStock DEF Rest
<1>2. PICK p \in TreePages : x \in Live(heap[p])
  BY <1>1 DEF Stock
<1>3. PICK i \in Places(heap[p]) : x = heap[p].slots[i]
  BY <1>2, LivePlace
<1>4. k \in span[p] /\ lev[c] >= lev[p]
  BY <1>3, HeldAbove
<1>5. lev[c] = 0 /\ lev[p] \in Nat
  BY DEF Rest, Forest, IsLeaf
<1>6. p = c
  <2>1. lev[p] = lev[c]
    BY <1>4, <1>5
  <2> QED BY <1>4, <2>1, OneSpanPerLevel
<1>7. LeafHolds(heap[p], k)
  <2>1. heap[p].kind = "leaf"
    BY <1>6 DEF IsLeaf
  <2> QED BY <1>3, <2>1, SearchStops
<1> QED
  BY <1>6, <1>7

\* What a search for a key finds at a page the key belongs in: the entry of the
\* key, that it has none, or the child it belongs in.
LEMMA PageTells ==
  ASSUME IndInv, NEW lev, NEW span, Rest(lev, span), NEW p \in TreePages, NEW k \in span[p]
  PROVE  /\ p \in Pids /\ k \in Int
         /\ IsLeaf(p) /\ LeafHolds(heap[p], k) => \E e \in Contents : e[1] = k /\ e[2] = LeafValue(heap[p], k)
         /\ IsLeaf(p) /\ ~LeafHolds(heap[p], k) => \A e \in Contents : e[1] # k
         /\ ~IsLeaf(p) /\ InnerHolds(heap[p], k) => \E e \in Contents : e[1] = k /\ e[2] = InnerValue(heap[p], k)
         /\ ~IsLeaf(p) /\ ~InnerHolds(heap[p], k)
              => InnerChild(heap[p], k) \in TreePages /\ k \in span[InnerChild(heap[p], k)]
<1>1. /\ p \in Pids /\ InOrder(heap[p], span[p], span) /\ heap[p].size \in Nat
      /\ heap[p].kind = "leaf" => heap[p] \in LeafPages
      /\ heap[p].kind # "leaf" => heap[p] \in InnerOver(Pids) /\ heap[p].size >= 1 /\ heap[p].kind = "inner"
  BY TreePage
<1>2. k \in Int /\ AllInts(span[p]) /\ Sorted(heap[p], span[p])
  BY <1>1 DEF InOrder, AllInts
<1>3. ASSUME IsLeaf(p), LeafHolds(heap[p], k)
      PROVE  \E e \in Contents : e[1] = k /\ e[2] = LeafValue(heap[p], k)
  <2>1. PICK i : i = LeafSearch(heap[p], k)
    OBVIOUS
  <2>2. i \in 0..heap[p].size /\ i < heap[p].size /\ heap[p].slots[i][1] = k
    BY <1>1, <1>2, <1>3, <2>1, LeafSearchPlace DEF IsLeaf
  <2>3. i \in Places(heap[p])
    BY <1>1, <1>3, <2>2 DEF Places, First, IsLeaf
  <2>4. heap[p].slots[i] \in Contents
    BY <2>3, EntryOfSlot
  <2> QED BY <2>1, <2>2, <2>4 DEF LeafValue
<1>4. ASSUME ~IsLeaf(p), InnerHolds(heap[p], k)
      PROVE  \E e \in Contents : e[1] = k /\ e[2] = InnerValue(heap[p], k)
  <2>1. PICK i : i = InnerSearch(heap[p], k)
    OBVIOUS
  <2>2. i \in 1..heap[p].size /\ i < heap[p].size /\ heap[p].slots[i][1] = k
    BY <1>1, <1>2, <1>4, <2>1, InnerSearchPlace DEF IsLeaf
  <2>3. i \in Places(heap[p])
    BY <1>1, <1>4, <2>2 DEF Places, First, IsLeaf
  <2>4. heap[p].slots[i] \in Contents
    BY <2>3, EntryOfSlot
  <2> QED BY <2>1, <2>2, <2>4 DEF InnerValue
<1>5. ASSUME ~IsLeaf(p), ~InnerHolds(heap[p], k)
      PROVE  InnerChild(heap[p], k) \in TreePages /\ k \in span[InnerChild(heap[p], k)]
  <2>1. PICK i : i = InnerSearch(heap[p], k)
    OBVIOUS
  <2>2. i - 1 \in 0..(heap[p].size - 1) /\ k \in span[heap[p].pids[i - 1]]
    BY <1>1, <1>5, <2>1, ChildPlace DEF IsLeaf
  <2>3. heap[p].pids[i - 1] \in Kids(heap[p])
    BY <1>5, <2>2 DEF Kids, IsLeaf
  <2>4. heap[p].pids[i - 1] \in TreePages
    BY <2>3 DEF Rest
  <2> QED BY <2>1, <2>2, <2>4 DEF InnerChild
<1> QED
  BY <1>1, <1>2, <1>3, <1>4, <1>5, MissMeansAbsent

\* What the tree holds are entries.
LEMMA TreeEntries ==
  ASSUME IndInv, NEW lev, NEW span, Rest(lev, span)
  PROVE  \A e \in Contents : e \in Entries
<1> SUFFICES ASSUME NEW e \in Contents PROVE e \in Entries
  OBVIOUS
<1>1. PICK p \in TreePages : e \in Live(heap[p])
  BY ContentsStock DEF Rest, Stock
<1>2. PICK i \in Places(heap[p]) : e = heap[p].slots[i]
  BY <1>1, LivePlace
<1>3. /\ p \in Pids /\ heap[p].size \in Nat
      /\ heap[p].kind = "leaf" => heap[p] \in LeafPages
      /\ heap[p].kind # "leaf" => heap[p] \in InnerOver(Pids)
  BY TreePage
<1>4. heap[p].size \in IF IsLeaf(p) THEN 0..(LeafMax - 1) ELSE 1..(InnerMax - 1)
  BY <1>3 DEF IndInv, SlotsFit
<1>5. CASE heap[p].kind = "leaf"
  BY <1>2, <1>3, <1>4, <1>5, ParameterAssumption DEF LeafPages, LeafSlots, Places, First, IsLeaf
<1>6. CASE heap[p].kind # "leaf"
  BY <1>2, <1>3, <1>4, <1>6, ParameterAssumption DEF InnerOver, InnerSlots, Places, First, IsLeaf
<1> QED BY <1>5, <1>6

\* What each operation of the map may do and answer.
LEMMA OutcomesOf ==
  ASSUME NEW r \in Calls, NEW k, k = r.key
  PROVE  /\ r.op = "Get" /\ (\A e \in Contents : e[1] # k) => <<Contents, NotFound>> \in Map!Outcomes(r)
         /\ r.op = "Get" => \A e \in Contents : e[1] = k => <<Contents, Found(e[2])>> \in Map!Outcomes(r)
         /\ r.op = "Update" /\ (\A e \in Contents : e[1] # k) => <<Contents, Done>> \in Map!Outcomes(r)
         /\ r.op = "Update" /\ (\E e \in Contents : e[1] = k)
              => <<{e \in Contents : e[1] # k} \cup {<<k, r.val>>}, Done>> \in Map!Outcomes(r)
         /\ r.op = "Insert" /\ (\A e \in Contents : e[1] # k)
              => <<Contents \cup {<<k, r.val>>}, Done>> \in Map!Outcomes(r)
         /\ r.op = "Insert" /\ (\E e \in Contents : e[1] = k)
              => <<Contents, Done>> \in Map!Outcomes(r) /\ <<Contents, Throw>> \in Map!Outcomes(r)
         /\ r.op = "Remove" => <<{e \in Contents : e[1] # k}, Done>> \in Map!Outcomes(r)
<1>1. Map!Has(k) <=> \E e \in Contents : e[1] = k
  BY DEF Map!Has
<1>2. Map!Without(k) = {e \in Contents : e[1] # k}
  BY DEF Map!Without
<1>3. CASE r.op = "Get"
  <2>1. Map!Outcomes(r) = IF Map!Has(k) THEN {<<Contents, <<"found", e[2]>>>> : e \in Contents \ Map!Without(k)}
                                        ELSE {<<Contents, <<"none">>>>}
    BY <1>3 DEF Map!Outcomes
  <2>2. \A e \in Contents : e[1] = k => e \in Contents \ Map!Without(k)
    BY <1>2
  <2> QED BY <1>1, <1>3, <2>1, <2>2 DEF Found, NotFound
<1>4. CASE r.op = "Update"
  <2>1. Map!Outcomes(r) = {<<IF Map!Has(k) THEN Map!Without(k) \cup {<<k, r.val>>} ELSE Contents, <<"ok">>>>}
    BY <1>4 DEF Map!Outcomes
  <2> QED BY <1>1, <1>2, <1>4, <2>1 DEF Done
<1>5. CASE r.op = "Insert"
  <2>1. Map!Has(k) => Map!Outcomes(r) = {<<Contents, <<"ok">>>>, <<Contents, <<"throw">>>>}
    BY <1>5 DEF Map!Outcomes
  <2>2. ~Map!Has(k) => Map!Outcomes(r) = {<<Contents \cup {<<k, r.val>>}, <<"ok">>>>}
    BY <1>5 DEF Map!Outcomes
  <2> QED BY <1>1, <1>5, <2>1, <2>2 DEF Done, Throw
<1>6. CASE r.op = "Remove"
  <2>1. Map!Outcomes(r) = {<<Map!Without(k), <<"ok">>>>}
    BY <1>6 DEF Map!Outcomes
  <2> QED BY <1>2, <1>6, <2>1 DEF Done
<1> QED
  BY <1>3, <1>4, <1>5, <1>6, CallTypes

-----------------------------------------------------------------------------
\* The steps of a call, as steps of the map.

LEMMA NothingWritten ==
  ASSUME NEW lev, NEW span, Sound(lev, span), heap' = heap, root' = root, split' = split
  PROVE  TreePages' = TreePages /\ Contents' = Contents
<1>1. Roots' = Roots /\ Pids' = Pids
  BY DEF Roots, Pids
<1>2. TreePages' = TreePages
  BY <1>1, SamePages
<1> QED
  BY <1>2, ContentsStock, ContentsAfter

\* The call has done nothing yet.
LEMMA NotYet ==
  ASSUME IndInv, NEW lev, NEW span, Sound(lev, span), pc = "down", ~Moved
  PROVE  /\ Rest(lev, span) /\ ~TookEffect /\ path # <<>> /\ Cur \in TreePages /\ call \in Calls
         /\ Contents = Stock(heap, TreePages) /\ split = NoSplit /\ Roots = {root}
         /\ key = call.key /\ key \in span[Cur] /\ InOrder(Page, span[Cur], span)
<1>1. /\ TreeShape(TreePages, lev) /\ OrderShape(TreePages, span) /\ Rooted
  BY DEF Sound
<1>2. Rest(lev, span)
  BY <1>1, SoundIsRest
<1>3. call \in Calls /\ path # <<>>
  BY HeapTypes
<1>4. Cur \in TreePages
  BY <1>1, <1>3, PathFacts
<1>5. key \in span[Cur] /\ key = call.key
  BY <1>1, DownOrder DEF Moved
<1>6. InOrder(heap[Cur], span[Cur], span)
  BY <1>2, <1>4, TreePage
<1> QED
  BY <1>2, <1>3, <1>4, <1>5, <1>6, ContentsStock DEF TookEffect, Moved, Rest, Page, Roots

LEMMA InvokeMaps ==
  ASSUME IndInv, NEW lev, NEW span, Sound(lev, span), NEW c \in Calls, Invoke(c)
  PROVE  MapStep
<1>1. Contents' = Contents
  BY NothingWritten DEF Invoke
<1> QED
  BY <1>1 DEF MapStep, Starts

LEMMA GoDownMaps ==
  ASSUME IndInv, NEW lev, NEW span, Sound(lev, span), GoDown
  PROVE  MapStep
<1>1. Contents' = Contents
  BY NothingWritten DEF GoDown
<1>2. TookEffect' = TookEffect
  BY DEF GoDown, TookEffect
<1> QED
  BY <1>1, <1>2 DEF MapStep, Within, GoDown

\* A key found where the call is is in the entry there, and no other has it.
LEMMA HereIsTheEntry ==
  ASSUME IndInv, NEW lev, NEW span, Sound(lev, span), pc = "down", ~Moved, NEW i,
         \/ IsLeaf(Cur) /\ LeafHolds(Page, key) /\ i = LeafSearch(Page, key)
         \/ ~IsLeaf(Cur) /\ InnerHolds(Page, key) /\ i = InnerSearch(Page, key)
  PROVE  /\ i \in Places(Page) /\ Page.slots[i][1] = key /\ Page.slots[i] \in Contents
         /\ \A x \in Contents : x[1] = key => x = Page.slots[i]
<1>1. /\ Rest(lev, span) /\ Cur \in TreePages /\ path # <<>>
      /\ key \in span[Cur] /\ InOrder(Page, span[Cur], span) /\ Page = heap[Cur]
  BY NotYet DEF Page
<1>2. key \in Int /\ AllInts(span[Cur]) /\ Sorted(Page, span[Cur])
  BY <1>1 DEF InOrder, AllInts
<1>3. i \in Places(Page) /\ Page.slots[i][1] = key
  <2>1. CASE IsLeaf(Cur)
    <3>1. Page \in LeafPages /\ LeafHolds(Page, key) /\ i = LeafSearch(Page, key) /\ Page.kind = "leaf"
      BY <1>1, <2>1, TreePage DEF IsLeaf
    <3>2. i \in 0..Page.size /\ i < Page.size /\ Page.slots[i][1] = key
      BY <1>2, <3>1, LeafSearchPlace
    <3>3. i \in Int /\ i >= 0 /\ Page.size \in Nat
      BY <1>1, <3>2, TreePage
    <3> QED BY <3>1, <3>2, <3>3 DEF Places, First
  <2>2. CASE ~IsLeaf(Cur)
    <3>1. Page \in InnerOver(Pids) /\ Page.size >= 1 /\ Page.size \in Nat /\ InnerHolds(Page, key)
          /\ i = InnerSearch(Page, key) /\ Page.kind = "inner"
      BY <1>1, <2>2, TreePage DEF IsLeaf
    <3>2. i \in 1..Page.size /\ i < Page.size /\ Page.slots[i][1] = key
      BY <1>2, <3>1, InnerSearchPlace
    <3> QED BY <3>1, <3>2 DEF Places, First
  <2> QED BY <2>1, <2>2
<1>4. PICK e : e = heap[Cur].slots[i]
  OBVIOUS
<1>5. e \in Contents /\ \A x \in Contents : x[1] = e[1] => x = e
  BY <1>1, <1>3, <1>4, EntryOfSlot
<1> QED
  BY <1>1, <1>3, <1>4, <1>5

\* A step that only answers.
LEMMA AnswersOnly ==
  ASSUME IndInv, NEW lev, NEW span, Sound(lev, span), pc = "down", ~Moved,
         UNCHANGED <<heap, root>>, NEW a, Return(a), <<Contents, a>> \in Map!Outcomes(call)
  PROVE  MapStep
<1>1. split' = split /\ ~TookEffect
  BY NotYet DEF Return
<1>2. Contents' = Contents
  BY <1>1, NothingWritten
<1> QED
  BY <1>1, <1>2 DEF MapStep, Answers, Acts

LEMMA GetMaps ==
  ASSUME IndInv, NEW lev, NEW span, Sound(lev, span), GetAtInner \/ GetAtLeaf
  PROVE  MapStep
<1>1. /\ pc = "down" /\ call.op = "Get" /\ UNCHANGED <<heap, root>>
      /\ TreeShape(TreePages, lev) /\ OrderShape(TreePages, span)
  BY DEF GetAtInner, GetAtLeaf, AtInner, AtLeaf, Sound
<1>2. ~Moved
  BY <1>1 DEF Moved
<1>3. /\ Rest(lev, span) /\ Cur \in TreePages /\ call \in Calls /\ key = call.key /\ key \in span[Cur]
      /\ Page = heap[Cur]
  BY <1>1, <1>2, NotYet DEF Page
<1>4. CASE GetAtInner
  <2>1. PICK i, e : i = InnerSearch(Page, key) /\ e = Page.slots[i]
    OBVIOUS
  <2>2. ~IsLeaf(Cur) /\ InnerHolds(Page, key) /\ Return(Found(e[2]))
    BY <1>4, <2>1 DEF GetAtInner, AtInner, InnerValue
  <2>3. e \in Contents /\ e[1] = key
    BY <1>1, <1>2, <2>1, <2>2, HereIsTheEntry
  <2>4. <<Contents, Found(e[2])>> \in Map!Outcomes(call)
    BY <1>1, <1>3, <2>3, OutcomesOf
  <2> QED BY <1>1, <1>2, <2>2, <2>4, AnswersOnly
<1>5. CASE GetAtLeaf /\ LeafHolds(Page, key)
  <2>1. PICK i, e : i = LeafSearch(Page, key) /\ e = Page.slots[i]
    OBVIOUS
  <2>2. IsLeaf(Cur) /\ LeafHolds(Page, key) /\ Return(Found(e[2]))
    BY <1>5, <2>1 DEF GetAtLeaf, AtLeaf, LeafValue
  <2>3. e \in Contents /\ e[1] = key
    BY <1>1, <1>2, <2>1, <2>2, HereIsTheEntry
  <2>4. <<Contents, Found(e[2])>> \in Map!Outcomes(call)
    BY <1>1, <1>3, <2>3, OutcomesOf
  <2> QED BY <1>1, <1>2, <2>2, <2>4, AnswersOnly
<1>6. CASE GetAtLeaf /\ ~LeafHolds(Page, key)
  <2>1. IsLeaf(Cur) /\ Return(NotFound)
    BY <1>6 DEF GetAtLeaf, AtLeaf
  <2>2. \A x \in Contents : x[1] # key
    BY <1>3, <1>6, <2>1, MissMeansAbsent
  <2>3. <<Contents, NotFound>> \in Map!Outcomes(call)
    BY <1>1, <1>3, <2>2, OutcomesOf
  <2> QED BY <1>1, <1>2, <2>1, <2>3, AnswersOnly
<1> QED
  BY <1>4, <1>5, <1>6

LEMMA MissMaps ==
  ASSUME IndInv, NEW lev, NEW span, Sound(lev, span), InsertDuplicate \/ RemoveMiss
  PROVE  MapStep
<1>1. /\ pc = "down" /\ UNCHANGED <<heap, root>>
      /\ TreeShape(TreePages, lev) /\ OrderShape(TreePages, span)
  BY DEF InsertDuplicate, RemoveMiss, AtInner, AtLeaf, Sound
<1>2. ~Moved
  <2>1. CASE InsertDuplicate
    BY <2>1 DEF InsertDuplicate, AtInner, Moved
  <2>2. CASE RemoveMiss
    <3>1. ~LeafHolds(Page, key)
      BY <2>2 DEF RemoveMiss
    <3> QED BY <1>1, <3>1, DownOrder
  <2> QED BY <2>1, <2>2
<1>3. /\ Rest(lev, span) /\ Cur \in TreePages /\ call \in Calls /\ key = call.key /\ key \in span[Cur]
      /\ Page = heap[Cur]
  BY <1>1, <1>2, NotYet DEF Page
<1>4. CASE InsertDuplicate
  <2>1. PICK i, e : i = InnerSearch(Page, key) /\ e = Page.slots[i]
    OBVIOUS
  <2>2. ~IsLeaf(Cur) /\ InnerHolds(Page, key) /\ call.op = "Insert"
    BY <1>4 DEF InsertDuplicate, AtInner
  <2>3. e \in Contents /\ e[1] = key
    BY <1>1, <1>2, <2>1, <2>2, HereIsTheEntry
  <2>4. <<Contents, Done>> \in Map!Outcomes(call) /\ <<Contents, Throw>> \in Map!Outcomes(call)
    BY <1>3, <2>2, <2>3, OutcomesOf
  <2>5. Return(Done) \/ Return(Throw)
    BY <1>4 DEF InsertDuplicate
  <2> QED BY <1>1, <1>2, <2>4, <2>5, AnswersOnly
<1>5. CASE RemoveMiss
  <2>1. IsLeaf(Cur) /\ Return(Done) /\ ~LeafHolds(Page, key) /\ call.op = "Remove"
    BY <1>5 DEF RemoveMiss, AtLeaf
  <2>2. \A x \in Contents : x[1] # key
    BY <1>3, <2>1, MissMeansAbsent
  <2>3. {x \in Contents : x[1] # key} = Contents
    BY <2>2
  <2>4. <<Contents, Done>> \in Map!Outcomes(call)
    BY <1>3, <2>1, <2>3, OutcomesOf
  <2> QED BY <1>1, <1>2, <2>1, <2>4, AnswersOnly
<1> QED
  BY <1>4, <1>5

\* The page the call is on is written, its children stay.
LEMMA PageWritten ==
  ASSUME IndInv, NEW lev, NEW span, Sound(lev, span), pc = "down", ~Moved,
         NEW q, heap' = [heap EXCEPT ![Cur] = q], Kids(q) = Kids(Page), root' = root, split' = NoSplit
  PROVE  /\ TreePages' = TreePages /\ Contents' = Stock(heap', TreePages)
         /\ heap'[Cur] = q /\ \A r \in TreePages \ {Cur} : heap'[r] = heap[r]
<1>1. Cur \in TreePages /\ TreePages \subseteq Pids /\ Roots = {root}
  BY NotYet DEF Sound, Rooted
<1>2. /\ heap'[Cur] = q /\ \A r \in Pids \ {Cur} : heap'[r] = heap[r]
      /\ Pids' = Pids
  BY <1>1 DEF Pids
<1>3. \A r \in TreePages : Kids(heap'[r]) = Kids(heap[r])
  BY <1>1, <1>2 DEF Page
<1>4. Roots' = Roots
  BY <1>1 DEF Roots
<1>5. TreePages' = TreePages
  BY <1>2, <1>3, <1>4, SamePages
<1> QED
  BY <1>1, <1>2, <1>5, ContentsAfter

LEMMA AssignedSlots ==
  ASSUME IndInv, path # <<>>, NEW i \in Places(Page), NEW q, NEW v,
         \/ IsLeaf(Cur) /\ i = LeafSearch(Page, key) /\ q = LeafAssign(Page, key, v)
         \/ ~IsLeaf(Cur) /\ i = InnerSearch(Page, key) /\ q = InnerAssign(Page, key, v)
  PROVE  /\ q.kind = Page.kind /\ q.size = Page.size /\ q.slots[i] = <<Page.slots[i][1], v>>
         /\ \A j \in Places(Page) : j # i => q.slots[j] = Page.slots[j]
         /\ Kids(q) = Kids(Page)
<1>1. CASE IsLeaf(Cur)
  <2>1. Page \in LeafPages /\ Page.kind = "leaf" /\ Page.size \in 0..(LeafMax - 1)
    BY <1>1, CurPage DEF IsLeaf
  <2>2. Page.slots \in [LeafSlots -> Entries] /\ i \in LeafSlots
    BY <2>1, ParameterAssumption DEF LeafPages, Places, First, LeafSlots
  <2>3. /\ q.kind = Page.kind /\ q.size = Page.size
        /\ q.slots = [Page.slots EXCEPT ![i] = <<Page.slots[i][1], v>>]
    BY <1>1, <2>1, <2>2 DEF LeafAssign, LeafPages
  <2>4. \A j \in Places(Page) : j \in LeafSlots
    BY <2>1, ParameterAssumption DEF Places, First, LeafSlots
  <2>5. Kids(q) = Kids(Page)
    BY <2>1, <2>3, LeafKids
  <2> QED BY <2>2, <2>3, <2>4, <2>5
<1>2. CASE ~IsLeaf(Cur)
  <2>1. Page \in InnerOver(Pids) /\ Page.size \in 1..(InnerMax - 1)
    BY <1>2, CurPage
  <2>2. Page.kind = "inner" /\ Page.slots \in [InnerSlots -> Entries]
    BY <2>1, InnerFields
  <2>3. \A j \in Places(Page) : j \in InnerSlots
    BY <2>1, <2>2, ParameterAssumption DEF Places, First, InnerSlots
  <2>4. /\ q.kind = Page.kind /\ q.size = Page.size
        /\ q.slots = [Page.slots EXCEPT ![i] = <<Page.slots[i][1], v>>]
    BY <1>2, <2>1, <2>2, <2>3 DEF InnerAssign, InnerOver
  <2>5. Kids(q) = Kids(Page)
    BY <1>2, <2>1, InnerAssignKids
  <2> QED BY <2>2, <2>3, <2>4, <2>5
<1> QED
  BY <1>1, <1>2

\* A key found is given the value.
LEMMA AssignMaps ==
  ASSUME IndInv, NEW lev, NEW span, Sound(lev, span), pc = "down", call.op = "Update",
         NEW i, NEW q,
         \/ /\ IsLeaf(Cur) /\ LeafHolds(Page, key)
            /\ i = LeafSearch(Page, key) /\ q = LeafAssign(Page, key, call.val)
         \/ /\ ~IsLeaf(Cur) /\ InnerHolds(Page, key)
            /\ i = InnerSearch(Page, key) /\ q = InnerAssign(Page, key, call.val),
         heap' = [heap EXCEPT ![Cur] = q], Return(Done), root' = root
  PROVE  MapStep
<1>1. ~Moved
  BY DEF Moved
<1>2. /\ Rest(lev, span) /\ ~TookEffect /\ path # <<>> /\ Cur \in TreePages /\ call \in Calls
      /\ key = call.key /\ InOrder(Page, span[Cur], span) /\ Page = heap[Cur]
  BY <1>1, NotYet DEF Page
<1>3. i \in Places(Page) /\ Page.slots[i][1] = key /\ Page.slots[i] \in Contents
  BY <1>1, HereIsTheEntry
<1>4. /\ q.kind = Page.kind /\ q.size = Page.size /\ q.slots[i] = <<Page.slots[i][1], call.val>>
      /\ \A j \in Places(Page) : j # i => q.slots[j] = Page.slots[j]
      /\ Kids(q) = Kids(Page)
  BY <1>2, <1>3, AssignedSlots
<1>5. PICK e, n : e = heap[Cur].slots[i] /\ n = <<key, call.val>>
  OBVIOUS
<1>6. Live(q) = (Live(Page) \ {e}) \cup {n}
  <2>1. AllInts(span[Cur]) /\ Sorted(Page, span[Cur]) /\ Page.size \in Nat
    BY <1>2, TreePage DEF InOrder
  <2>2. q.slots[i] = n
    BY <1>3, <1>4, <1>5
  <2>3. Live(q) = (Live(Page) \ {Page.slots[i]}) \cup {n}
    BY <1>3, <1>4, <2>1, <2>2, RewrittenLive
  <2> QED BY <1>2, <1>5, <2>3
<1>7. /\ TreePages' = TreePages /\ Contents' = Stock(heap', TreePages)
      /\ heap'[Cur] = q /\ \A r \in TreePages \ {Cur} : heap'[r] = heap[r]
  <2>1. split' = NoSplit
    BY DEF Return
  <2> QED BY <1>1, <1>4, <2>1, PageWritten
<1>8. Stock(heap', TreePages) = {x \in Contents : x[1] # e[1]} \cup {n}
  <2>1. PICK p, G, A : p = Cur /\ G = heap' /\ A = {n}
    OBVIOUS
  <2>2. /\ p \in TreePages /\ i \in Places(heap[p]) /\ e = heap[p].slots[i]
        /\ Replaces(G, p, e, A)
    BY <1>2, <1>3, <1>5, <1>6, <1>7, <2>1 DEF Replaces
  <2>3. Stock(G, TreePages) = {x \in Contents : x[1] # e[1]} \cup A
    BY <1>2, <2>2, ReplacedStock
  <2> QED BY <2>1, <2>3
<1>9. Contents' = {x \in Contents : x[1] # key} \cup {<<key, call.val>>}
  BY <1>2, <1>3, <1>5, <1>7, <1>8
<1>10. <<Contents', Done>> \in Map!Outcomes(call)
  BY <1>2, <1>3, <1>9, OutcomesOf
<1> QED
  BY <1>2, <1>10 DEF MapStep, Answers, Acts

LEMMA UpdateMaps ==
  ASSUME IndInv, NEW lev, NEW span, Sound(lev, span), UpdateAtInner \/ UpdateAtLeaf
  PROVE  MapStep
<1>1. pc = "down" /\ call.op = "Update" /\ Return(Done) /\ root' = root
  BY DEF UpdateAtInner, UpdateAtLeaf, AtInner, AtLeaf
<1>2. CASE UpdateAtInner
  <2>1. PICK i, q : i = InnerSearch(Page, key) /\ q = InnerAssign(Page, key, call.val)
    OBVIOUS
  <2>2. ~IsLeaf(Cur) /\ InnerHolds(Page, key) /\ heap' = [heap EXCEPT ![Cur] = q]
    BY <1>2, <2>1 DEF UpdateAtInner, AtInner, Page
  <2> QED BY <1>1, <2>1, <2>2, AssignMaps
<1>3. CASE UpdateAtLeaf /\ LeafHolds(Page, key)
  <2>1. PICK i, q : i = LeafSearch(Page, key) /\ q = LeafAssign(Page, key, call.val)
    OBVIOUS
  <2>2. IsLeaf(Cur) /\ LeafHolds(Page, key) /\ heap' = [heap EXCEPT ![Cur] = q]
    BY <1>3, <2>1 DEF UpdateAtLeaf, AtLeaf, Page
  <2> QED BY <1>1, <2>1, <2>2, AssignMaps
<1>4. CASE UpdateAtLeaf /\ ~LeafHolds(Page, key)
  <2>1. IsLeaf(Cur) /\ UNCHANGED <<heap, root>> /\ ~Moved
    BY <1>1, <1>4 DEF UpdateAtLeaf, AtLeaf, Moved
  <2>2. /\ Rest(lev, span) /\ Cur \in TreePages /\ call \in Calls /\ key = call.key /\ key \in span[Cur]
        /\ Page = heap[Cur]
    BY <1>1, <2>1, NotYet DEF Page
  <2>3. \A x \in Contents : x[1] # key
    BY <1>4, <2>1, <2>2, MissMeansAbsent
  <2>4. <<Contents, Done>> \in Map!Outcomes(call)
    BY <1>1, <2>2, <2>3, OutcomesOf
  <2> QED BY <1>1, <2>1, <2>4, AnswersOnly
<1> QED
  BY <1>2, <1>3, <1>4

\* Entries are added to one page ...
Adds(G, T, c, G2, A) ==
  c \in T /\ Live(G2[c]) = Live(G[c]) \cup A /\ \A p \in T \ {c} : G2[p] = G[p]

LEMMA AddedStock ==
  ASSUME NEW G, NEW T, NEW c, NEW G2, NEW A, Adds(G, T, c, G2, A)
  PROVE  Stock(G2, T) = Stock(G, T) \cup A
<1> USE DEF Adds
<1>1. ASSUME NEW x \in Stock(G, T) \cup A PROVE x \in Stock(G2, T)
  <2>1. CASE x \in A
    BY <2>1 DEF Stock
  <2>2. CASE x \in Stock(G, T)
    <3>1. PICK p \in T : x \in Live(G[p])
      BY <2>2 DEF Stock
    <3>2. x \in Live(G2[p])
      BY <3>1
    <3> QED BY <3>2 DEF Stock
  <2> QED BY <2>1, <2>2
<1>2. ASSUME NEW x \in Stock(G2, T) PROVE x \in Stock(G, T) \cup A
  <2>1. PICK p \in T : x \in Live(G2[p])
    BY DEF Stock
  <2>2. x \in Live(G[p]) \/ x \in A
    BY <2>1
  <2> QED BY <2>2 DEF Stock
<1> QED
  BY <1>1, <1>2

\* ... or two pages share its entries and more, but for one.
Divides(G, T, c, n, G2, T2, A, e) ==
  /\ c \in T /\ n \notin T /\ T2 = T \cup {n} /\ \A p \in T \ {c} : G2[p] = G[p]
  /\ Live(G2[c]) \cup Live(G2[n]) \cup {e} = Live(G[c]) \cup A

LEMMA SharedStock ==
  ASSUME NEW G, NEW T, NEW c, NEW n, NEW G2, NEW T2, NEW A, NEW e, Divides(G, T, c, n, G2, T2, A, e)
  PROVE  Stock(G2, T2) \cup {e} = Stock(G, T) \cup A
<1> USE DEF Divides
<1>0. PICK Q : Q = Live(G[c]) \cup A /\ Q = Live(G2[c]) \cup Live(G2[n]) \cup {e}
  OBVIOUS
<1>1. ASSUME NEW x \in Stock(G, T) \cup A PROVE x \in Stock(G2, T2) \cup {e}
  <2>1. CASE x \in Q
    <3>1. x \in Live(G2[c]) \/ x \in Live(G2[n]) \/ x = e
      BY <1>0, <2>1
    <3> QED BY <3>1 DEF Stock
  <2>2. CASE x \notin Q
    <3>1. PICK p \in T : x \in Live(G[p])
      BY <1>0, <2>2 DEF Stock
    <3>2. x \in Live(G2[p]) /\ p \in T2
      BY <1>0, <2>2, <3>1
    <3> QED BY <3>2 DEF Stock
  <2> QED BY <2>1, <2>2
<1>2. ASSUME NEW x \in Stock(G2, T2) \cup {e} PROVE x \in Stock(G, T) \cup A
  <2>1. CASE x \in Q
    BY <2>1 DEF Stock
  <2>2. CASE x \notin Q
    <3>1. PICK p \in T2 : x \in Live(G2[p])
      BY <1>0, <2>2 DEF Stock
    <3>2. p \in T /\ x \in Live(G[p])
      BY <1>0, <2>2, <3>1
    <3> QED BY <3>2 DEF Stock
  <2> QED BY <2>1, <2>2
<1> QED
  BY <1>1, <1>2

\* A leaf takes a new entry, and may split.
LEMMA LeafInsertMaps ==
  ASSUME IndInv, NEW lev, NEW span, Sound(lev, span), LeafInsertFits \/ LeafInsertSplits, ~InsertsTwice
  PROVE  MapStep
<1>1. pc = "down" /\ call.op = "Insert" /\ IsLeaf(Cur) /\ ~Moved /\ ~LeafHolds(Page, key)
  BY DEF LeafInsertFits, LeafInsertSplits, AtLeaf, Moved, InsertsTwice
<1>2. /\ Rest(lev, span) /\ ~TookEffect /\ path # <<>> /\ Cur \in TreePages /\ call \in Calls
      /\ Contents = Stock(heap, TreePages) /\ split = NoSplit /\ Roots = {root} /\ TreePages \subseteq Pids
      /\ key = call.key /\ key \in span[Cur] /\ InOrder(Page, span[Cur], span) /\ Page = heap[Cur]
  BY <1>1, NotYet DEF Page, Rest
<1>3. PICK e : e = <<key, call.val>>
  OBVIOUS
<1>4. Page \in LeafPages /\ Page.size < LeafMax /\ Page.kind = "leaf" /\ e \in Entries /\ e[1] = key
  <2>1. call.val \in Vals /\ key \in Keys
    BY <1>2, CallTypes, HeapTypes
  <2>2. Page \in LeafPages /\ Page.size \in 0..(LeafMax - 1)
    BY <1>1, <1>2, CurPage
  <2> QED BY <1>3, <2>1, <2>2, LeafFields, ParameterAssumption DEF Entries
<1>5. PICK leaf : leaf = LeafPlace(Page, e)
  OBVIOUS
<1>6. InOrder(leaf, span[Cur], span) /\ Live(leaf) = Live(Page) \cup {e}
  BY <1>1, <1>2, <1>4, <1>5, LeafPlaceOrder
<1>7. leaf \in LeafPages /\ leaf.size = Page.size + 1 /\ leaf.kind = "leaf"
  BY <1>4, <1>5, LeafPlaceType, LeafFields
<1>8. Contents' = Contents \cup {e} => <<Contents', Done>> \in Map!Outcomes(call)
  <2>1. \A x \in Contents : x[1] # key
    BY <1>1, <1>2, MissMeansAbsent
  <2> QED BY <1>1, <1>2, <1>3, <2>1, OutcomesOf
<1>9. CASE LeafInsertFits
  <2>1. heap' = [heap EXCEPT ![Cur] = leaf] /\ Return(Done) /\ root' = root /\ split' = NoSplit
    BY <1>3, <1>5, <1>9 DEF LeafInsertFits, Page, Return
  <2>2. Kids(leaf) = Kids(Page)
    BY <1>4, <1>7, LeafKids
  <2>3. /\ Contents' = Stock(heap', TreePages)
        /\ heap'[Cur] = leaf /\ \A r \in TreePages \ {Cur} : heap'[r] = heap[r]
    BY <1>1, <2>1, <2>2, PageWritten
  <2>4. PICK c, G, A : c = Cur /\ G = heap' /\ A = {e}
    OBVIOUS
  <2>5. Adds(heap, TreePages, c, G, A)
    BY <1>2, <1>6, <2>3, <2>4 DEF Adds
  <2>6. Stock(G, TreePages) = Stock(heap, TreePages) \cup A
    BY <2>5, AddedStock
  <2>7. Contents' = Contents \cup {e}
    BY <1>2, <2>3, <2>4, <2>6
  <2> QED BY <1>1, <1>2, <1>8, <2>1, <2>7 DEF MapStep, Answers, Acts
<1>10. CASE LeafInsertSplits
  <2>1. PICK l, m, u, h, n :
          /\ l = LeafLower(leaf) /\ m = LeafMiddle(leaf) /\ u = LeafUpper(leaf)
          /\ h = [heap EXCEPT ![Cur] = l] /\ n = nextPid
    OBVIOUS
  <2>2. LeafFull(leaf) /\ Create(h, u) /\ ReturnTo(NoPid, [elem |-> m, pid |-> n])
    BY <1>3, <1>5, <1>10, <2>1 DEF LeafInsertSplits, Page
  <2>3. leaf.size = LeafMax
    BY <1>4, <1>7, <2>2, LeafFields, ParameterAssumption DEF LeafFull
  <2>4. Glued(leaf, l, m, u) /\ l \in LeafPages
    BY <1>7, <2>1, <2>3, LeafSplitGlued, LeafSplitTypes
  <2>5. DOMAIN h = Pids /\ h[Cur] = l /\ \A p \in Pids \ {Cur} : h[p] = heap[p]
    BY <1>2, <2>1 DEF Pids
  <2>6. /\ Pids' = Pids \cup {n} /\ n \notin Pids /\ n \in Nat /\ heap'[n] = u
        /\ \A p \in Pids : heap'[p] = h[p]
    <3>1. n = nextPid /\ Create(h, u) /\ DOMAIN h = Pids
      BY <2>1, <2>2, <2>5
    <3> QED BY <3>1, CreatedPage
  <2>7. split' = [elem |-> m, pid |-> n] /\ root' = root /\ pc' = "up" /\ UNCHANGED <<call, result>>
    BY <2>2 DEF ReturnTo
  <2>8. split'.pid = n /\ split'.elem = m /\ split' # NoSplit
    BY <2>6, <2>7 DEF NoSplit, NoPid
  <2>9. Roots' = {root, n}
    BY <2>7, <2>8 DEF Roots
  <2>10. \A p \in TreePages : Kids(heap'[p]) = Kids(heap[p])
    <3>1. Kids(l) = Kids(Page)
      BY <1>4, <2>4, LeafKids, LeafFields
    <3> QED BY <1>2, <2>5, <2>6, <3>1
  <2>11. TreePages' = TreePages \cup {n}
    <3>1. Roots' \subseteq TreePages' /\ \A p \in TreePages' : Kids(heap'[p]) \subseteq TreePages'
      BY DEF Sound, Rooted
    <3>2. \A p \in TreePages : p \in TreePages' => Kids(heap[p]) \subseteq TreePages'
      BY <2>10, <3>1
    <3>3. Roots \subseteq TreePages' /\ n \in TreePages' /\ Pids' \ Pids = {n}
      BY <1>2, <2>6, <2>9, <3>1
    <3> QED BY <3>2, <3>3, PagesStay
  <2>12. Contents' = Stock(heap', TreePages') \cup {m}
    BY <2>8, ContentsAfter
  <2>13. PICK c, G, T2, A : c = Cur /\ G = heap' /\ T2 = TreePages' /\ A = {e}
    OBVIOUS
  <2>14. /\ c \in TreePages /\ n \notin TreePages /\ T2 = TreePages \cup {n}
         /\ \A p \in TreePages \ {c} : G[p] = heap[p]
    BY <1>2, <2>5, <2>6, <2>11, <2>13
  <2>15. Live(G[c]) \cup Live(G[n]) \cup {m} = Live(heap[c]) \cup A
    <3>1. Live(leaf) = Live(l) \cup Live(u) \cup {m}
      BY <1>6, <2>4, GluedSplit
    <3> QED BY <1>2, <1>6, <2>5, <2>6, <2>13, <3>1
  <2>16. Divides(heap, TreePages, c, n, G, T2, A, m)
    BY <2>14, <2>15 DEF Divides
  <2>17. Contents' = Contents \cup {e}
    <3>1. Stock(G, T2) \cup {m} = Stock(heap, TreePages) \cup A
      BY <2>16, SharedStock
    <3> QED BY <1>2, <2>12, <2>13, <3>1
  <2>18. TookEffect'
    BY <2>7 DEF TookEffect
  <2> QED BY <1>1, <1>2, <1>8, <2>7, <2>17, <2>18 DEF MapStep, TakesEffect, Acts
<1> QED
  BY <1>9, <1>10

\* A page stays in the tree when the pages above it keep their children.
LEMMA LevelStays ==
  ASSUME NEW lev, NEW span, Sound(lev, span), NEW c \in TreePages,
         \A p \in Roots : lev[p] >= lev[c] => p \in TreePages',
         \A p \in TreePages : lev[p] > lev[c] /\ p \in TreePages' => Kids(heap[p]) \subseteq TreePages'
  PROVE  c \in TreePages'
<1>1. Forest(heap, Roots, TreePages, lev) /\ Rooted
  BY DEF Sound, TreeShape
<1>2. PICK A : A = {p \in TreePages : p \in TreePages' \/ lev[p] < lev[c]}
  OBVIOUS
<1>3. \A p \in TreePages : lev[p] \in Nat
  BY <1>1 DEF Forest
<1>4. ASSUME NEW p \in Roots PROVE p \in A
  <2>1. p \in TreePages
    BY <1>1 DEF Rooted
  <2>2. lev[p] >= lev[c] \/ lev[p] < lev[c]
    BY <1>3, <2>1
  <2> QED BY <1>2, <2>1, <2>2
<1>5. ASSUME NEW p \in TreePages, p \in A, NEW k \in Kids(heap[p]) PROVE k \in A
  <2>1. k \in TreePages /\ lev[p] = lev[k] + 1
    BY <1>1 DEF Forest
  <2>2. CASE lev[p] > lev[c]
    <3>1. p \in TreePages'
      BY <1>2, <1>3, <1>5, <2>2
    <3> QED BY <1>2, <2>1, <2>2, <3>1
  <2>3. CASE ~(lev[p] > lev[c])
    <3>1. lev[k] < lev[c]
      BY <1>3, <2>1, <2>3
    <3> QED BY <1>2, <2>1, <3>1
  <2> QED BY <2>2, <2>3
<1>6. TreePages \subseteq A
  BY <1>1, <1>4, <1>5 DEF Rooted
<1>7. ~(lev[c] < lev[c])
  BY <1>3
<1> QED
  BY <1>2, <1>6, <1>7

\* A split below an internal page: the page is still found from the root alone.
LEMMA FrameStays ==
  ASSUME IndInv, NEW lev, NEW span, Sound(lev, span), pc = "up", call.op = "Insert", path # <<>>,
         root \in TreePages', \A p \in TreePages : p \in TreePages' => Kids(heap[p]) \subseteq TreePages'
  PROVE  Cur \in TreePages'
<1>1. TreeShape(TreePages, lev) /\ Rooted
  BY DEF Sound
<1>2. PICK s : s = split.pid
  OBVIOUS
<1>3. /\ Forest(heap, {root, s}, TreePages, lev) /\ lev[s] \in Nat /\ lev[s] + Len(path) = lev[root]
      /\ split # NoSplit
  BY <1>1, <1>2, UpInsertShape DEF TreeShape, Splitting
<1>4. Cur \in TreePages /\ lev[Cur] \in Nat /\ lev[Cur] + Len(path) = lev[root] + 1 /\ Len(path) \in Nat
  BY <1>1, PathFacts, HeapTypes
<1>5. PICK c : c = Cur
  OBVIOUS
<1>6. ~(lev[s] >= lev[c]) /\ c \in TreePages
  BY <1>3, <1>4, <1>5
<1>7. \A p \in Roots : lev[p] >= lev[c] => p \in TreePages'
  BY <1>2, <1>3, <1>6 DEF Roots
<1> QED
  BY <1>5, <1>6, <1>7, LevelStays

\* It takes the entry and the page of the split.
LEMMA SplitArrives ==
  ASSUME IndInv, NEW lev, NEW span, Sound(lev, span), pc = "up", call.op = "Insert", path # <<>>,
         NEW inner, inner = InnerPlace(Page, split.elem, split.pid)
  PROVE  /\ Cur \in TreePages /\ TreePages \subseteq Pids /\ Page = heap[Cur] /\ Page.size \in 1..(InnerMax - 1)
         /\ inner \in InnerOver(Pids) /\ inner.size = Page.size + 1
         /\ Kids(inner) = Kids(Page) \cup {split.pid}
         /\ InOrder(inner, span[Cur], span) /\ Live(inner) = Live(Page) \cup {split.elem}
         /\ Contents = Stock(heap, TreePages) \cup {split.elem}
         /\ Roots = {root, split.pid} /\ TookEffect
<1>1. TreeShape(TreePages, lev) /\ OrderShape(TreePages, span) /\ TreePages \subseteq Pids
  BY DEF Sound, Rooted
<1>2. PICK s, e : s = split.pid /\ e = split.elem
  OBVIOUS
<1>3. Len(path) > 0
  BY HeapTypes
<1>4. /\ Cur \in Pids /\ Page \in InnerOver(Pids) /\ Page.size \in 1..(InnerMax - 1)
      /\ Page = heap[Cur] /\ Page.kind = "inner" /\ Page.size >= 1 /\ Page.size < InnerMax
      /\ Page.size \in Nat
  BY <1>3, InnerUpFacts, InnerFields, ParameterAssumption
<1>5. e \in Entries /\ s \in Pids
  BY <1>2, HeapTypes DEF IndInv, FrameInputs
<1>6. Forest(heap, {root, s}, TreePages, lev) /\ split # NoSplit
  BY <1>1, <1>2, UpInsertShape DEF TreeShape, Splitting
<1>7. Cur \in TreePages
  BY <1>1, PathFacts
<1>8. s \notin Kids(Page) /\ OneSlotEach(Page)
  BY <1>4, <1>6, <1>7 DEF Forest
<1>9. inner \in InnerOver(Pids) /\ inner.size = Page.size + 1 /\ Kids(inner) = Kids(Page) \cup {s}
  BY <1>2, <1>4, <1>5, <1>8, InnerPlaceType, InnerPlaceKids
<1>10. InOrder(inner, span[Cur], span)
  <2>1. View = [heap EXCEPT ![Cur] = inner] /\ Ordered(View, TreePages, span)
    BY <1>1 DEF OrderShape, View, Moved, Splitting, Page
  <2>2. View[Cur] = inner
    BY <1>4, <2>1 DEF Pids
  <2> QED BY <1>7, <2>1, <2>2 DEF Ordered
<1>11. Live(inner) = Live(Page) \cup {e}
  <2>1. PICK i : i = InnerSearch(Page, e[1])
    OBVIOUS
  <2>2. i \in 1..Page.size
    BY <1>4, <2>1, InnerSearchRange
  <2>3. \A j \in 0..Page.size :
          inner.slots[j] = IF j = i THEN e ELSE IF j > i THEN Page.slots[j - 1] ELSE Page.slots[j]
    BY <1>2, <1>4, <1>5, <2>1, InnerPlaceSlots
  <2>4. inner.kind = "inner" /\ inner.size = Page.size + 1 /\ First(inner) = 1
    BY <1>9, InnerFields DEF First
  <2>5. \A j \in 1..(Page.size - 1) : Page.slots[j] = IF j >= i THEN inner.slots[j + 1] ELSE inner.slots[j]
    <3> TAKE j \in 1..(Page.size - 1)
    <3>1. j \in 0..Page.size /\ j + 1 \in 0..Page.size /\ i \in Int /\ j \in Int
      BY <1>4, <2>2
    <3>2. CASE j >= i
      <4>1. j + 1 # i /\ j + 1 > i /\ (j + 1) - 1 = j
        BY <3>1, <3>2
      <4> QED BY <2>3, <3>1, <3>2, <4>1
    <3>3. CASE ~(j >= i)
      <4>1. j # i /\ ~(j > i)
        BY <3>1, <3>3
      <4> QED BY <2>3, <3>1, <3>3, <4>1
    <3> QED BY <3>2, <3>3
  <2>6. Deleted(inner, i, Page)
    <3>1. inner.size \in Nat /\ Page.size = inner.size - 1 /\ inner.size - 2 = Page.size - 1
          /\ i \in 1..(inner.size - 1)
      BY <1>4, <2>2, <2>4
    <3> QED BY <1>4, <2>4, <2>5, <3>1 DEF Deleted
  <2>7. AllInts(span[Cur]) /\ Sorted(inner, span[Cur])
    BY <1>10 DEF InOrder
  <2>8. Live(Page) = Live(inner) \ {inner.slots[i]}
    BY <2>6, <2>7, SortedDelete
  <2>9. inner.slots[i] = e /\ i \in Places(inner)
    BY <1>4, <2>2, <2>3, <2>4 DEF Places
  <2>10. e \in Live(inner)
    BY <2>9, LivePlaces
  <2> QED BY <2>8, <2>9, <2>10
<1> QED
  BY <1>1, <1>2, <1>4, <1>6, <1>7, <1>9, <1>10, <1>11, ContentsStock DEF Roots, TookEffect

LEMMA InnerInsertMaps ==
  ASSUME IndInv, NEW lev, NEW span, Sound(lev, span), InnerInsertFits \/ InnerInsertSplits
  PROVE  MapStep
<1>1. pc = "up" /\ call.op = "Insert" /\ path # <<>>
  BY DEF InnerInsertFits, InnerInsertSplits
<1>2. PICK inner, s, e : /\ inner = InnerPlace(Page, split.elem, split.pid)
                         /\ s = split.pid /\ e = split.elem
  OBVIOUS
<1>3. /\ Cur \in TreePages /\ TreePages \subseteq Pids /\ Page = heap[Cur] /\ Page.size \in 1..(InnerMax - 1)
      /\ inner \in InnerOver(Pids) /\ inner.size = Page.size + 1
      /\ Kids(inner) = Kids(Page) \cup {s}
      /\ InOrder(inner, span[Cur], span) /\ Live(inner) = Live(Page) \cup {e}
      /\ Contents = Stock(heap, TreePages) \cup {e}
      /\ Roots = {root, s} /\ TookEffect
  BY <1>1, <1>2, SplitArrives
<1>4. Roots' \subseteq TreePages' /\ \A p \in TreePages' : Kids(heap'[p]) \subseteq TreePages'
  BY DEF Sound, Rooted
<1>5. CASE InnerInsertFits
  <2>1. heap' = [heap EXCEPT ![Cur] = inner] /\ Return(Done) /\ root' = root /\ split' = NoSplit
    BY <1>2, <1>5 DEF InnerInsertFits, Page, Return
  <2>2. Pids' = Pids /\ heap'[Cur] = inner /\ \A p \in Pids \ {Cur} : heap'[p] = heap[p]
    BY <1>3, <2>1 DEF Pids
  <2>3. \A p \in TreePages : p \in TreePages' => Kids(heap[p]) \subseteq TreePages'
    BY <1>3, <1>4, <2>2
  <2>4. root \in TreePages'
    BY <1>4, <2>1 DEF Roots
  <2>5. s \in TreePages'
    <3>1. Cur \in TreePages'
      BY <1>1, <2>3, <2>4, FrameStays
    <3> QED BY <1>3, <1>4, <2>2, <3>1
  <2>6. TreePages' = TreePages
    BY <1>3, <2>2, <2>3, <2>4, <2>5, PagesStay
  <2>7. PICK c, G, A : c = Cur /\ G = heap' /\ A = {e}
    OBVIOUS
  <2>8. Adds(heap, TreePages, c, G, A)
    BY <1>3, <2>2, <2>7 DEF Adds
  <2>9. Stock(G, TreePages) = Stock(heap, TreePages) \cup A
    BY <2>8, AddedStock
  <2>10. Contents' = Contents
    BY <1>3, <2>1, <2>6, <2>7, <2>9, ContentsAfter
  <2> QED BY <1>3, <2>1, <2>10 DEF MapStep, Ends
<1>6. CASE InnerInsertSplits
  <2>1. PICK l, m, u, h, n :
          /\ l = InnerLower(inner) /\ m = InnerMiddle(inner) /\ u = InnerUpper(inner)
          /\ h = [heap EXCEPT ![Cur] = l] /\ n = nextPid
    OBVIOUS
  <2>2. InnerFull(inner) /\ Create(h, u) /\ ReturnTo(NoPid, [elem |-> m, pid |-> n])
    BY <1>2, <1>6, <2>1 DEF InnerInsertSplits, Page
  <2>3. inner.size = InnerMax
    BY <1>3, <2>2, ParameterAssumption DEF InnerFull
  <2>4. Glued(inner, l, m, u)
    BY <1>3, <2>1, <2>3, HeapTypes, InnerSplitGlued
  <2>5. DOMAIN h = Pids /\ h[Cur] = l /\ \A p \in Pids \ {Cur} : h[p] = heap[p]
    BY <1>3, <2>1 DEF Pids
  <2>6. /\ Pids' = Pids \cup {n} /\ n \notin Pids /\ n \in Nat /\ heap'[n] = u
        /\ \A p \in Pids : heap'[p] = h[p]
    <3>1. n = nextPid /\ Create(h, u) /\ DOMAIN h = Pids
      BY <2>1, <2>2, <2>5
    <3> QED BY <3>1, CreatedPage
  <2>7. split' = [elem |-> m, pid |-> n] /\ root' = root /\ pc' = "up" /\ UNCHANGED <<call, key, result>>
    BY <2>2 DEF ReturnTo
  <2>8. split'.pid = n /\ split'.elem = m /\ split' # NoSplit
    BY <2>6, <2>7 DEF NoSplit, NoPid
  <2>9. Roots' = {root, n}
    BY <2>7, <2>8 DEF Roots
  <2>10. Kids(inner) = Kids(l) \cup Kids(u)
    BY <2>4, GluedKids
  <2>11. \A p \in TreePages : p \in TreePages' => Kids(heap[p]) \subseteq TreePages'
    <3> SUFFICES ASSUME NEW p \in TreePages, p \in TreePages' PROVE Kids(heap[p]) \subseteq TreePages'
      OBVIOUS
    <3>1. CASE p = Cur
      <4>1. n \in TreePages' /\ heap'[n] = u /\ heap'[p] = l
        BY <1>3, <1>4, <2>5, <2>6, <2>9, <3>1
      <4>2. Kids(l) \subseteq TreePages' /\ Kids(u) \subseteq TreePages'
        BY <1>4, <4>1
      <4> QED BY <1>3, <2>10, <3>1, <4>2
    <3>2. CASE p # Cur
      <4>1. heap'[p] = heap[p]
        BY <1>3, <2>5, <2>6, <3>2
      <4> QED BY <1>4, <4>1
    <3> QED BY <3>1, <3>2
  <2>12. root \in TreePages' /\ n \in TreePages'
    BY <1>4, <2>9
  <2>13. s \in TreePages'
    <3>1. Cur \in TreePages'
      BY <1>1, <2>11, <2>12, FrameStays
    <3>2. Kids(heap'[Cur]) \subseteq TreePages' /\ Kids(heap'[n]) \subseteq TreePages'
      BY <1>4, <2>12, <3>1
    <3>3. heap'[Cur] = l /\ heap'[n] = u
      BY <1>3, <2>5, <2>6
    <3> QED BY <1>3, <2>10, <3>2, <3>3
  <2>14. TreePages' = TreePages \cup {n}
    <3>1. Roots \subseteq TreePages' /\ Pids' \ Pids = {n}
      BY <1>3, <2>6, <2>12, <2>13
    <3> QED BY <2>11, <2>12, <3>1, PagesStay
  <2>15. Contents' = Stock(heap', TreePages') \cup {m}
    BY <2>8, ContentsAfter
  <2>16. PICK c, G, T2, A : c = Cur /\ G = heap' /\ T2 = TreePages' /\ A = {e}
    OBVIOUS
  <2>17. /\ c \in TreePages /\ n \notin TreePages /\ T2 = TreePages \cup {n}
         /\ \A p \in TreePages \ {c} : G[p] = heap[p]
    BY <1>3, <2>5, <2>6, <2>14, <2>16
  <2>18. Live(G[c]) \cup Live(G[n]) \cup {m} = Live(heap[c]) \cup A
    <3>1. Live(inner) = Live(l) \cup Live(u) \cup {m}
      BY <1>3, <2>4, GluedSplit
    <3> QED BY <1>3, <2>5, <2>6, <2>16, <3>1
  <2>19. Divides(heap, TreePages, c, n, G, T2, A, m)
    BY <2>17, <2>18 DEF Divides
  <2>20. Contents' = Contents
    <3>1. Stock(G, T2) \cup {m} = Stock(heap, TreePages) \cup A
      BY <2>19, SharedStock
    <3> QED BY <1>3, <2>15, <2>16, <3>1
  <2>21. TookEffect' = TookEffect
    BY <1>1, <2>7 DEF TookEffect
  <2> QED BY <1>1, <2>7, <2>20, <2>21 DEF MapStep, Within
<1> QED
  BY <1>5, <1>6

LEMMA GrowRootMaps ==
  ASSUME IndInv, NEW lev, NEW span, Sound(lev, span), GrowRoot
  PROVE  MapStep
<1>1. PICK q, n, s, e : /\ q = NewRoot(split.elem, root, split.pid) /\ n = nextPid
                        /\ s = split.pid /\ e = split.elem
  OBVIOUS
<1>2. /\ pc = "up" /\ call.op = "Insert" /\ path = <<>> /\ Create(heap, q) /\ root' = n /\ Return(Done)
      /\ split' = NoSplit
  BY <1>1 DEF GrowRoot, Return
<1>3. TreeShape(TreePages, lev) /\ Rooted /\ TreePages \subseteq Pids
  BY DEF Sound, Rooted
<1>4. Forest(heap, {root, s}, TreePages, lev) /\ s # root /\ split # NoSplit
  BY <1>1, <1>2, <1>3, UpInsertShape DEF TreeShape, Splitting
<1>5. Roots = {root, s} /\ Contents = Stock(heap, TreePages) \cup {e} /\ TookEffect
  BY <1>1, <1>2, <1>4, ContentsStock DEF Roots, TookEffect
<1>6. /\ Pids' = Pids \cup {n} /\ n \notin Pids /\ heap'[n] = q
      /\ \A p \in Pids : heap'[p] = heap[p]
  <2>1. DOMAIN heap = Pids
    BY DEF Pids
  <2> QED BY <1>1, <1>2, <2>1, CreatedPage
<1>7. Kids(q) = {root, s} /\ q.slots[1] = e
  BY <1>1, <1>4, NewRootKids
<1>8. Live(q) = {e}
  <2>1. q.kind = "inner" /\ q.size = 2
    BY <1>1 DEF NewRoot, EmptyInner
  <2>2. Places(q) = {1}
    BY <2>1 DEF Places, First
  <2> QED BY <1>7, <2>2, LivePlaces
<1>9. Roots' \subseteq TreePages' /\ \A p \in TreePages' : Kids(heap'[p]) \subseteq TreePages'
  BY DEF Sound, Rooted
<1>10. n \in TreePages'
  BY <1>2, <1>9 DEF Roots
<1>11. Roots \subseteq TreePages'
  BY <1>5, <1>6, <1>7, <1>9, <1>10
<1>12. \A p \in TreePages : p \in TreePages' => Kids(heap[p]) \subseteq TreePages'
  BY <1>3, <1>6, <1>9
<1>13. TreePages' = TreePages \cup {n}
  <2>1. Pids' \ Pids = {n}
    BY <1>6
  <2> QED BY <1>10, <1>11, <1>12, <2>1, PagesStay
<1>14. Stock(heap', TreePages') = Stock(heap, TreePages) \cup {e}
  <2>1. \A p \in TreePages : heap'[p] = heap[p]
    BY <1>3, <1>6
  <2> QED BY <1>6, <1>8, <1>13, <2>1 DEF Stock
<1>15. Contents' = Contents
  BY <1>2, <1>5, <1>14, ContentsAfter
<1> QED
  BY <1>2, <1>5, <1>15 DEF MapStep, Ends

-----------------------------------------------------------------------------
\* Remove.  G: the pages once the entry is gone.

\* A page and its sibling, l and r from the left, and the entry between them.
Pair(G, lev, span, par, i, l, r, q) ==
  /\ Sound(lev, span) /\ (LeafUnderflow \/ InnerUnderflow) /\ HasSibling
  /\ G[Parent] = heap[Parent] /\ Ordered(G, TreePages, span) /\ Forest(G, {root}, TreePages, lev)
  /\ par = Parent /\ i = SepIdx /\ l = heap[par].pids[i - 1] /\ r = heap[par].pids[i]
  /\ Glued(q, G[l], Sep, G[r])

LEMMA PairLive ==
  ASSUME IndInv, NEW lev, NEW span, NEW G, NEW par, NEW i, NEW l, NEW r, NEW q,
         Pair(G, lev, span, par, i, l, r, q)
  PROVE  /\ l \in TreePages /\ r \in TreePages /\ par \in TreePages /\ l # r /\ l # par /\ r # par
         /\ l \in Kids(heap[par]) /\ r \in Kids(heap[par]) /\ lev[l] < lev[par] /\ lev[r] < lev[par]
         /\ heap[par] \in InnerOver(Pids) /\ i \in 1..(heap[par].size - 1) /\ Sep = heap[par].slots[i]
         /\ OneSlotEach(heap[par]) /\ InOrder(heap[par], span[par], span)
         /\ \E U : InOrder(q, U, span)
         /\ Live(q) = Live(G[l]) \cup Live(G[r]) \cup {Sep} /\ Kids(q) = Kids(G[l]) \cup Kids(G[r])
<1> USE DEF Pair
<1>1. TreeShape(TreePages, lev)
  BY DEF Sound
<1>2. /\ par \in TreePages /\ heap[par] \in InnerOver(Pids) /\ i \in 1..(heap[par].size - 1)
      /\ Sep = heap[par].slots[i]
  BY <1>1, NeighbourSlots, SiblingShape
<1>3. PICK U : U = Around(G[par], span[par], i)
  OBVIOUS
<1>4. /\ G[par] \in InnerOver(Pids) /\ i \in 1..(G[par].size - 1) /\ l = G[par].pids[i - 1] /\ r = G[par].pids[i]
      /\ Glued(q, G[l], G[par].slots[i], G[r])
  BY <1>2
<1>5. /\ InOrder(q, U, span)
      /\ l \in TreePages /\ r \in TreePages /\ l # r /\ l # par /\ r # par
      /\ l \in Kids(G[par]) /\ r \in Kids(G[par])
      /\ OneSlotEach(G[par]) /\ InOrder(G[par], span[par], span)
  BY <1>2, <1>3, <1>4, PairOrdered
<1>6. Live(q) = Live(G[l]) \cup Live(G[r]) \cup {Sep}
  BY <1>5, GluedSplit
<1>7. Kids(q) = Kids(G[l]) \cup Kids(G[r])
  BY GluedKids
<1>8. lev[l] < lev[par] /\ lev[r] < lev[par]
  <2>1. lev[par] = lev[l] + 1 /\ lev[par] = lev[r] + 1 /\ lev[l] \in Nat /\ lev[r] \in Nat
    BY <1>2, <1>5 DEF Forest
  <2> QED BY <2>1
<1> QED
  BY <1>2, <1>5, <1>6, <1>7, <1>8

\* A borrow moves entries and children between pages of the tree.
LEMMA BorrowKeepsEntries ==
  ASSUME IndInv, NEW lev, NEW span, Sound(lev, span),
         NEW G, Exchanges(G, TreePages), \A p \in TreePages : Kids(G[p]) = Kids(heap[p]),
         Ordered(G, TreePages, span), Forest(G, {root}, TreePages, lev), Roots = {root}
  PROVE  Contents' = Stock(G, TreePages) /\ Return(Done)
<1>0. /\ LeafUnderflow \/ InnerUnderflow
      /\ HasSibling /\ G[Parent] = heap[Parent] /\ Pids' = Pids /\ root' = root /\ Return(Done)
  BY DEF Exchanges
<1>1. PICK par, i, G2, s : par = Parent /\ i = SepIdx /\ G2 = heap' /\ s = Sep
  OBVIOUS
<1>2. PICK l, r, q, l2, r2, e :
        /\ e \in Entries /\ l = heap[par].pids[i - 1] /\ r = heap[par].pids[i]
        /\ Glued(q, G[l], Sep, G[r]) /\ Glued(q, l2, e, r2)
        /\ G2[l] = l2 /\ G2[r] = r2 /\ G2[par] = InnerSetEntry(heap[par], i, e)
        /\ \A p \in TreePages \ {l, r, par} : G2[p] = G[p]
  BY <1>1 DEF Exchanges
<1>3. /\ l \in TreePages /\ r \in TreePages /\ par \in TreePages /\ l # r /\ l # par /\ r # par
      /\ l \in Kids(heap[par]) /\ r \in Kids(heap[par]) /\ lev[l] < lev[par] /\ lev[r] < lev[par]
      /\ heap[par] \in InnerOver(Pids) /\ i \in 1..(heap[par].size - 1) /\ s = heap[par].slots[i]
      /\ OneSlotEach(heap[par]) /\ InOrder(heap[par], span[par], span)
      /\ \E U : InOrder(q, U, span)
      /\ Live(q) = Live(G[l]) \cup Live(G[r]) \cup {s} /\ Kids(q) = Kids(G[l]) \cup Kids(G[r])
  <2>1. Pair(G, lev, span, par, i, l, r, q)
    BY <1>0, <1>1, <1>2 DEF Pair
  <2>2. /\ l \in TreePages /\ r \in TreePages /\ par \in TreePages /\ l # r /\ l # par /\ r # par
        /\ l \in Kids(heap[par]) /\ r \in Kids(heap[par]) /\ lev[l] < lev[par] /\ lev[r] < lev[par]
        /\ heap[par] \in InnerOver(Pids) /\ i \in 1..(heap[par].size - 1) /\ Sep = heap[par].slots[i]
        /\ OneSlotEach(heap[par]) /\ InOrder(heap[par], span[par], span)
        /\ \E U : InOrder(q, U, span)
        /\ Live(q) = Live(G[l]) \cup Live(G[r]) \cup {Sep} /\ Kids(q) = Kids(G[l]) \cup Kids(G[r])
    BY <2>1, PairLive
  <2> QED BY <1>1, <2>2
<1>4. Live(q) = Live(l2) \cup Live(r2) \cup {e}
  BY <1>2, <1>3, GluedSplit
<1>5. Kids(q) = Kids(l2) \cup Kids(r2)
  BY <1>2, GluedKids
<1>6. Kids(heap'[par]) = Kids(heap[par])
  BY <1>1, <1>2, <1>3, InnerSetEntryKids
<1>7. split' = NoSplit /\ Roots' = {root}
  BY <1>0 DEF Return, Roots
<1>8. root \in TreePages' /\ \A p \in TreePages' : Kids(heap'[p]) \subseteq TreePages'
  BY <1>7 DEF Sound, Rooted
<1>9. \A p \in TreePages : p \in TreePages' /\ p # l /\ p # r => Kids(heap[p]) \subseteq TreePages'
  <2> SUFFICES ASSUME NEW p \in TreePages, p \in TreePages', p # l, p # r
               PROVE  Kids(heap[p]) \subseteq TreePages'
    OBVIOUS
  <2>1. Kids(heap'[p]) = Kids(heap[p])
    BY <1>1, <1>2, <1>6
  <2> QED BY <1>8, <2>1
<1>10. par \in TreePages'
  <2>1. \A p \in Roots : lev[p] >= lev[par] => p \in TreePages'
    BY <1>8
  <2>2. ~(lev[l] > lev[par]) /\ ~(lev[r] > lev[par])
    <3>1. lev[par] \in Nat /\ lev[l] \in Nat /\ lev[r] \in Nat
      BY <1>3 DEF Forest
    <3> QED BY <1>3, <3>1
  <2>3. \A p \in TreePages : lev[p] > lev[par] /\ p \in TreePages' => Kids(heap[p]) \subseteq TreePages'
    BY <1>9, <2>2
  <2> QED BY <1>3, <2>1, <2>3, LevelStays
<1>11. l \in TreePages' /\ r \in TreePages'
  BY <1>3, <1>9, <1>10
<1>12. Kids(heap[l]) \subseteq TreePages' /\ Kids(heap[r]) \subseteq TreePages'
  <2>1. Kids(l2) \subseteq TreePages' /\ Kids(r2) \subseteq TreePages'
    BY <1>1, <1>2, <1>8, <1>11
  <2> QED BY <1>3, <1>5, <2>1
<1>13. TreePages' = TreePages
  <2>1. \A p \in TreePages : p \in TreePages' => Kids(heap[p]) \subseteq TreePages'
    BY <1>9, <1>12
  <2> QED BY <1>0, <1>8, <2>1, PagesStay
<1>14. Swaps(G, TreePages, l, r, par, s, G2, e)
  <2>1. /\ s \in Live(heap[par])
        /\ Live(InnerSetEntry(heap[par], i, e)) = (Live(heap[par]) \ {s}) \cup {e}
    BY <1>2, <1>3, ParentLive DEF InOrder
  <2>2. Live(G[par]) = Live(heap[par])
    BY <1>0, <1>1
  <2>3. Live(G2[l]) \cup Live(G2[r]) \cup {e} = Live(q)
    BY <1>2, <1>4
  <2> QED BY <1>2, <1>3, <2>1, <2>2, <2>3 DEF Swaps
<1>15. Contents' = Stock(heap', TreePages)
  BY <1>7, <1>13, ContentsAfter
<1> QED
  BY <1>0, <1>1, <1>14, <1>15, ExchangedStock

\* A merge takes the right page out of the tree, and none of its entries.
LEMMA MergeKeepsAll ==
  ASSUME IndInv, NEW lev, NEW span, Sound(lev, span),
         NEW G, Joins(G, TreePages), \A p \in TreePages : Kids(G[p]) = Kids(heap[p]),
         Ordered(G, TreePages, span), Forest(G, {root}, TreePages, lev), Roots = {root}
  PROVE  Contents' = Stock(G, TreePages) /\ ReturnTo(Cur, NoSplit)
<1>0. /\ LeafUnderflow \/ InnerUnderflow
      /\ HasSibling /\ G[Parent] = heap[Parent] /\ Pids' = Pids /\ ReturnTo(Cur, NoSplit)
  BY DEF Joins
<1>1. PICK par, i, G2, s : par = Parent /\ i = SepIdx /\ G2 = heap' /\ s = Sep
  OBVIOUS
<1>2. PICK l, r, q :
        /\ l = heap[par].pids[i - 1] /\ r = heap[par].pids[i]
        /\ Glued(q, G[l], Sep, G[r]) /\ G2[l] = q /\ G2[par] = InnerDrop(heap[par], i)
        /\ \A p \in TreePages \ {l, par} : G2[p] = G[p]
  BY <1>1 DEF Joins
<1>3. /\ l \in TreePages /\ r \in TreePages /\ par \in TreePages /\ l # r /\ l # par /\ r # par
      /\ l \in Kids(heap[par]) /\ r \in Kids(heap[par]) /\ lev[l] < lev[par] /\ lev[r] < lev[par]
      /\ heap[par] \in InnerOver(Pids) /\ i \in 1..(heap[par].size - 1) /\ s = heap[par].slots[i]
      /\ OneSlotEach(heap[par]) /\ InOrder(heap[par], span[par], span)
      /\ \E U : InOrder(q, U, span)
      /\ Live(q) = Live(G[l]) \cup Live(G[r]) \cup {s} /\ Kids(q) = Kids(G[l]) \cup Kids(G[r])
  <2>1. Pair(G, lev, span, par, i, l, r, q)
    BY <1>0, <1>1, <1>2 DEF Pair
  <2> QED BY <1>1, <2>1, PairLive
<1>6. Kids(heap'[par]) = Kids(heap[par]) \ {r}
  <2>1. heap[par].size >= 1 /\ i \in 0..(heap[par].size - 1)
    BY <1>3, InnerFields
  <2> QED BY <1>1, <1>2, <1>3, <2>1, InnerDropKids
<1>7. split' = NoSplit /\ Roots' = {root}
  BY <1>0 DEF ReturnTo, Roots
<1>8. root \in TreePages' /\ \A p \in TreePages' : Kids(heap'[p]) \subseteq TreePages'
  BY <1>7 DEF Sound, Rooted
<1>9. \A p \in TreePages : p \in TreePages' /\ p # l /\ p # par => Kids(heap[p]) \subseteq TreePages'
  <2> SUFFICES ASSUME NEW p \in TreePages, p \in TreePages', p # l, p # par
               PROVE  Kids(heap[p]) \subseteq TreePages'
    OBVIOUS
  <2>1. Kids(heap'[p]) = Kids(heap[p])
    BY <1>1, <1>2
  <2> QED BY <1>8, <2>1
<1>10. par \in TreePages'
  <2>1. \A p \in Roots : lev[p] >= lev[par] => p \in TreePages'
    BY <1>8
  <2>2. ~(lev[l] > lev[par]) /\ ~(lev[par] > lev[par])
    <3>1. lev[par] \in Nat /\ lev[l] \in Nat
      BY <1>3 DEF Forest
    <3> QED BY <1>3, <3>1
  <2>3. \A p \in TreePages : lev[p] > lev[par] /\ p \in TreePages' => Kids(heap[p]) \subseteq TreePages'
    BY <1>9, <2>2
  <2> QED BY <1>3, <2>1, <2>3, LevelStays
<1>11. l \in TreePages'
  BY <1>3, <1>6, <1>8, <1>10
<1>12. Kids(heap[l]) \subseteq TreePages' /\ Kids(heap[r]) \subseteq TreePages'
  <2>1. Kids(q) \subseteq TreePages'
    BY <1>1, <1>2, <1>8, <1>11
  <2> QED BY <1>3, <2>1
<1>13. PICK A : A = TreePages' \cup {r}
  OBVIOUS
<1>14. TreePages \subseteq A
  <2>1. Roots \subseteq A
    BY <1>8, <1>13
  <2>2. ASSUME NEW p \in TreePages, p \in A PROVE Kids(heap[p]) \subseteq A
    <3>1. CASE p = par
      BY <1>6, <1>8, <1>10, <1>13, <3>1
    <3>2. CASE p = l \/ p = r
      BY <1>12, <1>13, <3>2
    <3>3. CASE p # par /\ p # l /\ p # r
      BY <1>9, <1>13, <2>2, <3>3
    <3> QED BY <3>1, <3>2, <3>3
  <2> QED BY <2>1, <2>2 DEF Sound, Rooted
<1>15. TreePages' \subseteq TreePages
  BY <1>0 DEF Sound
<1>16. PICK T2 : T2 = TreePages'
  OBVIOUS
<1>17. Unites(G, TreePages, l, r, par, s, G2, T2)
  <2>1. /\ s \in Live(heap[par])
        /\ Live(InnerDrop(heap[par], i)) = Live(heap[par]) \ {s}
    <3>1. \E e : e \in Entries
      BY ZeroEntryType
    <3> QED BY <1>3, <3>1, ParentLive DEF InOrder
  <2>2. Live(G[par]) = Live(heap[par])
    BY <1>0, <1>1
  <2> QED BY <1>2, <1>3, <1>13, <1>14, <1>15, <1>16, <2>1, <2>2 DEF Unites
<1>18. Contents' = Stock(heap', TreePages')
  BY <1>7, ContentsAfter
<1> QED
  BY <1>0, <1>1, <1>16, <1>17, <1>18, JoinedStock

\* The page an entry was removed from held it besides those it has left.
LEMMA ErasedLive ==
  ASSUME NEW p \in LeafPages, NEW k, LeafHolds(p, k), NEW m, m = LeafSearch(p, k)
  PROVE  Live(p) = Live(LeafErase(p, k)) \cup {p.slots[m]}
<1>1. PICK q, n : q = LeafErase(p, k) /\ n = p.size
  OBVIOUS
<1>2. m \in 0..n /\ m < n /\ n \in Nat /\ p.kind = "leaf"
  BY <1>1, LeafSearchRange, LeafFields DEF LeafHolds
<1>3. q.kind = "leaf" /\ q.size = n - 1
  BY <1>1, LeafEraseType, LeafFields
<1>4. \A j \in 0..(n - 2) : q.slots[j] = IF j >= m THEN p.slots[j + 1] ELSE p.slots[j]
  BY <1>1, LeafEditSlots, ZeroEntryType
<1>5. Live(p) = {p.slots[j] : j \in 0..(n - 1)} /\ Live(q) = {q.slots[j] : j \in 0..(n - 2)}
  <2>1. (n - 1) - 1 = n - 2
    BY <1>2
  <2> QED BY <1>1, <1>2, <1>3, <2>1 DEF Live
<1>6. ASSUME NEW j \in 0..(n - 1) PROVE p.slots[j] \in Live(q) \cup {p.slots[m]}
  <2>1. CASE j < m
    <3>1. j \in 0..(n - 2) /\ ~(j >= m)
      BY <1>2, <2>1
    <3> QED BY <1>4, <1>5, <3>1
  <2>2. CASE j > m
    <3>1. j - 1 \in 0..(n - 2) /\ j - 1 >= m /\ (j - 1) + 1 = j
      BY <1>2, <2>2
    <3> QED BY <1>4, <1>5, <3>1
  <2>3. CASE j = m
    BY <2>3
  <2> QED BY <1>2, <2>1, <2>2, <2>3
<1>7. ASSUME NEW j \in 0..(n - 2) PROVE q.slots[j] \in Live(p)
  <2>1. j \in 0..(n - 1) /\ j + 1 \in 0..(n - 1)
    BY <1>2
  <2> QED BY <1>4, <1>5, <2>1
<1>8. p.slots[m] \in Live(p)
  BY <1>2, <1>5
<1> QED
  BY <1>1, <1>5, <1>6, <1>7, <1>8

\* An entry that was moved up is in its leaf and in the page above.
LEMMA MovedStock ==
  ASSUME IndInv, NEW lev, NEW span, Sound(lev, span), pc = "down", Moved,
         NEW G, G = [heap EXCEPT ![Cur] = Erased]
  PROVE  Stock(G, TreePages) = Stock(heap, TreePages)
<1>1. PICK c, par, m, e, i :
        /\ c = Cur /\ par = Parent /\ m = LeafSearch(Page, key) /\ e = Page.slots[m]
        /\ i \in 1..(heap[par].size - 1) /\ heap[par].slots[i] = e
  BY DEF Sound, OrderShape, SearchSpan
<1>2. IsLeaf(c) /\ LeafHolds(Page, key) /\ Len(path) > 1 /\ AtLeaf("Remove") /\ path # <<>>
  BY <1>1, ParentPage DEF Sound, OrderShape, SearchSpan, Moved, AtLeaf
<1>3. /\ c \in TreePages /\ par \in TreePages /\ par # c /\ TreePages \subseteq Pids
      /\ Page = heap[c] /\ Page \in LeafPages
  BY <1>1, <1>2, PathFacts, CurPage DEF Sound
<1>4. G[c] = Erased /\ \A p \in TreePages \ {c} : G[p] = heap[p]
  BY <1>1, <1>3 DEF Pids
<1>5. Live(heap[c]) = Live(Erased) \cup {e}
  BY <1>1, <1>2, <1>3, ErasedLive DEF Erased
<1>6. e \in Live(heap[par])
  <2>1. heap[par].kind # "leaf"
    BY <1>1, <1>2, ParentPage DEF IsLeaf
  <2> QED BY <1>1, <2>1 DEF Live
<1>7. \A x : x \in Stock(G, TreePages) <=> x \in Live(G[c]) \/ \E p \in TreePages \ {c} : x \in Live(heap[p])
  <2>1. ASSUME NEW x, NEW p \in TreePages, x \in Live(G[p]), p # c PROVE x \in Live(heap[p])
    <3>1. G[p] = heap[p]
      BY <1>4, <2>1
    <3> QED BY <2>1, <3>1
  <2>2. ASSUME NEW x, NEW p \in TreePages \ {c}, x \in Live(heap[p]) PROVE x \in Live(G[p])
    <3>1. G[p] = heap[p]
      BY <1>4
    <3> QED BY <2>2, <3>1
  <2> QED BY <1>3, <2>1, <2>2 DEF Stock
<1>8. \A x : x \in Stock(heap, TreePages) <=> x \in Live(heap[c]) \/ \E p \in TreePages \ {c} : x \in Live(heap[p])
  BY <1>3, WrittenStock
<1>9. \A x : x \in Stock(G, TreePages) <=> x \in Stock(heap, TreePages)
  BY <1>3, <1>4, <1>5, <1>6, <1>7, <1>8
<1> QED
  BY <1>9 DEF Stock

\* Once the entry is out of its leaf the call has done what it was asked to do.
LEMMA ErasedMaps ==
  ASSUME IndInv, NEW lev, NEW span, Sound(lev, span), AtLeaf("Remove"), LeafHolds(Page, key),
         NEW G, G = [heap EXCEPT ![Cur] = Erased]
  PROVE  /\ Ordered(G, TreePages, span) /\ Forest(G, {root}, TreePages, lev) /\ Roots = {root}
         /\ \A p \in TreePages : Kids(G[p]) = Kids(heap[p])
         /\ Moved => TookEffect /\ Stock(G, TreePages) = Contents
         /\ ~Moved => ~TookEffect /\ <<Stock(G, TreePages), Done>> \in Map!Outcomes(call)
<1>1. /\ pc = "down" /\ call.op = "Remove" /\ IsLeaf(Cur) /\ call \in Calls /\ path # <<>>
      /\ TreeShape(TreePages, lev) /\ OrderShape(TreePages, span)
  BY HeapTypes DEF AtLeaf, Sound
<1>2. /\ Ordered(G, TreePages, span) /\ Forest(G, {root}, TreePages, lev) /\ TreePages \subseteq Pids
      /\ Cur \in TreePages /\ G[Cur] = Erased /\ \A p \in Pids \ {Cur} : G[p] = heap[p]
  BY <1>1, ErasedOrder
<1>3. split = NoSplit /\ Roots = {root} /\ Contents = Stock(heap, TreePages)
  BY <1>1, DownShape, ContentsStock DEF Roots
<1>4. Page = heap[Cur] /\ Page \in LeafPages /\ Page.kind = "leaf" /\ Erased.kind = "leaf"
  BY <1>1, CurPage, ErasedType, LeafFields
<1>5. \A p \in TreePages : Kids(G[p]) = Kids(heap[p])
  <2>1. Kids(Erased) = {} /\ Kids(Page) = {}
    BY <1>4, LeafKids
  <2> QED BY <1>2, <1>4, <2>1
<1>6. Moved => TookEffect /\ Stock(G, TreePages) = Contents
  BY <1>1, <1>3, MovedStock DEF Moved, TookEffect
<1>7. ASSUME ~Moved PROVE ~TookEffect /\ <<Stock(G, TreePages), Done>> \in Map!Outcomes(call)
  <2>1. /\ Rest(lev, span) /\ ~TookEffect /\ key = call.key /\ key \in span[Cur]
        /\ InOrder(Page, span[Cur], span)
    BY <1>1, <1>7, NotYet
  <2>2. PICK c, i, e, A, H : c = Cur /\ i = LeafSearch(Page, key) /\ e = Page.slots[i] /\ A = {} /\ H = G
    OBVIOUS
  <2>3. c \in TreePages /\ i \in Places(heap[c]) /\ e[1] = key /\ e = heap[c].slots[i]
    BY <1>1, <1>2, <1>4, <1>7, <2>2, HereIsTheEntry
  <2>4. Live(Erased) = Live(Page) \ {e}
    <3>1. key \in Int
      BY <2>1 DEF InOrder, AllInts
    <3> QED BY <1>4, <2>1, <2>2, <3>1, LeafEraseOrder DEF Erased
  <2>5. Replaces(H, c, e, A)
    BY <1>2, <1>4, <2>2, <2>4 DEF Replaces
  <2>6. Stock(H, TreePages) = {x \in Contents : x[1] # e[1]} \cup A
    BY <2>1, <2>3, <2>5, ReplacedStock
  <2>7. Stock(G, TreePages) = {x \in Contents : x[1] # key}
    BY <2>2, <2>3, <2>6
  <2>8. <<{x \in Contents : x[1] # key}, Done>> \in Map!Outcomes(call)
    BY <1>1, <2>1, OutcomesOf
  <2> QED BY <2>1, <2>7, <2>8
<1> QED
  BY <1>2, <1>3, <1>5, <1>6, <1>7

\* The entry goes, and the leaf keeps enough of them or borrows one.
LEMMA ErasesAndEnds ==
  ASSUME IndInv, NEW lev, NEW span, Sound(lev, span), AtLeaf("Remove"), LeafHolds(Page, key),
         NEW G, G = [heap EXCEPT ![Cur] = Erased], Contents' = Stock(G, TreePages), Return(Done)
  PROVE  MapStep
<1>1. pc = "down"
  BY DEF AtLeaf
<1>2. CASE Moved
  BY <1>2, ErasedMaps DEF MapStep, Ends
<1>3. CASE ~Moved
  BY <1>1, <1>3, ErasedMaps DEF MapStep, Answers, Acts
<1> QED
  BY <1>2, <1>3

LEMMA RemoveFromLeafMaps ==
  ASSUME IndInv, NEW lev, NEW span, Sound(lev, span), RemoveFromLeaf
  PROVE  MapStep
<1>1. PICK G : G = [heap EXCEPT ![Cur] = Erased]
  OBVIOUS
<1>2. /\ AtLeaf("Remove") /\ LeafHolds(Page, key) /\ heap' = G /\ Return(Done) /\ root' = root /\ Pids' = Pids
      /\ split' = NoSplit
  BY <1>1 DEF RemoveFromLeaf, Return, Pids
<1>3. Roots = {root} /\ \A p \in TreePages : Kids(G[p]) = Kids(heap[p])
  BY <1>1, <1>2, ErasedMaps
<1>4. TreePages' = TreePages
  <2>1. Roots' = Roots
    BY <1>2, <1>3 DEF Roots
  <2> QED BY <1>2, <1>3, <2>1, SamePages
<1>5. Contents' = Stock(G, TreePages)
  BY <1>2, <1>4, ContentsAfter
<1> QED
  BY <1>1, <1>2, <1>5, ErasesAndEnds

LEMMA LeafBorrowMaps ==
  ASSUME IndInv, TreeInv, NEW lev, NEW span, Sound(lev, span), LeafBorrowRight \/ LeafBorrowLeft
  PROVE  MapStep
<1>1. PICK G : G = [heap EXCEPT ![Cur] = Erased]
  OBVIOUS
<1>2. AtLeaf("Remove") /\ LeafHolds(Page, key)
  BY DEF LeafBorrowRight, LeafBorrowLeft, LeafLends, LeafUnderflow
<1>3. /\ Ordered(G, TreePages, span) /\ Forest(G, {root}, TreePages, lev) /\ Roots = {root}
      /\ \A p \in TreePages : Kids(G[p]) = Kids(heap[p])
  BY <1>1, <1>2, ErasedMaps
<1>4. Exchanges(G, TreePages)
  BY <1>1, LeafBorrows DEF Sound, Rooted
<1>5. Contents' = Stock(G, TreePages) /\ Return(Done)
  BY <1>3, <1>4, BorrowKeepsEntries
<1> QED
  BY <1>1, <1>2, <1>5, ErasesAndEnds

LEMMA LeafMergeMaps ==
  ASSUME IndInv, TreeInv, NEW lev, NEW span, Sound(lev, span), LeafMergeRight
  PROVE  MapStep
<1>1. PICK G : G = [heap EXCEPT ![Cur] = Erased]
  OBVIOUS
<1>2. AtLeaf("Remove") /\ LeafHolds(Page, key) /\ pc = "down" /\ call.op = "Remove"
  BY DEF LeafMergeRight, LeafMerges, LeafUnderflow, AtLeaf
<1>3. /\ Ordered(G, TreePages, span) /\ Forest(G, {root}, TreePages, lev) /\ Roots = {root}
      /\ \A p \in TreePages : Kids(G[p]) = Kids(heap[p])
  BY <1>1, <1>2, ErasedMaps
<1>4. Joins(G, TreePages)
  BY <1>1, LeafJoins DEF Sound, Rooted
<1>5. Contents' = Stock(G, TreePages) /\ ReturnTo(Cur, NoSplit)
  BY <1>3, <1>4, MergeKeepsAll
<1>6. pc' = "up" /\ UNCHANGED <<call, result>>
  BY <1>5 DEF ReturnTo
<1>7. TookEffect'
  BY <1>6 DEF TookEffect
<1>8. CASE Moved
  <2>1. TookEffect /\ Contents' = Contents
    BY <1>1, <1>2, <1>5, <1>8, ErasedMaps
  <2> QED BY <1>2, <1>6, <1>7, <2>1 DEF MapStep, Within
<1>9. CASE ~Moved
  <2>1. ~TookEffect /\ <<Contents', Done>> \in Map!Outcomes(call)
    BY <1>1, <1>2, <1>5, <1>9, ErasedMaps
  <2> QED BY <1>2, <1>6, <1>7, <2>1 DEF MapStep, TakesEffect, Acts
<1> QED
  BY <1>8, <1>9

\* An internal page borrows, or merges, or has nothing to do.
LEMMA InnerBorrowMaps ==
  ASSUME IndInv, TreeInv, NEW lev, NEW span, Sound(lev, span), InnerBorrowRight \/ InnerBorrowLeft
  PROVE  MapStep
<1>1. pc = "up" /\ call.op = "Remove"
  BY DEF InnerBorrowRight, InnerBorrowLeft, InnerLends, InnerUnderflow
<1>2. /\ TreeShape(TreePages, lev) /\ OrderShape(TreePages, span) /\ TreePages \subseteq Pids
  BY DEF Sound, Rooted
<1>3. PICK G : G = heap
  OBVIOUS
<1>4. /\ Ordered(G, TreePages, span) /\ Forest(G, {root}, TreePages, lev) /\ split = NoSplit
      /\ \A p \in TreePages : Kids(G[p]) = Kids(heap[p])
  BY <1>1, <1>2, <1>3, RestOrder, UpRemoveShape
<1>5. Roots = {root} /\ Contents = Stock(G, TreePages) /\ TookEffect
  BY <1>1, <1>3, <1>4, ContentsStock DEF Roots, TookEffect
<1>6. Exchanges(G, TreePages)
  BY <1>2, <1>3, InnerBorrows
<1>7. Contents' = Stock(G, TreePages) /\ Return(Done)
  BY <1>4, <1>5, <1>6, BorrowKeepsEntries
<1> QED
  BY <1>5, <1>7 DEF MapStep, Ends

LEMMA InnerMergeMaps ==
  ASSUME IndInv, TreeInv, NEW lev, NEW span, Sound(lev, span), InnerMergeRight \/ InnerMergeLeft,
         ~InnerMergeMiscounts
  PROVE  MapStep
<1>1. pc = "up" /\ call.op = "Remove"
  BY DEF InnerMergeRight, InnerMergeLeft, InnerMerges, InnerUnderflow
<1>2. /\ TreeShape(TreePages, lev) /\ OrderShape(TreePages, span) /\ TreePages \subseteq Pids
  BY DEF Sound, Rooted
<1>3. PICK G : G = heap
  OBVIOUS
<1>4. /\ Ordered(G, TreePages, span) /\ Forest(G, {root}, TreePages, lev) /\ split = NoSplit
      /\ \A p \in TreePages : Kids(G[p]) = Kids(heap[p])
  BY <1>1, <1>2, <1>3, RestOrder, UpRemoveShape
<1>5. Roots = {root} /\ Contents = Stock(G, TreePages) /\ TookEffect
  BY <1>1, <1>3, <1>4, ContentsStock DEF Roots, TookEffect
<1>6. Joins(G, TreePages)
  BY <1>2, <1>3, InnerJoins
<1>7. Contents' = Stock(G, TreePages) /\ ReturnTo(Cur, NoSplit)
  BY <1>4, <1>5, <1>6, MergeKeepsAll
<1>8. pc' = "up" /\ UNCHANGED <<call, result>>
  BY <1>7 DEF ReturnTo
<1>9. TookEffect' = TookEffect
  BY <1>1, <1>5, <1>8 DEF TookEffect
<1> QED
  BY <1>1, <1>5, <1>7, <1>8, <1>9 DEF MapStep, Within

LEMMA RemoveEndsMaps ==
  ASSUME IndInv, NEW lev, NEW span, Sound(lev, span), InnerSafe \/ RootKeeps
  PROVE  MapStep
<1>1. pc = "up" /\ call.op = "Remove" /\ heap' = heap /\ root' = root /\ Return(Done)
  BY DEF InnerSafe, RootKeeps
<1>2. split = NoSplit
  BY <1>1, UpRemoveShape DEF Sound
<1>3. split' = split
  BY <1>1, <1>2 DEF Return
<1>4. Contents' = Contents
  BY <1>1, <1>3, NothingWritten
<1> QED
  BY <1>1, <1>4 DEF MapStep, Ends, TookEffect

\* The root that goes holds no entry.
LEMMA RootShrinksMaps ==
  ASSUME IndInv, NEW lev, NEW span, Sound(lev, span), RootShrinks, ~ShrinksToDeadPage
  PROVE  MapStep
<1>1. /\ pc = "up" /\ call.op = "Remove" /\ Len(path) = 1 /\ Page.size = 1 /\ root' = child
      /\ Return(Done) /\ heap' = heap /\ child = Page.pids[0]
  BY DEF RootShrinks, ShrinksToDeadPage
<1>2. /\ TreeShape(TreePages, lev) /\ Rooted /\ Rooted' /\ TreePages' \subseteq TreePages \cup (Pids' \ Pids)
  BY DEF Sound
<1>3. Cur = root /\ root \in TreePages /\ Page = heap[root] /\ Page.kind = "inner"
  BY <1>1, <1>2, PathFacts, InnerUpFacts, InnerFields
<1>4. split = NoSplit /\ split' = NoSplit
  BY <1>1, <1>2, UpRemoveShape DEF Return
<1>5. Roots = {root} /\ Roots' = {child} /\ Pids' = Pids
  BY <1>1, <1>4 DEF Roots, Pids
<1>6. Kids(heap[root]) = {child} /\ Live(heap[root]) = {}
  BY <1>1, <1>3 DEF Kids, Live
<1>7. PICK A : A = TreePages' \cup {root}
  OBVIOUS
<1>8. child \in TreePages' /\ \A p \in TreePages' : Kids(heap[p]) \subseteq TreePages'
  BY <1>1, <1>2, <1>5 DEF Rooted
<1>9. TreePages \subseteq A
  <2>1. Roots \subseteq A
    BY <1>5, <1>7
  <2>2. \A p \in TreePages : p \in A => Kids(heap[p]) \subseteq A
    BY <1>6, <1>7, <1>8
  <2> QED BY <1>2, <2>1, <2>2 DEF Rooted
<1>10. TreePages' \subseteq TreePages
  BY <1>2, <1>5
<1>11. Contents = Stock(heap, TreePages) /\ Contents' = Stock(heap, TreePages')
  BY <1>1, <1>4, ContentsStock, ContentsAfter
<1>12. \A x : x \in Contents' <=> x \in Contents
  <2>1. \A x : x \in Contents <=> \E p \in TreePages : x \in Live(heap[p])
    BY <1>11 DEF Stock
  <2>2. \A x : x \in Contents' <=> \E p \in TreePages' : x \in Live(heap[p])
    BY <1>11 DEF Stock
  <2> QED BY <1>6, <1>7, <1>9, <1>10, <2>1, <2>2
<1>13. Contents' = Contents
  BY <1>11, <1>12 DEF Stock
<1> QED
  BY <1>1, <1>13 DEF MapStep, Ends, TookEffect

\* The entry found in an internal page over the leaves is overwritten by the first
\* one of the leaf right of it.
LEMMA RemoveAtInnerMaps ==
  ASSUME IndInv, NEW lev, NEW span, Sound(lev, span), RemoveAtInner, ~SeparatorOverInner, LeafMax >= 3
  PROVE  MapStep
<1>1. PICK p, i, c, e, q :
        /\ p = Cur /\ i = InnerSearch(Page, key) /\ c = Page.pids[i] /\ e = FirstElem(heap[c])
        /\ q = InnerSetEntry(Page, i, e)
  OBVIOUS
<1>2. /\ pc = "down" /\ ~IsLeaf(p) /\ InnerHolds(Page, key) /\ call.op = "Remove" /\ IsLeaf(c)
      /\ key' = e[1] /\ heap' = [heap EXCEPT ![p] = q]
      /\ UNCHANGED <<nextPid, root, pc, call, child, split, result>>
  BY <1>1 DEF RemoveAtInner, AtInner, SeparatorOverInner, Page
<1>3. /\ TreeShape(TreePages, lev) /\ OrderShape(TreePages, span)
  BY DEF Sound
<1>4. ~Moved
  BY <1>1, <1>2, <1>3, DownOrder
<1>5. /\ Rest(lev, span) /\ ~TookEffect /\ path # <<>> /\ p \in TreePages /\ call \in Calls /\ split = NoSplit
      /\ key = call.key /\ Page = heap[p] /\ InOrder(Page, span[p], span)
  BY <1>1, <1>2, <1>4, NotYet DEF Page
<1>6. /\ i \in Places(Page) /\ Page.slots[i][1] = key
  BY <1>1, <1>2, <1>4, HereIsTheEntry
<1>7. Page \in InnerOver(Pids) /\ Page.kind = "inner" /\ i \in 1..(Page.size - 1)
  BY <1>1, <1>2, <1>5, <1>6, CurPage, InnerFields DEF Places, First
<1>8. c \in Kids(heap[p]) /\ c \in TreePages /\ c # p /\ c # root
  <2>1. c \in Kids(heap[p])
    <3>1. i \in 0..(Page.size - 1)
      BY <1>7
    <3> QED BY <1>1, <1>5, <1>7, <3>1 DEF Kids
  <2>2. c \in TreePages
    BY <1>5, <2>1 DEF Rest
  <2>3. c # p
    BY <1>2
  <2>4. c # root
    BY <1>5, <2>1 DEF Rest, Forest
  <2> QED BY <2>1, <2>2, <2>3, <2>4
<1>9. heap[c] \in LeafPages /\ heap[c].size >= 1 /\ heap[c].kind = "leaf" /\ heap[c].size \in Nat
  <2>1. heap[c] \in LeafPages /\ heap[c].kind = "leaf" /\ heap[c].size \in Nat
    BY <1>2, <1>5, <1>8, TreePage DEF IsLeaf
  <2>2. heap[c].size >= MinSize(LeafMax)
    BY <1>2, <1>3, <1>8, <2>1, DownShape DEF HalfOf
  <2>3. MinSize(LeafMax) >= 1
    BY ParameterAssumption, MinSizeBound
  <2> QED BY <2>1, <2>2, <2>3, ParameterAssumption, MinSizeBound
<1>10. e = heap[c].slots[0] /\ 0 \in Places(heap[c]) /\ e \in Entries
  <2>1. e = LeafFirst(heap[c]) /\ e \in Entries
    BY <1>1, <1>9, LeafPopTypes DEF FirstElem
  <2> QED BY <1>9, <2>1 DEF LeafFirst, Places, First
<1>11. PICK d, j, G, A : d = heap[p].slots[i] /\ j = 0 /\ G = heap' /\ A = {e}
  OBVIOUS
<1>12. /\ e \in Contents /\ Contents = Stock(heap, TreePages)
       /\ \A r \in TreePages : \A x \in Live(heap[r]) : x[1] = e[1] => r = c /\ x = e
  <2>1. j \in Places(heap[c]) /\ e = heap[c].slots[j]
    BY <1>10, <1>11
  <2> QED BY <1>5, <1>8, <2>1, EntryOfSlot
<1>13. d[1] = key /\ d \in Live(heap[p]) /\ Live(q) = (Live(heap[p]) \ {d}) \cup {e}
  <2>1. AllInts(span[p]) /\ Sorted(Page, span[p])
    BY <1>5 DEF InOrder
  <2>2. Page.slots[i] \in Live(Page) /\ Live(InnerSetEntry(Page, i, e)) = (Live(Page) \ {Page.slots[i]}) \cup {e}
    BY <1>7, <1>10, <2>1, ParentLive
  <2> QED BY <1>1, <1>5, <1>6, <1>11, <2>2
<1>14. e[1] # key
  BY <1>5, <1>8, <1>12, <1>13
<1>15. /\ TreePages' = TreePages /\ Contents' = Stock(heap', TreePages)
       /\ heap'[p] = q /\ \A r \in TreePages \ {p} : heap'[r] = heap[r]
  <2>1. split' = NoSplit
    BY <1>2, <1>5
  <2>2. Kids(q) = Kids(Page)
    BY <1>1, <1>7, InnerSetEntryKids
  <2> QED BY <1>1, <1>2, <1>4, <2>1, <2>2, PageWritten
<1>16. Replaces(G, p, d, A)
  BY <1>11, <1>13, <1>15 DEF Replaces
<1>17. Stock(G, TreePages) = {x \in Contents : x[1] # d[1]} \cup A
  <2>1. p \in TreePages /\ i \in Places(heap[p]) /\ d = heap[p].slots[i]
    BY <1>5, <1>6, <1>11
  <2> QED BY <1>5, <1>16, <2>1, ReplacedStock
<1>18. Contents' = {x \in Contents : x[1] # key}
  BY <1>11, <1>12, <1>13, <1>14, <1>15, <1>17
<1>19. <<Contents', Done>> \in Map!Outcomes(call)
  BY <1>2, <1>5, <1>18, OutcomesOf
<1>20. TookEffect'
  BY <1>2, <1>5, <1>14 DEF TookEffect
<1> QED
  BY <1>2, <1>5, <1>19, <1>20 DEF MapStep, TakesEffect, Acts

-----------------------------------------------------------------------------
\* Until the first faulty step the index is a map.

\* Every step that is not faulty is one of the map, or none.
LEMMA StepMaps ==
  ASSUME IndInv, TreeInv, NEW lev, NEW span, Sound(lev, span), Next, ~Faulty,
         LeafMax >= 3, ~NoSibling
  PROVE  MapStep
<1>1. CASE \E c \in Calls : Invoke(c)
  BY <1>1, InvokeMaps
<1>2. CASE Step
  <2>1. CASE GoDown
    BY <2>1, GoDownMaps
  <2>2. CASE GetAtInner \/ GetAtLeaf
    BY <2>2, GetMaps
  <2>3. CASE UpdateAtInner \/ UpdateAtLeaf
    BY <2>3, UpdateMaps
  <2>4. CASE InsertDuplicate \/ RemoveMiss
    BY <2>4, MissMaps
  <2>5. CASE LeafInsertFits \/ LeafInsertSplits
    BY <2>5, LeafInsertMaps DEF Faulty
  <2>6. CASE InnerInsertFits \/ InnerInsertSplits
    BY <2>6, InnerInsertMaps
  <2>7. CASE GrowRoot
    BY <2>7, GrowRootMaps
  <2>8. CASE RemoveAtInner
    BY <2>8, RemoveAtInnerMaps DEF Faulty
  <2>9. CASE RemoveFromLeaf
    BY <2>9, RemoveFromLeafMaps
  <2>10. CASE LeafBorrowRight \/ LeafBorrowLeft
    BY <2>10, LeafBorrowMaps
  <2>11. CASE LeafMergeRight
    BY <2>11, LeafMergeMaps
  <2>12. CASE LeafMergeLeft
    BY <2>12 DEF Faulty, LeafMergeMiscounts, LeafMergeLeft
  <2>13. CASE InnerBorrowRight \/ InnerBorrowLeft
    BY <2>13, InnerBorrowMaps
  <2>14. CASE InnerMergeRight \/ InnerMergeLeft
    BY <2>14, InnerMergeMaps DEF Faulty
  <2>15. CASE InnerSafe \/ RootKeeps
    BY <2>15, RemoveEndsMaps
  <2>16. CASE RootShrinks
    BY <2>16, RootShrinksMaps DEF Faulty
  <2>17. CASE RemoveMissBelowInner
    BY <2>17 DEF RemoveMissBelowInner, Faulty, MissBelowInner
  <2> QED
    BY <1>2, <2>1, <2>2, <2>3, <2>4, <2>5, <2>6, <2>7, <2>8, <2>9, <2>10, <2>11, <2>12, <2>13,
       <2>14, <2>15, <2>16, <2>17 DEF Step
<1> QED
  BY <1>1, <1>2 DEF Next

\* Before such a step the tree is in order, and it makes no page but new ones.
LEMMA SoundThere ==
  /\ IndInv /\ TreeInv /\ OrderInv /\ pc \notin {"aborted", "undefined"}
  /\ [Next /\ ~Faulty]_vars /\ IndInv' /\ TreeInv'
  => \E lev, span : Sound(lev, span)
<1>1. \A L, V : IndInv /\ TreeShape(L, V) => TreePages \subseteq L
  BY TreePagesShape
<1>2. (\A L, V : IndInv /\ TreeShape(L, V) => TreePages \subseteq L)'
  BY <1>1, PTL
<1>3. (IndInv /\ TreeInv => Rooted)'
  BY TreeIsRooted, PTL
<1> SUFFICES ASSUME IndInv, TreeInv, OrderInv, pc \notin {"aborted", "undefined"},
                    [Next /\ ~Faulty]_vars, IndInv', TreeInv'
             PROVE  \E lev, span : Sound(lev, span)
  OBVIOUS
<1>4. PICK span : OrderShape(TreePages, span)
  BY DEF OrderInv
<1>5. PICK lev : TreeShape(TreePages, lev)
  BY TreePagesAreATree DEF TreeInv
<1>6. StillTree(TreePages)
  <2>1. [Next /\ ~ShrinksToDeadPage]_vars
    BY DEF Faulty
  <2> QED BY <1>5, <2>1, TreeStep
<1>7. PICK L, V : TreeShape(L, V)' /\ L \subseteq TreePages \cup (Pids' \ Pids)
  BY <1>6 DEF StillTree
<1>8. TreePages' \subseteq L
  BY <1>2, <1>7
<1>9. Rooted /\ Rooted'
  BY <1>3, TreeIsRooted
<1> QED
  BY <1>4, <1>5, <1>7, <1>8, <1>9 DEF Sound

\* What SoundCalls keeps, and what each of its steps does.
LEMMA MapAlways ==
  LeafMax >= 3 /\ InnerMax >= 5 =>
    (SoundCalls => [](IndInv /\ TreeInv /\ OrderInv) /\ [][IndInv /\ OrderInv /\ MapStep]_vars)
<1> SUFFICES ASSUME LeafMax >= 3, InnerMax >= 5
             PROVE  SoundCalls => /\ [](IndInv /\ TreeInv /\ OrderInv)
                                  /\ [][IndInv /\ OrderInv /\ MapStep]_vars
  OBVIOUS
<1>1. SoundCalls => [](IndInv /\ TreeInv /\ OrderInv)
  BY OrderAlways
<1>2. SoundCalls => []NeverStops
  BY KeepsRunning
<1>3. /\ IndInv /\ TreeInv /\ OrderInv /\ NeverStops /\ [Next /\ ~Faulty]_vars /\ IndInv' /\ TreeInv'
      => [IndInv /\ OrderInv /\ MapStep]_vars
  <2> SUFFICES ASSUME IndInv, TreeInv, OrderInv, NeverStops, Next, ~Faulty, IndInv', TreeInv'
               PROVE  MapStep
    OBVIOUS
  <2>1. PICK lev, span : Sound(lev, span)
    BY SoundThere DEF NeverStops
  <2>2. ~NoSibling
    BY <2>1, SiblingThere DEF NoSibling, Sound
  <2> QED BY <2>1, <2>2, StepMaps
<1> QED
  BY <1>1, <1>2, <1>3, PTL DEF SoundCalls

\* A new index has no entries.
LEMMA EmptyAtFirst == Init => Contents = {}
<1> SUFFICES ASSUME Init PROVE Contents = {}
  OBVIOUS
<1>1. split = NoSplit /\ root = 0 /\ heap = [pid \in {0} |-> EmptyLeaf]
  BY DEF Init
<1>2. TreePages \subseteq {0}
  BY <1>1, InitEstablishes, InitTree, TreeIsRooted DEF Rooted, Pids
<1>3. Live(EmptyLeaf) = {}
  BY DEF Live, EmptyLeaf
<1> QED
  BY <1>1, <1>2, <1>3, ContentsStock DEF Stock

LEMMA InitMaps == Init => Map!Init
<1> SUFFICES ASSUME Init PROVE Map!Init
  OBVIOUS
<1>1. pc = "idle" /\ result = Pending
  BY DEF Init
<1>2. Contents = {}
  BY EmptyAtFirst
<1>3. TookEffect <=> FALSE
  BY <1>1 DEF TookEffect
<1>4. [c \in {1} |-> TookEffect] = [c \in {1} |-> FALSE]
  BY <1>3, Zenon
<1> QED
  BY <1>1, <1>2, <1>4 DEF Map!Init, Pending

\* A step of the map, or none.
LEMMA MapStepOrNone == [IndInv /\ MapStep]_vars => [Map!Next]_Map!vars
<1>1. ASSUME UNCHANGED vars PROVE UNCHANGED Map!vars
  <2>1. Contents' = Contents
    BY <1>1 DEF vars, Contents, TreePages, Roots, Reachable, Children, IsLeaf, Pids, Live
  <2>2. TookEffect' = TookEffect
    BY <1>1 DEF vars, TookEffect
  <2> QED BY <1>1, <2>1, <2>2 DEF vars, Map!vars
<1> QED
  BY <1>1, MapStepRefines

\* Every call of index.h does to the entries of the tree, and answers, what one
\* operation of a map does, at one moment between its call and its return: Insert
\* and Remove whatever splits, borrows and merges they still have to make.  No
\* allocation fails here, and no step is a faulty one.
THEOREM ImplementsMap == LeafMax >= 3 /\ InnerMax >= 5 => (SoundCalls => Map!Spec /\ MapSpec)
<1> SUFFICES ASSUME LeafMax >= 3, InnerMax >= 5 PROVE SoundCalls => Map!Spec /\ MapSpec
  OBVIOUS
<1>1. [IndInv /\ OrderInv /\ MapStep]_vars => [Map!Next]_Map!vars
  BY MapStepOrNone
<1>2. SoundCalls => Map!Spec
  BY <1>1, InitMaps, MapAlways, PTL DEF SoundCalls, Map!Spec
<1>3. Map!Spec => MapSpec
  <2>1. [Map!Next]_Map!vars => [Map!NextOrFail]_Map!vars
    BY DEF Map!NextOrFail
  <2> QED BY <2>1, PTL DEF Map!Spec, Map!SpecOrFail, MapSpec
<1> QED
  BY <1>2, <1>3

\* What a call may do to the entries of other keys, and of its own.
LEMMA OutcomeEntries ==
  ASSUME NEW r \in Calls, NEW C, NEW a, <<C, a>> \in Map!Outcomes(r)
  PROVE  /\ \A x \in Contents : x[1] # r.key => x \in C
         /\ r.op = "Remove" => \A x \in C : x[1] # r.key
<1>1. r.op \in {"Insert", "Update", "Get", "Remove"}
  BY CallTypes
<1> QED
  BY <1>1 DEF Map!Outcomes, Map!Has, Map!Without

\* A Remove that has taken effect has left no entry of its key.
RemovedSoFar == TookEffect /\ call.op = "Remove" => \A x \in Contents : x[1] # call.key

\* Once a Remove has returned its key is gone, unless a faulty step was taken: an
\* entry moved up is not of that key, and no split, borrow or merge brings it back.
THEOREM RemovesForGood == LeafMax >= 3 /\ InnerMax >= 5 => (SoundCalls => RemovedIsGone)
<1> SUFFICES ASSUME LeafMax >= 3, InnerMax >= 5 PROVE SoundCalls => RemovedIsGone
  OBVIOUS
<1>1. Init => RemovedSoFar
  BY DEF Init, RemovedSoFar, TookEffect
<1>2. ASSUME IndInv, RemovedSoFar, MapStep
      PROVE  /\ RemovedSoFar'
             /\ call.op = "Remove" /\ pc' = "idle" => \A x \in Contents' : x[1] # call.key
  <2>1. CASE Starts
    <3>1. PICK c \in Calls : Invoke(c)
      BY <2>1 DEF Starts
    <3>2. pc' = "down" /\ call' = c /\ key' = c.key
      BY <3>1 DEF Invoke
    <3> QED BY <3>2 DEF RemovedSoFar, TookEffect
  <2>2. CASE Answers \/ TakesEffect
    <3>1. PICK a : Acts(a) /\ (Return(a) \/ TakesEffect)
      BY <2>2 DEF Answers, TakesEffect
    <3>2. call \in Calls /\ <<Contents', a>> \in Map!Outcomes(call)
      BY <1>2, <3>1, HeapTypes DEF Acts
    <3>3. PICK C : C = Contents'
      OBVIOUS
    <3>4. call.op = "Remove" => \A x \in Contents' : x[1] # call.key
      BY <3>2, <3>3, OutcomeEntries
    <3>5. RemovedSoFar'
      <4>1. CASE Return(a)
        BY <4>1 DEF Return, RemovedSoFar, TookEffect
      <4>2. CASE TakesEffect
        BY <3>4, <4>2 DEF TakesEffect, RemovedSoFar
      <4> QED BY <3>1, <4>1, <4>2
    <3> QED BY <3>4, <3>5
  <2>3. CASE Ends
    <3>1. TookEffect /\ Contents' = Contents /\ pc' = "idle"
      BY <2>3 DEF Ends, Return
    <3>2. ~TookEffect'
      BY <3>1 DEF TookEffect
    <3> QED BY <1>2, <3>1, <3>2 DEF RemovedSoFar
  <2>4. CASE Within
    BY <1>2, <2>4 DEF Within, RemovedSoFar
  <2> QED BY <1>2, <2>1, <2>2, <2>3, <2>4 DEF MapStep
<1>3. UNCHANGED vars /\ RemovedSoFar => RemovedSoFar'
  <2> SUFFICES ASSUME UNCHANGED vars, RemovedSoFar PROVE RemovedSoFar'
    OBVIOUS
  <2>1. Contents' = Contents
    BY DEF vars, Contents, TreePages, Roots, Reachable, Children, IsLeaf, Pids, Live
  <2>2. TookEffect' = TookEffect /\ call' = call
    BY DEF vars, TookEffect
  <2> QED BY <2>1, <2>2 DEF RemovedSoFar
<1>4. RemovedSoFar /\ [IndInv /\ OrderInv /\ MapStep]_vars
      => /\ RemovedSoFar'
         /\ [call.op = "Remove" /\ pc' = "idle" => \A e \in Contents' : e[1] # call.key]_vars
  BY <1>2, <1>3
<1> QED
  BY <1>1, <1>4, MapAlways, PTL DEF SoundCalls, RemovedIsGone

\* A merge that takes a page out of the tree keeps every entry of it but the one the
\* call removes, unless it is a faulty one.
THEOREM MergesLoseNothing == LeafMax >= 3 /\ InnerMax >= 5 => (SoundCalls => MergeKeepsEntries)
<1> SUFFICES ASSUME LeafMax >= 3, InnerMax >= 5 PROVE SoundCalls => MergeKeepsEntries
  OBVIOUS
<1>1. ASSUME IndInv, OrderInv, MapStep, NEW p \in TreePages, NEW e \in Live(heap[p]), e[1] # key
      PROVE  e \in Contents'
  <2>1. e \in Contents
    BY DEF Contents
  <2>2. CASE Starts \/ Ends \/ Within
    BY <2>1, <2>2 DEF Starts, Ends, Within
  <2>3. CASE Answers \/ TakesEffect
    <3>1. PICK a : Acts(a)
      BY <2>3 DEF Answers, TakesEffect
    <3>2. /\ pc = "down" /\ ~TookEffect /\ call \in Calls /\ <<Contents', a>> \in Map!Outcomes(call)
      BY <1>1, <3>1, HeapTypes DEF Acts
    <3>3. key = call.key
      BY <1>1, <3>2 DEF TookEffect, OrderInv, OrderShape
    <3>4. PICK C : C = Contents'
      OBVIOUS
    <3> QED BY <1>1, <2>1, <3>2, <3>3, <3>4, OutcomeEntries
  <2> QED BY <1>1, <2>2, <2>3 DEF MapStep
<1>2. [IndInv /\ OrderInv /\ MapStep]_vars
      => [\A pid \in TreePages \ TreePages' :
            \A e \in Live(heap[pid]) : e[1] # key => e \in Contents']_vars
  BY <1>1
<1> QED
  BY <1>2, MapAlways, PTL DEF SoundCalls, MergeKeepsEntries
=============================================================================
