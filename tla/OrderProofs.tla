----------------------------- MODULE OrderProofs ------------------------------
(***************************************************************************)
(* The index is a search tree up to the first faulty step.                  *)
(*                                                                          *)
(* Each page of the tree has a span, the set of keys a search may look for   *)
(* in it: all integers for the root, and for a child those of its page's     *)
(* span between the entries around its slot.  Pages that split, merge or     *)
(* borrow are seen as two parts of one page with the entry between them      *)
(* (Glued), so that what is shown is only that a page in order is parted by   *)
(* an entry into two in order, and back.                                    *)
(*                                                                          *)
(* In two places the pages are not in order themselves but would be after    *)
(* what the call has still to do (View): a split page is not linked yet, or  *)
(* the entry Remove moved up is still in its leaf.                           *)
(***************************************************************************)
EXTENDS BTreeIndexProofs

\* The first position of an entry: slots[0] of an internal page is not used.
First(p) == IF p.kind = "leaf" THEN 0 ELSE 1

\* The positions of its entries.
Places(p) == First(p)..(p.size - 1)

\* The keys in S left of x, and right of it.
Below(S, x) == {k \in S : k < x}
Above(S, x) == {k \in S : k > x}

\* Keys are compared as numbers.
AllInts(S) == \A k \in S : k \in Int

\* The entries of a page are in order, and their keys are in S.
Sorted(p, S) ==
  /\ \A i \in Places(p) : p.slots[i][1] \in S
  /\ \A i, j \in Places(p) : i < j => p.slots[i][1] < p.slots[j][1]

\* k lies between the entries around child slot i.
Between(p, i, k) ==
  /\ i > 0 => p.slots[i][1] < k
  /\ i < p.size - 1 => k < p.slots[i + 1][1]

\* Of the keys in S, each child may hold those between the entries around it.
Parted(p, S, span) ==
  p.kind # "leaf" =>
    \A i \in 0..(p.size - 1) : \A k : k \in span[p.pids[i]] <=> k \in S /\ Between(p, i, k)

\* A page is in order, given the spans of its children.
InOrder(p, S, span) == AllInts(S) /\ Sorted(p, S) /\ Parted(p, S, span)

-----------------------------------------------------------------------------
\* Searching

\* lower_bound on keys in order: those left of the position are below k.
LEMMA LowerBoundPlace ==
  ASSUME NEW hi \in (0..LeafMax) \cup (0..InnerMax), NEW lo \in 0..hi, NEW K,
         \A i \in lo..(hi - 1) : K[i] \in Int,
         \A i, j \in lo..(hi - 1) : i < j => K[i] < K[j],
         NEW k \in Int, NEW less, less = {i \in lo..(hi - 1) : K[i] < k}
  PROVE  /\ LowerBound(lo, hi, less) \in lo..hi
         /\ \A i \in lo..(LowerBound(lo, hi, less) - 1) : K[i] < k
         /\ \A i \in LowerBound(lo, hi, less)..(hi - 1) : K[i] >= k
<1> DEFINE T == {i \in lo..hi : i = hi \/ K[i] >= k}
<1>1. lo \in Nat /\ hi \in Nat /\ lo <= hi
  BY ParameterAssumption
<1>2. T \in SUBSET Nat /\ hi \in T
  BY <1>1
<1>3. PICK m \in T : \A n \in T : m <= n
  <2> HIDE DEF T
  <2> QED BY <1>2, LeastElement
<1>4. m \in lo..hi /\ m \in Nat /\ (m = hi \/ K[m] >= k)
  BY <1>1
<1>5. \A i \in lo..(m - 1) : K[i] < k
  <2> SUFFICES ASSUME NEW i \in lo..(m - 1), ~(K[i] < k) PROVE FALSE
    OBVIOUS
  <2>1. i \in lo..(hi - 1) /\ K[i] \in Int /\ i \in lo..hi
    BY <1>1, <1>4
  <2>2. i \in T
    BY <2>1
  <2> QED BY <1>3, <1>4, <2>1, <2>2
<1>6. \A i \in m..(hi - 1) : K[i] >= k
  <2> SUFFICES ASSUME NEW i \in m..(hi - 1) PROVE K[i] >= k
    OBVIOUS
  <2>1. i \in lo..(hi - 1) /\ m \in lo..(hi - 1) /\ m # hi /\ K[i] \in Int /\ K[m] \in Int
    BY <1>1, <1>4
  <2> QED BY <1>4, <2>1
<1> HIDE DEF T
<1>7. less = lo..(m - 1)
  BY <1>1, <1>4, <1>5, <1>6
<1>8. less \in SUBSET (lo..(hi - 1))
  OBVIOUS
<1>9. LowerBound(lo, hi, less) = m
  BY <1>4, <1>7, <1>8, LowerBoundAssumption
<1> QED
  BY <1>4, <1>5, <1>6, <1>9

\* The search in a leaf.
LEMMA LeafSearchPlace ==
  ASSUME NEW p \in LeafPages, NEW S, AllInts(S), Sorted(p, S), NEW k \in Int,
         NEW m, m = LeafSearch(p, k)
  PROVE  /\ m \in 0..p.size
         /\ \A i \in 0..(m - 1) : p.slots[i][1] < k
         /\ \A i \in m..(p.size - 1) : p.slots[i][1] >= k
         /\ LeafHolds(p, k) <=> m < p.size /\ p.slots[m][1] = k
<1> DEFINE K == [i \in 0..(p.size - 1) |-> p.slots[i][1]]
           less == {i \in 0..(p.size - 1) : p.slots[i][1] < k}
<1>1. p.kind = "leaf" /\ p.size \in 0..LeafMax /\ p.size \in Nat /\ 0 \in 0..p.size
  BY LeafFields
<1>2. /\ \A i \in 0..(p.size - 1) : p.slots[i][1] \in Int
      /\ \A i, j \in 0..(p.size - 1) : i < j => p.slots[i][1] < p.slots[j][1]
  BY <1>1 DEF Sorted, Places, First, AllInts
<1>3. /\ \A i \in 0..(p.size - 1) : K[i] \in Int
      /\ \A i, j \in 0..(p.size - 1) : i < j => K[i] < K[j]
      /\ less = {i \in 0..(p.size - 1) : K[i] < k}
  BY <1>2
<1>4. m = LowerBound(0, p.size, less)
  BY DEF LeafSearch
<1>5. \A i \in 0..(p.size - 1) : K[i] = p.slots[i][1]
  OBVIOUS
<1> HIDE DEF K, less
<1>6. /\ m \in 0..p.size
      /\ \A i \in 0..(m - 1) : K[i] < k
      /\ \A i \in m..(p.size - 1) : K[i] >= k
  BY <1>1, <1>3, <1>4, LowerBoundPlace
<1> QED
  BY <1>1, <1>5, <1>6 DEF LeafHolds

\* The search in an internal page.
LEMMA InnerSearchPlace ==
  ASSUME NEW C, NEW p \in InnerOver(C), p.size >= 1, NEW S, AllInts(S), Sorted(p, S),
         NEW k \in Int, NEW m, m = InnerSearch(p, k)
  PROVE  /\ m \in 1..p.size
         /\ \A i \in 1..(m - 1) : p.slots[i][1] < k
         /\ \A i \in m..(p.size - 1) : p.slots[i][1] >= k
         /\ InnerHolds(p, k) <=> m < p.size /\ p.slots[m][1] = k
<1> DEFINE K == [i \in 1..(p.size - 1) |-> p.slots[i][1]]
           less == {i \in 1..(p.size - 1) : p.slots[i][1] < k}
<1>1. p.kind = "inner" /\ p.size \in 0..InnerMax /\ p.size \in Nat /\ 1 \in 0..p.size
  BY InnerFields
<1>2. /\ \A i \in 1..(p.size - 1) : p.slots[i][1] \in Int
      /\ \A i, j \in 1..(p.size - 1) : i < j => p.slots[i][1] < p.slots[j][1]
  BY <1>1 DEF Sorted, Places, First, AllInts
<1>3. /\ \A i \in 1..(p.size - 1) : K[i] \in Int
      /\ \A i, j \in 1..(p.size - 1) : i < j => K[i] < K[j]
      /\ less = {i \in 1..(p.size - 1) : K[i] < k}
  BY <1>2
<1>4. m = LowerBound(1, p.size, less)
  BY DEF InnerSearch
<1>5. \A i \in 1..(p.size - 1) : K[i] = p.slots[i][1]
  OBVIOUS
<1> HIDE DEF K, less
<1>6. /\ m \in 1..p.size
      /\ \A i \in 1..(m - 1) : K[i] < k
      /\ \A i \in m..(p.size - 1) : K[i] >= k
  BY <1>1, <1>3, <1>4, LowerBoundPlace
<1> QED
  BY <1>1, <1>5, <1>6 DEF InnerHolds

-----------------------------------------------------------------------------
\* What the moves of entries do to their order, and to the set of them.

\* More keys may be in the page.
LEMMA SortedWider ==
  ASSUME NEW p, NEW S, NEW S2, Sorted(p, S), \A i \in Places(p) : p.slots[i][1] \in S => p.slots[i][1] \in S2
  PROVE  Sorted(p, S2)
BY DEF Sorted

\* q is p with e put in at m.
Inserted(p, m, e, q) ==
  /\ q.kind = p.kind /\ p.size \in Nat /\ p.size >= First(p) /\ q.size = p.size + 1
  /\ m \in First(p)..p.size
  /\ \A j \in First(p)..p.size :
       q.slots[j] = IF j = m THEN e ELSE IF j > m THEN p.slots[j - 1] ELSE p.slots[j]

\* It is in order if e belongs at m.
LEMMA SortedInsert ==
  ASSUME NEW p, NEW m, NEW e, NEW q, Inserted(p, m, e, q),
         NEW S, AllInts(S), Sorted(p, S), e[1] \in S,
         \A i \in First(p)..(m - 1) : p.slots[i][1] < e[1],
         \A i \in m..(p.size - 1) : p.slots[i][1] > e[1]
  PROVE  Sorted(q, S) /\ Live(q) = Live(p) \cup {e}
<1> DEFINE lo == First(p)
           n == p.size
<1>1. lo \in Nat /\ n \in Nat /\ m \in Nat /\ m >= lo /\ m <= n /\ First(q) = lo /\ q.size = n + 1
  BY DEF First, Inserted
<1>2. /\ \A i \in lo..(n - 1) : p.slots[i][1] \in S /\ p.slots[i][1] \in Int
      /\ \A i, j \in lo..(n - 1) : i < j => p.slots[i][1] < p.slots[j][1]
  BY DEF Sorted, Places, AllInts
<1>3. \A j \in lo..n :
        q.slots[j] = IF j = m THEN e ELSE IF j > m THEN p.slots[j - 1] ELSE p.slots[j]
  BY DEF Inserted
<1>4. /\ \A i \in lo..(m - 1) : p.slots[i][1] < e[1]
      /\ \A i \in m..(n - 1) : p.slots[i][1] > e[1]
  OBVIOUS
<1>5. Live(p) = {p.slots[i] : i \in lo..(n - 1)} /\ Live(q) = {q.slots[i] : i \in lo..n}
  BY <1>1 DEF Live, First, Inserted
<1> HIDE DEF lo, n
<1>6. \A j \in lo..n : q.slots[j][1] \in S /\ q.slots[j][1] \in Int
  <2> SUFFICES ASSUME NEW j \in lo..n PROVE q.slots[j][1] \in S
    BY DEF AllInts
  <2>1. CASE j = m
    BY <1>3, <2>1
  <2>2. CASE j < m
    <3>1. j \in lo..(n - 1) /\ q.slots[j] = p.slots[j]
      BY <1>1, <1>3, <2>2
    <3> QED BY <1>2, <3>1
  <2>3. CASE j > m
    <3>1. j - 1 \in lo..(n - 1) /\ q.slots[j] = p.slots[j - 1]
      BY <1>1, <1>3, <2>3
    <3> QED BY <1>2, <3>1
  <2> QED BY <1>1, <2>1, <2>2, <2>3
<1>7. ASSUME NEW i \in lo..n, NEW j \in lo..n, i < j PROVE q.slots[i][1] < q.slots[j][1]
  <2>1. CASE j < m
    BY <1>1, <1>2, <1>3, <1>7, <2>1
  <2>2. CASE j = m
    BY <1>1, <1>3, <1>4, <1>7, <2>2
  <2>3. CASE j > m /\ i = m
    <3>1. j - 1 \in m..(n - 1) /\ q.slots[j] = p.slots[j - 1] /\ q.slots[i] = e /\ j - 1 \in lo..(n - 1)
      BY <1>1, <1>3, <1>7, <2>3
    <3> QED BY <1>2, <1>4, <1>6, <3>1
  <2>4. CASE j > m /\ i < m
    <3>1. j - 1 \in lo..(n - 1) /\ i \in lo..(n - 1) /\ i < j - 1 /\ q.slots[j] = p.slots[j - 1] /\ q.slots[i] = p.slots[i]
      BY <1>1, <1>3, <1>7, <2>4
    <3> QED BY <1>2, <3>1
  <2>5. CASE i > m
    <3>1. j - 1 \in lo..(n - 1) /\ i - 1 \in lo..(n - 1) /\ i - 1 < j - 1 /\ q.slots[j] = p.slots[j - 1] /\ q.slots[i] = p.slots[i - 1]
      BY <1>1, <1>3, <1>7, <2>5
    <3> QED BY <1>2, <3>1
  <2> QED BY <1>1, <1>7, <2>1, <2>2, <2>3, <2>4, <2>5
<1>8. Sorted(q, S)
  <2>1. Places(q) = lo..n
    BY <1>1 DEF Places
  <2> QED BY <1>6, <1>7, <2>1 DEF Sorted
<1>9. Live(q) = Live(p) \cup {e}
  <2>1. \A i \in lo..(n - 1) : \E j \in lo..n : q.slots[j] = p.slots[i]
    <3> SUFFICES ASSUME NEW i \in lo..(n - 1) PROVE \E j \in lo..n : q.slots[j] = p.slots[i]
      OBVIOUS
    <3>1. CASE i < m
      <4>1. i \in lo..n /\ q.slots[i] = p.slots[i]
        BY <1>1, <1>3, <3>1
      <4> QED BY <4>1
    <3>2. CASE i >= m
      <4>1. i + 1 \in lo..n /\ i + 1 > m /\ i + 1 # m /\ (i + 1) - 1 = i
        BY <1>1, <3>2
      <4>2. q.slots[i + 1] = p.slots[i]
        BY <1>3, <4>1
      <4> QED BY <4>1, <4>2
    <3> QED BY <1>1, <3>1, <3>2
  <2>2. m \in lo..n /\ q.slots[m] = e
    BY <1>1, <1>3
  <2>3. \A j \in lo..n : q.slots[j] = e \/ \E i \in lo..(n - 1) : q.slots[j] = p.slots[i]
    <3> SUFFICES ASSUME NEW j \in lo..n, j # m PROVE \E i \in lo..(n - 1) : q.slots[j] = p.slots[i]
      BY <2>2
    <3>1. CASE j < m
      BY <1>1, <1>3, <3>1
    <3>2. CASE j > m
      BY <1>1, <1>3, <3>2
    <3> QED BY <1>1, <3>1, <3>2
  <2> QED BY <1>5, <2>1, <2>2, <2>3
<1> QED
  BY <1>8, <1>9

\* q is p with the entry at m taken out.
Deleted(p, m, q) ==
  /\ q.kind = p.kind /\ p.size \in Nat /\ q.size = p.size - 1
  /\ m \in First(p)..(p.size - 1)
  /\ \A j \in First(p)..(p.size - 2) : q.slots[j] = IF j >= m THEN p.slots[j + 1] ELSE p.slots[j]

\* The rest stays in order.
LEMMA SortedDelete ==
  ASSUME NEW p, NEW m, NEW q, Deleted(p, m, q), NEW S, AllInts(S), Sorted(p, S)
  PROVE  /\ Sorted(q, S \ {p.slots[m][1]}) /\ Live(q) = Live(p) \ {p.slots[m]}
         /\ \A j \in Places(q) : IF j >= m THEN q.slots[j][1] > p.slots[m][1]
                                           ELSE q.slots[j][1] < p.slots[m][1]
<1> DEFINE lo == First(p)
           n == p.size
           k == p.slots[m][1]
<1>1. lo \in Nat /\ n \in Nat /\ m \in Nat /\ m >= lo /\ m <= n - 1 /\ First(q) = lo /\ q.size = n - 1
  BY DEF First, Deleted
<1>2. /\ \A i \in lo..(n - 1) : p.slots[i][1] \in S /\ p.slots[i][1] \in Int
      /\ \A i, j \in lo..(n - 1) : i < j => p.slots[i][1] < p.slots[j][1]
  BY DEF Sorted, Places, AllInts
<1>3. \A j \in lo..(n - 2) : q.slots[j] = IF j >= m THEN p.slots[j + 1] ELSE p.slots[j]
  BY DEF Deleted
<1>4. Live(p) = {p.slots[i] : i \in lo..(n - 1)} /\ Live(q) = {q.slots[i] : i \in lo..(n - 2)}
  BY <1>1 DEF Live, First, Deleted
<1>5. Places(q) = lo..(n - 2) /\ m \in lo..(n - 1)
  BY <1>1 DEF Places
<1> DEFINE src(j) == IF j >= m THEN j + 1 ELSE j
<1>6. \A j \in lo..(n - 2) : src(j) \in lo..(n - 1) /\ q.slots[j] = p.slots[src(j)] /\ src(j) # m
                             /\ (j >= m => src(j) > m) /\ (j < m => src(j) < m)
  BY <1>1, <1>3
<1>7. \A i, j \in lo..(n - 2) : i < j => src(i) < src(j)
  BY <1>1
<1>8. \A i \in lo..(n - 1) : i # m => \E j \in lo..(n - 2) : src(j) = i
  <2> SUFFICES ASSUME NEW i \in lo..(n - 1), i # m PROVE \E j \in lo..(n - 2) : src(j) = i
    OBVIOUS
  <2>1. CASE i < m
    <3>1. i \in lo..(n - 2) /\ src(i) = i
      BY <1>1, <2>1
    <3> QED BY <3>1
  <2>2. CASE i > m
    <3>1. i - 1 \in lo..(n - 2) /\ src(i - 1) = i
      BY <1>1, <2>2
    <3> QED BY <3>1
  <2> QED BY <1>1, <2>1, <2>2
<1> HIDE DEF lo, n, src
<1>9. \A j \in lo..(n - 2) : q.slots[j][1] \in S /\ q.slots[j][1] # k
                             /\ IF j >= m THEN q.slots[j][1] > k ELSE q.slots[j][1] < k
  <2> SUFFICES ASSUME NEW j \in lo..(n - 2)
               PROVE  q.slots[j][1] \in S /\ q.slots[j][1] # k
                      /\ IF j >= m THEN q.slots[j][1] > k ELSE q.slots[j][1] < k
    OBVIOUS
  <2> DEFINE i == src(j)
  <2>1. i \in lo..(n - 1) /\ q.slots[j] = p.slots[i] /\ (j >= m => i > m) /\ (j < m => i < m)
        /\ p.slots[i][1] \in S /\ p.slots[i][1] \in Int /\ k \in Int /\ j \in Int
    BY <1>1, <1>2, <1>5, <1>6
  <2> HIDE DEF i
  <2>2. CASE j >= m
    BY <1>1, <1>2, <1>5, <2>1, <2>2
  <2>3. CASE j < m
    BY <1>1, <1>2, <1>5, <2>1, <2>3
  <2> QED BY <1>1, <2>1, <2>2, <2>3
<1>10. \A i, j \in lo..(n - 2) : i < j => q.slots[i][1] < q.slots[j][1]
  BY <1>2, <1>6, <1>7
<1>11. Sorted(q, S \ {k})
  BY <1>5, <1>9, <1>10 DEF Sorted
<1>12. \A i \in lo..(n - 1) : i # m => p.slots[i] # p.slots[m]
  <2> SUFFICES ASSUME NEW i \in lo..(n - 1), i # m PROVE p.slots[i][1] # p.slots[m][1]
    OBVIOUS
  <2>1. i < m \/ m < i
    BY <1>1
  <2> QED BY <1>2, <1>5, <2>1
<1>13. Live(q) = Live(p) \ {p.slots[m]}
  <2>1. \A j \in lo..(n - 2) : q.slots[j] \in Live(p) /\ q.slots[j] # p.slots[m]
    BY <1>4, <1>6, <1>12
  <2>2. \A i \in lo..(n - 1) : i # m => p.slots[i] \in Live(q)
    BY <1>4, <1>6, <1>8
  <2> QED BY <1>4, <1>5, <1>12, <2>1, <2>2
<1> QED
  BY <1>5, <1>9, <1>11, <1>13

-----------------------------------------------------------------------------
\* One page as two pages and an entry between them: what a merge makes of a page
\* and its sibling, a split of a page, and a borrow twice, of two pages.

\* q holds the entries and children of l, then e, then those of r.
Glued(q, l, e, r) ==
  /\ l.kind = q.kind /\ r.kind = q.kind
  /\ l.size \in Nat /\ r.size \in Nat /\ l.size >= First(q) /\ r.size >= First(q)
  /\ q.size = l.size + r.size + 1 - First(q)
  /\ \A j \in First(q)..(l.size - 1) : q.slots[j] = l.slots[j]
  /\ q.slots[l.size] = e
  /\ \A j \in First(q)..(r.size - 1) : q.slots[l.size + 1 - First(q) + j] = r.slots[j]
  /\ q.kind # "leaf" => /\ \A j \in 0..(l.size - 1) : q.pids[j] = l.pids[j]
                        /\ \A j \in 0..(r.size - 1) : q.pids[l.size + j] = r.pids[j]

\* A page is split at m: l keeps the entries left of it, u takes those right of it.
LEMMA SplitAtSlot ==
  ASSUME NEW p, NEW l, NEW u, l.kind = p.kind, u.kind = p.kind, p.size \in Nat,
         NEW m \in Places(p), NEW S, AllInts(S), Sorted(p, S),
         l.size = m, \A j \in First(p)..(m - 1) : l.slots[j] = p.slots[j],
         u.size = p.size - m - 1 + First(p),
         \A j \in First(p)..(u.size - 1) : u.slots[j] = p.slots[m + 1 - First(p) + j]
  PROVE  /\ p.slots[m][1] \in S
         /\ Sorted(l, Below(S, p.slots[m][1])) /\ Sorted(u, Above(S, p.slots[m][1]))
         /\ Live(p) = Live(l) \cup Live(u) \cup {p.slots[m]}
<1> DEFINE lo == First(p)
           n == p.size
           x == p.slots[m][1]
           d == m + 1 - lo
<1>1. /\ lo \in Nat /\ n \in Nat /\ m \in Nat /\ m >= lo /\ m <= n - 1
      /\ First(l) = lo /\ First(u) = lo /\ u.size = n - d /\ d \in Nat /\ d = m + 1 - lo
      /\ Places(p) = lo..(n - 1) /\ m \in lo..(n - 1)
  BY DEF First, Places
<1>2. /\ \A i \in lo..(n - 1) : p.slots[i][1] \in S /\ p.slots[i][1] \in Int
      /\ \A i, j \in lo..(n - 1) : i < j => p.slots[i][1] < p.slots[j][1]
  BY <1>1 DEF Sorted, Below, Above, AllInts
<1>3. \A j \in lo..(n - d - 1) : u.slots[j] = p.slots[d + j]
  BY <1>1
<1>3a. \A j \in lo..(m - 1) : l.slots[j] = p.slots[j]
  OBVIOUS
<1>3b. Live(l) = {l.slots[i] : i \in lo..(m - 1)}
  BY <1>1 DEF Live, First
<1>4. /\ Live(p) = {p.slots[i] : i \in lo..(n - 1)} /\ Live(l) = {p.slots[i] : i \in lo..(m - 1)}
      /\ Live(u) = {u.slots[i] : i \in lo..(n - d - 1)}
      /\ Places(l) = lo..(m - 1) /\ Places(u) = lo..(n - d - 1)
  <2>1. Live(l) = {p.slots[i] : i \in lo..(m - 1)}
    BY <1>3a, <1>3b
  <2> QED BY <1>1, <2>1 DEF Live, First, Places
<1>5. x \in S /\ x \in Int
  BY <1>1, <1>2
<1> HIDE DEF lo, n, d
<1>6. Sorted(l, Below(S, x))
  <2>1. \A i \in lo..(m - 1) : i \in lo..(n - 1) /\ i < m
    BY <1>1
  <2>2. \A i \in lo..(m - 1) : l.slots[i][1] \in S /\ l.slots[i][1] < x
    BY <1>1, <1>2, <1>3a, <2>1
  <2> QED BY <1>2, <1>4, <1>3a, <2>1, <2>2 DEF Sorted, Below, Above
<1>7. \A j \in lo..(n - d - 1) : d + j \in lo..(n - 1) /\ m < d + j
  BY <1>1
<1>8. Sorted(u, Above(S, x))
  <2>1. \A j \in lo..(n - d - 1) : u.slots[j][1] \in S /\ u.slots[j][1] > x
    <3> SUFFICES ASSUME NEW j \in lo..(n - d - 1)
                 PROVE  u.slots[j][1] \in S /\ u.slots[j][1] > x
      OBVIOUS
    <3>1. d + j \in lo..(n - 1) /\ m < d + j /\ u.slots[j] = p.slots[d + j]
      BY <1>3, <1>7
    <3>2. p.slots[d + j][1] \in S /\ p.slots[d + j][1] \in Int /\ x < p.slots[d + j][1]
      BY <1>1, <1>2, <3>1
    <3> QED BY <1>5, <3>1, <3>2
  <2>2. ASSUME NEW i \in lo..(n - d - 1), NEW j \in lo..(n - d - 1), i < j
        PROVE  u.slots[i][1] < u.slots[j][1]
    <3>1. d + i \in lo..(n - 1) /\ d + j \in lo..(n - 1) /\ d + i < d + j
      BY <1>1, <1>7, <2>2
    <3>2. u.slots[i] = p.slots[d + i] /\ u.slots[j] = p.slots[d + j]
      BY <1>3
    <3> QED BY <1>2, <3>1, <3>2
  <2> QED BY <1>4, <2>1, <2>2 DEF Sorted, Below, Above
<1>9. Live(p) = Live(l) \cup Live(u) \cup {p.slots[m]}
  <2>1. ASSUME NEW i \in lo..(n - 1), ~(i < m), i # m
        PROVE  i - d \in lo..(n - d - 1) /\ d + (i - d) = i
    BY <1>1, <2>1
  <2>2. \A i \in lo..(n - 1) : i < m \/ i = m \/ p.slots[i] \in Live(u)
    <3> SUFFICES ASSUME NEW i \in lo..(n - 1), ~(i < m), i # m PROVE p.slots[i] \in Live(u)
      OBVIOUS
    <3>1. i - d \in lo..(n - d - 1) /\ d + (i - d) = i
      BY <2>1
    <3>2. u.slots[i - d] = p.slots[i]
      BY <1>3, <3>1
    <3> QED BY <1>4, <3>1, <3>2
  <2>3. \A i \in lo..(n - 1) : i < m => i \in lo..(m - 1)
    BY <1>1
  <2>4. \A i \in lo..(m - 1) : i \in lo..(n - 1)
    BY <1>1
  <2>5. \A j \in lo..(n - d - 1) : u.slots[j] \in Live(p)
    BY <1>3, <1>4, <1>7
  <2>6. \A i \in lo..(m - 1) : p.slots[i] \in Live(p)
    BY <1>4, <2>4
  <2>7. /\ \A x2 \in Live(l) : x2 \in Live(p)
        /\ \A x2 \in Live(u) : x2 \in Live(p)
    BY <1>4, <2>5, <2>6
  <2>8. \A i \in lo..(n - 1) : p.slots[i] \in Live(l) \/ p.slots[i] \in Live(u) \/ i = m
    BY <1>1, <1>4, <2>2, <2>3
  <2>9. \A x2 \in Live(p) : x2 \in Live(l) \/ x2 \in Live(u) \/ x2 = p.slots[m]
    BY <1>4, <2>8
  <2>10. p.slots[m] \in Live(p)
    BY <1>1, <1>4
  <2> QED BY <2>7, <2>9, <2>10
<1> QED
  BY <1>5, <1>6, <1>8, <1>9

\* Its entries in order, those of its two parts are.
LEMMA SortedSplit ==
  ASSUME NEW p, NEW l, NEW u, NEW e, Glued(p, l, e, u), NEW S, AllInts(S), Sorted(p, S)
  PROVE  /\ e[1] \in S /\ Sorted(l, Below(S, e[1])) /\ Sorted(u, Above(S, e[1]))
         /\ Live(p) = Live(l) \cup Live(u) \cup {e}
<1> DEFINE m == l.size
<1>1. First(p) \in Nat /\ First(l) = First(p) /\ First(u) = First(p)
  BY DEF First, Glued
<1>2. /\ l.size \in Nat /\ u.size \in Nat /\ l.size >= First(p) /\ u.size >= First(p)
      /\ p.size = l.size + u.size + 1 - First(p)
  BY DEF Glued
<1>3. /\ p.size \in Nat /\ m \in Places(p) /\ e = p.slots[m] /\ u.size = p.size - m - 1 + First(p)
  BY <1>1, <1>2 DEF Glued, Places
<1>4. /\ \A j \in First(p)..(m - 1) : l.slots[j] = p.slots[j]
      /\ \A j \in First(p)..(u.size - 1) : u.slots[j] = p.slots[m + 1 - First(p) + j]
  BY DEF Glued
<1> HIDE DEF m
<1>5. l.kind = p.kind /\ u.kind = p.kind /\ l.size = m
  BY DEF Glued, m
<1> QED
  BY <1>3, <1>4, <1>5, SplitAtSlot

\* The entries of its two parts in order, its entries are.
LEMMA SortedJoin ==
  ASSUME NEW q, NEW l, NEW e, NEW r, Glued(q, l, e, r), NEW S, AllInts(S), e[1] \in S,
         Sorted(l, Below(S, e[1])), Sorted(r, Above(S, e[1]))
  PROVE  Sorted(q, S) /\ Live(q) = Live(l) \cup Live(r) \cup {e}
<1> DEFINE lo == First(l)
           n == l.size
           d == n + 1 - lo
           x == e[1]
<1>1. /\ lo \in Nat /\ n \in Nat /\ r.size \in Nat /\ n >= lo /\ r.size >= lo /\ d \in Nat /\ d = n + 1 - lo
      /\ First(q) = lo /\ First(r) = lo /\ q.size = r.size + d /\ x \in Int /\ x \in S
  <2>1. lo \in Nat /\ First(q) = lo /\ First(r) = lo
    BY DEF First, Glued
  <2>2. n \in Nat /\ r.size \in Nat /\ n >= lo /\ r.size >= lo /\ x \in Int /\ x \in S
        /\ q.size = n + r.size + 1 - lo
    BY <2>1 DEF Glued, AllInts
  <2>3. d \in Nat /\ q.size = r.size + d
    BY <2>1, <2>2
  <2> QED BY <2>1, <2>2, <2>3
<1>2. /\ \A i \in lo..(n - 1) : l.slots[i][1] \in S /\ l.slots[i][1] \in Int /\ l.slots[i][1] < x
      /\ \A i, j \in lo..(n - 1) : i < j => l.slots[i][1] < l.slots[j][1]
  BY DEF Sorted, Places, Below, Above, AllInts
<1>3. /\ \A i \in lo..(r.size - 1) : r.slots[i][1] \in S /\ r.slots[i][1] \in Int /\ r.slots[i][1] > x
      /\ \A i, j \in lo..(r.size - 1) : i < j => r.slots[i][1] < r.slots[j][1]
  BY <1>1 DEF Sorted, Places, Below, Above, AllInts
<1>4. /\ \A j \in lo..(n - 1) : q.slots[j] = l.slots[j]
      /\ q.slots[n] = e
      /\ \A j \in lo..(r.size - 1) : q.slots[d + j] = r.slots[j]
  <2>1. First(q) = lo
    BY <1>1
  <2> QED BY <2>1 DEF Glued
<1>5. /\ Places(q) = lo..(q.size - 1) /\ Live(q) = {q.slots[i] : i \in lo..(q.size - 1)}
      /\ Live(l) = {l.slots[i] : i \in lo..(n - 1)} /\ Live(r) = {r.slots[i] : i \in lo..(r.size - 1)}
  BY <1>1 DEF Live, First, Places
<1> HIDE DEF lo, n, d, x
<1>6. \A j \in lo..(q.size - 1) : j \in lo..(n - 1) \/ j = n \/ (j > n /\ j - d \in lo..(r.size - 1) /\ d + (j - d) = j)
  BY <1>1
<1>7. \A j \in lo..(q.size - 1) : j > n => j - d \in lo..(r.size - 1) /\ q.slots[j] = r.slots[j - d]
  <2> SUFFICES ASSUME NEW j \in lo..(q.size - 1), j > n
               PROVE  j - d \in lo..(r.size - 1) /\ q.slots[j] = r.slots[j - d]
    OBVIOUS
  <2>1. j - d \in lo..(r.size - 1) /\ d + (j - d) = j
    BY <1>1, <1>6
  <2> QED BY <1>4, <2>1
<1>8. \A j \in lo..(q.size - 1) :
        /\ j < n => j \in lo..(n - 1) /\ q.slots[j] = l.slots[j]
        /\ j = n => q.slots[j] = e
  BY <1>1, <1>4
<1>9. \A j \in lo..(q.size - 1) : q.slots[j][1] \in S /\ q.slots[j][1] \in Int
  <2> SUFFICES ASSUME NEW j \in lo..(q.size - 1) PROVE q.slots[j][1] \in S
    BY DEF AllInts
  <2>1. CASE j < n
    BY <1>2, <1>8, <2>1
  <2>2. CASE j = n
    BY <1>1, <1>8, <2>2 DEF x
  <2>3. CASE j > n
    BY <1>3, <1>7, <2>3
  <2> QED BY <1>1, <2>1, <2>2, <2>3
<1>10. ASSUME NEW i \in lo..(q.size - 1), NEW j \in lo..(q.size - 1), i < j
       PROVE  q.slots[i][1] < q.slots[j][1]
  <2>1. CASE j < n
    <3>1. i < n
      BY <1>1, <1>10, <2>1
    <3> QED BY <1>2, <1>8, <1>10, <2>1, <3>1
  <2>2. CASE j = n
    <3>1. i < n /\ q.slots[j][1] = x
      BY <1>1, <1>8, <1>10, <2>2 DEF x
    <3> QED BY <1>2, <1>8, <3>1
  <2>3. CASE j > n
    <3>1. q.slots[j] = r.slots[j - d] /\ j - d \in lo..(r.size - 1)
      BY <1>7, <2>3
    <3>2. CASE i < n
      <4>1. q.slots[i][1] < x /\ q.slots[j][1] > x
        BY <1>2, <1>3, <1>8, <3>1, <3>2
      <4> QED BY <1>1, <1>9, <4>1
    <3>3. CASE i = n
      BY <1>1, <1>3, <1>8, <3>1, <3>3 DEF x
    <3>4. CASE i > n
      <4>1. q.slots[i] = r.slots[i - d] /\ i - d \in lo..(r.size - 1)
        BY <1>7, <3>4
      <4>2. i - d < j - d
        BY <1>1, <1>10
      <4> QED BY <1>3, <3>1, <4>1, <4>2
    <3> QED BY <1>1, <3>2, <3>3, <3>4
  <2> QED BY <1>1, <2>1, <2>2, <2>3
<1>11. Sorted(q, S)
  BY <1>5, <1>9, <1>10 DEF Sorted, Below, Above
<1>12. Live(q) = Live(l) \cup Live(r) \cup {e}
  <2>1. \A j \in lo..(q.size - 1) : q.slots[j] \in Live(l) \cup Live(r) \cup {e}
    BY <1>5, <1>6, <1>7, <1>8, <1>4
  <2>2. \A i \in lo..(n - 1) : i \in lo..(q.size - 1) /\ q.slots[i] = l.slots[i]
    BY <1>1, <1>4
  <2>3. n \in lo..(q.size - 1) /\ q.slots[n] = e
    BY <1>1, <1>4
  <2>4. \A j \in lo..(r.size - 1) : d + j \in lo..(q.size - 1) /\ q.slots[d + j] = r.slots[j]
    BY <1>1, <1>4
  <2>5. \A i \in lo..(n - 1) : l.slots[i] \in Live(q)
    BY <1>5, <2>2
  <2>6. \A i \in lo..(r.size - 1) : r.slots[i] \in Live(q)
    BY <1>5, <2>4
  <2>7. e \in Live(q)
    BY <1>5, <2>3
  <2>8. Live(l) \subseteq Live(q) /\ Live(r) \subseteq Live(q)
    BY <1>5, <2>5, <2>6
  <2>9. Live(q) \subseteq Live(l) \cup Live(r) \cup {e}
    BY <1>5, <2>1
  <2> QED BY <2>7, <2>8, <2>9
<1> QED
  BY <1>11, <1>12

\* The keys between the entries around a child, left of e and right of it.
LEMMA GluedBetween ==
  ASSUME NEW q, NEW l, NEW e, NEW r, Glued(q, l, e, r), q.kind # "leaf",
         NEW U, AllInts(U), e[1] \in U,
         Sorted(l, Below(U, e[1])), Sorted(r, Above(U, e[1])), NEW k \in U
  PROVE  /\ \A i \in 0..(l.size - 1) : Between(q, i, k) <=> k < e[1] /\ Between(l, i, k)
         /\ \A i \in 0..(r.size - 1) : Between(q, l.size + i, k) <=> k > e[1] /\ Between(r, i, k)
<1> DEFINE n == l.size
           m == r.size
           x == e[1]
<1>1. /\ First(q) = 1 /\ First(l) = 1 /\ First(r) = 1 /\ n \in Nat /\ m \in Nat /\ n >= 1 /\ m >= 1
      /\ q.size = n + m /\ x \in Int /\ k \in Int
  <2>1. First(q) = 1 /\ First(l) = 1 /\ First(r) = 1
    BY DEF First, Glued
  <2>2. /\ l.size \in Nat /\ r.size \in Nat /\ l.size >= First(q) /\ r.size >= First(q)
        /\ q.size = l.size + r.size + 1 - First(q)
    BY DEF Glued
  <2>3. n \in Nat /\ m \in Nat /\ n >= 1 /\ m >= 1 /\ q.size = n + m
    BY <2>1, <2>2
  <2> QED BY <2>1, <2>3 DEF AllInts
<1>2. /\ \A j \in 1..(n - 1) : q.slots[j] = l.slots[j]
      /\ q.slots[n] = e
      /\ \A j \in 1..(m - 1) : q.slots[n + j] = r.slots[j]
  <2>1. \A j \in 1..(m - 1) : q.slots[n + 1 - 1 + j] = r.slots[j]
    BY <1>1 DEF Glued
  <2>2. n + 1 - 1 = n
    BY <1>1
  <2> QED BY <1>1, <2>1, <2>2 DEF Glued
<1>3. /\ \A j \in 1..(n - 1) : l.slots[j][1] \in Int /\ l.slots[j][1] < x
      /\ \A j \in 1..(m - 1) : r.slots[j][1] \in Int /\ r.slots[j][1] > x
      /\ \A i, j \in 1..(n - 1) : i < j => l.slots[i][1] < l.slots[j][1]
      /\ \A i, j \in 1..(m - 1) : i < j => r.slots[i][1] < r.slots[j][1]
  BY <1>1 DEF Sorted, Places, Below, Above, AllInts
<1> HIDE DEF n, m, x
<1>4. ASSUME NEW i \in 0..(n - 1)
      PROVE  Between(q, i, k) <=> k < x /\ Between(l, i, k)
  <2>1. i > 0 => i \in 1..(n - 1) /\ q.slots[i] = l.slots[i] /\ l.slots[i][1] < x /\ l.slots[i][1] \in Int
    BY <1>1, <1>2, <1>3
  <2>2. i < n - 1 => /\ i + 1 \in 1..(n - 1) /\ q.slots[i + 1] = l.slots[i + 1]
                     /\ l.slots[i + 1][1] < x /\ l.slots[i + 1][1] \in Int
    BY <1>1, <1>2, <1>3
  <2>3. ~(i < n - 1) => q.slots[i + 1][1] = x
    <3>1. ~(i < n - 1) => i + 1 = n
      BY <1>1
    <3> QED BY <1>2, <3>1 DEF x
  <2>4. i < q.size - 1
    BY <1>1
  <2>5. Between(q, i, k) <=> (i > 0 => l.slots[i][1] < k) /\ k < q.slots[i + 1][1]
    BY <2>1, <2>4 DEF Between
  <2>6. Between(l, i, k) <=> (i > 0 => l.slots[i][1] < k) /\ (i < n - 1 => k < l.slots[i + 1][1])
    BY DEF Between, n
  <2>7. CASE i < n - 1
    BY <1>1, <2>2, <2>5, <2>6, <2>7
  <2>8. CASE ~(i < n - 1)
    BY <1>1, <2>3, <2>5, <2>6, <2>8
  <2> QED BY <2>7, <2>8
<1>5. ASSUME NEW i \in 0..(m - 1)
      PROVE  Between(q, n + i, k) <=> k > x /\ Between(r, i, k)
  <2>1. i > 0 => i \in 1..(m - 1) /\ q.slots[n + i] = r.slots[i] /\ r.slots[i][1] > x /\ r.slots[i][1] \in Int
    BY <1>1, <1>2, <1>3
  <2>2. ~(i > 0) => q.slots[n + i][1] = x
    <3>1. ~(i > 0) => n + i = n
      BY <1>1
    <3> QED BY <1>2, <3>1 DEF x
  <2>3. i < m - 1 => i + 1 \in 1..(m - 1) /\ q.slots[n + i + 1] = r.slots[i + 1]
    <3>1. i < m - 1 => i + 1 \in 1..(m - 1) /\ n + (i + 1) = n + i + 1
      BY <1>1
    <3>2. i < m - 1 => q.slots[n + (i + 1)] = r.slots[i + 1]
      BY <1>2, <3>1
    <3> QED BY <3>1, <3>2
  <2>4. n + i > 0 /\ (n + i < q.size - 1 <=> i < m - 1)
    BY <1>1
  <2>5. Between(q, n + i, k) <=> q.slots[n + i][1] < k /\ (i < m - 1 => k < r.slots[i + 1][1])
    BY <2>3, <2>4 DEF Between
  <2>6. Between(r, i, k) <=> (i > 0 => r.slots[i][1] < k) /\ (i < m - 1 => k < r.slots[i + 1][1])
    BY DEF Between, m
  <2>7. CASE i > 0
    BY <1>1, <2>1, <2>5, <2>6, <2>7
  <2>8. CASE ~(i > 0)
    BY <1>1, <2>2, <2>5, <2>6, <2>8
  <2> QED BY <2>7, <2>8
<1> QED
  BY <1>4, <1>5 DEF n, m, x

\* Two pages in order are in order as one.
LEMMA GluedJoin ==
  ASSUME NEW q, NEW l, NEW e, NEW r, Glued(q, l, e, r), NEW U, AllInts(U), e[1] \in U, NEW span,
         InOrder(l, Below(U, e[1]), span), InOrder(r, Above(U, e[1]), span)
  PROVE  InOrder(q, U, span) /\ Live(q) = Live(l) \cup Live(r) \cup {e}
<1> DEFINE low == Below(U, e[1])
           high == Above(U, e[1])
<1>1. Sorted(l, low) /\ Sorted(r, high)
  BY DEF InOrder
<1>2. Sorted(q, U) /\ Live(q) = Live(l) \cup Live(r) \cup {e}
  BY <1>1, SortedJoin
<1>3. ASSUME q.kind # "leaf", NEW i \in 0..(q.size - 1), NEW k
      PROVE  k \in span[q.pids[i]] <=> k \in U /\ Between(q, i, k)
  <2>1. /\ l.kind # "leaf" /\ r.kind # "leaf" /\ l.size \in Nat /\ r.size \in Nat /\ q.size = l.size + r.size
        /\ \A j \in 0..(l.size - 1) : q.pids[j] = l.pids[j]
        /\ \A j \in 0..(r.size - 1) : q.pids[l.size + j] = r.pids[j]
    BY <1>3 DEF Glued, First
  <2>2. k \in U => /\ \A j \in 0..(l.size - 1) : Between(q, j, k) <=> k < e[1] /\ Between(l, j, k)
                   /\ \A j \in 0..(r.size - 1) :
                        Between(q, l.size + j, k) <=> k > e[1] /\ Between(r, j, k)
    BY <1>1, <1>3, GluedBetween
  <2>3. CASE i < l.size
    <3>1. i \in 0..(l.size - 1)
      BY <2>1, <2>3
    <3>2. k \in span[l.pids[i]] <=> k \in low /\ Between(l, i, k)
      BY <2>1, <3>1 DEF InOrder, Parted
    <3> QED BY <2>1, <2>2, <3>1, <3>2 DEF Below
  <2>4. CASE ~(i < l.size)
    <3> DEFINE j == i - l.size
    <3>1. j \in 0..(r.size - 1) /\ l.size + j = i
      BY <2>1, <2>4
    <3> HIDE DEF j
    <3>2. k \in span[r.pids[j]] <=> k \in high /\ Between(r, j, k)
      BY <2>1, <3>1 DEF InOrder, Parted
    <3>3. q.pids[i] = r.pids[j]
      BY <2>1, <3>1
    <3>4. k \in U => (Between(q, i, k) <=> k > e[1] /\ Between(r, j, k))
      BY <2>2, <3>1
    <3> QED BY <3>2, <3>3, <3>4 DEF Above
  <2> QED BY <2>3, <2>4
<1>4. Parted(q, U, span)
  BY <1>3 DEF Parted
<1> QED
  BY <1>2, <1>4 DEF InOrder

\* The two parts of a page in order are.
LEMMA GluedSplit ==
  ASSUME NEW q, NEW l, NEW e, NEW r, Glued(q, l, e, r), NEW U, NEW span, InOrder(q, U, span)
  PROVE  /\ e[1] \in U /\ InOrder(l, Below(U, e[1]), span)
         /\ InOrder(r, Above(U, e[1]), span) /\ Live(q) = Live(l) \cup Live(r) \cup {e}
<1> DEFINE low == Below(U, e[1])
           high == Above(U, e[1])
<1>1. AllInts(U) /\ Sorted(q, U) /\ Parted(q, U, span)
  BY DEF InOrder
<1>2. e[1] \in U /\ Sorted(l, low) /\ Sorted(r, high) /\ Live(q) = Live(l) \cup Live(r) \cup {e}
  BY <1>1, SortedSplit
<1>3. ASSUME q.kind # "leaf"
      PROVE  /\ \A i \in 0..(l.size - 1) : \A k : k \in span[l.pids[i]] <=> k \in low /\ Between(l, i, k)
             /\ \A i \in 0..(r.size - 1) : \A k : k \in span[r.pids[i]] <=> k \in high /\ Between(r, i, k)
  <2>1. /\ l.size \in Nat /\ r.size \in Nat /\ q.size = l.size + r.size
        /\ \A j \in 0..(l.size - 1) : q.pids[j] = l.pids[j]
        /\ \A j \in 0..(r.size - 1) : q.pids[l.size + j] = r.pids[j]
    BY <1>3 DEF Glued, First
  <2>2. \A k \in U : /\ \A j \in 0..(l.size - 1) : Between(q, j, k) <=> k < e[1] /\ Between(l, j, k)
                     /\ \A j \in 0..(r.size - 1) :
                          Between(q, l.size + j, k) <=> k > e[1] /\ Between(r, j, k)
    BY <1>1, <1>2, <1>3, GluedBetween
  <2>3. \A i \in 0..(q.size - 1) : \A k : k \in span[q.pids[i]] <=> k \in U /\ Between(q, i, k)
    BY <1>1, <1>3 DEF Parted
  <2>4. \A i \in 0..(l.size - 1) : i \in 0..(q.size - 1)
    BY <2>1
  <2>5. \A i \in 0..(r.size - 1) : l.size + i \in 0..(q.size - 1)
    BY <2>1
  <2> QED BY <2>1, <2>2, <2>3, <2>4, <2>5 DEF Below, Above
<1>4. Parted(l, low, span) /\ Parted(r, high, span)
  BY <1>3 DEF Parted, Glued
<1>5. AllInts(low) /\ AllInts(high)
  BY <1>1 DEF Below, Above, AllInts
<1> QED
  BY <1>1, <1>2, <1>4, <1>5 DEF InOrder

\* Any two pages of one class and an entry can be seen as one.
LEMMA GluedExists ==
  ASSUME NEW l, NEW e, NEW r, r.kind = l.kind, l.size \in Nat, r.size \in Nat,
         l.size >= First(l), r.size >= First(l)
  PROVE  \E q : Glued(q, l, e, r)
<1> DEFINE n == l.size
           lo == First(l)
           slots == [j \in Int |-> IF j < n THEN l.slots[j] ELSE IF j = n THEN e
                                   ELSE r.slots[j - (n + 1 - lo)]]
           pids == [j \in Int |-> IF j < n THEN l.pids[j] ELSE r.pids[j - n]]
           q == [kind |-> l.kind, size |-> n + r.size + 1 - lo, slots |-> slots, pids |-> pids]
<1>1. /\ q.kind = l.kind /\ q.size = n + r.size + 1 - lo /\ q.slots = slots /\ q.pids = pids
      /\ lo \in 0..1 /\ n \in Nat /\ r.size \in Nat /\ n >= lo /\ r.size >= lo
  BY DEF First
<1>2. /\ \A j \in lo..(n - 1) : slots[j] = l.slots[j]
      /\ slots[n] = e
      /\ \A j \in 0..(n - 1) : pids[j] = l.pids[j]
  BY <1>1
<1>3. ASSUME NEW j \in lo..(r.size - 1) PROVE slots[n + 1 - lo + j] = r.slots[j]
  <2> DEFINE i == n + 1 - lo + j
  <2>1. i \in Int /\ i > n /\ i - (n + 1 - lo) = j
    BY <1>1
  <2> HIDE DEF i
  <2>2. slots[i] = r.slots[i - (n + 1 - lo)]
    BY <1>1, <2>1
  <2> QED BY <2>1, <2>2 DEF i
<1>4. ASSUME NEW j \in 0..(r.size - 1) PROVE pids[n + j] = r.pids[j]
  <2>1. n + j \in Int /\ ~(n + j < n) /\ n + j - n = j
    BY <1>1
  <2> QED BY <2>1
<1> HIDE DEF q, slots, pids
<1>5. First(q) = lo
  BY <1>1 DEF First
<1>6. Glued(q, l, e, r)
  BY <1>1, <1>2, <1>3, <1>4, <1>5 DEF Glued
<1> QED
  BY <1>6

\* The left page takes the entry between, and its sibling's first entry comes
\* between them.
LEMMA GluedShiftLeft ==
  ASSUME NEW q, NEW l, NEW e, NEW r, Glued(q, l, e, r), r.size > First(q),
         NEW l2, l2.kind = l.kind, l2.size = l.size + 1,
         \A j \in First(q)..l.size : l2.slots[j] = IF j = l.size THEN e ELSE l.slots[j],
         NEW r2, r2.kind = r.kind, r2.size = r.size - 1,
         \A j \in First(q)..(r.size - 2) : r2.slots[j] = r.slots[j + 1],
         q.kind # "leaf" =>
           /\ \A j \in 0..l.size : l2.pids[j] = IF j = l.size THEN r.pids[0] ELSE l.pids[j]
           /\ \A j \in 0..(r.size - 2) : r2.pids[j] = r.pids[j + 1]
  PROVE  Glued(q, l2, r.slots[First(q)], r2)
<1> DEFINE n == l.size
           m == r.size
           lo == First(q)
<1>1. /\ l.kind = q.kind /\ r.kind = q.kind /\ n \in Nat /\ m \in Nat /\ lo \in 0..1
      /\ n >= lo /\ m >= lo + 1 /\ q.size = n + m + 1 - lo
  BY DEF Glued, First
<1>2. /\ \A j \in lo..(n - 1) : q.slots[j] = l.slots[j]
      /\ q.slots[n] = e
      /\ \A j \in lo..(m - 1) : q.slots[n + 1 - lo + j] = r.slots[j]
  BY DEF Glued
<1>3. q.kind # "leaf" => /\ \A j \in 0..(n - 1) : q.pids[j] = l.pids[j]
                         /\ \A j \in 0..(m - 1) : q.pids[n + j] = r.pids[j]
  BY DEF Glued
<1>4. /\ l2.kind = q.kind /\ r2.kind = q.kind /\ l2.size = n + 1 /\ r2.size = m - 1
      /\ \A j \in lo..n : l2.slots[j] = IF j = n THEN e ELSE l.slots[j]
      /\ \A j \in lo..(m - 2) : r2.slots[j] = r.slots[j + 1]
      /\ q.kind # "leaf" =>
           /\ \A j \in 0..n : l2.pids[j] = IF j = n THEN r.pids[0] ELSE l.pids[j]
           /\ \A j \in 0..(m - 2) : r2.pids[j] = r.pids[j + 1]
  BY <1>1
<1> HIDE DEF n, m, lo
<1>5. /\ l2.size \in Nat /\ r2.size \in Nat /\ l2.size >= lo /\ r2.size >= lo
      /\ q.size = l2.size + r2.size + 1 - lo
  BY <1>1, <1>4
<1>6. \A j \in lo..(l2.size - 1) : q.slots[j] = l2.slots[j]
  BY <1>1, <1>2, <1>4
<1>7. q.slots[l2.size] = r.slots[lo]
  <2>1. n + 1 - lo + lo = l2.size /\ lo \in lo..(m - 1)
    BY <1>1, <1>4
  <2> QED BY <1>2, <2>1
<1>8. ASSUME NEW j \in lo..(r2.size - 1) PROVE q.slots[l2.size + 1 - lo + j] = r2.slots[j]
  <2>1. j \in lo..(m - 2) /\ j + 1 \in lo..(m - 1) /\ n + 1 - lo + (j + 1) = l2.size + 1 - lo + j
    BY <1>1, <1>4
  <2> QED BY <1>2, <1>4, <2>1
<1>9. ASSUME q.kind # "leaf"
      PROVE  /\ \A j \in 0..(l2.size - 1) : q.pids[j] = l2.pids[j]
             /\ \A j \in 0..(r2.size - 1) : q.pids[l2.size + j] = r2.pids[j]
  <2>1. ASSUME NEW j \in 0..(l2.size - 1) PROVE q.pids[j] = l2.pids[j]
    <3>1. j \in 0..n /\ (j # n => j \in 0..(n - 1)) /\ n + 0 = n /\ 0 \in 0..(m - 1)
      BY <1>1, <1>4
    <3>2. q.pids[n] = r.pids[0]
      BY <1>3, <1>9, <3>1
    <3> QED BY <1>3, <1>4, <1>9, <3>1, <3>2
  <2>2. ASSUME NEW j \in 0..(r2.size - 1) PROVE q.pids[l2.size + j] = r2.pids[j]
    <3>1. j \in 0..(m - 2) /\ j + 1 \in 0..(m - 1) /\ n + (j + 1) = l2.size + j
      BY <1>1, <1>4
    <3> QED BY <1>3, <1>4, <1>9, <3>1
  <2> QED BY <2>1, <2>2
<1> QED
  BY <1>4, <1>5, <1>6, <1>7, <1>8, <1>9 DEF Glued, lo

\* The right page takes the entry between, and its sibling's last entry comes
\* between them.
LEMMA GluedShiftRight ==
  ASSUME NEW q, NEW l, NEW e, NEW r, Glued(q, l, e, r), l.size > First(q),
         NEW l2, l2.kind = l.kind, l2.size = l.size - 1,
         \A j \in First(q)..(l.size - 2) : l2.slots[j] = l.slots[j],
         NEW r2, r2.kind = r.kind, r2.size = r.size + 1,
         \A j \in First(q)..r.size :
           r2.slots[j] = IF j = First(q) THEN e ELSE r.slots[j - 1],
         q.kind # "leaf" =>
           /\ \A j \in 0..(l.size - 2) : l2.pids[j] = l.pids[j]
           /\ \A j \in 0..r.size : r2.pids[j] = IF j = 0 THEN l.pids[l.size - 1] ELSE r.pids[j - 1]
  PROVE  Glued(q, l2, l.slots[l.size - 1], r2)
<1> DEFINE n == l.size
           m == r.size
           lo == First(q)
<1>1. /\ l.kind = q.kind /\ r.kind = q.kind /\ n \in Nat /\ m \in Nat /\ lo \in 0..1
      /\ n >= lo + 1 /\ m >= lo /\ q.size = n + m + 1 - lo
  BY DEF Glued, First
<1>2. /\ \A j \in lo..(n - 1) : q.slots[j] = l.slots[j]
      /\ q.slots[n] = e
      /\ \A j \in lo..(m - 1) : q.slots[n + 1 - lo + j] = r.slots[j]
  BY DEF Glued
<1>3. q.kind # "leaf" => /\ \A j \in 0..(n - 1) : q.pids[j] = l.pids[j]
                         /\ \A j \in 0..(m - 1) : q.pids[n + j] = r.pids[j]
  BY DEF Glued
<1>4. /\ l2.kind = q.kind /\ r2.kind = q.kind /\ l2.size = n - 1 /\ r2.size = m + 1
      /\ \A j \in lo..(n - 2) : l2.slots[j] = l.slots[j]
      /\ \A j \in lo..m : r2.slots[j] = IF j = lo THEN e ELSE r.slots[j - 1]
      /\ q.kind # "leaf" =>
           /\ \A j \in 0..(n - 2) : l2.pids[j] = l.pids[j]
           /\ \A j \in 0..m : r2.pids[j] = IF j = 0 THEN l.pids[n - 1] ELSE r.pids[j - 1]
  BY <1>1
<1> HIDE DEF n, m, lo
<1>5. /\ l2.size \in Nat /\ r2.size \in Nat /\ l2.size >= lo /\ r2.size >= lo
      /\ q.size = l2.size + r2.size + 1 - lo
  BY <1>1, <1>4
<1>6. \A j \in lo..(l2.size - 1) : q.slots[j] = l2.slots[j]
  BY <1>1, <1>2, <1>4
<1>7. q.slots[l2.size] = l.slots[n - 1]
  <2>1. n - 1 \in lo..(n - 1) /\ n - 1 = l2.size
    BY <1>1, <1>4
  <2> QED BY <1>2, <2>1
<1>8. ASSUME NEW j \in lo..(r2.size - 1) PROVE q.slots[l2.size + 1 - lo + j] = r2.slots[j]
  <2>1. j \in lo..m
    BY <1>1, <1>4
  <2>2. CASE j = lo
    <3>1. l2.size + 1 - lo + j = n
      BY <1>1, <1>4, <2>2
    <3> QED BY <1>2, <1>4, <2>1, <2>2, <3>1
  <2>3. CASE j # lo
    <3>1. j - 1 \in lo..(m - 1) /\ n + 1 - lo + (j - 1) = l2.size + 1 - lo + j
      BY <1>1, <1>4, <2>1, <2>3
    <3> QED BY <1>2, <1>4, <2>1, <2>3, <3>1
  <2> QED BY <2>2, <2>3
<1>9. ASSUME q.kind # "leaf"
      PROVE  /\ \A j \in 0..(l2.size - 1) : q.pids[j] = l2.pids[j]
             /\ \A j \in 0..(r2.size - 1) : q.pids[l2.size + j] = r2.pids[j]
  <2>1. ASSUME NEW j \in 0..(l2.size - 1) PROVE q.pids[j] = l2.pids[j]
    <3>1. j \in 0..(n - 2) /\ j \in 0..(n - 1)
      BY <1>1, <1>4
    <3> QED BY <1>3, <1>4, <1>9, <3>1
  <2>2. ASSUME NEW j \in 0..(r2.size - 1) PROVE q.pids[l2.size + j] = r2.pids[j]
    <3>1. j \in 0..m
      BY <1>1, <1>4
    <3>2. CASE j = 0
      <4>1. l2.size + j = n - 1 /\ n - 1 \in 0..(n - 1)
        BY <1>1, <1>4, <3>2
      <4> QED BY <1>3, <1>4, <1>9, <3>1, <3>2, <4>1
    <3>3. CASE j # 0
      <4>1. j - 1 \in 0..(m - 1) /\ n + (j - 1) = l2.size + j
        BY <1>1, <1>4, <3>1, <3>3
      <4> QED BY <1>3, <1>4, <1>9, <3>1, <3>3, <4>1
    <3> QED BY <3>2, <3>3
  <2> QED BY <2>1, <2>2
<1> QED
  BY <1>4, <1>5, <1>6, <1>7, <1>8, <1>9 DEF Glued, lo, n

-----------------------------------------------------------------------------
\* What the operations of LeafPage leave in every slot.

\* LeafPage::Insert before the split, and Remove.
LEMMA LeafEditSlots ==
  ASSUME NEW p \in LeafPages, NEW e \in Entries, NEW k
  PROVE  /\ p.size < LeafMax =>
              \A j \in 0..p.size :
                LeafPlace(p, e).slots[j] = IF j = LeafSearch(p, e[1]) THEN e
                                           ELSE IF j > LeafSearch(p, e[1]) THEN p.slots[j - 1] ELSE p.slots[j]
         /\ LeafHolds(p, k) =>
              \A j \in 0..(p.size - 2) :
                LeafErase(p, k).slots[j] = IF j >= LeafSearch(p, k) THEN p.slots[j + 1] ELSE p.slots[j]
<1>1. /\ p.size \in Nat /\ p.size <= LeafMax /\ LeafMax \in Nat /\ p.slots \in [LeafSlots -> Entries]
      /\ p = [kind |-> p.kind, size |-> p.size, slots |-> p.slots]
  BY LeafFields, ParameterAssumption DEF LeafPages
<1>2. ASSUME p.size < LeafMax, NEW j \in 0..p.size
      PROVE  LeafPlace(p, e).slots[j] = IF j = LeafSearch(p, e[1]) THEN e
                                        ELSE IF j > LeafSearch(p, e[1]) THEN p.slots[j - 1] ELSE p.slots[j]
  <2> DEFINE i == LeafSearch(p, e[1])
             slots == [OpenGap(p.slots, i, p.size) EXCEPT ![i] = e]
  <2>1. LeafPlace(p, e).slots = slots
    BY <1>1 DEF LeafPlace
  <2>2. i \in 0..p.size
    BY LeafSearchRange
  <2> HIDE DEF i
  <2>3. j \in LeafSlots /\ i \in LeafSlots /\ (j \in (i + 1)..p.size <=> j > i)
    BY <1>1, <1>2, <2>2 DEF LeafSlots
  <2>4. slots[j] = IF j = i THEN e ELSE IF j > i THEN p.slots[j - 1] ELSE p.slots[j]
    BY <1>1, <2>3 DEF OpenGap
  <2> HIDE DEF slots
  <2> QED BY <2>1, <2>4 DEF i
<1>3. ASSUME LeafHolds(p, k), NEW j \in 0..(p.size - 2)
      PROVE  LeafErase(p, k).slots[j] = IF j >= LeafSearch(p, k) THEN p.slots[j + 1] ELSE p.slots[j]
  <2> DEFINE i == LeafSearch(p, k)
             slots == CloseGap(p.slots, i, p.size)
  <2>1. LeafErase(p, k).slots = slots
    BY <1>1 DEF LeafErase
  <2>2. i \in 0..p.size
    BY LeafSearchRange
  <2> HIDE DEF i
  <2>3. j \in LeafSlots /\ (j \in i..(p.size - 2) <=> j >= i)
    BY <1>1, <2>2 DEF LeafSlots
  <2>4. slots[j] = IF j >= i THEN p.slots[j + 1] ELSE p.slots[j]
    BY <1>1, <2>3 DEF CloseGap
  <2> HIDE DEF slots
  <2> QED BY <2>1, <2>4 DEF i
<1> QED
  BY <1>2, <1>3

\* PushBack, PushFront, PopBack and PopFront.
LEMMA LeafEndSlots ==
  ASSUME NEW p \in LeafPages, NEW e \in Entries
  PROVE  /\ p.size < LeafMax =>
              \A j \in 0..p.size :
                /\ LeafPushBack(p, e).slots[j] = IF j = p.size THEN e ELSE p.slots[j]
                /\ LeafPushFront(p, e).slots[j] = IF j = 0 THEN e ELSE p.slots[j - 1]
         /\ LeafPopBack(p).slots = p.slots
         /\ \A j \in 0..(p.size - 2) : LeafPopFront(p).slots[j] = p.slots[j + 1]
<1>1. /\ p.size \in Nat /\ p.size <= LeafMax /\ LeafMax \in Nat /\ p.slots \in [LeafSlots -> Entries]
      /\ p = [kind |-> p.kind, size |-> p.size, slots |-> p.slots]
  BY LeafFields, ParameterAssumption DEF LeafPages
<1>2. ASSUME p.size < LeafMax, NEW j \in 0..p.size
      PROVE  /\ LeafPushBack(p, e).slots[j] = IF j = p.size THEN e ELSE p.slots[j]
             /\ LeafPushFront(p, e).slots[j] = IF j = 0 THEN e ELSE p.slots[j - 1]
  <2> DEFINE back == [p.slots EXCEPT ![p.size] = e]
             front == [OpenGap(p.slots, 0, p.size) EXCEPT ![0] = e]
  <2>1. LeafPushBack(p, e).slots = back /\ LeafPushFront(p, e).slots = front
    BY <1>1 DEF LeafPushBack, LeafPushFront
  <2>2. j \in LeafSlots /\ 0 \in LeafSlots /\ (j \in (0 + 1)..p.size <=> j # 0)
    BY <1>1, <1>2 DEF LeafSlots
  <2>3. /\ back[j] = IF j = p.size THEN e ELSE p.slots[j]
        /\ front[j] = IF j = 0 THEN e ELSE p.slots[j - 1]
    BY <1>1, <2>2 DEF OpenGap
  <2> HIDE DEF back, front
  <2> QED BY <2>1, <2>3
<1>3. LeafPopBack(p).slots = p.slots
  BY <1>1 DEF LeafPopBack
<1>4. ASSUME NEW j \in 0..(p.size - 2) PROVE LeafPopFront(p).slots[j] = p.slots[j + 1]
  <2> DEFINE slots == CloseGap(p.slots, 0, p.size)
  <2>1. LeafPopFront(p).slots = slots
    BY <1>1 DEF LeafPopFront
  <2>2. j \in LeafSlots
    BY <1>1 DEF LeafSlots
  <2>3. slots[j] = p.slots[j + 1]
    BY <1>1, <2>2 DEF CloseGap
  <2> QED BY <2>1, <2>3
<1> QED
  BY <1>2, <1>3, <1>4

\* The split of a full leaf, and a merge of two leaves.
LEMMA LeafSplitGlued ==
  ASSUME NEW p \in LeafPages, p.size = LeafMax
  PROVE  Glued(p, LeafLower(p), LeafMiddle(p), LeafUpper(p))
<1> DEFINE mid == MinSize(LeafMax)
           n == p.size - mid - 1
           l == LeafLower(p)
           u == LeafUpper(p)
<1>1. /\ LeafMax \in Nat /\ mid \in 0..(LeafMax - 1) /\ mid \in Nat /\ p.kind = "leaf"
      /\ p.slots \in [LeafSlots -> Entries]
      /\ p = [kind |-> p.kind, size |-> p.size, slots |-> p.slots]
  BY ParameterAssumption, MinSizeBound, LeafFields DEF LeafPages
<1>2. /\ l.kind = "leaf" /\ l.size = mid /\ l.slots = p.slots
      /\ u.kind = "leaf" /\ u.size = n
      /\ u.slots = CopyRange([i \in LeafSlots |-> ZeroEntry], 0, p.slots, mid + 1, n)
  BY <1>1 DEF LeafLower, LeafUpper, EmptyLeaf
<1>3. ASSUME NEW j \in 0..(n - 1) PROVE u.slots[j] = p.slots[mid + 1 + j]
  <2>1. j \in LeafSlots /\ j \in 0..(0 + n - 1) /\ mid + 1 + j - 0 = mid + 1 + j
    BY <1>1 DEF LeafSlots
  <2> HIDE DEF mid, n, u
  <2> QED BY <1>2, <2>1 DEF CopyRange
<1>4. p.slots[mid] = LeafMiddle(p)
  BY DEF LeafMiddle
<1>5. mid + 1 - 0 = mid + 1 /\ n \in Nat /\ p.size = mid + n + 1 - 0
  BY <1>1
<1> HIDE DEF mid, n, l, u
<1>6. First(p) = 0
  BY <1>1 DEF First
<1>7. Glued(p, l, LeafMiddle(p), u)
  BY <1>1, <1>2, <1>3, <1>4, <1>5, <1>6 DEF Glued
<1> QED
  BY <1>7 DEF l, u

\* A leaf that takes in its right sibling is the two with the separator between.
LEMMA LeafMergeGlued ==
  ASSUME NEW l \in LeafPages, NEW r \in LeafPages, NEW e \in Entries, l.size + r.size + 1 <= LeafMax
  PROVE  Glued(LeafGrow(LeafAbsorb(l, e, r), r.size), l, e, r)
<1> DEFINE b == LeafPushBack(l, e)
           a == LeafAbsorb(l, e, r)
           q == LeafGrow(a, r.size)
<1>1. /\ l.size \in Nat /\ r.size \in Nat /\ l.kind = "leaf" /\ r.kind = "leaf" /\ l.size < LeafMax
      /\ LeafMax \in Nat
  BY LeafFields, ParameterAssumption
<1>2. /\ b \in LeafPages /\ b.size = l.size + 1
      /\ \A j \in 0..l.size : b.slots[j] = IF j = l.size THEN e ELSE l.slots[j]
  BY <1>1, LeafPushTypes, LeafEndSlots
<1> HIDE DEF b
<1>3. /\ b = [kind |-> b.kind, size |-> b.size, slots |-> b.slots] /\ b.slots \in [LeafSlots -> Entries]
      /\ b.kind = "leaf"
  BY <1>2, LeafFields DEF LeafPages
<1>4. a = [b EXCEPT !.slots = CopyRange(b.slots, b.size, r.slots, 0, r.size)]
  BY DEF LeafAbsorb, b
<1>5. /\ q.kind = "leaf" /\ q.size = l.size + 1 + r.size
      /\ q.slots = CopyRange(b.slots, b.size, r.slots, 0, r.size)
  BY <1>2, <1>3, <1>4 DEF LeafGrow
<1> HIDE DEF q
<1>6. ASSUME NEW j \in 0..l.size PROVE q.slots[j] = IF j = l.size THEN e ELSE l.slots[j]
  <2>1. j \in LeafSlots /\ j \notin b.size..(b.size + r.size - 1)
    BY <1>1, <1>2 DEF LeafSlots
  <2> QED BY <1>2, <1>3, <1>5, <2>1 DEF CopyRange
<1>7. ASSUME NEW j \in 0..(r.size - 1) PROVE q.slots[l.size + 1 + j] = r.slots[j]
  <2> DEFINE i == l.size + 1 + j
  <2>1. i \in LeafSlots /\ i \in b.size..(b.size + r.size - 1) /\ 0 + i - b.size = j
    BY <1>1, <1>2 DEF LeafSlots
  <2> HIDE DEF i
  <2>2. q.slots[i] = r.slots[j]
    BY <1>3, <1>5, <2>1 DEF CopyRange
  <2> QED BY <2>2 DEF i
<1>8. \A j \in 0..(l.size - 1) : j \in 0..l.size /\ j # l.size
  BY <1>1
<1>9. l.size + 1 - 0 = l.size + 1 /\ l.size \in 0..l.size /\ q.size = l.size + r.size + 1 - 0
  BY <1>1, <1>5
<1> QED
  BY <1>1, <1>5, <1>6, <1>7, <1>8, <1>9 DEF Glued, First, q, a

\* The split of a full internal page, and a merge of two.
LEMMA InnerSplitGlued ==
  ASSUME NEW C, 0 \in C, NEW p \in InnerOver(C), p.size = InnerMax
  PROVE  Glued(p, InnerLower(p), InnerMiddle(p), InnerUpper(p))
<1> DEFINE mid == MinSize(InnerMax)
           l == InnerLower(p)
           u == InnerUpper(p)
<1>1. /\ mid \in 1..(InnerMax - 1) /\ l.size = mid /\ u.size = InnerMax - mid
      /\ l.pids = p.pids /\ l.slots = p.slots
      /\ \A j \in 0..(InnerMax - mid - 1) : u.pids[j] = p.pids[mid + j]
      /\ \A j \in 1..(InnerMax - mid - 1) : u.slots[j] = p.slots[mid + j]
  BY InnerSplitSlots
<1>2. p.kind = "inner" /\ InnerMax \in Nat /\ p.slots[mid] = InnerMiddle(p)
  BY InnerFields, ParameterAssumption DEF InnerMiddle
<1>3. l.kind = "inner" /\ u.kind = "inner"
  BY InnerSplitTypes, InnerFields
<1> HIDE DEF mid, l, u
<1>4. mid \in Nat /\ mid >= 1 /\ InnerMax - mid \in Nat /\ InnerMax - mid >= 1 /\ mid + 1 - 1 = mid
      /\ p.size = mid + (InnerMax - mid) + 1 - 1
  BY <1>1, <1>2
<1>5. First(p) = 1
  BY <1>2 DEF First
<1>6. Glued(p, l, InnerMiddle(p), u)
  BY <1>1, <1>2, <1>3, <1>4, <1>5 DEF Glued
<1> QED
  BY <1>6 DEF l, u

\* So is an internal page.
LEMMA InnerMergeGlued ==
  ASSUME NEW C, NEW l \in InnerOver(C), NEW r \in InnerOver(C), NEW e \in Entries,
         l.size >= 1, r.size >= 1, l.size + r.size <= InnerMax
  PROVE  Glued(InnerGrow(InnerAbsorb(l, e, r), r.size - 1), l, e, r)
<1> DEFINE a == InnerAbsorb(l, e, r)
           q == InnerGrow(a, r.size - 1)
<1>1. /\ \A j \in 0..(l.size - 1) : a.pids[j] = l.pids[j] /\ a.slots[j] = l.slots[j]
      /\ a.slots[l.size] = e
      /\ \A j \in 0..(r.size - 1) : a.pids[l.size + j] = r.pids[j]
      /\ \A j \in 1..(r.size - 1) : a.slots[l.size + j] = r.slots[j]
  BY InnerAbsorbSlots
<1>2. l.size \in Nat /\ r.size \in Nat /\ l.kind = "inner" /\ r.kind = "inner"
  BY InnerFields
<1>3. a \in InnerOver(C) /\ a.size = l.size + 1 /\ a.kind = "inner"
  BY InnerAbsorbType, InnerFields
<1> HIDE DEF a
<1>4. q.kind = "inner" /\ q.size = l.size + 1 + (r.size - 1) /\ q.slots = a.slots /\ q.pids = a.pids
  BY <1>3 DEF InnerGrow, InnerOver
<1> HIDE DEF q
<1>5. First(q) = 1
  BY <1>4 DEF First
<1>6. /\ l.size + 1 - 1 = l.size /\ q.size = l.size + r.size + 1 - 1
      /\ \A j \in 1..(l.size - 1) : j \in 0..(l.size - 1)
  BY <1>2, <1>4
<1>7. Glued(q, l, e, r)
  BY <1>1, <1>2, <1>4, <1>5, <1>6 DEF Glued
<1> QED
  BY <1>7 DEF q, a

\* An entry moves between a leaf and its sibling, over the separator ...
LEMMA LeafBorrowGlued ==
  ASSUME NEW l \in LeafPages, NEW r \in LeafPages, NEW e \in Entries, NEW q, Glued(q, l, e, r)
  PROVE  /\ l.size < LeafMax /\ r.size >= 1 =>
              Glued(q, LeafPushBack(l, e), LeafFirst(r), LeafPopFront(r))
         /\ r.size < LeafMax /\ l.size >= 1 =>
              Glued(q, LeafPopBack(l), LeafLast(l), LeafPushFront(r, e))
<1>1. /\ l.kind = "leaf" /\ r.kind = "leaf" /\ l.size \in Nat /\ r.size \in Nat
      /\ q.kind = "leaf" /\ First(q) = 0
  BY LeafFields DEF Glued, First
<1>2. ASSUME l.size < LeafMax, r.size >= 1
      PROVE  Glued(q, LeafPushBack(l, e), LeafFirst(r), LeafPopFront(r))
  <2> DEFINE l2 == LeafPushBack(l, e)
             r2 == LeafPopFront(r)
  <2>1. l2 \in LeafPages /\ r2 \in LeafPages /\ l2.size = l.size + 1 /\ r2.size = r.size - 1
    BY <1>2, LeafPushTypes, LeafPopTypes
  <2>2. l2.kind = l.kind /\ r2.kind = r.kind
    BY <1>1, <2>1, LeafFields
  <2>3. /\ \A j \in 0..l.size : l2.slots[j] = IF j = l.size THEN e ELSE l.slots[j]
        /\ \A j \in 0..(r.size - 2) : r2.slots[j] = r.slots[j + 1]
    BY <1>2, LeafEndSlots
  <2> HIDE DEF l2, r2
  <2>4. r.size > First(q)
    BY <1>1, <1>2
  <2>5. Glued(q, l2, r.slots[First(q)], r2)
    BY <1>1, <2>1, <2>2, <2>3, <2>4, GluedShiftLeft
  <2> QED BY <1>1, <2>5 DEF LeafFirst, l2, r2
<1>3. ASSUME r.size < LeafMax, l.size >= 1
      PROVE  Glued(q, LeafPopBack(l), LeafLast(l), LeafPushFront(r, e))
  <2> DEFINE l2 == LeafPopBack(l)
             r2 == LeafPushFront(r, e)
  <2>1. l2 \in LeafPages /\ r2 \in LeafPages /\ l2.size = l.size - 1 /\ r2.size = r.size + 1
    BY <1>3, LeafPushTypes, LeafPopTypes
  <2>2. l2.kind = l.kind /\ r2.kind = r.kind
    BY <1>1, <2>1, LeafFields
  <2>3. /\ \A j \in 0..r.size : r2.slots[j] = IF j = 0 THEN e ELSE r.slots[j - 1]
        /\ \A j \in 0..(l.size - 2) : l2.slots[j] = l.slots[j]
    BY <1>3, LeafEndSlots
  <2> HIDE DEF l2, r2
  <2>4. l.size > First(q)
    BY <1>1, <1>3
  <2>5. Glued(q, l2, l.slots[l.size - 1], r2)
    BY <1>1, <2>1, <2>2, <2>3, <2>4, GluedShiftRight
  <2> QED BY <2>5 DEF LeafLast, l2, r2
<1> QED
  BY <1>2, <1>3

\* ... and with a child between two internal pages.
LEMMA InnerBorrowGlued ==
  ASSUME NEW C, NEW l \in InnerOver(C), NEW r \in InnerOver(C), NEW e \in Entries, NEW q,
         Glued(q, l, e, r)
  PROVE  /\ l.size < InnerMax /\ r.size >= 2 =>
              Glued(q, InnerPushBack(l, e, r.pids[0]), InnerFirst(r), InnerPopFront(r))
         /\ r.size < InnerMax /\ l.size >= 2 =>
              Glued(q, InnerPopBack(l), InnerLast(l), InnerPushFront(r, e, l.pids[l.size - 1]))
<1>1. /\ l.kind = "inner" /\ r.kind = "inner" /\ l.size \in Nat /\ r.size \in Nat
      /\ q.kind = "inner" /\ First(q) = 1 /\ l.size >= 1 /\ r.size >= 1
  <2>1. l.kind = "inner" /\ r.kind = "inner" /\ l.size \in Nat /\ r.size \in Nat
    BY InnerFields
  <2>2. q.kind = "inner"
    BY <2>1 DEF Glued
  <2>3. First(q) = 1
    BY <2>2 DEF First
  <2> QED BY <2>1, <2>2, <2>3 DEF Glued
<1>2. r.pids[0] \in C /\ l.pids[l.size - 1] \in C
  <2>1. 0 \in InnerSlots /\ l.size - 1 \in InnerSlots
    BY <1>1, InnerFields, ParameterAssumption DEF InnerSlots
  <2> QED BY <2>1, InnerFields
<1>3. ASSUME l.size < InnerMax, r.size >= 2
      PROVE  Glued(q, InnerPushBack(l, e, r.pids[0]), InnerFirst(r), InnerPopFront(r))
  <2> DEFINE l2 == InnerPushBack(l, e, r.pids[0])
             r2 == InnerPopFront(r)
  <2>1. l2 \in InnerOver(C) /\ r2 \in InnerOver(C) /\ l2.size = l.size + 1 /\ r2.size = r.size - 1
    BY <1>1, <1>2, <1>3, InnerPushTypes, InnerPopTypes
  <2>2. l2.kind = l.kind /\ r2.kind = r.kind
    BY <1>1, <2>1, InnerFields
  <2>3. /\ \A j \in 0..l.size : l2.slots[j] = IF j = l.size THEN e ELSE l.slots[j]
        /\ \A j \in 0..l.size : l2.pids[j] = IF j = l.size THEN r.pids[0] ELSE l.pids[j]
        /\ \A j \in 0..(r.size - 2) : r2.pids[j] = r.pids[j + 1] /\ (j >= 1 => r2.slots[j] = r.slots[j + 1])
    BY <1>1, <1>2, <1>3, InnerPushSlots, InnerPopSlots
  <2> HIDE DEF l2, r2
  <2>4. /\ r.size > First(q)
        /\ \A j \in First(q)..l.size : l2.slots[j] = IF j = l.size THEN e ELSE l.slots[j]
        /\ \A j \in First(q)..(r.size - 2) : r2.slots[j] = r.slots[j + 1]
    BY <1>1, <1>3, <2>3
  <2>5. Glued(q, l2, r.slots[First(q)], r2)
    BY <2>1, <2>2, <2>3, <2>4, GluedShiftLeft
  <2> QED BY <1>1, <2>5 DEF InnerFirst, l2, r2
<1>4. ASSUME r.size < InnerMax, l.size >= 2
      PROVE  Glued(q, InnerPopBack(l), InnerLast(l), InnerPushFront(r, e, l.pids[l.size - 1]))
  <2> DEFINE c == l.pids[l.size - 1]
             l2 == InnerPopBack(l)
             r2 == InnerPushFront(r, e, c)
  <2>1. l2 \in InnerOver(C) /\ r2 \in InnerOver(C) /\ l2.size = l.size - 1 /\ r2.size = r.size + 1
    BY <1>1, <1>2, <1>4, InnerPushTypes, InnerPopTypes
  <2>2. l2.kind = l.kind /\ r2.kind = r.kind
    BY <1>1, <2>1, InnerFields
  <2>3. /\ \A j \in 0..r.size : r2.pids[j] = IF j = 0 THEN c ELSE r.pids[j - 1]
        /\ \A j \in 0..r.size : j >= 1 => r2.slots[j] = IF j = 1 THEN e ELSE r.slots[j - 1]
        /\ l2.pids = l.pids /\ l2.slots = l.slots
    BY <1>1, <1>2, <1>4, InnerPushSlots, InnerPopSlots
  <2> HIDE DEF l2, r2, c
  <2>4. /\ l.size > First(q)
        /\ \A j \in First(q)..r.size : r2.slots[j] = IF j = First(q) THEN e ELSE r.slots[j - 1]
        /\ \A j \in First(q)..(l.size - 2) : l2.slots[j] = l.slots[j]
        /\ \A j \in 0..(l.size - 2) : l2.pids[j] = l.pids[j]
        /\ \A j \in 0..r.size : r2.pids[j] = IF j = 0 THEN l.pids[l.size - 1] ELSE r.pids[j - 1]
    BY <1>1, <1>4, <2>3 DEF c
  <2>5. Glued(q, l2, l.slots[l.size - 1], r2)
    BY <2>1, <2>2, <2>4, GluedShiftRight
  <2> QED BY <2>5 DEF InnerLast, l2, r2, c
<1> QED
  BY <1>3, <1>4

-----------------------------------------------------------------------------
\* What a page and its children may hold when one of its entries changes.

\* Only the spans of the children matter.
LEMMA InOrderSame ==
  ASSUME NEW p, NEW S, NEW span, InOrder(p, S, span), NEW span2, \A c \in Kids(p) : span2[c] = span[c]
  PROVE  InOrder(p, S, span2)
<1>1. p.kind # "leaf" => \A i \in 0..(p.size - 1) : p.pids[i] \in Kids(p)
  BY DEF Kids
<1>2. p.kind # "leaf" => \A i \in 0..(p.size - 1) : span2[p.pids[i]] = span[p.pids[i]]
  BY <1>1
<1> QED
  BY <1>2 DEF InOrder, Parted

\* Only the keys matter, not the values, nor what is in the slots beyond the size.
LEMMA InOrderKeys ==
  ASSUME NEW p, NEW q, q.kind = p.kind, q.size = p.size, p.size \in Nat,
         \A i \in First(p)..(p.size - 1) : q.slots[i][1] = p.slots[i][1],
         p.kind # "leaf" => \A i \in 0..(p.size - 1) : q.pids[i] = p.pids[i],
         NEW S, NEW span, InOrder(p, S, span)
  PROVE  InOrder(q, S, span)
<1>1. First(q) = First(p) /\ Places(q) = Places(p)
  BY DEF First, Places
<1>2. Sorted(q, S) /\ AllInts(S)
  BY <1>1 DEF InOrder, Sorted, Places
<1>3. ASSUME p.kind # "leaf", NEW i \in 0..(p.size - 1), NEW k
      PROVE  Between(q, i, k) <=> Between(p, i, k)
  <2>1. First(p) = 1
    BY <1>3 DEF First
  <2>2. /\ i > 0 => q.slots[i][1] = p.slots[i][1]
        /\ i < p.size - 1 => q.slots[i + 1][1] = p.slots[i + 1][1]
    <3>1. i > 0 => i \in First(p)..(p.size - 1)
      BY <2>1
    <3>2. i < p.size - 1 => i + 1 \in First(p)..(p.size - 1)
      BY <2>1
    <3> QED BY <3>1, <3>2
  <2> QED BY <2>2 DEF Between
<1>4. Parted(q, S, span)
  BY <1>3 DEF InOrder, Parted
<1> QED
  BY <1>2, <1>4 DEF InOrder

\* The keys between the entries next to the one in slot i.
Around(p, S, i) ==
  {k \in S : (i > 1 => p.slots[i - 1][1] < k) /\ (i < p.size - 1 => k < p.slots[i + 1][1])}

\* The entry in slot i parts them into those of the children on its two sides.
LEMMA AroundBetween ==
  ASSUME NEW p, p.kind = "inner", p.size \in Nat, NEW S, AllInts(S), Sorted(p, S),
         NEW i \in 1..(p.size - 1), NEW U, U = Around(p, S, i), NEW x, x = p.slots[i][1]
  PROVE  /\ x \in U /\ AllInts(U) /\ \A k \in U : k \in S
         /\ \A k : k \in Below(U, x) <=> k \in S /\ Between(p, i - 1, k)
         /\ \A k : k \in Above(U, x) <=> k \in S /\ Between(p, i, k)
<1>1. First(p) = 1 /\ i \in Nat
  BY DEF First
<1>2. /\ \A j \in 1..(p.size - 1) : p.slots[j][1] \in S /\ p.slots[j][1] \in Int
      /\ \A j, m \in 1..(p.size - 1) : j < m => p.slots[j][1] < p.slots[m][1]
  BY <1>1 DEF Sorted, Places, AllInts
<1>3. /\ x \in S /\ x \in Int
      /\ i > 1 => p.slots[i - 1][1] < x /\ p.slots[i - 1][1] \in Int
      /\ i < p.size - 1 => x < p.slots[i + 1][1] /\ p.slots[i + 1][1] \in Int
  <2>1. i > 1 => i - 1 \in 1..(p.size - 1) /\ i - 1 < i
    OBVIOUS
  <2>2. i < p.size - 1 => i + 1 \in 1..(p.size - 1) /\ i < i + 1
    OBVIOUS
  <2> QED BY <1>2, <2>1, <2>2
<1>4. x \in U /\ AllInts(U) /\ \A k \in U : k \in S
  BY <1>1, <1>3 DEF Around, AllInts
<1>5. \A k : k \in Below(U, x) <=> k \in S /\ Between(p, i - 1, k)
  <2> SUFFICES ASSUME NEW k PROVE k \in Below(U, x) <=> k \in S /\ Between(p, i - 1, k)
    OBVIOUS
  <2>1. i - 1 \in 0..(p.size - 1) /\ i - 1 < p.size - 1 /\ (i - 1) + 1 = i /\ (i - 1 > 0 <=> i > 1)
    BY <1>1
  <2>2. Between(p, i - 1, k) <=> (i > 1 => p.slots[i - 1][1] < k) /\ k < x
    BY <2>1 DEF Between
  <2>3. k \in Below(U, x) <=> /\ k \in S /\ k < x
                              /\ i > 1 => p.slots[i - 1][1] < k
                              /\ i < p.size - 1 => k < p.slots[i + 1][1]
    BY DEF Below, Around
  <2>4. k \in S /\ k < x /\ i < p.size - 1 => k < p.slots[i + 1][1]
    BY <1>1, <1>3 DEF AllInts
  <2> QED BY <2>2, <2>3, <2>4
<1>6. \A k : k \in Above(U, x) <=> k \in S /\ Between(p, i, k)
  <2> SUFFICES ASSUME NEW k PROVE k \in Above(U, x) <=> k \in S /\ Between(p, i, k)
    OBVIOUS
  <2>1. i \in 0..(p.size - 1) /\ i > 0
    BY <1>1
  <2>2. Between(p, i, k) <=> x < k /\ (i < p.size - 1 => k < p.slots[i + 1][1])
    BY <2>1 DEF Between
  <2>3. k \in Above(U, x) <=> /\ k \in S /\ k > x
                              /\ i > 1 => p.slots[i - 1][1] < k
                              /\ i < p.size - 1 => k < p.slots[i + 1][1]
    BY DEF Above, Around
  <2>4. k \in S /\ k > x /\ i > 1 => p.slots[i - 1][1] < k
    BY <1>1, <1>3 DEF AllInts
  <2> QED BY <1>1, <1>3, <2>2, <2>3, <2>4 DEF AllInts
<1> QED
  BY <1>4, <1>5, <1>6

\* The spans of the children left and right of an entry.
LEMMA AroundSlot ==
  ASSUME NEW p, p.kind = "inner", p.size \in Nat, NEW S, NEW span, InOrder(p, S, span),
         NEW i \in 1..(p.size - 1), NEW U, U = Around(p, S, i), NEW x, x = p.slots[i][1]
  PROVE  /\ x \in U /\ AllInts(U) /\ \A k \in U : k \in S
         /\ span[p.pids[i - 1]] = Below(U, x) /\ span[p.pids[i]] = Above(U, x)
<1>1. /\ x \in U /\ AllInts(U) /\ \A k \in U : k \in S
      /\ \A k : k \in Below(U, x) <=> k \in S /\ Between(p, i - 1, k)
      /\ \A k : k \in Above(U, x) <=> k \in S /\ Between(p, i, k)
  BY AroundBetween DEF InOrder
<1>2. i - 1 \in 0..(p.size - 1) /\ i \in 0..(p.size - 1)
  OBVIOUS
<1>3. /\ \A k : k \in span[p.pids[i - 1]] <=> k \in S /\ Between(p, i - 1, k)
      /\ \A k : k \in span[p.pids[i]] <=> k \in S /\ Between(p, i, k)
  BY <1>2 DEF InOrder, Parted
<1> QED
  BY <1>1, <1>3

\* Another entry takes its place: what is on one side of it only changes sides.
LEMMA ParentSet ==
  ASSUME NEW C, NEW p \in InnerOver(C), OneSlotEach(p), NEW S, NEW span, InOrder(p, S, span),
         NEW i \in 1..(p.size - 1), NEW U, U = Around(p, S, i), NEW e \in Entries, e[1] \in U,
         NEW span2, span2[p.pids[i - 1]] = Below(U, e[1]), span2[p.pids[i]] = Above(U, e[1]),
         \A c \in Kids(p) : c # p.pids[i - 1] /\ c # p.pids[i] => span2[c] = span[c]
  PROVE  InOrder(InnerSetEntry(p, i, e), S, span2)
<1> DEFINE q == InnerSetEntry(p, i, e)
           n == p.size
<1>1. /\ p.kind = "inner" /\ n \in Nat /\ n <= InnerMax /\ p.slots \in [InnerSlots -> Entries]
      /\ p = [kind |-> p.kind, size |-> p.size, slots |-> p.slots, pids |-> p.pids]
  BY InnerFields, ParameterAssumption DEF InnerOver
<1>2. \A j \in 0..(n - 1) : j \in InnerSlots
  BY <1>1, ParameterAssumption DEF InnerSlots
<1>3. /\ q.kind = "inner" /\ q.size = n /\ q.pids = p.pids
      /\ \A j \in 0..(n - 1) : q.slots[j] = IF j = i THEN e ELSE p.slots[j]
  BY <1>1, <1>2 DEF InnerSetEntry
<1> HIDE DEF q
<1>4. /\ First(p) = 1 /\ First(q) = 1 /\ AllInts(S)
      /\ i \in Nat /\ i >= 1 /\ i <= n - 1 /\ n \in Nat
  BY <1>1, <1>3 DEF First, InOrder
<1>5. /\ \A j \in 1..(n - 1) : p.slots[j][1] \in S /\ p.slots[j][1] \in Int
      /\ \A j, m \in 1..(n - 1) : j < m => p.slots[j][1] < p.slots[m][1]
  BY <1>4 DEF InOrder, Sorted, Places, AllInts
<1>6. /\ e[1] \in S /\ e[1] \in Int
      /\ i > 1 => p.slots[i - 1][1] < e[1]
      /\ i < n - 1 => e[1] < p.slots[i + 1][1]
  BY <1>4 DEF Around, AllInts
<1>7. /\ \A j \in 1..(i - 1) : p.slots[j][1] < e[1]
      /\ \A j \in (i + 1)..(n - 1) : e[1] < p.slots[j][1]
  <2>1. ASSUME NEW j \in 1..(i - 1) PROVE p.slots[j][1] < e[1]
    <3>1. i > 1 /\ i - 1 \in 1..(n - 1) /\ j \in 1..(n - 1) /\ (j = i - 1 \/ j < i - 1)
      BY <1>4
    <3> QED BY <1>5, <1>6, <3>1
  <2>2. ASSUME NEW j \in (i + 1)..(n - 1) PROVE e[1] < p.slots[j][1]
    <3>1. i < n - 1 /\ i + 1 \in 1..(n - 1) /\ j \in 1..(n - 1) /\ (j = i + 1 \/ j > i + 1)
      BY <1>1, <1>4
    <3> QED BY <1>5, <1>6, <3>1
  <2> QED BY <2>1, <2>2
<1>8. Sorted(q, S)
  <2>1. Places(q) = 1..(n - 1)
    BY <1>3, <1>4 DEF Places
  <2>2. \A j \in 1..(n - 1) : q.slots[j] = IF j = i THEN e ELSE p.slots[j]
    BY <1>3
  <2>3. \A j \in 1..(n - 1) : q.slots[j][1] \in S
    BY <1>5, <1>6, <2>2
  <2>4. ASSUME NEW j \in 1..(n - 1), NEW m \in 1..(n - 1), j < m PROVE q.slots[j][1] < q.slots[m][1]
    <3>1. CASE j = i
      <4>1. m \in (i + 1)..(n - 1) /\ m # i
        BY <1>4, <2>4, <3>1
      <4> QED BY <1>7, <2>2, <3>1, <4>1
    <3>2. CASE m = i
      <4>1. j \in 1..(i - 1) /\ j # i
        BY <1>4, <2>4, <3>2
      <4> QED BY <1>7, <2>2, <3>2, <4>1
    <3>3. CASE j # i /\ m # i
      BY <1>5, <2>2, <2>4, <3>3
    <3> QED BY <3>1, <3>2, <3>3
  <2> QED BY <2>1, <2>3, <2>4 DEF Sorted
<1>9. Around(q, S, i) = U
  <2>1. /\ i > 1 => q.slots[i - 1] = p.slots[i - 1]
        /\ i < n - 1 => q.slots[i + 1] = p.slots[i + 1]
    <3>1. i > 1 => i - 1 \in 0..(n - 1) /\ i - 1 # i
      BY <1>4
    <3>2. i < n - 1 => i + 1 \in 0..(n - 1) /\ i + 1 # i
      BY <1>1, <1>4
    <3> QED BY <1>3, <3>1, <3>2
  <2> QED BY <1>3, <2>1 DEF Around
<1>10. /\ \A k : k \in Below(U, e[1]) <=> k \in S /\ Between(q, i - 1, k)
       /\ \A k : k \in Above(U, e[1]) <=> k \in S /\ Between(q, i, k)
  <2>1. e[1] = q.slots[i][1] /\ i \in 1..(q.size - 1) /\ q.size \in Nat
    BY <1>1, <1>3, <1>4
  <2> QED BY <1>3, <1>4, <1>8, <1>9, <2>1, AroundBetween
<1>11. ASSUME NEW j \in 0..(n - 1), NEW k
       PROVE  k \in span2[q.pids[j]] <=> k \in S /\ Between(q, j, k)
  <2>1. CASE j = i - 1
    BY <1>3, <1>10, <2>1
  <2>2. CASE j = i
    BY <1>3, <1>10, <2>2
  <2>3. CASE j # i - 1 /\ j # i
    <3>1. i - 1 \in 0..(n - 1) /\ i \in 0..(n - 1)
      BY <1>4
    <3>2. p.pids[j] # p.pids[i - 1] /\ p.pids[j] # p.pids[i] /\ p.pids[j] \in Kids(p)
      BY <1>1, <2>3, <3>1 DEF OneSlotEach, Kids
    <3>3. k \in span[p.pids[j]] <=> k \in S /\ Between(p, j, k)
      BY <1>1 DEF InOrder, Parted
    <3>4. j + 1 # i /\ (j < n - 1 => j + 1 \in 0..(n - 1))
      BY <1>1, <1>4, <2>3
    <3>5. Between(q, j, k) <=> Between(p, j, k)
      BY <1>3, <2>3, <3>4 DEF Between
    <3> QED BY <1>3, <3>2, <3>3, <3>5
  <2> QED BY <2>1, <2>2, <2>3
<1>12. Parted(q, S, span2)
  BY <1>3, <1>11 DEF Parted
<1> QED
  BY <1>4, <1>8, <1>12 DEF InOrder, q

\* q is p without the entry in slot i and the child right of it.
Without(p, i, q) ==
  /\ p.kind = "inner" /\ q.kind = "inner" /\ p.size \in Nat /\ q.size = p.size - 1
  /\ \A j \in 1..(p.size - 2) : q.slots[j] = IF j >= i THEN p.slots[j + 1] ELSE p.slots[j]
  /\ \A j \in 0..(p.size - 2) : q.pids[j] = IF j >= i THEN p.pids[j + 1] ELSE p.pids[j]

\* The child left of it may then hold what lies around it.
LEMMA WithoutBetween ==
  ASSUME NEW p, NEW i \in 1..(p.size - 1), NEW q, Without(p, i, q), NEW S, NEW k
  PROVE  /\ k \in S /\ Between(q, i - 1, k) <=> k \in Around(p, S, i)
         /\ \A j \in 0..(i - 2) : Between(q, j, k) <=> Between(p, j, k)
         /\ \A j \in i..(p.size - 2) : Between(q, j, k) <=> Between(p, j + 1, k)
<1> DEFINE n == p.size
<1>1. /\ n \in Nat /\ q.size = n - 1 /\ i \in Nat /\ i >= 1 /\ i <= n - 1
      /\ \A j \in 1..(n - 2) : q.slots[j] = IF j >= i THEN p.slots[j + 1] ELSE p.slots[j]
  BY DEF Without
<1> HIDE DEF n
<1>2. k \in S /\ Between(q, i - 1, k) <=> k \in Around(p, S, i)
  <2>1. i > 1 => i - 1 \in 1..(n - 2) /\ ~(i - 1 >= i)
    BY <1>1
  <2>2. i < n - 1 => i \in 1..(n - 2)
    BY <1>1
  <2>3. (i > 1 => q.slots[i - 1] = p.slots[i - 1]) /\ (i < n - 1 => q.slots[i] = p.slots[i + 1])
    BY <1>1, <2>1, <2>2
  <2>4. (i - 1 > 0 <=> i > 1) /\ (i - 1 < q.size - 1 <=> i < n - 1) /\ (i - 1) + 1 = i
    BY <1>1
  <2> QED BY <2>3, <2>4 DEF Between, Around, n
<1>3. ASSUME NEW j \in 0..(i - 2) PROVE Between(q, j, k) <=> Between(p, j, k)
  <2>1. /\ j > 0 => j \in 1..(n - 2)
        /\ j + 1 \in 1..(n - 2) /\ ~(j >= i) /\ ~(j + 1 >= i)
        /\ j < q.size - 1 /\ j < n - 1
    BY <1>1
  <2>2. (j > 0 => q.slots[j] = p.slots[j]) /\ q.slots[j + 1] = p.slots[j + 1]
    BY <1>1, <2>1
  <2> QED BY <2>1, <2>2 DEF Between, n
<1>4. ASSUME NEW j \in i..(n - 2) PROVE Between(q, j, k) <=> Between(p, j + 1, k)
  <2>1. /\ j \in 1..(n - 2) /\ j >= i /\ j > 0 /\ j + 1 > 0
        /\ j < q.size - 1 <=> j + 1 < n - 1
        /\ j < q.size - 1 => j + 1 \in 1..(n - 2) /\ j + 1 >= i
    BY <1>1
  <2>2. q.slots[j] = p.slots[j + 1] /\ (j < q.size - 1 => q.slots[j + 1] = p.slots[(j + 1) + 1])
    BY <1>1, <2>1
  <2> QED BY <2>1, <2>2 DEF Between, n
<1> QED
  BY <1>2, <1>3, <1>4 DEF n

\* Without its entry in slot i a page stays in order, if the child left of it
\* may hold what lies around that entry, and the child right of it is gone.
LEMMA WithoutOrder ==
  ASSUME NEW p, OneSlotEach(p), NEW S, NEW span, InOrder(p, S, span),
         NEW i \in 1..(p.size - 1), NEW q, Without(p, i, q),
         NEW span2, span2[p.pids[i - 1]] = Around(p, S, i),
         \A c \in Kids(p) : c # p.pids[i - 1] /\ c # p.pids[i] => span2[c] = span[c]
  PROVE  InOrder(q, S, span2) /\ Live(q) = Live(p) \ {p.slots[i]}
<1> DEFINE n == p.size
<1>1. /\ n \in Nat /\ q.size = n - 1 /\ i \in Nat /\ i >= 1 /\ i <= n - 1 /\ p.kind = "inner" /\ q.kind = "inner"
      /\ \A j \in 1..(n - 2) : q.slots[j] = IF j >= i THEN p.slots[j + 1] ELSE p.slots[j]
      /\ \A j \in 0..(n - 2) : q.pids[j] = IF j >= i THEN p.pids[j + 1] ELSE p.pids[j]
  BY DEF Without
<1>2. First(p) = 1 /\ First(q) = 1 /\ i \in First(p)..(p.size - 1) /\ AllInts(S) /\ Sorted(p, S)
  BY <1>1 DEF First, InOrder
<1>3. Sorted(q, S \ {p.slots[i][1]}) /\ Live(q) = Live(p) \ {p.slots[i]}
  <2>1. Deleted(p, i, q)
    BY <1>1, <1>2 DEF Deleted
  <2> QED BY <1>2, <2>1, SortedDelete
<1>4. Sorted(q, S)
  BY <1>3, SortedWider
<1> HIDE DEF n
<1>5. ASSUME NEW j \in 0..(n - 2), NEW k
      PROVE  k \in span2[q.pids[j]] <=> k \in S /\ Between(q, j, k)
  <2>1. /\ k \in S /\ Between(q, i - 1, k) <=> k \in Around(p, S, i)
        /\ \A m \in 0..(i - 2) : Between(q, m, k) <=> Between(p, m, k)
        /\ \A m \in i..(n - 2) : Between(q, m, k) <=> Between(p, m + 1, k)
    BY WithoutBetween DEF n
  <2>2. CASE j = i - 1
    <3>1. q.pids[j] = p.pids[i - 1]
      BY <1>1, <2>2
    <3> QED BY <2>1, <2>2, <3>1
  <2>3. ASSUME NEW m \in 0..(n - 1), m # i - 1, m # i PROVE span2[p.pids[m]] = span[p.pids[m]]
    <3>1. i - 1 \in 0..(n - 1) /\ i \in 0..(n - 1)
      BY <1>1
    <3>2. p.pids[m] # p.pids[i - 1] /\ p.pids[m] # p.pids[i] /\ p.pids[m] \in Kids(p)
      BY <1>1, <2>3, <3>1 DEF OneSlotEach, Kids, n
    <3> QED BY <3>2
  <2>4. \A m \in 0..(n - 1) : k \in span[p.pids[m]] <=> k \in S /\ Between(p, m, k)
    BY <1>1 DEF InOrder, Parted, n
  <2>5. CASE j < i - 1
    <3>1. /\ j \in 0..(i - 2) /\ j \in 0..(n - 1) /\ j # i - 1 /\ j # i /\ ~(j >= i)
      BY <1>1, <2>5
    <3>2. q.pids[j] = p.pids[j]
      BY <1>1, <3>1
    <3> QED BY <2>1, <2>3, <2>4, <3>1, <3>2
  <2>6. CASE j > i - 1
    <3>1. /\ j \in i..(n - 2) /\ j + 1 \in 0..(n - 1) /\ j + 1 # i - 1 /\ j + 1 # i /\ j >= i
      BY <1>1, <2>6
    <3>2. q.pids[j] = p.pids[j + 1]
      BY <1>1, <3>1
    <3> QED BY <2>1, <2>3, <2>4, <3>1, <3>2
  <2> QED BY <1>1, <2>2, <2>5, <2>6
<1>6. Parted(q, S, span2)
  <2>1. q.size - 1 = n - 2
    BY <1>1
  <2> QED BY <1>5, <2>1 DEF Parted
<1> QED
  BY <1>2, <1>3, <1>4, <1>6 DEF InOrder

\* And the other way round: with an entry put between a child and a new one, which
\* share what that child could hold.
LEMMA WithOrder ==
  ASSUME NEW p, NEW q, NEW i \in 1..(q.size - 1), Without(q, i, p), OneSlotEach(p), 
         NEW S, NEW span, InOrder(p, S, span), NEW c, c = p.pids[i - 1], NEW n, n = q.pids[i], n \notin Kids(p),
         NEW x, x = q.slots[i][1], x \in span[c],
         NEW span2, span2[c] = Below(span[c], x), span2[n] = Above(span[c], x),
         \A b \in Kids(p) : b # c => span2[b] = span[b]
  PROVE  InOrder(q, S, span2) /\ Live(q) = Live(p) \cup {q.slots[i]}
<1> DEFINE z == q.size
<1>1. /\ z \in Nat /\ p.size = z - 1 /\ i \in Nat /\ i >= 1 /\ i <= z - 1 /\ p.kind = "inner" /\ q.kind = "inner"
      /\ \A j \in 1..(z - 2) : p.slots[j] = IF j >= i THEN q.slots[j + 1] ELSE q.slots[j]
      /\ \A j \in 0..(z - 2) : p.pids[j] = IF j >= i THEN q.pids[j + 1] ELSE q.pids[j]
  BY DEF Without
<1>2. First(p) = 1 /\ First(q) = 1 /\ AllInts(S) /\ Sorted(p, S)
  BY <1>1 DEF First, InOrder
<1> HIDE DEF z
<1>3. /\ \A j \in 1..(z - 1) : q.slots[j] = IF j = i THEN q.slots[i] ELSE IF j > i THEN p.slots[j - 1] ELSE p.slots[j]
      /\ \A j \in 0..(z - 1) : j # i => q.pids[j] = IF j > i THEN p.pids[j - 1] ELSE p.pids[j]
  <2>1. ASSUME NEW j \in 1..(z - 1), j > i PROVE q.slots[j] = p.slots[j - 1]
    <3>1. j - 1 \in 1..(z - 2) /\ j - 1 >= i /\ (j - 1) + 1 = j
      BY <1>1, <2>1
    <3> QED BY <1>1, <3>1
  <2>2. ASSUME NEW j \in 1..(z - 1), j < i PROVE q.slots[j] = p.slots[j]
    <3>1. j \in 1..(z - 2) /\ ~(j >= i)
      BY <1>1, <2>2
    <3> QED BY <1>1, <3>1
  <2>3. ASSUME NEW j \in 0..(z - 1), j > i PROVE q.pids[j] = p.pids[j - 1]
    <3>1. j - 1 \in 0..(z - 2) /\ j - 1 >= i /\ (j - 1) + 1 = j
      BY <1>1, <2>3
    <3> QED BY <1>1, <3>1
  <2>4. ASSUME NEW j \in 0..(z - 1), j < i PROVE q.pids[j] = p.pids[j]
    <3>1. j \in 0..(z - 2) /\ ~(j >= i)
      BY <1>1, <2>4
    <3> QED BY <1>1, <3>1
  <2> QED BY <1>1, <2>1, <2>2, <2>3, <2>4
<1>4. /\ i - 1 \in 0..(p.size - 1)
      /\ \A k : k \in span[c] <=> k \in S /\ Between(p, i - 1, k)
  <2>1. i - 1 \in 0..(p.size - 1)
    BY <1>1
  <2> QED BY <1>1, <2>1 DEF InOrder, Parted
<1>5. x \in S /\ x \in Int /\ Between(p, i - 1, x)
  BY <1>2, <1>4 DEF AllInts
<1>6. /\ \A j \in 1..(i - 1) : p.slots[j][1] < x
      /\ \A j \in i..(p.size - 1) : p.slots[j][1] > x
  <2>1. /\ \A j \in 1..(z - 2) : p.slots[j][1] \in Int
        /\ \A j, m \in 1..(z - 2) : j < m => p.slots[j][1] < p.slots[m][1]
    BY <1>1, <1>2 DEF Sorted, Places, AllInts
  <2>2. /\ i > 1 => p.slots[i - 1][1] < x
        /\ i <= z - 2 => x < p.slots[i][1]
    BY <1>1, <1>5 DEF Between
  <2>3. ASSUME NEW j \in 1..(i - 1) PROVE p.slots[j][1] < x
    <3>1. i > 1 /\ j \in 1..(z - 2) /\ i - 1 \in 1..(z - 2) /\ (j = i - 1 \/ j < i - 1)
      BY <1>1
    <3> QED BY <1>5, <2>1, <2>2, <3>1
  <2>4. ASSUME NEW j \in i..(z - 2) PROVE p.slots[j][1] > x
    <3>1. i <= z - 2 /\ j \in 1..(z - 2) /\ i \in 1..(z - 2) /\ (j = i \/ j > i)
      BY <1>1
    <3> QED BY <1>5, <2>1, <2>2, <3>1
  <2> QED BY <1>1, <2>3, <2>4
<1>7. Sorted(q, S) /\ Live(q) = Live(p) \cup {q.slots[i]}
  <2> DEFINE e == q.slots[i]
  <2>1. e[1] \in S
    BY <1>5
  <2>2. Inserted(p, i, e, q)
    BY <1>1, <1>2, <1>3 DEF z, Inserted
  <2>3. /\ \A j \in First(p)..(i - 1) : p.slots[j][1] < e[1]
        /\ \A j \in i..(p.size - 1) : p.slots[j][1] > e[1]
    BY <1>2, <1>6
  <2> HIDE DEF e
  <2>4. Sorted(q, S) /\ Live(q) = Live(p) \cup {e}
    BY <1>2, <2>1, <2>2, <2>3, SortedInsert
  <2> QED BY <2>4 DEF e
<1>8. \A k : k \in Around(q, S, i) <=> k \in span[c]
  BY <1>4, WithoutBetween
<1>9. \A k : /\ k \in Below(span[c], x) <=> k \in S /\ Between(q, i - 1, k)
             /\ k \in Above(span[c], x) <=> k \in S /\ Between(q, i, k)
  <2>1. Around(q, S, i) = span[c]
    BY <1>8 DEF Around
  <2> QED BY <1>1, <1>2, <1>7, <2>1, AroundBetween DEF z
<1>10. ASSUME NEW j \in 0..(z - 1), NEW k
       PROVE  k \in span2[q.pids[j]] <=> k \in S /\ Between(q, j, k)
  <2>1. CASE j = i - 1
    <3>1. q.pids[j] = c
      BY <1>1, <1>3, <2>1
    <3> QED BY <1>9, <2>1, <3>1
  <2>2. CASE j = i
    BY <1>9, <2>2
  <2>3. ASSUME NEW m \in 0..(z - 2), m # i - 1 PROVE span2[p.pids[m]] = span[p.pids[m]]
    <3>1. p.pids[m] # c /\ p.pids[m] \in Kids(p)
      BY <1>1, <1>4, <2>3 DEF OneSlotEach, Kids
    <3> QED BY <3>1
  <2>4. \A m \in 0..(z - 2) : k \in span[p.pids[m]] <=> k \in S /\ Between(p, m, k)
    BY <1>1 DEF InOrder, Parted
  <2>5. /\ \A m \in 0..(i - 2) : Between(p, m, k) <=> Between(q, m, k)
        /\ \A m \in i..(z - 2) : Between(p, m, k) <=> Between(q, m + 1, k)
    BY WithoutBetween DEF z
  <2>6. CASE j < i - 1
    <3>1. j \in 0..(i - 2) /\ j \in 0..(z - 2) /\ j # i - 1 /\ j # i /\ ~(j > i)
      BY <1>1, <2>6
    <3>2. q.pids[j] = p.pids[j]
      BY <1>3, <3>1
    <3> QED BY <2>3, <2>4, <2>5, <3>1, <3>2
  <2>7. CASE j > i
    <3>1. j - 1 \in i..(z - 2) /\ j - 1 \in 0..(z - 2) /\ j - 1 # i - 1 /\ j # i /\ (j - 1) + 1 = j
      BY <1>1, <2>7
    <3>2. q.pids[j] = p.pids[j - 1]
      BY <1>3, <2>7, <3>1
    <3> QED BY <2>3, <2>4, <2>5, <3>1, <3>2
  <2> QED BY <1>1, <2>1, <2>2, <2>6, <2>7
<1>11. Parted(q, S, span2)
  BY <1>10 DEF Parted, z
<1> QED
  BY <1>2, <1>7, <1>11 DEF InOrder

\* A key a page may hold is in it, or belongs to the child the search leads to,
\* and to that one only.
LEMMA ChildPlace ==
  ASSUME NEW C, NEW p \in InnerOver(C), p.size >= 1, NEW S, NEW span, InOrder(p, S, span),
         NEW k \in S, NEW i, i = InnerSearch(p, k)
  PROVE  /\ i \in 1..p.size /\ i - 1 \in 0..(p.size - 1)
         /\ ~InnerHolds(p, k) => k \in span[p.pids[i - 1]]
         /\ \A j \in 0..(p.size - 1) : k \in span[p.pids[j]] => j = i - 1 /\ ~InnerHolds(p, k)
         /\ InnerHolds(p, k) => i \in 1..(p.size - 1) /\ p.slots[i][1] = k
<1> DEFINE n == p.size
<1>1. p.kind = "inner" /\ n \in Nat /\ First(p) = 1 /\ AllInts(S) /\ Sorted(p, S) /\ k \in Int
  BY InnerFields DEF First, InOrder, AllInts
<1>2. /\ i \in 1..n
      /\ \A j \in 1..(i - 1) : p.slots[j][1] < k
      /\ \A j \in i..(n - 1) : p.slots[j][1] >= k
      /\ InnerHolds(p, k) <=> i < n /\ p.slots[i][1] = k
  BY <1>1, InnerSearchPlace
<1>3. /\ \A j \in 1..(n - 1) : p.slots[j][1] \in Int
      /\ \A j, m \in 1..(n - 1) : j < m => p.slots[j][1] < p.slots[m][1]
  BY <1>1 DEF Sorted, Places, AllInts
<1>4. \A j \in 0..(n - 1) : k \in span[p.pids[j]] <=> Between(p, j, k)
  BY <1>1 DEF InOrder, Parted
<1>5. \A j \in 0..(n - 1) : Between(p, j, k) <=> (j > 0 => p.slots[j][1] < k) /\ (j < n - 1 => k < p.slots[j + 1][1])
  BY DEF Between
<1> HIDE DEF n
<1>6. i - 1 \in 0..(n - 1) /\ i \in Nat /\ i >= 1 /\ i <= n /\ i - 1 < n
  BY <1>1, <1>2
<1>7. ASSUME ~InnerHolds(p, k) PROVE Between(p, i - 1, k)
  <2>1. i - 1 > 0 => p.slots[i - 1][1] < k
    BY <1>2, <1>6
  <2>2. i - 1 < n - 1 => k < p.slots[(i - 1) + 1][1]
    <3> SUFFICES ASSUME i < n PROVE k < p.slots[i][1]
      BY <1>1, <1>6
    <3>1. i \in i..(n - 1) /\ i \in 1..(n - 1)
      BY <1>1, <1>6
    <3> QED BY <1>1, <1>2, <1>3, <1>7, <3>1
  <2> QED BY <1>5, <1>6, <2>1, <2>2
<1>8. ASSUME NEW j \in 0..(n - 1), Between(p, j, k) PROVE j = i - 1 /\ ~InnerHolds(p, k)
  <2>1. (j > 0 => p.slots[j][1] < k) /\ (j < n - 1 => k < p.slots[j + 1][1])
    BY <1>5, <1>8
  <2>2. ~(j >= i)
    <3> SUFFICES ASSUME j >= i PROVE FALSE
      OBVIOUS
    <3>1. j > 0 /\ j \in i..(n - 1) /\ j \in 1..(n - 1)
      BY <1>1, <1>6
    <3> QED BY <1>1, <1>2, <1>3, <2>1, <3>1
  <2>3. ~(j < i - 1)
    <3> SUFFICES ASSUME j < i - 1 PROVE FALSE
      OBVIOUS
    <3>1. j < n - 1 /\ j + 1 \in 1..(i - 1) /\ j + 1 \in 1..(n - 1)
      BY <1>1, <1>6
    <3> QED BY <1>1, <1>2, <1>3, <2>1, <3>1
  <2>4. j = i - 1
    BY <1>6, <2>2, <2>3
  <2>5. ~InnerHolds(p, k)
    <3> SUFFICES ASSUME i < n, p.slots[i][1] = k PROVE FALSE
      BY <1>2
    <3>1. j < n - 1 /\ j + 1 = i
      BY <1>1, <1>6, <2>4
    <3> QED BY <1>1, <2>1, <3>1
  <2> QED BY <2>4, <2>5
<1> QED
  <2>1. i - 1 \in 0..(n - 1)
    BY <1>6
  <2>2. InnerHolds(p, k) => i \in 1..(n - 1) /\ p.slots[i][1] = k
    BY <1>1, <1>2, <1>6
  <2> QED BY <1>2, <1>4, <1>7, <1>8, <2>1, <2>2 DEF n

\* A merged child is dropped together with the entry left of it.
LEMMA ParentDrop ==
  ASSUME NEW C, NEW p \in InnerOver(C), p.size >= 2, OneSlotEach(p), NEW S, NEW span, InOrder(p, S, span),
         NEW i \in 1..(p.size - 1), NEW span2, span2[p.pids[i - 1]] = Around(p, S, i),
         \A c \in Kids(p) : c # p.pids[i - 1] /\ c # p.pids[i] => span2[c] = span[c]
  PROVE  InOrder(InnerDrop(p, i), S, span2) /\ Live(InnerDrop(p, i)) = Live(p) \ {p.slots[i]}
<1>1. p.size >= 1 /\ i \in Nat /\ i \in 0..(p.size - 1) /\ p.size \in Nat /\ p.kind = "inner"
  BY InnerFields
<1>2. \A j \in 0..(p.size - 2) :
           /\ InnerDrop(p, i).pids[j] = IF j >= i THEN p.pids[j + 1] ELSE p.pids[j]
           /\ InnerDrop(p, i).slots[j] = IF j >= i THEN p.slots[j + 1] ELSE p.slots[j]
  BY <1>1, InnerDropSlots
<1>3. InnerDrop(p, i).kind = "inner" /\ InnerDrop(p, i).size = p.size - 1
  BY <1>1, InnerDropType, InnerFields
<1>4. Without(p, i, InnerDrop(p, i))
  BY <1>1, <1>2, <1>3 DEF Without
<1> QED
  BY <1>4, WithoutOrder

\* The entry and the new child of a split are put right of the child that split.
LEMMA ParentPlace ==
  ASSUME NEW C, NEW p \in InnerOver(C), p.size >= 1, p.size < InnerMax, OneSlotEach(p),
         NEW S, NEW span, InOrder(p, S, span), NEW e \in Entries, NEW n \in C, n \notin Kids(p),
         NEW c \in Kids(p), e[1] \in span[c],
         NEW span2, span2[c] = Below(span[c], e[1]), span2[n] = Above(span[c], e[1]),
         \A b \in Kids(p) : b # c => span2[b] = span[b]
  PROVE  InOrder(InnerPlace(p, e, n), S, span2) /\ Live(InnerPlace(p, e, n)) = Live(p) \cup {e}
<1> DEFINE i == InnerSearch(p, e[1])
           q == InnerPlace(p, e, n)
<1>1. p.kind = "inner" /\ p.size \in Nat
  BY InnerFields
<1>2. PICK j \in 0..(p.size - 1) : c = p.pids[j]
  BY <1>1 DEF Kids
<1>3. e[1] \in S
  BY <1>1, <1>2 DEF InOrder, Parted
<1>4. i \in 1..p.size /\ c = p.pids[i - 1] /\ i - 1 \in 0..(p.size - 1)
  BY <1>2, <1>3, ChildPlace
<1>5. \A m \in 0..p.size :
           /\ q.pids[m] = IF m = i THEN n ELSE IF m > i THEN p.pids[m - 1] ELSE p.pids[m]
           /\ q.slots[m] = IF m = i THEN e ELSE IF m > i THEN p.slots[m - 1] ELSE p.slots[m]
  BY InnerPlaceSlots
<1>6. q.kind = "inner" /\ q.size = p.size + 1
  BY InnerPlaceType, InnerFields
<1> HIDE DEF i, q
<1>7. q.slots[i] = e /\ q.pids[i] = n /\ i \in 1..(q.size - 1)
  BY <1>1, <1>4, <1>5, <1>6
<1>8. Without(q, i, p)
  <2>1. ASSUME NEW m \in 1..(q.size - 2) PROVE p.slots[m] = IF m >= i THEN q.slots[m + 1] ELSE q.slots[m]
    <3>1. m + 1 \in 0..p.size /\ m \in 0..p.size /\ (m >= i => m + 1 > i /\ m + 1 # i) /\ (m + 1) - 1 = m /\ i \in Nat
      BY <1>1, <1>4, <1>6
    <3>2. CASE m >= i
      BY <1>5, <3>1, <3>2
    <3>3. CASE ~(m >= i)
      BY <1>5, <3>1, <3>3
    <3> QED BY <3>2, <3>3
  <2>2. ASSUME NEW m \in 0..(q.size - 2) PROVE p.pids[m] = IF m >= i THEN q.pids[m + 1] ELSE q.pids[m]
    <3>1. m + 1 \in 0..p.size /\ m \in 0..p.size /\ (m >= i => m + 1 > i /\ m + 1 # i) /\ (m + 1) - 1 = m /\ i \in Nat
      BY <1>1, <1>4, <1>6
    <3>2. CASE m >= i
      BY <1>5, <3>1, <3>2
    <3>3. CASE ~(m >= i)
      BY <1>5, <3>1, <3>3
    <3> QED BY <3>2, <3>3
  <2>3. q.size \in Nat /\ p.size = q.size - 1
    BY <1>1, <1>6
  <2> QED BY <1>1, <1>6, <2>1, <2>2, <2>3 DEF Without
<1>9. InOrder(q, S, span2) /\ Live(q) = Live(p) \cup {q.slots[i]}
  BY <1>4, <1>7, <1>8, WithOrder
<1> QED
  BY <1>7, <1>9 DEF q

\* A new key is put into a leaf.
LEMMA LeafPlaceOrder ==
  ASSUME NEW p \in LeafPages, p.size < LeafMax, NEW S, NEW span, InOrder(p, S, span),
         NEW e \in Entries, e[1] \in S, ~LeafHolds(p, e[1])
  PROVE  InOrder(LeafPlace(p, e), S, span) /\ Live(LeafPlace(p, e)) = Live(p) \cup {e}
<1> DEFINE m == LeafSearch(p, e[1])
           q == LeafPlace(p, e)
<1>1. p.kind = "leaf" /\ p.size \in Nat /\ First(p) = 0 /\ AllInts(S) /\ Sorted(p, S) /\ e[1] \in Int
  BY LeafFields DEF First, InOrder, AllInts
<1>2. /\ m \in 0..p.size
      /\ \A i \in 0..(m - 1) : p.slots[i][1] < e[1]
      /\ \A i \in m..(p.size - 1) : p.slots[i][1] >= e[1]
      /\ LeafHolds(p, e[1]) <=> m < p.size /\ p.slots[m][1] = e[1]
  BY <1>1, LeafSearchPlace
<1>3. \A j \in 0..p.size : q.slots[j] = IF j = m THEN e ELSE IF j > m THEN p.slots[j - 1] ELSE p.slots[j]
  BY LeafEditSlots
<1>4. q.kind = "leaf" /\ q.size = p.size + 1
  BY LeafPlaceType, LeafFields
<1> HIDE DEF m, q
<1>5. ASSUME NEW i \in m..(p.size - 1) PROVE p.slots[i][1] > e[1]
  <2>1. m \in 0..(p.size - 1) /\ i \in 0..(p.size - 1) /\ m < p.size /\ (m = i \/ m < i)
    BY <1>1, <1>2
  <2>2. /\ p.slots[i][1] \in Int /\ p.slots[m][1] \in Int /\ p.slots[m][1] # e[1] /\ p.slots[m][1] >= e[1]
        /\ m < i => p.slots[m][1] < p.slots[i][1]
    <3>1. \A j \in 0..(p.size - 1) : p.slots[j][1] \in Int
      BY <1>1 DEF Sorted, Places, AllInts
    <3>2. \A j, l \in 0..(p.size - 1) : j < l => p.slots[j][1] < p.slots[l][1]
      BY <1>1 DEF Sorted, Places
    <3>3. m \in m..(p.size - 1)
      BY <2>1
    <3> QED BY <1>2, <2>1, <3>1, <3>2, <3>3
  <2> QED BY <1>1, <2>1, <2>2
<1>6. Inserted(p, m, e, q)
  BY <1>1, <1>2, <1>3, <1>4 DEF Inserted
<1>7. Sorted(q, S) /\ Live(q) = Live(p) \cup {e}
  BY <1>1, <1>2, <1>5, <1>6, SortedInsert
<1> QED
  BY <1>1, <1>4, <1>7 DEF InOrder, Parted, q

\* A key is taken out of a leaf.
LEMMA LeafEraseOrder ==
  ASSUME NEW p \in LeafPages, NEW k \in Int, LeafHolds(p, k), NEW S, NEW span, InOrder(p, S, span)
  PROVE  /\ k \in S /\ p.slots[LeafSearch(p, k)][1] = k /\ p.slots[LeafSearch(p, k)] \in Live(p)
         /\ Sorted(LeafErase(p, k), S \ {k}) /\ InOrder(LeafErase(p, k), S, span)
         /\ Live(LeafErase(p, k)) = Live(p) \ {p.slots[LeafSearch(p, k)]}
<1> DEFINE m == LeafSearch(p, k)
           q == LeafErase(p, k)
<1>1. p.kind = "leaf" /\ p.size \in Nat /\ First(p) = 0 /\ AllInts(S) /\ Sorted(p, S)
  BY LeafFields DEF First, InOrder
<1>2. m \in 0..p.size /\ m < p.size /\ p.slots[m][1] = k
  BY <1>1, LeafSearchPlace
<1>3. \A j \in 0..(p.size - 2) : q.slots[j] = IF j >= m THEN p.slots[j + 1] ELSE p.slots[j]
  BY LeafEditSlots, ZeroEntryType
<1>4. q.kind = "leaf" /\ q.size = p.size - 1
  BY LeafEraseType, LeafFields
<1> HIDE DEF m, q
<1>5. m \in 0..(p.size - 1)
  BY <1>1, <1>2
<1>6. Deleted(p, m, q)
  BY <1>1, <1>3, <1>4, <1>5 DEF Deleted
<1>7. Sorted(q, S \ {k}) /\ Live(q) = Live(p) \ {p.slots[m]}
  BY <1>1, <1>2, <1>6, SortedDelete
<1>8. k \in S /\ p.slots[m] \in Live(p)
  BY <1>1, <1>2, <1>5 DEF Sorted, Places, Live
<1>9. InOrder(q, S, span)
  <2>1. Sorted(q, S)
    BY <1>7, SortedWider
  <2> QED BY <1>1, <1>4, <2>1 DEF InOrder, Parted
<1> QED
  BY <1>2, <1>7, <1>8, <1>9 DEF m, q

-----------------------------------------------------------------------------
\* The pages of a tree

\* span says which keys each page may hold; the pages in T keep to it.
Ordered(h, T, span) == \A p \in T : InOrder(h[p], span[p], span)

\* l and r share the keys in U, those left and those right of x.
SharedOut(span, T, l, r, U, x) ==
  [p \in T \cup {r} |->
     IF p = l THEN Below(U, x) ELSE IF p = r THEN Above(U, x) ELSE span[p]]

\* The children of the two parts are those of the page.
LEMMA GluedKids ==
  ASSUME NEW q, NEW l, NEW e, NEW r, Glued(q, l, e, r)
  PROVE  Kids(q) = Kids(l) \cup Kids(r)
<1>1. CASE q.kind = "leaf"
  BY <1>1 DEF Glued, Kids
<1>2. CASE q.kind # "leaf"
  <2> DEFINE n == l.size
             m == r.size
  <2>1. /\ First(q) = 1 /\ n \in Nat /\ m \in Nat /\ q.size = n + m /\ n >= 1 /\ m >= 1
        /\ l.kind # "leaf" /\ r.kind # "leaf"
        /\ \A j \in 0..(n - 1) : q.pids[j] = l.pids[j]
        /\ \A j \in 0..(m - 1) : q.pids[n + j] = r.pids[j]
    BY <1>2 DEF Glued, First
  <2>2. /\ Kids(q) = {q.pids[j] : j \in 0..(n + m - 1)}
        /\ Kids(l) = {l.pids[j] : j \in 0..(n - 1)} /\ Kids(r) = {r.pids[j] : j \in 0..(m - 1)}
    BY <1>2, <2>1 DEF Kids
  <2> HIDE DEF n, m
  <2>3. \A j \in 0..(n - 1) : j \in 0..(n + m - 1)
    BY <2>1
  <2>4. \A j \in 0..(m - 1) : n + j \in 0..(n + m - 1)
    BY <2>1
  <2>5. ASSUME NEW j \in 0..(n + m - 1) PROVE q.pids[j] \in Kids(l) \cup Kids(r)
    <3>1. CASE j < n
      <4>1. j \in 0..(n - 1)
        BY <2>1, <3>1
      <4> QED BY <2>1, <2>2, <4>1
    <3>2. CASE j >= n
      <4>1. j - n \in 0..(m - 1) /\ n + (j - n) = j
        BY <2>1, <3>2
      <4>2. q.pids[j] = r.pids[j - n]
        BY <2>1, <4>1
      <4> QED BY <2>2, <4>1, <4>2
    <3> QED BY <2>1, <3>1, <3>2
  <2>6. \A c \in Kids(l) : c \in Kids(q)
    <3>1. \A j \in 0..(n - 1) : l.pids[j] \in Kids(q)
      BY <2>1, <2>2, <2>3
    <3> QED BY <2>2, <3>1
  <2>7. \A c \in Kids(r) : c \in Kids(q)
    <3>1. \A j \in 0..(m - 1) : r.pids[j] \in Kids(q)
      BY <2>1, <2>2, <2>4
    <3> QED BY <2>2, <3>1
  <2>8. \A c \in Kids(q) : c \in Kids(l) \cup Kids(r)
    BY <2>2, <2>5
  <2> QED BY <2>6, <2>7, <2>8
<1> QED
  BY <1>1, <1>2

\* No page of T has a child outside T.
Whole(h, T) == \A p \in T : \A k \in Kids(h[p]) : k \in T

\* Page c of T is split into l and u, which is the new page n: the two share what
\* it could hold.
SplitUp(G, T, span, c, n, l, e, u, sp) ==
  /\ Ordered(G, T, span) /\ Whole(G, T) /\ c \in T /\ c \notin Kids(G[c]) /\ n \notin T
  /\ Glued(G[c], l, e, u)
  /\ sp = SharedOut(span, T, c, n, span[c], e[1])

\* The two parts are in order, and so is every page that is not above them.
LEMMA SplitOrdered ==
  ASSUME NEW G, NEW T, NEW span, NEW c, NEW n, NEW l, NEW e, NEW u, NEW sp,
         SplitUp(G, T, span, c, n, l, e, u, sp)
  PROVE  /\ e[1] \in span[c] /\ sp[c] = Below(span[c], e[1]) /\ sp[n] = Above(span[c], e[1])
         /\ \A p \in T : p # c => sp[p] = span[p]
         /\ InOrder(l, sp[c], sp) /\ InOrder(u, sp[n], sp)
         /\ \A p \in T : p # c /\ c \notin Kids(G[p]) => InOrder(G[p], sp[p], sp)
<1>1. /\ sp[c] = Below(span[c], e[1]) /\ sp[n] = Above(span[c], e[1])
      /\ \A p \in T : p # c => sp[p] = span[p]
  BY DEF SharedOut, SplitUp
<1>2. InOrder(G[c], span[c], span)
  BY DEF Ordered, SplitUp
<1>3. e[1] \in span[c] /\ InOrder(l, sp[c], span) /\ InOrder(u, sp[n], span)
  BY <1>1, <1>2, GluedSplit DEF SplitUp
<1>4. \A k \in Kids(l) \cup Kids(u) : sp[k] = span[k]
  BY <1>1, GluedKids DEF Whole, SplitUp
<1>5. InOrder(l, sp[c], sp) /\ InOrder(u, sp[n], sp)
  BY <1>3, <1>4, InOrderSame
<1>6. ASSUME NEW p \in T, p # c, c \notin Kids(G[p]) PROVE InOrder(G[p], sp[p], sp)
  <2>1. InOrder(G[p], sp[p], span)
    BY <1>1, <1>6 DEF Ordered, SplitUp
  <2>2. \A k \in Kids(G[p]) : sp[k] = span[k]
    BY <1>1, <1>6 DEF Whole, SplitUp
  <2> QED BY <2>1, <2>2, InOrderSame
<1> QED
  BY <1>1, <1>3, <1>5, <1>6

\* What two neighbours may hold together.
LEMMA PairOrdered ==
  ASSUME NEW G, NEW R, NEW T, NEW lev, Forest(G, R, T, lev), NEW span, Ordered(G, T, span),
         NEW C, NEW par \in T, G[par] \in InnerOver(C), NEW i \in 1..(G[par].size - 1),
         NEW l, l = G[par].pids[i - 1], NEW r, r = G[par].pids[i],
         NEW q, Glued(q, G[l], G[par].slots[i], G[r]), NEW U, U = Around(G[par], span[par], i)
  PROVE  /\ InOrder(q, U, span) /\ span[l] = Below(U, G[par].slots[i][1]) /\ span[r] = Above(U, G[par].slots[i][1])
         /\ l \in T /\ r \in T /\ l # r /\ l # par /\ r # par /\ l \notin R /\ r \notin R
         /\ l \in Kids(G[par]) /\ r \in Kids(G[par])
         /\ \A k \in Kids(q) : k \in T /\ k # l /\ k # r
         /\ \A p \in T \ {par} : \A k \in Kids(G[p]) : k \in T /\ k # l /\ k # r
         /\ \A k \in Kids(G[par]) : k \in T
         /\ G[par].kind = "inner" /\ OneSlotEach(G[par]) /\ InOrder(G[par], span[par], span)
<1>1. G[par].kind = "inner" /\ G[par].size \in Nat /\ InOrder(G[par], span[par], span) /\ OneSlotEach(G[par])
  BY InnerFields DEF Ordered, Forest
<1>2. i - 1 \in 0..(G[par].size - 1) /\ i \in 0..(G[par].size - 1) /\ i - 1 # i
  BY <1>1
<1>3. l \in Kids(G[par]) /\ r \in Kids(G[par]) /\ l # r
  BY <1>1, <1>2 DEF Kids, OneSlotEach
<1>4. /\ l \in T /\ r \in T /\ l # par /\ r # par /\ l \notin R /\ r \notin R
      /\ lev[par] = lev[l] + 1 /\ lev[par] = lev[r] + 1 /\ lev[l] \in Nat /\ lev[r] \in Nat
  BY <1>3 DEF Forest
<1>5. ASSUME NEW k \in Kids(G[l]) \cup Kids(G[r]) PROVE k \in T /\ k # l /\ k # r
  <2>1. k \in T /\ (lev[l] = lev[k] + 1 \/ lev[r] = lev[k] + 1) /\ lev[k] \in Nat
    BY <1>4 DEF Forest
  <2> QED BY <1>4, <2>1
<1>6. \A k \in Kids(q) : k \in T /\ k # l /\ k # r
  BY <1>5, GluedKids
<1>7. /\ \A p \in T \ {par} : \A k \in Kids(G[p]) : k \in T /\ k # l /\ k # r
      /\ \A k \in Kids(G[par]) : k \in T
  BY <1>3 DEF Forest
<1> DEFINE x == G[par].slots[i][1]
<1>8. x \in U /\ AllInts(U) /\ span[l] = Below(U, x) /\ span[r] = Above(U, x)
  BY <1>1, AroundSlot
<1>9. InOrder(G[l], Below(U, x), span) /\ InOrder(G[r], Above(U, x), span)
  BY <1>4, <1>8 DEF Ordered
<1>10. InOrder(q, U, span)
  BY <1>8, <1>9, GluedJoin
<1> QED
  BY <1>1, <1>3, <1>4, <1>6, <1>7, <1>8, <1>10

\* An entry moves between neighbours: they share that in another way.
LEMMA BorrowOrdered ==
  ASSUME NEW G, NEW R, NEW T, NEW lev, Forest(G, R, T, lev), NEW span, Ordered(G, T, span),
         NEW C, NEW par \in T, G[par] \in InnerOver(C), NEW i \in 1..(G[par].size - 1),
         NEW l, l = G[par].pids[i - 1], NEW r, r = G[par].pids[i],
         NEW q, Glued(q, G[l], G[par].slots[i], G[r]),
         NEW l2, NEW e \in Entries, NEW r2, Glued(q, l2, e, r2),
         NEW G2, G2[l] = l2, G2[r] = r2, G2[par] = InnerSetEntry(G[par], i, e),
         \A p \in T \ {l, r, par} : G2[p] = G[p]
  PROVE  \E sp : Ordered(G2, T, sp) /\ \A p \in R : sp[p] = span[p]
<1> DEFINE U == Around(G[par], span[par], i)
           sp == SharedOut(span, T, l, r, U, e[1])
<1>4. U = Around(G[par], span[par], i)
  OBVIOUS
<1> HIDE DEF U, sp
<1>1. /\ InOrder(q, U, span)
      /\ l \in T /\ r \in T /\ l # r /\ l # par /\ r # par /\ l \notin R /\ r \notin R
      /\ l \in Kids(G[par]) /\ r \in Kids(G[par])
      /\ \A k \in Kids(q) : k \in T /\ k # l /\ k # r
      /\ \A p \in T \ {par} : \A k \in Kids(G[p]) : k \in T /\ k # l /\ k # r
      /\ \A k \in Kids(G[par]) : k \in T
      /\ G[par].kind = "inner" /\ OneSlotEach(G[par]) /\ InOrder(G[par], span[par], span)
  BY <1>4, PairOrdered
<1>2. /\ sp[l] = Below(U, e[1]) /\ sp[r] = Above(U, e[1])
      /\ \A p \in T : p # l /\ p # r => sp[p] = span[p]
  BY <1>1 DEF SharedOut, sp
<1>3. R \subseteq T
  BY DEF Forest
<1>5. /\ e[1] \in U /\ InOrder(l2, Below(U, e[1]), span) /\ InOrder(r2, Above(U, e[1]), span)
  BY <1>1, GluedSplit
<1>6. InOrder(l2, sp[l], sp) /\ InOrder(r2, sp[r], sp)
  <2>1. \A k \in Kids(l2) \cup Kids(r2) : sp[k] = span[k]
    BY <1>1, <1>2, GluedKids
  <2> QED BY <1>2, <1>5, <2>1, InOrderSame
<1>7. InOrder(G2[par], sp[par], sp)
  <2>1. \A c \in Kids(G[par]) : c # G[par].pids[i - 1] /\ c # G[par].pids[i] => sp[c] = span[c]
    BY <1>1, <1>2
  <2>2. sp[G[par].pids[i - 1]] = Below(U, e[1]) /\ sp[G[par].pids[i]] = Above(U, e[1])
    BY <1>2
  <2>3. InOrder(InnerSetEntry(G[par], i, e), span[par], sp)
    BY <1>1, <1>4, <1>5, <2>1, <2>2, ParentSet
  <2> QED BY <1>1, <1>2, <2>3
<1>8. ASSUME NEW p \in T \ {l, r, par} PROVE InOrder(G2[p], sp[p], sp)
  <2>1. InOrder(G[p], span[p], span) /\ \A k \in Kids(G[p]) : sp[k] = span[k]
    BY <1>1, <1>2 DEF Ordered
  <2> QED BY <1>2, <2>1, InOrderSame
<1>9. Ordered(G2, T, sp)
  BY <1>6, <1>7, <1>8 DEF Ordered
<1>10. \A p \in R : sp[p] = span[p]
  BY <1>1, <1>2, <1>3
<1> QED
  BY <1>9, <1>10

\* Neighbours are merged: the left one may hold it all.  Nothing is said of the
\* page that is no longer in the tree, but that it is as it was.
LEMMA MergeOrdered ==
  ASSUME NEW G, NEW R, NEW T, NEW lev, Forest(G, R, T, lev), NEW span, Ordered(G, T, span),
         NEW C, NEW par \in T, G[par] \in InnerOver(C), NEW i \in 1..(G[par].size - 1),
         NEW l, l = G[par].pids[i - 1], NEW r, r = G[par].pids[i],
         NEW q, Glued(q, G[l], G[par].slots[i], G[r]),
         NEW G2, G2[l] = q, G2[par] = InnerDrop(G[par], i),
         \A p \in T \ {l, par} : G2[p] = G[p]
  PROVE  \E sp : Ordered(G2, T, sp) /\ \A p \in R : sp[p] = span[p]
<1> DEFINE U == Around(G[par], span[par], i)
           sp == [p \in T |-> IF p = l THEN U ELSE span[p]]
<1>4. U = Around(G[par], span[par], i)
  OBVIOUS
<1> HIDE DEF U
<1>1. /\ InOrder(q, U, span)
      /\ l \in T /\ r \in T /\ l # r /\ l # par /\ r # par /\ l \notin R /\ r \notin R
      /\ l \in Kids(G[par]) /\ r \in Kids(G[par])
      /\ \A k \in Kids(q) : k \in T /\ k # l /\ k # r
      /\ \A p \in T \ {par} : \A k \in Kids(G[p]) : k \in T /\ k # l /\ k # r
      /\ \A k \in Kids(G[par]) : k \in T
      /\ G[par].kind = "inner" /\ OneSlotEach(G[par]) /\ InOrder(G[par], span[par], span)
  BY <1>4, PairOrdered
<1>2. sp[l] = U /\ \A p \in T : p # l => sp[p] = span[p]
  BY <1>1
<1>3. R \subseteq T
  BY DEF Forest
<1> HIDE DEF sp
<1>5. InOrder(G2[l], sp[l], sp)
  <2>1. \A k \in Kids(q) : sp[k] = span[k]
    BY <1>1, <1>2
  <2> QED BY <1>1, <1>2, <2>1, InOrderSame
<1>6. InOrder(G2[par], sp[par], sp)
  <2>1. \A c \in Kids(G[par]) : c # G[par].pids[i - 1] /\ c # G[par].pids[i] => sp[c] = span[c]
    BY <1>1, <1>2
  <2>2. sp[G[par].pids[i - 1]] = Around(G[par], span[par], i)
    BY <1>2, <1>4
  <2>3. G[par].size >= 2
    BY InnerFields
  <2>4. InOrder(InnerDrop(G[par], i), span[par], sp)
    BY <1>1, <2>1, <2>2, <2>3, ParentDrop
  <2> QED BY <1>1, <1>2, <2>4
<1>7. ASSUME NEW p \in T \ {l, par} PROVE InOrder(G2[p], sp[p], sp)
  <2>1. InOrder(G[p], span[p], span) /\ \A k \in Kids(G[p]) : sp[k] = span[k]
    BY <1>1, <1>2 DEF Ordered
  <2> QED BY <1>2, <2>1, InOrderSame
<1>8. Ordered(G2, T, sp)
  BY <1>5, <1>6, <1>7 DEF Ordered
<1>9. \A p \in R : sp[p] = span[p]
  BY <1>1, <1>2, <1>3
<1> QED
  BY <1>8, <1>9

-----------------------------------------------------------------------------
\* The invariant

\* A Remove is on its way to the entry it has put in place of the one it was
\* called to remove.
Moved == pc = "down" /\ call.op = "Remove" /\ key # call.key

\* The pages as they are once the step the call is about to make is done: an
\* entry that was moved up is still in its leaf, one that a split hands up is not
\* yet in the page above.
View ==
  IF Moved THEN [heap EXCEPT ![Cur] = LeafErase(@, key)]
  ELSE IF Splitting /\ path # <<>>
       THEN [heap EXCEPT ![Cur] = InnerPlace(@, split.elem, split.pid)]
       ELSE heap

\* The root may hold every key; the root and the page a split made of it share them.
RootSpan(span) ==
  IF Splitting /\ path = <<>>
  THEN /\ span[root] = Below(Int, split.elem[1]) /\ span[split.pid] = Above(Int, split.elem[1])
  ELSE span[root] = Int

\* The search is on its way to where its key belongs, or to the first entry of
\* the leaf next to the slot that has taken it.
SearchSpan(span) ==
  IF Moved
  THEN /\ IsLeaf(Cur) /\ LeafHolds(Page, key) /\ Len(path) > 1
       /\ \E i \in 1..(heap[Parent].size - 1) :
            heap[Parent].slots[i] = Page.slots[LeafSearch(Page, key)]
  ELSE key \in span[Cur]

\* T: the pages of the tree.  span: the keys of each.
OrderShape(T, span) ==
  /\ Ordered(View, T, span)
  /\ RootSpan(span)
  /\ pc = "down" => SearchSpan(span) /\ (call.op # "Remove" => key = call.key)

\* The order after a step, in the pages of T and in new ones.
StillOrdered(T) == \E S, sp : OrderShape(S, sp)' /\ T \cup (Pids' \ Pids) \subseteq S

\* The call ends.
LEMMA EndsOrdered ==
  ASSUME NEW r, Return(r), NEW T, NEW S, NEW sp, Ordered(heap', S, sp), sp[root'] = Int,
         T \cup (Pids' \ Pids) \subseteq S
  PROVE  StillOrdered(T)
<1>1. pc' = "idle"
  BY DEF Return
<1>2. View' = heap' /\ ~Splitting'
  BY <1>1 DEF View, Moved, Splitting
<1>3. OrderShape(S, sp)'
  BY <1>1, <1>2 DEF OrderShape, RootSpan
<1> QED
  BY <1>3 DEF StillOrdered

\* Going down, before and after an entry was moved up.
LEMMA DownOrder ==
  ASSUME IndInv, pc = "down", NEW T, NEW span, OrderShape(T, span)
  PROVE  /\ span[root] = Int /\ ~Splitting
         /\ ~Moved => View = heap /\ Ordered(heap, T, span) /\ key \in span[Cur]
         /\ call.op # "Remove" => ~Moved /\ key = call.key
         /\ ~IsLeaf(Cur) => ~Moved
         /\ Moved => /\ LeafHolds(Page, key) /\ IsLeaf(Cur) /\ Len(path) > 1
                     /\ View = [heap EXCEPT ![Cur] = Erased]
BY DEF OrderShape, View, Moved, Splitting, RootSpan, SearchSpan, Erased, Page

\* Going up after a merge, and between calls.
LEMMA RestOrder ==
  ASSUME IndInv, pc = "idle" \/ (pc = "up" /\ call.op = "Remove"), NEW T, NEW span, OrderShape(T, span)
  PROVE  Ordered(heap, T, span) /\ span[root] = Int
BY DEF OrderShape, View, Moved, Splitting, RootSpan

\* A call starts at the root, which may hold every key.
LEMMA InvokeOrder ==
  ASSUME IndInv, NEW T, NEW span, OrderShape(T, span), NEW c \in Calls, Invoke(c)
  PROVE  StillOrdered(T)
<1>1. /\ pc = "idle" /\ pc' = "down" /\ path' = <<root>> /\ call' = c /\ key' = c.key
      /\ heap' = heap /\ root' = root
  BY DEF Invoke
<1>2. Ordered(heap, T, span) /\ span[root] = Int
  BY <1>1, RestOrder
<1>3. View' = heap /\ ~Splitting' /\ ~Moved'
  BY <1>1 DEF View, Moved, Splitting
<1>4. Cur' = root /\ key' \in Int
  <2>1. key' \in Int
    BY <1>1, CallTypes, ParameterAssumption
  <2>2. Cur' = root
    BY <1>1 DEF Cur, Last
  <2> QED BY <2>1, <2>2
<1>5. SearchSpan(span)'
  BY <1>2, <1>3, <1>4 DEF SearchSpan
<1>6. RootSpan(span)'
  BY <1>1, <1>2, <1>3 DEF RootSpan
<1>7. OrderShape(T, span)'
  BY <1>1, <1>2, <1>3, <1>5, <1>6 DEF OrderShape
<1>8. T \cup (Pids' \ Pids) \subseteq T
  BY <1>1 DEF Pids
<1> QED
  BY <1>7, <1>8 DEF StillOrdered

\* The search goes to the child its key belongs to.
LEMMA GoDownOrder ==
  ASSUME IndInv, NEW T, NEW lev, TreeShape(T, lev), NEW span, OrderShape(T, span), GoDown
  PROVE  StillOrdered(T)
<1> DEFINE i == InnerSearch(Page, key)
           c == Page.pids[i - 1]
<1>1. /\ pc = "down" /\ path # <<>> /\ ~IsLeaf(Cur) /\ ~InnerHolds(Page, key) /\ path' = Append(path, c)
      /\ UNCHANGED <<heap, nextPid, root, pc, call, key, child, split, result>>
  BY HeapTypes DEF GoDown, InnerChild
<1>2. /\ span[root] = Int /\ ~Splitting /\ ~Moved /\ View = heap /\ Ordered(heap, T, span) /\ key \in span[Cur]
      /\ (call.op # "Remove" => key = call.key)
  BY <1>1, DownOrder
<1>3. Cur \in T /\ Page = heap[Cur] /\ Page \in InnerOver(Pids) /\ Page.size >= 1
  BY <1>1, CurPage, PathFacts
<1>4. InOrder(Page, span[Cur], span)
  BY <1>2, <1>3 DEF Ordered
<1>5. key \in span[c]
  BY <1>1, <1>2, <1>3, <1>4, ChildPlace
<1>6. Cur' = c
  <2>1. path \in Seq(Pids)
    BY HeapTypes
  <2> HIDE DEF c
  <2> QED BY <1>1, <2>1 DEF Cur, Last
<1>7. ~Moved' /\ ~Splitting' /\ View' = heap
  BY <1>1, <1>2 DEF Moved, Splitting, View
<1>8. SearchSpan(span)'
  BY <1>1, <1>5, <1>6, <1>7 DEF SearchSpan
<1>9. RootSpan(span)'
  BY <1>1, <1>2, <1>7 DEF RootSpan
<1>10. OrderShape(T, span)'
  BY <1>1, <1>2, <1>7, <1>8, <1>9 DEF OrderShape
<1>11. T \cup (Pids' \ Pids) \subseteq T
  BY <1>1 DEF Pids
<1> QED
  BY <1>10, <1>11 DEF StillOrdered

\* The steps that read, and end the call.
LEMMA ReadOrder ==
  ASSUME IndInv, pc = "down", ~Moved, NEW T, NEW span, OrderShape(T, span),
         NEW r, Return(r), UNCHANGED <<heap, root>>
  PROVE  StillOrdered(T)
<1>1. Ordered(heap', T, span) /\ span[root'] = Int
  BY DownOrder
<1>2. T \cup (Pids' \ Pids) \subseteq T
  BY DEF Pids
<1> QED
  BY <1>1, <1>2, EndsOrdered

\* The steps that write the current page, and end the call.
LEMMA WriteOrder ==
  ASSUME IndInv, pc = "down", NEW T, NEW span, OrderShape(T, span), T \subseteq Pids,
         NEW r, Return(r), root' = root, NEW q, heap' = [heap EXCEPT ![Cur] = q], Cur \in T,
         \A p \in T \ {Cur} : InOrder(heap[p], span[p], span), InOrder(q, span[Cur], span)
  PROVE  StillOrdered(T)
<1>1. span[root'] = Int
  BY DownOrder
<1>2. Pids' = Pids /\ \A p \in Pids : heap'[p] = IF p = Cur THEN q ELSE heap[p]
  BY HeapTypes DEF Pids
<1>3. Ordered(heap', T, span)
  BY <1>2 DEF Ordered
<1> QED
  BY <1>1, <1>2, <1>3, EndsOrdered

\* Get, Update, and the Inserts and Removes that change nothing.
LEMMA EndStepOrder ==
  ASSUME IndInv, NEW T, NEW lev, TreeShape(T, lev), NEW span, OrderShape(T, span),
         \/ GetAtInner \/ GetAtLeaf \/ UpdateAtInner \/ UpdateAtLeaf
         \/ InsertDuplicate \/ RemoveMiss
  PROVE  StillOrdered(T)
<1>1. pc = "down" /\ path # <<>>
  BY HeapTypes DEF GetAtInner, GetAtLeaf, UpdateAtInner, UpdateAtLeaf, InsertDuplicate, RemoveMiss,
                   AtInner, AtLeaf
<1>2. CASE GetAtInner \/ GetAtLeaf \/ InsertDuplicate \/ RemoveMiss
  <2>1. (\E r : Return(r)) /\ UNCHANGED <<heap, root>>
    BY <1>2 DEF GetAtInner, GetAtLeaf, InsertDuplicate, RemoveMiss
  <2>2. ~Moved
    BY <1>1, <1>2, DownOrder DEF GetAtInner, GetAtLeaf, InsertDuplicate, RemoveMiss, AtInner, AtLeaf, Moved
  <2> QED
    BY <1>1, <2>1, <2>2, ReadOrder
<1>3. ASSUME UpdateAtInner \/ UpdateAtLeaf
      PROVE  /\ Ordered(heap, T, span) /\ ~Moved /\ T \subseteq Pids /\ Cur \in T /\ Page = heap[Cur]
             /\ InOrder(Page, span[Cur], span) /\ call.val \in Vals /\ Return(Done) /\ root' = root
  <2>1. call.op = "Update" /\ Return(Done) /\ root' = root
    BY <1>3 DEF UpdateAtInner, UpdateAtLeaf, AtInner, AtLeaf
  <2>2. Cur \in T /\ T \subseteq Pids /\ Page = heap[Cur]
    BY <1>1, PathFacts, CurPage
  <2>3. Ordered(heap, T, span) /\ ~Moved /\ call.val \in Vals
    BY <1>1, <2>1, DownOrder, HeapTypes, CallTypes
  <2> QED BY <2>1, <2>2, <2>3 DEF Ordered
<1>4. CASE UpdateAtLeaf /\ ~LeafHolds(Page, key)
  <2>1. UNCHANGED <<heap, root>>
    BY <1>4 DEF UpdateAtLeaf
  <2> QED BY <1>1, <1>3, <1>4, <2>1, ReadOrder
<1>5. CASE UpdateAtLeaf /\ LeafHolds(Page, key)
  <2> DEFINE q == LeafAssign(Page, key, call.val)
             m == LeafSearch(Page, key)
  <2>1. heap' = [heap EXCEPT ![Cur] = q] /\ IsLeaf(Cur)
    BY <1>5 DEF UpdateAtLeaf, AtLeaf, Page
  <2>2. Page \in LeafPages /\ Page.size \in 0..(LeafMax - 1)
    BY <1>1, <2>1, CurPage
  <2>3. q \in LeafPages /\ q.size = Page.size /\ m \in LeafSlots
    BY <1>3, <1>5, <2>2, LeafAssignType, LeafSearchRange
  <2>4. q.kind = "leaf" /\ Page.kind = "leaf" /\ Page.size \in Nat /\ First(Page) = 0
    BY <2>2, <2>3, LeafFields DEF First
  <2>5. \A j \in 0..(Page.size - 1) : q.slots[j][1] = Page.slots[j][1]
    <3>1. Page.slots \in [LeafSlots -> Entries] /\ \A j \in 0..(Page.size - 1) : j \in LeafSlots
      BY <2>2, LeafFields, ParameterAssumption DEF LeafSlots
    <3>2. q.slots = [Page.slots EXCEPT ![m] = <<@[1], call.val>>]
      BY <2>2 DEF LeafAssign, LeafPages
    <3> HIDE DEF q, m
    <3> QED BY <2>3, <3>1, <3>2
  <2> HIDE DEF q, m
  <2>6. InOrder(q, span[Cur], span)
    BY <1>3, <1>5, <2>3, <2>4, <2>5, InOrderKeys
  <2> QED
    BY <1>1, <1>3, <1>5, <2>1, <2>6, WriteOrder DEF Ordered
<1>6. CASE UpdateAtInner
  <2> DEFINE q == InnerAssign(Page, key, call.val)
             m == InnerSearch(Page, key)
  <2>1. heap' = [heap EXCEPT ![Cur] = q] /\ ~IsLeaf(Cur) /\ InnerHolds(Page, key)
    BY <1>6 DEF UpdateAtInner, AtInner, Page
  <2>2. Page \in InnerOver(Pids) /\ Page.size >= 1
    BY <1>1, <2>1, CurPage
  <2>3. /\ q.kind = "inner" /\ q.size = Page.size /\ q.pids = Page.pids /\ m \in InnerSlots
        /\ Page.kind = "inner" /\ Page.size \in Nat /\ First(Page) = 1
    BY <2>1, <2>2, InnerSearchRange, InnerFields DEF InnerAssign, InnerOver, First
  <2>4. \A j \in 1..(Page.size - 1) : q.slots[j][1] = Page.slots[j][1]
    <3>1. Page.slots \in [InnerSlots -> Entries] /\ \A j \in 1..(Page.size - 1) : j \in InnerSlots
      BY <2>2, InnerFields, ParameterAssumption DEF InnerSlots
    <3>2. q.slots = [Page.slots EXCEPT ![m] = <<@[1], call.val>>]
      BY <2>2 DEF InnerAssign, InnerOver
    <3> HIDE DEF q, m
    <3> QED BY <2>3, <3>1, <3>2
  <2> HIDE DEF q, m
  <2>5. InOrder(q, span[Cur], span)
    BY <1>3, <1>6, <2>3, <2>4, InOrderKeys
  <2> QED
    BY <1>1, <1>3, <1>6, <2>1, <2>5, WriteOrder DEF Ordered
<1> QED
  BY <1>2, <1>4, <1>5, <1>6

\* A page splits: the middle entry and the new page are left to the frame below,
\* or to the new root.
LEMMA SplitReturns ==
  ASSUME IndInv, NEW T, NEW lev, TreeShape(T, lev), path # <<>>, call.op = "Insert",
         NEW G, NEW span, Ordered(G, T, span), span[root] = Int,
         \A p \in T \ {Cur} : G[p] = heap[p], \A k \in Kids(G[Cur]) : k \in T /\ k # Cur,
         NEW l, NEW e \in Entries, NEW u, Glued(G[Cur], l, e, u),
         NEW n, Pids' = Pids \cup {n}, n \notin Pids,
         heap'[Cur] = l, heap'[n] = u, \A p \in Pids \ {Cur} : heap'[p] = heap[p],
         ReturnTo(NoPid, [elem |-> e, pid |-> n])
  PROVE  StillOrdered(T)
<1> DEFINE S == T \cup {n}
<1>1. /\ pc' = "up" /\ path' = Front(path) /\ root' = root /\ call' = call
      /\ split'.elem = e /\ split'.pid = n
  BY DEF ReturnTo
<1>2. Splitting' /\ ~Moved'
  BY <1>1 DEF Splitting, Moved
<1>3. T \subseteq Pids /\ Cur \in T /\ root \in T /\ n \notin T /\ Len(path) \in Nat /\ Len(path) >= 1
  BY PathFacts, CurPage
<1>4. Forest(heap, Roots, T, lev) /\ root \in Roots
  BY DEF TreeShape, Roots
<1>5. Whole(G, T)
  BY <1>4 DEF Forest, Whole
<1>6. PICK sp : sp = SharedOut(span, T, Cur, n, span[Cur], e[1])
  OBVIOUS
<1>7. /\ e[1] \in span[Cur] /\ sp[Cur] = Below(span[Cur], e[1]) /\ sp[n] = Above(span[Cur], e[1])
      /\ \A p \in T : p # Cur => sp[p] = span[p]
      /\ InOrder(l, sp[Cur], sp) /\ InOrder(u, sp[n], sp)
      /\ \A p \in T : p # Cur /\ Cur \notin Kids(G[p]) => InOrder(G[p], sp[p], sp)
  <2>1. Cur \notin Kids(G[Cur]) /\ Glued(G[Cur], l, e, u)
    OBVIOUS
  <2>2. SplitUp(G, T, span, Cur, n, l, e, u, sp)
    BY <1>3, <1>5, <1>6, <2>1 DEF SplitUp
  <2> QED BY <2>2, SplitOrdered
<1>8. T \cup (Pids' \ Pids) \subseteq S
  OBVIOUS
<1>9. CASE Len(path) = 1
  <2>1. Cur = root
    BY <1>9, PathFacts
  <2>2. path' = <<>>
    <3>1. path' \in Seq(Pids) /\ Len(path') = 0
      BY <1>1, <1>9, FrontFacts, HeapTypes
    <3> QED BY <3>1
  <2>3. View' = heap'
    BY <1>2, <2>2 DEF View
  <2>4. ASSUME NEW p \in T, p # Cur PROVE InOrder(heap'[p], sp[p], sp)
    <3>1. Cur \notin Kids(G[p]) /\ heap'[p] = G[p]
      BY <1>3, <1>4, <2>1, <2>4 DEF Forest
    <3> QED BY <1>7, <2>4, <3>1
  <2>5. Ordered(heap', S, sp)
    BY <1>7, <2>4 DEF Ordered
  <2>6. RootSpan(sp)'
    BY <1>1, <1>2, <1>7, <2>1, <2>2 DEF RootSpan
  <2>7. OrderShape(S, sp)'
    BY <1>1, <2>3, <2>5, <2>6 DEF OrderShape
  <2> QED BY <1>8, <2>7 DEF StillOrdered
<1>10. CASE Len(path) > 1
  <2>1. /\ Parent \in T /\ Parent # Cur /\ Cur # root /\ Cur \in Kids(heap[Parent])
        /\ heap[Parent] \in InnerOver(Pids) /\ heap[Parent].size \in 1..(InnerMax - 1) /\ heap[Parent].size < InnerMax
        /\ heap[Parent].size >= 1
    BY <1>10, PathFacts, ParentPage, ParameterAssumption
  <2>2. path' # <<>> /\ Cur' = Parent
    BY <1>1, <1>10, FrontParent DEF Cur
  <2> DEFINE q == InnerPlace(heap[Parent], e, n)
  <2>3. View' = [heap' EXCEPT ![Parent] = q]
    <3>1. Parent \in Pids /\ heap'[Parent] = heap[Parent]
      BY <1>3, <2>1
    <3> QED BY <1>1, <1>2, <2>2, <3>1 DEF View
  <2>4. InOrder(q, sp[Parent], sp)
    <3>1. n \notin Kids(heap[Parent]) /\ OneSlotEach(heap[Parent])
      BY <1>3, <1>4, <2>1 DEF Forest
    <3>2. InOrder(heap[Parent], span[Parent], span)
      BY <2>1 DEF Ordered
    <3>3. \A b \in Kids(heap[Parent]) : b # Cur => sp[b] = span[b]
      BY <1>4, <1>7, <2>1 DEF Forest
    <3>4. heap[Parent] \in InnerOver(Pids') /\ n \in Pids'
      BY <2>1, InnerOverMonotone
    <3>5. InOrder(q, span[Parent], sp)
      BY <1>7, <2>1, <3>1, <3>2, <3>3, <3>4, ParentPlace
    <3> QED BY <1>7, <2>1, <3>5
  <2> HIDE DEF q
  <2>5. /\ \A p \in Pids' : View'[p] = IF p = Parent THEN q ELSE heap'[p]
        /\ Cur \in Pids' /\ n \in Pids' /\ n # Parent /\ n # Cur
    BY <1>3, <2>1, <2>3 DEF Pids
  <2>6. ASSUME NEW p \in T, p # Cur, p # Parent PROVE InOrder(View'[p], sp[p], sp)
    <3>1. Cur \notin Kids(G[p]) /\ View'[p] = G[p]
      BY <1>3, <1>4, <2>1, <2>5, <2>6 DEF Forest
    <3> QED BY <1>7, <2>6, <3>1
  <2>7. Ordered(View', S, sp)
    <3>1. View'[Parent] = q /\ View'[Cur] = l /\ View'[n] = u
      BY <1>3, <2>1, <2>5
    <3> QED BY <1>7, <2>4, <2>6, <3>1 DEF Ordered
  <2>8. RootSpan(sp)'
    BY <1>1, <1>3, <1>7, <2>1, <2>2 DEF RootSpan
  <2>9. OrderShape(S, sp)'
    BY <1>1, <2>7, <2>8 DEF OrderShape
  <2> QED BY <1>8, <2>9 DEF StillOrdered
<1> QED
  <2> DEFINE m == Len(path)
  <2>1. m \in Nat /\ m >= 1
    BY <1>3
  <2> HIDE DEF m
  <2>2. m = 1 \/ m > 1
    BY <2>1
  <2> QED BY <1>9, <1>10, <2>2 DEF m

\* Insert into a leaf the search of a new key ends in.
LEMMA LeafInsertOrder ==
  ASSUME IndInv, NEW T, NEW lev, TreeShape(T, lev), NEW span, OrderShape(T, span),
         LeafInsertFits \/ LeafInsertSplits, ~InsertsTwice
  PROVE  StillOrdered(T)
<1> DEFINE e == <<key, call.val>>
           leaf == LeafPlace(Page, e)
<1>1. pc = "down" /\ path # <<>> /\ IsLeaf(Cur) /\ call.op = "Insert" /\ call.val \in Vals
  BY HeapTypes, CallTypes DEF LeafInsertFits, LeafInsertSplits, AtLeaf
<1>2. /\ Cur \in Pids /\ Page \in LeafPages /\ Page.size \in 0..(LeafMax - 1) /\ Page = heap[Cur] 
      /\ Cur \in T /\ T \subseteq Pids /\ Page.size \in Nat
  BY <1>1, CurPage, PathFacts, LeafFields
<1>3. e \in Entries /\ Page.size < LeafMax
  BY <1>1, <1>2, HeapTypes, ParameterAssumption DEF Entries
<1>4. Ordered(heap, T, span) /\ span[root] = Int /\ e[1] \in span[Cur] /\ ~LeafHolds(Page, e[1])
  BY <1>1, DownOrder DEF InsertsTwice, AtLeaf
<1> HIDE DEF e
<1>5. InOrder(leaf, span[Cur], span) /\ leaf \in LeafPages /\ leaf.size = Page.size + 1
  BY <1>2, <1>3, <1>4, LeafPlaceOrder, LeafPlaceType DEF Ordered
<1>6. CASE LeafInsertFits
  <2>1. heap' = [heap EXCEPT ![Cur] = leaf] /\ Return(Done) /\ root' = root
    BY <1>6 DEF LeafInsertFits, Page, e
  <2> HIDE DEF leaf
  <2> QED BY <1>1, <1>2, <1>4, <1>5, <2>1, WriteOrder DEF Ordered
<1>7. CASE LeafInsertSplits
  <2> DEFINE G == [heap EXCEPT ![Cur] = leaf]
             h == [heap EXCEPT ![Cur] = LeafLower(leaf)]
             m == LeafMiddle(leaf)
  <2>1. /\ LeafFull(leaf) /\ Create(h, LeafUpper(leaf))
        /\ ReturnTo(NoPid, [elem |-> m, pid |-> nextPid])
    BY <1>7 DEF LeafInsertSplits, Page, e
  <2>2. leaf.size = LeafMax
    BY <1>2, <1>5, <2>1, ParameterAssumption DEF LeafFull
  <2>3. Glued(leaf, LeafLower(leaf), m, LeafUpper(leaf)) /\ m \in Entries
    BY <1>5, <2>2, LeafSplitGlued, LeafSplitTypes
  <2>4. Kids(leaf) = {}
    BY <1>5, LeafFields DEF Kids
  <2> HIDE DEF leaf, m
  <2>5. /\ DOMAIN h = Pids /\ h[Cur] = LeafLower(leaf) /\ G[Cur] = leaf
        /\ \A p \in Pids \ {Cur} : h[p] = heap[p] /\ G[p] = heap[p]
    BY <1>2, HeapTypes
  <2> HIDE DEF h, G
  <2>6. /\ Pids' = Pids \cup {nextPid} /\ nextPid \notin Pids /\ heap'[nextPid] = LeafUpper(leaf)
        /\ \A p \in Pids : heap'[p] = h[p]
    BY <2>1, <2>5, CreatedPage
  <2>7. Ordered(G, T, span)
    BY <1>2, <1>4, <1>5, <2>5 DEF Ordered
  <2>8. /\ \A p \in T \ {Cur} : G[p] = heap[p]
        /\ \A k \in Kids(G[Cur]) : k \in T /\ k # Cur
        /\ heap'[Cur] = LeafLower(leaf) /\ \A p \in Pids \ {Cur} : heap'[p] = heap[p]
        /\ Glued(G[Cur], LeafLower(leaf), m, LeafUpper(leaf))
    BY <1>2, <2>3, <2>4, <2>5, <2>6
  <2> QED BY <1>1, <1>4, <2>1, <2>3, <2>6, <2>7, <2>8, SplitReturns
<1> QED
  BY <1>6, <1>7

\* A frame takes the entry and the page its child's split left it.
LEMMA InnerInsertOrder ==
  ASSUME IndInv, NEW T, NEW lev, TreeShape(T, lev), NEW span, OrderShape(T, span),
         InnerInsertFits \/ InnerInsertSplits
  PROVE  StillOrdered(T)
<1> DEFINE inner == InnerPlace(Page, split.elem, split.pid)
           s == split.pid
<1>1. pc = "up" /\ path # <<>> /\ call.op = "Insert" /\ Len(path) > 0
  BY HeapTypes DEF InnerInsertFits, InnerInsertSplits
<1>2. /\ Cur \in Pids /\ Page \in InnerOver(Pids) /\ Page.size \in 1..(InnerMax - 1)
      /\ Page = heap[Cur] /\ Page.kind = "inner" /\ Page.size >= 1 /\ Page.size < InnerMax
  BY <1>1, InnerUpFacts, InnerFields, ParameterAssumption
<1>3. split.elem \in Entries /\ s \in Pids
  BY <1>1, HeapTypes DEF IndInv, FrameInputs
<1>4. Forest(heap, {root, s}, T, lev) /\ s \in T /\ lev[s] \in Nat /\ lev[s] + Len(path) = lev[root]
  BY <1>1, UpInsertShape
<1>5. Cur \in T /\ T \subseteq Pids /\ lev[Cur] \in Nat /\ lev[Cur] + Len(path) = lev[root] + 1
  BY <1>1, PathFacts
<1>6. s # Cur
  BY <1>4, <1>5, HeapTypes
<1>7. s \notin Kids(Page) /\ OneSlotEach(Page) /\ \A k \in Kids(Page) : k \in T /\ k # Cur
  <2>1. s \notin Kids(Page) /\ OneSlotEach(Page)
    BY <1>2, <1>4, <1>5 DEF Forest
  <2>2. ASSUME NEW k \in Kids(Page) PROVE k \in T /\ k # Cur
    <3>1. k \in T /\ lev[Cur] = lev[k] + 1
      BY <1>2, <1>4, <1>5 DEF Forest
    <3>2. lev[k] \in Nat
      BY <1>4, <3>1 DEF Forest
    <3> QED BY <1>5, <3>1, <3>2
  <2> QED BY <2>1, <2>2
<1>8. /\ inner \in InnerOver(Pids) /\ inner.size = Page.size + 1 /\ Kids(inner) = Kids(Page) \cup {s}
  BY <1>2, <1>3, <1>7, InnerPlaceType, InnerPlaceKids
<1>9. View = [heap EXCEPT ![Cur] = inner] /\ Ordered(View, T, span) /\ span[root] = Int
  BY <1>1 DEF OrderShape, View, Moved, Splitting, RootSpan, Page
<1>10. CASE InnerInsertFits
  <2>1. heap' = View /\ Return(Done) /\ root' = root
    BY <1>9, <1>10 DEF InnerInsertFits, Page
  <2>2. T \cup (Pids' \ Pids) \subseteq T
    BY <1>9, <2>1 DEF Pids
  <2>3. Ordered(heap', T, span) /\ span[root'] = Int
    BY <1>9, <2>1
  <2> HIDE DEF inner, s
  <2> QED BY <2>1, <2>2, <2>3, EndsOrdered
<1>11. CASE InnerInsertSplits
  <2> DEFINE h == [heap EXCEPT ![Cur] = InnerLower(inner)]
             m == InnerMiddle(inner)
  <2>1. /\ InnerFull(inner) /\ Create(h, InnerUpper(inner))
        /\ ReturnTo(NoPid, [elem |-> m, pid |-> nextPid])
    BY <1>11 DEF InnerInsertSplits, Page
  <2> HIDE DEF inner, s
  <2>2. inner.size = InnerMax
    BY <1>2, <1>8, <2>1, ParameterAssumption DEF InnerFull
  <2>3. Glued(inner, InnerLower(inner), m, InnerUpper(inner)) /\ m \in Entries
    BY <1>8, <2>2, HeapTypes, InnerSplitGlued, InnerSplitTypes
  <2> HIDE DEF m
  <2>4. /\ DOMAIN h = Pids /\ h[Cur] = InnerLower(inner) /\ View[Cur] = inner
        /\ \A p \in Pids \ {Cur} : h[p] = heap[p] /\ View[p] = heap[p]
    BY <1>2, <1>9, HeapTypes
  <2> HIDE DEF h
  <2>5. /\ Pids' = Pids \cup {nextPid} /\ nextPid \notin Pids /\ heap'[nextPid] = InnerUpper(inner)
        /\ \A p \in Pids : heap'[p] = h[p]
    BY <2>1, <2>4, CreatedPage
  <2>6. /\ \A p \in T \ {Cur} : View[p] = heap[p]
        /\ \A k \in Kids(View[Cur]) : k \in T /\ k # Cur
        /\ heap'[Cur] = InnerLower(inner) /\ \A p \in Pids \ {Cur} : heap'[p] = heap[p]
        /\ Glued(View[Cur], InnerLower(inner), m, InnerUpper(inner))
    BY <1>2, <1>4, <1>5, <1>6, <1>7, <1>8, <2>3, <2>4, <2>5
  <2>7. PICK G : G = View
    OBVIOUS
  <2>8. /\ Ordered(G, T, span) /\ span[root] = Int
        /\ \A p \in T \ {Cur} : G[p] = heap[p]
        /\ \A k \in Kids(G[Cur]) : k \in T /\ k # Cur
        /\ Glued(G[Cur], InnerLower(inner), m, InnerUpper(inner))
    BY <1>9, <2>6, <2>7
  <2>9. /\ Pids' = Pids \cup {nextPid} /\ nextPid \notin Pids /\ heap'[nextPid] = InnerUpper(inner)
        /\ heap'[Cur] = InnerLower(inner) /\ \A p \in Pids \ {Cur} : heap'[p] = heap[p]
        /\ ReturnTo(NoPid, [elem |-> m, pid |-> nextPid]) /\ m \in Entries
        /\ path # <<>> /\ call.op = "Insert"
    BY <1>1, <2>1, <2>3, <2>5, <2>6
  <2> QED BY <2>8, <2>9, SplitReturns
<1> QED
  BY <1>10, <1>11

\* The new root's entry parts what it and the page of the split may hold.
LEMMA GrowRootOrder ==
  ASSUME IndInv, NEW T, NEW lev, TreeShape(T, lev), NEW span, OrderShape(T, span), GrowRoot
  PROVE  StillOrdered(T)
<1> DEFINE q == NewRoot(split.elem, root, split.pid)
<1>1. /\ pc = "up" /\ call.op = "Insert" /\ path = <<>> /\ Create(heap, q) /\ root' = nextPid /\ Return(Done)
  BY DEF GrowRoot
<1>2. Forest(heap, {root, split.pid}, T, lev) /\ T \subseteq Pids /\ split.pid # root
  BY <1>1, UpInsertShape DEF TreeShape
<1>3. PICK n : n = nextPid
  OBVIOUS
<1>4. /\ Pids' = Pids \cup {n} /\ n \notin Pids /\ heap'[n] = q
      /\ \A p \in Pids : heap'[p] = heap[p]
  <2>1. DOMAIN heap = Pids
    BY DEF Pids
  <2> QED BY <1>1, <1>3, <2>1, CreatedPage
<1>5. /\ Ordered(heap, T, span)
      /\ span[root] = Below(Int, split.elem[1]) /\ span[split.pid] = Above(Int, split.elem[1])
  BY <1>1 DEF OrderShape, View, Moved, Splitting, RootSpan
<1>6. split.elem[1] \in Int
  BY HeapTypes, ParameterAssumption DEF Entries
<1>7. /\ q.kind = "inner" /\ q.size = 2 /\ q.slots[1] = split.elem
      /\ q.pids[0] = root /\ q.pids[1] = split.pid
  <2>1. q.kind = "inner" /\ q.size = 2
    BY DEF NewRoot, EmptyInner
  <2>2. 1 \in InnerSlots /\ 0 \in InnerSlots
    BY ParameterAssumption DEF InnerSlots
  <2>3. q.slots[1] = split.elem /\ q.pids[0] = root /\ q.pids[1] = split.pid
    BY <2>2 DEF NewRoot, EmptyInner
  <2> QED BY <2>1, <2>3
<1> HIDE DEF q
<1>8. PICK sp : sp = [p \in T \cup {n} |-> IF p = n THEN Int ELSE span[p]]
  OBVIOUS
<1>9. sp[n] = Int /\ \A p \in T : sp[p] = span[p]
  BY <1>2, <1>4, <1>8
<1>10. InOrder(q, Int, sp)
  <2>1. Places(q) = {1} /\ q.size - 1 = 1
    BY <1>7 DEF Places, First
  <2>2. Sorted(q, Int)
    BY <1>6, <1>7, <2>1 DEF Sorted
  <2>3. root \in T /\ split.pid \in T
    BY <1>2 DEF Forest
  <2>4. ASSUME NEW k PROVE /\ k \in sp[q.pids[0]] <=> k \in Int /\ Between(q, 0, k)
                           /\ k \in sp[q.pids[1]] <=> k \in Int /\ Between(q, 1, k)
    <3>1. /\ Between(q, 0, k) <=> k < split.elem[1]
          /\ Between(q, 1, k) <=> split.elem[1] < k
      BY <1>7 DEF Between
    <3>2. /\ k \in Below(Int, split.elem[1]) <=> k \in Int /\ k < split.elem[1]
          /\ k \in Above(Int, split.elem[1]) <=> k \in Int /\ k > split.elem[1]
      BY DEF Below, Above
    <3>3. k \in Int => (k > split.elem[1] <=> split.elem[1] < k)
      BY <1>6
    <3> QED BY <1>5, <1>7, <1>9, <2>3, <3>1, <3>2, <3>3
  <2>5. \A i \in 0..(q.size - 1) : i = 0 \/ i = 1
    BY <2>1
  <2>6. Parted(q, Int, sp)
    BY <2>4, <2>5 DEF Parted
  <2> QED BY <2>2, <2>6 DEF InOrder, AllInts
<1>11. ASSUME NEW p \in T PROVE InOrder(heap'[p], sp[p], sp)
  <2>1. \A k \in Kids(heap[p]) : sp[k] = span[k]
    BY <1>2, <1>9 DEF Forest
  <2>2. InOrder(heap[p], sp[p], span) /\ heap'[p] = heap[p]
    BY <1>2, <1>4, <1>5, <1>9 DEF Ordered
  <2> QED BY <2>1, <2>2, InOrderSame
<1>12. Ordered(heap', T \cup {n}, sp)
  BY <1>4, <1>9, <1>10, <1>11 DEF Ordered
<1>13. T \cup (Pids' \ Pids) \subseteq T \cup {n} /\ sp[root'] = Int
  BY <1>1, <1>3, <1>4, <1>9
<1> QED
  BY <1>1, <1>12, <1>13, EndsOrdered

-----------------------------------------------------------------------------
\* Remove, going down

\* The first entry of a leaf is where a search for it ends; without it the leaf
\* holds keys above it only.
LEMMA LeafFirstOrder ==
  ASSUME NEW p \in LeafPages, p.size >= 1, NEW S, NEW span, InOrder(p, S, span),
         NEW x, x = LeafFirst(p)[1]
  PROVE  /\ x \in S /\ x \in Int /\ LeafHolds(p, x) /\ LeafSearch(p, x) = 0
         /\ Sorted(LeafErase(p, x), Above(S, x)) /\ LeafErase(p, x).kind = "leaf"
<1>1. /\ p.kind = "leaf" /\ p.size \in Nat /\ p.size >= 1 /\ First(p) = 0
      /\ AllInts(S) /\ Sorted(p, S)
  BY LeafFields DEF InOrder, First
<1>2. 0 \in Places(p) /\ x = p.slots[0][1]
  BY <1>1 DEF Places, LeafFirst
<1>3. x \in S /\ x \in Int
  BY <1>1, <1>2 DEF Sorted, AllInts
<1>4. PICK m : m = LeafSearch(p, x)
  OBVIOUS
<1>5. /\ m \in 0..p.size /\ \A i \in 0..(m - 1) : p.slots[i][1] < x
      /\ LeafHolds(p, x) <=> m < p.size /\ p.slots[m][1] = x
  BY <1>1, <1>3, <1>4, LeafSearchPlace
<1>6. m = 0
  <2>1. ~(m > 0)
    BY <1>2, <1>3, <1>5
  <2> QED BY <1>5, <2>1, <1>1
<1>7. LeafHolds(p, x)
  BY <1>1, <1>2, <1>5, <1>6
<1>8. /\ LeafErase(p, x) \in LeafPages /\ LeafErase(p, x).size = p.size - 1
      /\ LeafErase(p, x).kind = "leaf"
  BY <1>7, LeafEraseType, LeafFields
<1> DEFINE q == LeafErase(p, x)
<1>9. Deleted(p, 0, q)
  <2>1. \A j \in 0..(p.size - 2) : q.slots[j] = IF j >= 0 THEN p.slots[j + 1] ELSE p.slots[j]
    <3>1. \A j \in 0..(p.size - 2) :
            q.slots[j] = IF j >= LeafSearch(p, x) THEN p.slots[j + 1] ELSE p.slots[j]
      BY <1>7, LeafEditSlots, ZeroEntryType
    <3> HIDE DEF q
    <3> QED BY <1>4, <1>6, <3>1
  <2> QED BY <1>1, <1>8, <2>1 DEF Deleted
<1> HIDE DEF q
<1>10. /\ Sorted(q, S \ {x})
       /\ \A j \in Places(q) : IF j >= 0 THEN q.slots[j][1] > x ELSE q.slots[j][1] < x
  BY <1>1, <1>2, <1>9, SortedDelete
<1>11. \A j \in Places(q) : q.slots[j][1] \in Above(S, x)
  <2>1. \A j \in Places(q) : j >= 0 /\ q.slots[j][1] \in S
    <3>1. q.kind = "leaf" /\ q.size \in Int
      BY <1>1, <1>9 DEF Deleted
    <3>2. \A j \in Places(q) : j >= 0
      BY <3>1 DEF Places, First
    <3> QED BY <1>10, <3>2 DEF Sorted
  <2> QED BY <1>10, <2>1 DEF Above
<1>12. Sorted(q, Above(S, x))
  BY <1>10, <1>11, SortedWider
<1> QED
  BY <1>3, <1>4, <1>6, <1>7, <1>8, <1>12 DEF q

\* A leaf is in order in a wider span.
LEMMA LeafWider ==
  ASSUME NEW p, p.kind = "leaf", NEW S, NEW span, InOrder(p, S, span),
         NEW S2, AllInts(S2), \A k \in S : k \in S2, NEW span2
  PROVE  InOrder(p, S2, span2)
<1>1. Sorted(p, S2)
  BY DEF InOrder, Sorted
<1> QED
  BY <1>1 DEF InOrder, Parted

\* The first entry of a leaf moves up into the slot on its left: the leaves on
\* both sides share what they held at the key that has moved.
LEMMA MoveUpOrdered ==
  ASSUME NEW G, NEW R, NEW T, NEW lev, Forest(G, R, T, lev), NEW span, Ordered(G, T, span),
         NEW C, NEW par \in T, G[par] \in InnerOver(C), NEW i \in 1..(G[par].size - 1),
         NEW l, l = G[par].pids[i - 1], NEW r, r = G[par].pids[i],
         G[l] \in LeafPages, G[r] \in LeafPages, G[r].size >= 1,
         NEW e \in Entries, e = LeafFirst(G[r]),
         NEW G2, G2[r] = LeafErase(G[r], e[1]), G2[par] = InnerSetEntry(G[par], i, e),
         \A p \in T \ {r, par} : G2[p] = G[p]
  PROVE  /\ G[par].slots[i][1] < e[1]
         /\ \E sp : Ordered(G2, T, sp) /\ \A p \in R : sp[p] = span[p]
<1> DEFINE U == Around(G[par], span[par], i)
           x == G[par].slots[i][1]
           sp == SharedOut(span, T, l, r, U, e[1])
           r2 == LeafErase(G[r], e[1])
<1>4. U = Around(G[par], span[par], i)
  OBVIOUS
<1>11. r2 = G2[r]
  OBVIOUS
<1> HIDE DEF U, sp, r2
<1>0. PICK q : Glued(q, G[l], G[par].slots[i], G[r])
  <2>1. /\ G[r].kind = G[l].kind /\ G[l].size \in Nat /\ G[r].size \in Nat
        /\ G[l].size >= First(G[l]) /\ G[r].size >= First(G[l])
    BY LeafFields DEF First
  <2> QED BY <2>1, GluedExists
<1>1. /\ span[l] = Below(U, x) /\ span[r] = Above(U, x)
      /\ l \in T /\ r \in T /\ l # r /\ l # par /\ r # par /\ l \notin R /\ r \notin R
      /\ \A p \in T \ {par} : \A k \in Kids(G[p]) : k \in T /\ k # l /\ k # r
      /\ \A k \in Kids(G[par]) : k \in T
      /\ OneSlotEach(G[par]) /\ InOrder(G[par], span[par], span)
  <2>1. /\ InOrder(q, U, span) /\ span[l] = Below(U, G[par].slots[i][1]) /\ span[r] = Above(U, G[par].slots[i][1])
        /\ l \in T /\ r \in T /\ l # r /\ l # par /\ r # par /\ l \notin R /\ r \notin R
        /\ l \in Kids(G[par]) /\ r \in Kids(G[par])
        /\ \A k \in Kids(q) : k \in T /\ k # l /\ k # r
        /\ \A p \in T \ {par} : \A k \in Kids(G[p]) : k \in T /\ k # l /\ k # r
        /\ \A k \in Kids(G[par]) : k \in T
        /\ G[par].kind = "inner" /\ OneSlotEach(G[par]) /\ InOrder(G[par], span[par], span)
    BY <1>0, <1>4, PairOrdered
  <2> QED BY <2>1
<1>2. /\ sp[l] = Below(U, e[1]) /\ sp[r] = Above(U, e[1])
      /\ \A p \in T : p # l /\ p # r => sp[p] = span[p]
  BY <1>1 DEF SharedOut, sp
<1>3. R \subseteq T
  BY DEF Forest
<1>5. InOrder(G[l], span[l], span) /\ InOrder(G[r], span[r], span)
  BY <1>1 DEF Ordered
<1>6. /\ e[1] \in span[r] /\ e[1] \in Int /\ Sorted(r2, Above(span[r], e[1])) /\ r2.kind = "leaf"
  BY <1>5, LeafFirstOrder DEF r2
<1>7. x \in U /\ x \in Int /\ AllInts(U)
  <2>1. G[par].kind = "inner" /\ G[par].size \in Nat
    BY InnerFields
  <2> QED BY <1>1, <1>4, <2>1, AroundSlot DEF AllInts
<1>8. x < e[1] /\ e[1] \in U
  BY <1>1, <1>6, <1>7 DEF Above
<1>9. InOrder(G2[l], sp[l], sp)
  <2>1. ASSUME NEW k \in Below(U, x) PROVE k \in Below(U, e[1])
    <3>1. k \in U /\ k < x /\ k \in Int
      BY <1>7 DEF Below, AllInts
    <3> QED BY <1>6, <1>7, <1>8, <3>1 DEF Below
  <2>2. AllInts(sp[l]) /\ G[l].kind = "leaf" /\ G2[l] = G[l]
    BY <1>1, <1>2, <1>7, LeafFields DEF AllInts, Below
  <2>3. \A k \in span[l] : k \in sp[l]
    BY <1>1, <1>2, <2>1
  <2>4. InOrder(G[l], sp[l], sp)
    BY <1>5, <2>2, <2>3, LeafWider
  <2> QED BY <2>2, <2>4
<1>10. InOrder(G2[r], sp[r], sp)
  <2>1. \A j \in Places(r2) : r2.slots[j][1] \in Above(span[r], e[1]) => r2.slots[j][1] \in sp[r]
    <3>1. ASSUME NEW k, k \in Above(span[r], e[1]) PROVE k \in Above(U, e[1])
      <4>1. k \in Above(U, x) /\ k > e[1]
        BY <1>1, <3>1 DEF Above
      <4> QED BY <4>1 DEF Above
    <3> QED BY <1>2, <3>1
  <2>2. Sorted(r2, sp[r])
    BY <1>6, <2>1, SortedWider
  <2>3. AllInts(sp[r])
    BY <1>2, <1>7 DEF AllInts, Above
  <2>4. Parted(r2, sp[r], sp)
    BY <1>6 DEF Parted
  <2> QED BY <1>11, <2>2, <2>3, <2>4 DEF InOrder
<1>12. InOrder(G2[par], sp[par], sp)
  <2>1. \A c \in Kids(G[par]) : c # G[par].pids[i - 1] /\ c # G[par].pids[i] => sp[c] = span[c]
    BY <1>1, <1>2
  <2>2. sp[G[par].pids[i - 1]] = Below(U, e[1]) /\ sp[G[par].pids[i]] = Above(U, e[1])
    BY <1>2
  <2>3. InOrder(InnerSetEntry(G[par], i, e), span[par], sp)
    BY <1>1, <1>4, <1>8, <2>1, <2>2, ParentSet
  <2> QED BY <1>1, <1>2, <2>3
<1>13. ASSUME NEW p \in T \ {l, r, par} PROVE InOrder(G2[p], sp[p], sp)
  <2>1. InOrder(G[p], span[p], span) /\ \A k \in Kids(G[p]) : sp[k] = span[k]
    BY <1>1, <1>2 DEF Ordered
  <2> QED BY <1>2, <2>1, InOrderSame
<1>14. Ordered(G2, T, sp)
  BY <1>9, <1>10, <1>12, <1>13 DEF Ordered
<1>15. \A p \in R : sp[p] = span[p]
  BY <1>1, <1>2, <1>3
<1> QED
  BY <1>8, <1>14, <1>15

\* The key to remove is in an internal page: the first entry of the leaf right of
\* it takes its place.  Half a leaf is one entry at least, so there is one.
LEMMA RemoveAtInnerOrder ==
  ASSUME IndInv, NEW T, NEW lev, TreeShape(T, lev), NEW span, OrderShape(T, span),
         RemoveAtInner, ~SeparatorOverInner, LeafMax >= 3
  PROVE  StillOrdered(T)
<1>0. PICK P, i, l, c, e, x :
        /\ P = Page /\ i = InnerSearch(P, key) /\ l = P.pids[i - 1] /\ c = P.pids[i]
        /\ e = FirstElem(heap[c]) /\ x = Cur
  OBVIOUS
<1>1. /\ pc = "down" /\ path # <<>> /\ ~IsLeaf(x) /\ InnerHolds(P, key) /\ call.op = "Remove"
      /\ path' = Append(path, c) /\ key' = e[1] /\ heap' = [heap EXCEPT ![x] = InnerSetEntry(@, i, e)]
      /\ UNCHANGED <<nextPid, root, pc, call, child, split, result>> /\ P = heap[x]
  BY <1>0, HeapTypes DEF RemoveAtInner, AtInner, Page
<1>2. /\ span[root] = Int /\ ~Splitting /\ ~Moved /\ Ordered(heap, T, span) /\ key \in span[x]
      /\ key = call.key
  BY <1>0, <1>1, DownOrder DEF Moved
<1>3. x \in T /\ P \in InnerOver(Pids) /\ P.size >= 1 /\ T \subseteq Pids /\ P.kind = "inner" /\ P.size \in Nat
  BY <1>0, <1>1, CurPage, PathFacts, InnerFields
<1>4. InOrder(P, span[x], span)
  BY <1>1, <1>2, <1>3 DEF Ordered
<1>5. i \in 1..(P.size - 1) /\ P.slots[i][1] = key
  <2>1. key \in span[x]
    BY <1>2
  <2> QED BY <1>0, <1>1, <1>3, <1>4, <2>1, ChildPlace DEF InOrder, AllInts
<1>6. Forest(heap, {root}, T, lev) /\ \A p \in T \ {root} : heap[p].size >= HalfOf(heap[p])
  BY <1>1, DownShape
<1>7. l \in Kids(P) /\ c \in Kids(P)
  BY <1>0, <1>3, <1>5 DEF Kids
<1>8. /\ l \in T /\ c \in T /\ lev[l] = lev[c] /\ c # x /\ c # root
      /\ (heap[l].kind = "leaf" <=> lev[l] = 0) /\ (heap[c].kind = "leaf" <=> lev[c] = 0)
  <2>1. /\ l \in T /\ c \in T /\ lev[x] = lev[l] + 1 /\ lev[x] = lev[c] + 1 /\ c # root
    BY <1>1, <1>3, <1>6, <1>7 DEF Forest
  <2>2. lev[l] \in Nat /\ lev[c] \in Nat /\ lev[x] \in Nat
        /\ (heap[l].kind = "leaf" <=> lev[l] = 0) /\ (heap[c].kind = "leaf" <=> lev[c] = 0)
    BY <1>3, <1>6, <2>1 DEF Forest
  <2> QED BY <2>1, <2>2
<1>9. heap[c].kind = "leaf"
  BY <1>0, <1>1 DEF SeparatorOverInner, AtInner, IsLeaf
<1>10. heap[l] \in LeafPages /\ heap[c] \in LeafPages /\ heap[c].size >= 1
  <2>1. heap[l] \in FitPages(Pids) /\ heap[c] \in FitPages(Pids)
    BY <1>3, <1>8, HeapTypes
  <2>2. heap[l].kind = "leaf" /\ heap[c].size >= MinSize(LeafMax)
    BY <1>6, <1>8, <1>9 DEF HalfOf
  <2>3. MinSize(LeafMax) >= 1
    BY ParameterAssumption, MinSizeBound
  <2>4. heap[l] \in LeafPages /\ heap[c] \in LeafPages
    BY <1>9, <2>1, <2>2, FitCases
  <2> QED BY <2>2, <2>3, <2>4, LeafFields, ParameterAssumption, MinSizeBound
<1>11. e = LeafFirst(heap[c]) /\ e \in Entries
  BY <1>0, <1>9, <1>10, LeafPopTypes DEF FirstElem
<1> DEFINE er == LeafErase(heap[c], e[1])
           set == InnerSetEntry(P, i, e)
<1> HIDE DEF er
<1>12. PICK G2 : G2 = [heap EXCEPT ![x] = set, ![c] = er]
  OBVIOUS
<1>13. /\ G2[c] = er /\ G2[x] = set /\ \A p \in T \ {c, x} : G2[p] = heap[p]
  <2> HIDE DEF set
  <2> QED BY <1>3, <1>8, <1>12, HeapTypes
<1>14. /\ P.slots[i][1] < e[1]
       /\ \E sp : Ordered(G2, T, sp) /\ \A p \in {root} : sp[p] = span[p]
  <2>1. /\ heap[x] = P /\ G2[c] = LeafErase(heap[c], e[1]) /\ G2[x] = InnerSetEntry(heap[x], i, e)
    BY <1>1, <1>13 DEF er
  <2>2. /\ i \in 1..(heap[x].size - 1) /\ l = heap[x].pids[i - 1] /\ c = heap[x].pids[i]
        /\ heap[x] \in InnerOver(Pids) /\ \A p \in T \ {c, x} : G2[p] = heap[p]
    BY <1>0, <1>1, <1>3, <1>5, <1>13
  <2>3. /\ heap[x].slots[i][1] < e[1]
        /\ \E sp : Ordered(G2, T, sp) /\ \A p \in {root} : sp[p] = span[p]
    BY <1>2, <1>3, <1>6, <1>10, <1>11, <2>1, <2>2, MoveUpOrdered
  <2> QED BY <2>1, <2>3
<1>15. PICK sp : Ordered(G2, T, sp) /\ sp[root] = Int
  BY <1>2, <1>14
<1>16. Cur' = c /\ Parent' = x /\ Len(path') > 1
  <2>1. path \in Seq(Pids) /\ Len(path) \in Nat /\ Len(path) >= 1 /\ x = path[Len(path)]
    BY <1>0, <1>1, HeapTypes DEF Cur, Last
  <2> DEFINE m == Len(path)
  <2>2. Len(path') = m + 1 /\ path'[m + 1] = c /\ path'[m] = path[m]
    BY <1>1, <2>1
  <2>3. m \in Nat /\ m >= 1 /\ x = path[m]
    BY <2>1
  <2> HIDE DEF m
  <2>4. (m + 1) - 1 = m /\ m + 1 > 1
    BY <2>3
  <2> QED BY <2>2, <2>3, <2>4 DEF Cur, Last, Parent
<1>17. heap'[c] = heap[c] /\ heap'[x] = set /\ heap' = [heap EXCEPT ![x] = set]
  <2> HIDE DEF set
  <2>1. heap' = [heap EXCEPT ![x] = set]
    BY <1>1 DEF set
  <2> QED BY <1>3, <1>8, <2>1, HeapTypes
<1>18. Moved'
  <2>1. key' # call.key
    BY <1>1, <1>2, <1>5, <1>14, <1>11, ParameterAssumption DEF Entries
  <2> QED BY <1>1, <2>1 DEF Moved
<1>19. View' = G2
  <2>1. View' = [heap' EXCEPT ![c] = LeafErase(@, e[1])]
    BY <1>1, <1>16, <1>18 DEF View
  <2>2. c \in DOMAIN heap'
    BY <1>3, <1>8, <1>17, HeapTypes
  <2>3. View' = [heap' EXCEPT ![c] = er]
    BY <1>17, <2>1, <2>2 DEF er
  <2> HIDE DEF set
  <2> QED BY <1>12, <1>17, <2>3
<1>20. SearchSpan(sp)'
  <2>1. IsLeaf(Cur)' /\ Page' = heap[c]
    BY <1>9, <1>16, <1>17 DEF IsLeaf, Page
  <2>2. LeafHolds(heap[c], e[1]) /\ heap[c].slots[LeafSearch(heap[c], e[1])] = e
    <3>1. InOrder(heap[c], span[c], span)
      BY <1>2, <1>8 DEF Ordered
    <3> QED BY <1>10, <1>11, <3>1, LeafFirstOrder DEF LeafFirst
  <2>3. set.size = P.size /\ set.slots[i] = e
    <3>1. i \in InnerSlots /\ P.slots \in [InnerSlots -> Entries]
      <4>1. P.size \in 0..InnerMax /\ P.slots \in [InnerSlots -> Entries]
        BY <1>3, InnerFields
      <4> QED BY <1>5, <4>1, ParameterAssumption DEF InnerSlots
    <3>2. set.slots = [P.slots EXCEPT ![i] = e] /\ set.size = P.size
      BY <1>3 DEF InnerSetEntry, InnerOver
    <3> HIDE DEF set
    <3> QED BY <3>1, <3>2
  <2> HIDE DEF set
  <2>4. i \in 1..(heap'[Parent'].size - 1) /\ heap'[Parent'].slots[i] = e
    BY <1>5, <1>16, <1>17, <2>3
  <2>5. /\ LeafHolds(Page', key') /\ Page'.slots[LeafSearch(Page', key')] = e
    BY <1>1, <2>1, <2>2
  <2> QED BY <1>16, <1>18, <2>1, <2>4, <2>5 DEF SearchSpan
<1>21. RootSpan(sp)'
  BY <1>1, <1>15 DEF RootSpan, Splitting
<1>22. OrderShape(T, sp)'
  BY <1>1, <1>15, <1>19, <1>20, <1>21 DEF OrderShape
<1>23. T \cup (Pids' \ Pids) \subseteq T
  BY <1>17 DEF Pids
<1> QED
  BY <1>22, <1>23 DEF StillOrdered

-----------------------------------------------------------------------------
\* Remove, borrowing and merging

\* The slots of the page and of its sibling are on both sides of the separator.
LEMMA NeighbourSlots ==
  ASSUME IndInv, NEW T, NEW lev, TreeShape(T, lev), LeafUnderflow \/ InnerUnderflow, HasSibling
  PROVE  /\ SepIdx \in 1..(heap[Parent].size - 1) /\ heap[Parent] \in InnerOver(Pids) /\ Sep = heap[Parent].slots[SepIdx]
         /\ RightSibling => heap[Parent].pids[SepIdx - 1] = Cur /\ heap[Parent].pids[SepIdx] = Sib
         /\ ~RightSibling => heap[Parent].pids[SepIdx - 1] = Sib /\ heap[Parent].pids[SepIdx] = Cur
<1> DEFINE p == heap[Parent]
<1>1. p \in InnerOver(Pids) /\ p.size \in Nat
  BY UnderflowPages, InnerFields
<1>2. SibIdx \in 0..(p.size - 1) /\ \E i \in 0..(p.size - 1) : p.pids[i] = Cur
  BY DEF HasSibling, SiblingListed
<1>3. MyIdx \in 0..(p.size - 1) /\ p.pids[MyIdx] = Cur /\ SibIdx \in {MyIdx - 1, MyIdx + 1}
  BY <1>1, <1>2, SiblingIdxRange DEF MyIdx, SibIdx
<1>4. Sib = p.pids[SibIdx]
  BY DEF Sib
<1>5. RightSibling => SepIdx = SibIdx /\ SepIdx - 1 = MyIdx
  BY <1>1, <1>2, <1>3 DEF RightSibling, SepIdx
<1>6. ~RightSibling => SepIdx = MyIdx /\ SepIdx - 1 = SibIdx
  BY <1>1, <1>2, <1>3 DEF RightSibling, SepIdx
<1>7. SepIdx \in 1..(p.size - 1)
  BY SiblingShape
<1> QED
  BY <1>1, <1>3, <1>4, <1>5, <1>6, <1>7 DEF Sep

\* What a borrow does.  G: the pages without the entry that is removed.  T: the
\* pages of the tree.  An entry of the page or its sibling changes places with
\* the one between the two.
Exchanges(G, T) ==
  /\ LeafUnderflow \/ InnerUnderflow
  /\ HasSibling /\ G[Parent] = heap[Parent]
  /\ \E l, r, q, l2, e, r2 :
       /\ l = heap[Parent].pids[SepIdx - 1] /\ r = heap[Parent].pids[SepIdx]
       /\ Glued(q, G[l], Sep, G[r]) /\ e \in Entries /\ Glued(q, l2, e, r2)
       /\ heap'[l] = l2 /\ heap'[r] = r2 /\ heap'[Parent] = InnerSetEntry(heap[Parent], SepIdx, e)
       /\ \A p \in T \ {l, r, Parent} : heap'[p] = G[p]
  /\ Pids' = Pids /\ root' = root /\ Return(Done)

\* What a merge does: the left page takes all of the right one.
Joins(G, T) ==
  /\ LeafUnderflow \/ InnerUnderflow
  /\ HasSibling /\ G[Parent] = heap[Parent]
  /\ \E l, r, q :
       /\ l = heap[Parent].pids[SepIdx - 1] /\ r = heap[Parent].pids[SepIdx]
       /\ Glued(q, G[l], Sep, G[r])
       /\ heap'[l] = q /\ heap'[Parent] = InnerDrop(heap[Parent], SepIdx)
       /\ \A p \in T \ {l, Parent} : heap'[p] = G[p]
  /\ Pids' = Pids /\ ReturnTo(Cur, NoSplit)

\* A borrow keeps the order.
LEMMA BorrowEnds ==
  ASSUME IndInv, NEW T, NEW lev, TreeShape(T, lev), NEW G, Exchanges(G, T),
         NEW span, Ordered(G, T, span), span[root] = Int, Forest(G, {root}, T, lev)
  PROVE  StillOrdered(T)
<1>0. /\ LeafUnderflow \/ InnerUnderflow
      /\ HasSibling /\ G[Parent] = heap[Parent] /\ Pids' = Pids /\ root' = root /\ Return(Done)
  BY DEF Exchanges
<1>1. PICK par, i, G2 : par = Parent /\ i = SepIdx /\ G2 = heap'
  OBVIOUS
<1>2. PICK l, r, q, l2, r2, e :
        /\ e \in Entries /\ l = heap[par].pids[i - 1] /\ r = heap[par].pids[i]
        /\ Glued(q, G[l], Sep, G[r]) /\ Glued(q, l2, e, r2)
        /\ G2[l] = l2 /\ G2[r] = r2 /\ G2[par] = InnerSetEntry(heap[par], i, e)
        /\ \A p \in T \ {l, r, par} : G2[p] = G[p]
  BY <1>1 DEF Exchanges
<1>3. /\ par \in T /\ G[par] \in InnerOver(Pids) /\ i \in 1..(G[par].size - 1)
      /\ l = G[par].pids[i - 1] /\ r = G[par].pids[i] /\ Glued(q, G[l], G[par].slots[i], G[r])
      /\ G2[par] = InnerSetEntry(G[par], i, e)
  BY <1>0, <1>1, <1>2, NeighbourSlots, SiblingShape
<1>4. \E sp : Ordered(G2, T, sp) /\ \A p \in {root} : sp[p] = span[p]
  BY <1>2, <1>3, BorrowOrdered
<1>5. PICK sp : Ordered(heap', T, sp) /\ sp[root'] = Int
  BY <1>0, <1>1, <1>4
<1>6. T \cup (Pids' \ Pids) \subseteq T
  BY <1>0
<1> QED
  BY <1>0, <1>5, <1>6, EndsOrdered

\* A merge keeps the order, and the frame above is resumed.
LEMMA MergeReturns ==
  ASSUME IndInv, NEW T, NEW lev, TreeShape(T, lev), NEW G, Joins(G, T),
         NEW span, Ordered(G, T, span), span[root] = Int, Forest(G, {root}, T, lev)
  PROVE  StillOrdered(T)
<1>0. /\ LeafUnderflow \/ InnerUnderflow
      /\ HasSibling /\ G[Parent] = heap[Parent] /\ Pids' = Pids /\ ReturnTo(Cur, NoSplit)
  BY DEF Joins
<1>1. PICK par, i, G2 : par = Parent /\ i = SepIdx /\ G2 = heap'
  OBVIOUS
<1>2. PICK l, r, q :
        /\ l = heap[par].pids[i - 1] /\ r = heap[par].pids[i]
        /\ Glued(q, G[l], Sep, G[r]) /\ G2[l] = q /\ G2[par] = InnerDrop(heap[par], i)
        /\ \A p \in T \ {l, par} : G2[p] = G[p]
  BY <1>1 DEF Joins
<1>3. /\ par \in T /\ G[par] \in InnerOver(Pids) /\ i \in 1..(G[par].size - 1)
      /\ l = G[par].pids[i - 1] /\ r = G[par].pids[i] /\ Glued(q, G[l], G[par].slots[i], G[r])
      /\ G2[par] = InnerDrop(G[par], i)
  BY <1>0, <1>1, <1>2, NeighbourSlots, SiblingShape
<1>5. \E sp : Ordered(G2, T, sp) /\ \A p \in {root} : sp[p] = span[p]
  BY <1>2, <1>3, MergeOrdered
<1>6. PICK sp : Ordered(heap', T, sp) /\ sp[root] = Int
  BY <1>1, <1>5
<1>7. /\ pc' = "up" /\ call'.op = "Remove" /\ root' = root
  BY <1>0 DEF ReturnTo, LeafUnderflow, InnerUnderflow, AtLeaf
<1>8. View' = heap' /\ ~Splitting'
  BY <1>7 DEF View, Moved, Splitting
<1>9. OrderShape(T, sp)'
  BY <1>6, <1>7, <1>8 DEF OrderShape, RootSpan
<1>10. T \cup (Pids' \ Pids) \subseteq T
  BY <1>0
<1> QED
  BY <1>9, <1>10 DEF StillOrdered

\* The leaf without the entry: what the tree is once the entry is gone.
LEMMA ErasedOrder ==
  ASSUME IndInv, NEW T, NEW lev, TreeShape(T, lev), NEW span, OrderShape(T, span),
         AtLeaf("Remove"), LeafHolds(Page, key), NEW G, G = [heap EXCEPT ![Cur] = Erased]
  PROVE  /\ Ordered(G, T, span) /\ span[root] = Int /\ Forest(G, {root}, T, lev) /\ T \subseteq Pids
         /\ Cur \in T /\ G[Cur] = Erased /\ \A p \in Pids \ {Cur} : G[p] = heap[p]
<1>1. pc = "down" /\ path # <<>> /\ IsLeaf(Cur) /\ call.op = "Remove"
  BY HeapTypes DEF AtLeaf
<1>2. /\ Cur \in Pids /\ Page \in LeafPages /\ Page = heap[Cur] /\ Cur \in T /\ T \subseteq Pids
      /\ Erased \in LeafPages /\ Page.kind = "leaf" /\ Erased.kind = "leaf"
  BY <1>1, CurPage, PathFacts, ErasedType, LeafFields
<1>3. DOMAIN heap = Pids
  BY DEF Pids
<1>4. G[Cur] = Erased /\ \A p \in Pids \ {Cur} : G[p] = heap[p]
  BY <1>2, <1>3
<1>5. Forest(heap, {root}, T, lev) /\ span[root] = Int
  BY <1>1, DownShape, DownOrder
<1>6. Forest(G, {root}, T, lev)
  <2>1. \A p \in T : /\ G[p].kind = heap[p].kind /\ Kids(G[p]) = Kids(heap[p])
                     /\ OneSlotEach(heap[p]) => OneSlotEach(G[p])
    <3>1. Kids(Erased) = {} /\ OneSlotEach(Erased) /\ Kids(Page) = {}
      BY <1>2, LeafKids
    <3> QED BY <1>2, <1>4, <3>1
  <2> QED BY <1>5, <2>1, ForestSameKids
<1>7. Ordered(G, T, span)
  <2>1. CASE Moved
    BY <1>1, <2>1, DownOrder DEF OrderShape
  <2>2. CASE ~Moved
    <3>1. Ordered(heap, T, span)
      BY <1>1, <2>2, DownOrder
    <3>2. InOrder(Page, span[Cur], span) /\ key \in Int
      BY <1>2, <3>1, HeapTypes, ParameterAssumption DEF Ordered
    <3>3. InOrder(Erased, span[Cur], span)
      BY <1>2, <3>2, LeafEraseOrder DEF Erased
    <3> QED BY <1>2, <1>4, <3>1, <3>3 DEF Ordered
  <2> QED BY <2>1, <2>2
<1> QED
  BY <1>2, <1>4, <1>5, <1>6, <1>7

\* An entry is removed from a leaf that keeps enough of them, or from the root.
LEMMA RemoveFromLeafOrder ==
  ASSUME IndInv, NEW T, NEW lev, TreeShape(T, lev), NEW span, OrderShape(T, span), RemoveFromLeaf
  PROVE  StillOrdered(T)
<1>1. AtLeaf("Remove") /\ LeafHolds(Page, key) /\ Return(Done) /\ root' = root
  BY DEF RemoveFromLeaf
<1>2. heap' = [heap EXCEPT ![Cur] = Erased]
  BY DEF RemoveFromLeaf
<1>3. PICK G : G = [heap EXCEPT ![Cur] = Erased]
  OBVIOUS
<1>4. Ordered(G, T, span) /\ span[root] = Int
  BY <1>1, <1>3, ErasedOrder
<1>5. Ordered(heap', T, span) /\ span[root'] = Int
  BY <1>1, <1>2, <1>3, <1>4
<1>6. T \cup (Pids' \ Pids) \subseteq T
  BY <1>2 DEF Pids
<1> QED
  BY <1>1, <1>5, <1>6, EndsOrdered

\* A leaf borrows from its sibling.
LEMMA LeafBorrows ==
  ASSUME IndInv, NEW T, T \subseteq Pids, LeafBorrowRight \/ LeafBorrowLeft,
         TreeInv, NEW G, G = [heap EXCEPT ![Cur] = Erased]
  PROVE  Exchanges(G, T)
<1> DEFINE sib == heap[Sib]
           par == heap[Parent]
<1>1. /\ LeafUnderflow /\ HasSibling /\ sib.size > MinSize(LeafMax) /\ Return(Done) /\ root' = root
      /\ LeafUnderflow \/ InnerUnderflow
  BY DEF LeafBorrowRight, LeafBorrowLeft, LeafLends
<1>2. /\ Erased \in LeafPages /\ Erased.size \in Nat /\ Erased.size < LeafMax
      /\ sib \in LeafPages /\ sib.size \in Nat /\ sib.size < LeafMax /\ sib.size >= 1
  <2>1. /\ Erased \in LeafPages /\ Erased.size \in 0..(MinSize(LeafMax) - 1)
        /\ sib \in LeafPages /\ sib.size \in 0..(LeafMax - 1)
        /\ MinSize(LeafMax) \in Nat /\ 2 * MinSize(LeafMax) <= LeafMax - 1 /\ LeafMax \in Nat
    BY <1>1, LeafUnderflowSizes
  <2> QED BY <1>1, <2>1
<1>3. /\ Cur \in Pids /\ Parent \in Pids /\ Sib \in Pids /\ DOMAIN heap = Pids
      /\ Parent # Cur /\ Sib # Cur /\ Sib # Parent /\ Sep \in Entries
  BY <1>1, UnderflowPages DEF Pids
<1>4. PICK live, lev : TreeShape(live, lev)
  BY DEF TreeInv
<1>5. T \subseteq Pids /\ G[Cur] = Erased /\ \A p \in Pids \ {Cur} : G[p] = heap[p]
  BY <1>3
<1>6. G[Parent] = par /\ G[Sib] = sib
  BY <1>3, <1>5
<1>7. First(Erased) = 0 /\ First(sib) = 0 /\ Erased.kind = "leaf" /\ sib.kind = "leaf"
  BY <1>2, LeafFields DEF First
<1>8. LeafFirst(sib) \in Entries /\ LeafLast(sib) \in Entries
  BY <1>2, LeafPopTypes
<1>9. CASE LeafBorrowRight
  <2> DEFINE l2 == LeafPushBack(Erased, Sep)
             e == LeafFirst(sib)
             r2 == LeafPopFront(sib)
             set == InnerSetEntry(par, SepIdx, e)
  <2>1. heap' = [heap EXCEPT ![Cur] = l2, ![Sib] = LeafPopFront(@), ![Parent] = InnerSetEntry(@, SepIdx, e)]
    BY <1>9 DEF LeafBorrowRight
  <2>2. heap' = [heap EXCEPT ![Cur] = l2, ![Sib] = r2, ![Parent] = set]
    BY <1>3, <2>1
  <2>3. PICK q : Glued(q, Erased, Sep, sib)
    BY <1>2, <1>7, GluedExists
  <2>4. Glued(q, l2, e, r2)
    BY <1>2, <1>3, <2>3, LeafBorrowGlued
  <2>5. par.pids[SepIdx - 1] = Cur /\ par.pids[SepIdx] = Sib
    BY <1>1, <1>4, <1>9, NeighbourSlots DEF LeafBorrowRight
  <2>6. e \in Entries
    BY <1>8
  <2> HIDE DEF l2, r2, e, set
  <2>7. /\ Pids' = Pids /\ heap'[Cur] = l2 /\ heap'[Sib] = r2 /\ heap'[Parent] = set
        /\ \A p \in Pids \ {Cur, Sib, Parent} : heap'[p] = heap[p]
    BY <1>3, <2>2, ThreeWritten DEF Pids
  <2>8. \A p \in T \ {Cur, Sib, Parent} : heap'[p] = G[p]
    BY <1>5, <2>7
  <2>9. /\ Glued(q, G[Cur], Sep, G[Sib]) /\ heap'[Parent] = InnerSetEntry(heap[Parent], SepIdx, e)
    BY <1>5, <1>6, <2>3, <2>7 DEF set
  <2>10. PICK l, r : l = Cur /\ r = Sib
    OBVIOUS
  <2>11. /\ G[Parent] = heap[Parent] /\ l = heap[Parent].pids[SepIdx - 1] /\ r = heap[Parent].pids[SepIdx]
         /\ Glued(q, G[l], Sep, G[r]) /\ heap'[l] = l2 /\ heap'[r] = r2
         /\ \A p \in T \ {l, r, Parent} : heap'[p] = G[p]
    BY <1>6, <2>5, <2>7, <2>8, <2>9, <2>10
  <2>12. /\ Pids' = Pids /\ root' = root /\ Return(Done)
         /\ HasSibling /\ (LeafUnderflow \/ InnerUnderflow)
         /\ heap'[Parent] = InnerSetEntry(heap[Parent], SepIdx, e)
    BY <1>1, <1>5, <2>7, <2>9
  <2> QED BY <2>4, <2>6, <2>11, <2>12 DEF Exchanges
<1>10. CASE LeafBorrowLeft
  <2> DEFINE r2 == LeafPushFront(Erased, Sep)
             e == LeafLast(sib)
             l2 == LeafPopBack(sib)
             set == InnerSetEntry(par, SepIdx, e)
  <2>1. heap' = [heap EXCEPT ![Cur] = r2, ![Sib] = LeafPopBack(@), ![Parent] = InnerSetEntry(@, SepIdx, e)]
    BY <1>10 DEF LeafBorrowLeft
  <2>2. heap' = [heap EXCEPT ![Cur] = r2, ![Sib] = l2, ![Parent] = set]
    BY <1>3, <2>1
  <2>3. PICK q : Glued(q, sib, Sep, Erased)
    BY <1>2, <1>7, GluedExists
  <2>4. Glued(q, l2, e, r2)
    BY <1>2, <1>3, <2>3, LeafBorrowGlued
  <2>5. par.pids[SepIdx - 1] = Sib /\ par.pids[SepIdx] = Cur
    BY <1>1, <1>4, <1>10, NeighbourSlots DEF LeafBorrowLeft
  <2>6. e \in Entries
    BY <1>8
  <2> HIDE DEF l2, r2, e, set
  <2>7. /\ Pids' = Pids /\ heap'[Cur] = r2 /\ heap'[Sib] = l2 /\ heap'[Parent] = set
        /\ \A p \in Pids \ {Cur, Sib, Parent} : heap'[p] = heap[p]
    BY <1>3, <2>2, ThreeWritten DEF Pids
  <2>8. \A p \in T \ {Sib, Cur, Parent} : heap'[p] = G[p]
    BY <1>5, <2>7
  <2>9. /\ Glued(q, G[Sib], Sep, G[Cur]) /\ heap'[Parent] = InnerSetEntry(heap[Parent], SepIdx, e)
    BY <1>5, <1>6, <2>3, <2>7 DEF set
  <2>10. PICK l, r : l = Sib /\ r = Cur
    OBVIOUS
  <2>11. /\ G[Parent] = heap[Parent] /\ l = heap[Parent].pids[SepIdx - 1] /\ r = heap[Parent].pids[SepIdx]
         /\ Glued(q, G[l], Sep, G[r]) /\ heap'[l] = l2 /\ heap'[r] = r2
         /\ \A p \in T \ {l, r, Parent} : heap'[p] = G[p]
    BY <1>6, <2>5, <2>7, <2>8, <2>9, <2>10
  <2>12. /\ Pids' = Pids /\ root' = root /\ Return(Done)
         /\ HasSibling /\ (LeafUnderflow \/ InnerUnderflow)
         /\ heap'[Parent] = InnerSetEntry(heap[Parent], SepIdx, e)
    BY <1>1, <1>5, <2>7, <2>9
  <2> QED BY <2>4, <2>6, <2>11, <2>12 DEF Exchanges
<1> QED
  BY <1>1, <1>9, <1>10

\* A leaf takes its right sibling's entries.
LEMMA LeafJoins ==
  ASSUME IndInv, NEW T, T \subseteq Pids, LeafMergeRight,
         TreeInv, NEW G, G = [heap EXCEPT ![Cur] = Erased]
  PROVE  Joins(G, T)
<1> DEFINE sib == heap[Sib]
           par == heap[Parent]
           q == LeafGrow(LeafAbsorb(Erased, Sep, sib), sib.size)
           drop == InnerDrop(par, SepIdx)
<1>1. /\ LeafUnderflow /\ HasSibling /\ sib.size <= MinSize(LeafMax) /\ ReturnTo(Cur, NoSplit)
      /\ LeafUnderflow \/ InnerUnderflow
  BY DEF LeafMergeRight, LeafMerges
<1>2. /\ Erased \in LeafPages /\ sib \in LeafPages /\ Erased.size + sib.size + 1 <= LeafMax
  <2>1. /\ Erased \in LeafPages /\ Erased.size \in 0..(MinSize(LeafMax) - 1)
        /\ sib \in LeafPages /\ sib.size \in 0..(LeafMax - 1)
        /\ MinSize(LeafMax) \in Nat /\ 2 * MinSize(LeafMax) <= LeafMax - 1 /\ LeafMax \in Nat
    BY <1>1, LeafUnderflowSizes
  <2> QED BY <1>1, <2>1
<1>3. /\ Cur \in Pids /\ Parent \in Pids /\ Sib \in Pids /\ DOMAIN heap = Pids
      /\ Parent # Cur /\ Sib # Cur /\ Sib # Parent /\ Sep \in Entries
  BY <1>1, UnderflowPages DEF Pids
<1>4. PICK live, lev : TreeShape(live, lev)
  BY DEF TreeInv
<1>5. T \subseteq Pids /\ G[Cur] = Erased /\ \A p \in Pids \ {Cur} : G[p] = heap[p]
  BY <1>3
<1>6. G[Parent] = par /\ G[Sib] = sib
  BY <1>3, <1>5
<1>7. Glued(q, Erased, Sep, sib)
  BY <1>2, <1>3, LeafMergeGlued
<1>8. par.pids[SepIdx - 1] = Cur /\ par.pids[SepIdx] = Sib
  BY <1>1, <1>4, NeighbourSlots DEF LeafMergeRight
<1>9. heap' = [heap EXCEPT ![Cur] = q, ![Parent] = drop]
  <2>1. heap' = [heap EXCEPT ![Cur] = q, ![Parent] = InnerDrop(@, SepIdx)]
    BY DEF LeafMergeRight
  <2> HIDE DEF q
  <2> QED BY <1>3, <2>1
<1> HIDE DEF q, drop
<1>10. /\ Pids' = Pids /\ heap'[Cur] = q /\ heap'[Parent] = drop
       /\ \A p \in Pids \ {Cur, Parent} : heap'[p] = heap[p]
  BY <1>3, <1>9 DEF Pids
<1>11. \A p \in T \ {Cur, Parent} : heap'[p] = G[p]
  BY <1>5, <1>10
<1>12. /\ Glued(q, G[Cur], Sep, G[Sib]) /\ heap'[Parent] = InnerDrop(heap[Parent], SepIdx)
  BY <1>5, <1>6, <1>7, <1>10 DEF drop
<1>13. PICK l, r : l = Cur /\ r = Sib
  OBVIOUS
<1>14. /\ G[Parent] = heap[Parent] /\ l = heap[Parent].pids[SepIdx - 1] /\ r = heap[Parent].pids[SepIdx]
       /\ Glued(q, G[l], Sep, G[r]) /\ heap'[l] = q /\ \A p \in T \ {l, Parent} : heap'[p] = G[p]
  BY <1>6, <1>8, <1>10, <1>11, <1>12, <1>13
<1>15. /\ Pids' = Pids /\ ReturnTo(Cur, NoSplit) /\ HasSibling /\ (LeafUnderflow \/ InnerUnderflow)
       /\ heap'[Parent] = InnerDrop(heap[Parent], SepIdx)
  BY <1>1, <1>5, <1>10, <1>12
<1> QED
  BY <1>14, <1>15 DEF Joins

\* An internal page borrows from its sibling.
LEMMA InnerBorrows ==
  ASSUME IndInv, NEW T, T \subseteq Pids, InnerBorrowRight \/ InnerBorrowLeft, TreeInv
  PROVE  Exchanges(heap, T)
<1> DEFINE sib == heap[Sib]
           par == heap[Parent]
<1>1. /\ InnerUnderflow /\ HasSibling /\ sib.size > MinSize(InnerMax) /\ Return(Done) /\ root' = root
      /\ LeafUnderflow \/ InnerUnderflow
  BY DEF InnerBorrowRight, InnerBorrowLeft, InnerLends
<1>2. /\ Page \in InnerOver(Pids) /\ Page.size \in Nat /\ Page.size >= 1 /\ Page.size < InnerMax
      /\ sib \in InnerOver(Pids) /\ sib.size \in Nat /\ sib.size >= 2 /\ sib.size < InnerMax
      /\ heap[Cur] = Page /\ pc = "up" /\ call.op = "Remove"
  <2>1. /\ pc = "up" /\ call.op = "Remove" /\ heap[Cur] = Page
        /\ Page \in InnerOver(Pids) /\ Page.size \in 1..(MinSize(InnerMax) - 1)
        /\ heap[Sib] \in InnerOver(Pids) /\ heap[Sib].size \in 1..(InnerMax - 1)
        /\ MinSize(InnerMax) \in Nat /\ 2 * MinSize(InnerMax) <= InnerMax - 1 /\ InnerMax \in Nat
    BY <1>1, InnerUnderflowSizes
  <2> QED BY <1>1, <2>1
<1>3. /\ Cur \in Pids /\ Parent \in Pids /\ Sib \in Pids /\ DOMAIN heap = Pids
      /\ Parent # Cur /\ Sib # Cur /\ Sib # Parent /\ Sep \in Entries
  BY <1>1, UnderflowPages DEF Pids
<1>4. PICK G : G = heap
  OBVIOUS
<1>5. PICK live, lev : TreeShape(live, lev)
  BY DEF TreeInv
<1>6. G[Parent] = par /\ G[Sib] = sib /\ G[Cur] = Page
  BY <1>2, <1>4
<1>7. First(Page) = 1 /\ First(sib) = 1 /\ Page.kind = sib.kind
  BY <1>2, InnerFields DEF First
<1>8. InnerFirst(sib) \in Entries /\ InnerLast(sib) \in Entries
  BY <1>2, InnerEnds
<1>9. CASE InnerBorrowRight
  <2> DEFINE l2 == InnerPushBack(Page, Sep, sib.pids[0])
             e == InnerFirst(sib)
             r2 == InnerPopFront(sib)
             set == InnerSetEntry(par, SepIdx, e)
  <2>1. heap' = [heap EXCEPT ![Cur] = InnerPushBack(@, Sep, sib.pids[0]), ![Sib] = InnerPopFront(@),
                             ![Parent] = InnerSetEntry(@, SepIdx, e)]
    BY <1>9 DEF InnerBorrowRight
  <2>2. heap' = [heap EXCEPT ![Cur] = l2, ![Sib] = r2, ![Parent] = set]
    BY <1>2, <1>3, <2>1
  <2>3. PICK q : Glued(q, Page, Sep, sib)
    <3>1. /\ sib.kind = Page.kind /\ Page.size \in Nat /\ sib.size \in Nat
          /\ Page.size >= First(Page) /\ sib.size >= First(Page)
      BY <1>2, <1>7
    <3> QED BY <3>1, GluedExists
  <2>4. Glued(q, l2, e, r2)
    BY <1>2, <1>3, <2>3, InnerBorrowGlued
  <2>5. par.pids[SepIdx - 1] = Cur /\ par.pids[SepIdx] = Sib
    BY <1>1, <1>5, <1>9, NeighbourSlots DEF InnerBorrowRight
  <2>6. e \in Entries
    BY <1>8
  <2> HIDE DEF l2, r2, e, set
  <2>7. /\ Pids' = Pids /\ heap'[Cur] = l2 /\ heap'[Sib] = r2 /\ heap'[Parent] = set
        /\ \A p \in Pids \ {Cur, Sib, Parent} : heap'[p] = heap[p]
    BY <1>3, <2>2, ThreeWritten DEF Pids
  <2>8. \A p \in T \ {Cur, Sib, Parent} : heap'[p] = G[p]
    BY <1>4, <2>7
  <2>9. /\ Glued(q, G[Cur], Sep, G[Sib]) /\ heap'[Parent] = InnerSetEntry(heap[Parent], SepIdx, e)
    BY <1>6, <2>3, <2>7 DEF set
  <2>10. PICK l, r : l = Cur /\ r = Sib
    OBVIOUS
  <2>11. /\ G[Parent] = heap[Parent] /\ l = heap[Parent].pids[SepIdx - 1] /\ r = heap[Parent].pids[SepIdx]
         /\ Glued(q, G[l], Sep, G[r]) /\ heap'[l] = l2 /\ heap'[r] = r2
         /\ \A p \in T \ {l, r, Parent} : heap'[p] = G[p]
    BY <1>6, <2>5, <2>7, <2>8, <2>9, <2>10
  <2>12. /\ Pids' = Pids /\ root' = root /\ Return(Done)
         /\ HasSibling /\ (LeafUnderflow \/ InnerUnderflow)
         /\ heap'[Parent] = InnerSetEntry(heap[Parent], SepIdx, e)
    BY <1>1, <2>7, <2>9
  <2> QED BY <1>4, <2>4, <2>6, <2>11, <2>12 DEF Exchanges
<1>10. CASE InnerBorrowLeft
  <2> DEFINE r2 == InnerPushFront(Page, Sep, sib.pids[sib.size - 1])
             e == InnerLast(sib)
             l2 == InnerPopBack(sib)
             set == InnerSetEntry(par, SepIdx, e)
  <2>1. heap' = [heap EXCEPT ![Cur] = InnerPushFront(@, Sep, sib.pids[sib.size - 1]), ![Sib] = InnerPopBack(@),
                             ![Parent] = InnerSetEntry(@, SepIdx, e)]
    BY <1>10 DEF InnerBorrowLeft
  <2>2. heap' = [heap EXCEPT ![Cur] = r2, ![Sib] = l2, ![Parent] = set]
    BY <1>2, <1>3, <2>1
  <2>3. PICK q : Glued(q, sib, Sep, Page)
    <3>1. /\ Page.kind = sib.kind /\ Page.size \in Nat /\ sib.size \in Nat
          /\ sib.size >= First(sib) /\ Page.size >= First(sib)
      BY <1>2, <1>7
    <3> QED BY <3>1, GluedExists
  <2>4. Glued(q, l2, e, r2)
    BY <1>2, <1>3, <2>3, InnerBorrowGlued
  <2>5. par.pids[SepIdx - 1] = Sib /\ par.pids[SepIdx] = Cur
    BY <1>1, <1>5, <1>10, NeighbourSlots DEF InnerBorrowLeft
  <2>6. e \in Entries
    BY <1>8
  <2> HIDE DEF l2, r2, e, set
  <2>7. /\ Pids' = Pids /\ heap'[Cur] = r2 /\ heap'[Sib] = l2 /\ heap'[Parent] = set
        /\ \A p \in Pids \ {Cur, Sib, Parent} : heap'[p] = heap[p]
    BY <1>3, <2>2, ThreeWritten DEF Pids
  <2>8. \A p \in T \ {Sib, Cur, Parent} : heap'[p] = G[p]
    BY <1>4, <2>7
  <2>9. /\ Glued(q, G[Sib], Sep, G[Cur]) /\ heap'[Parent] = InnerSetEntry(heap[Parent], SepIdx, e)
    BY <1>6, <2>3, <2>7 DEF set
  <2>10. PICK l, r : l = Sib /\ r = Cur
    OBVIOUS
  <2>11. /\ G[Parent] = heap[Parent] /\ l = heap[Parent].pids[SepIdx - 1] /\ r = heap[Parent].pids[SepIdx]
         /\ Glued(q, G[l], Sep, G[r]) /\ heap'[l] = l2 /\ heap'[r] = r2
         /\ \A p \in T \ {l, r, Parent} : heap'[p] = G[p]
    BY <1>6, <2>5, <2>7, <2>8, <2>9, <2>10
  <2>12. /\ Pids' = Pids /\ root' = root /\ Return(Done)
         /\ HasSibling /\ (LeafUnderflow \/ InnerUnderflow)
         /\ heap'[Parent] = InnerSetEntry(heap[Parent], SepIdx, e)
    BY <1>1, <2>7, <2>9
  <2> QED BY <1>4, <2>4, <2>6, <2>11, <2>12 DEF Exchanges
<1> QED
  BY <1>1, <1>9, <1>10

\* An internal page takes its right sibling's children, or gives its only child to
\* its left sibling.
LEMMA InnerJoins ==
  ASSUME IndInv, NEW T, T \subseteq Pids, TreeInv,
         InnerMergeRight \/ InnerMergeLeft, ~InnerMergeMiscounts
  PROVE  Joins(heap, T)
<1> DEFINE sib == heap[Sib]
           par == heap[Parent]
           drop == InnerDrop(par, SepIdx)
<1>1. /\ InnerUnderflow /\ HasSibling /\ sib.size <= MinSize(InnerMax) /\ ReturnTo(Cur, NoSplit)
      /\ LeafUnderflow \/ InnerUnderflow
  BY DEF InnerMergeRight, InnerMergeLeft, InnerMerges
<1>2. /\ Page \in InnerOver(Pids) /\ Page.size \in Nat /\ Page.size >= 1
      /\ sib \in InnerOver(Pids) /\ sib.size \in Nat /\ sib.size >= 1
      /\ Page.size + sib.size <= InnerMax /\ sib.size + Page.size <= InnerMax
      /\ heap[Cur] = Page /\ pc = "up" /\ call.op = "Remove"
  <2>1. /\ pc = "up" /\ call.op = "Remove" /\ heap[Cur] = Page
        /\ Page \in InnerOver(Pids) /\ Page.size \in 1..(MinSize(InnerMax) - 1)
        /\ heap[Sib] \in InnerOver(Pids) /\ heap[Sib].size \in 1..(InnerMax - 1)
        /\ MinSize(InnerMax) \in Nat /\ 2 * MinSize(InnerMax) <= InnerMax - 1 /\ InnerMax \in Nat
    BY <1>1, InnerUnderflowSizes
  <2> QED BY <1>1, <2>1
<1>3. /\ Cur \in Pids /\ Parent \in Pids /\ Sib \in Pids /\ DOMAIN heap = Pids
      /\ Parent # Cur /\ Sib # Cur /\ Sib # Parent /\ Sep \in Entries
  BY <1>1, UnderflowPages DEF Pids
<1>4. PICK G : G = heap
  OBVIOUS
<1>5. PICK live, lev : TreeShape(live, lev)
  BY DEF TreeInv
<1>6. G[Parent] = par /\ G[Sib] = sib /\ G[Cur] = Page
  BY <1>2, <1>4
<1>7. CASE InnerMergeRight
  <2> DEFINE q == InnerGrow(InnerAbsorb(Page, Sep, sib), sib.size - 1)
  <2>1. Glued(q, Page, Sep, sib)
    BY <1>2, <1>3, InnerMergeGlued
  <2>2. par.pids[SepIdx - 1] = Cur /\ par.pids[SepIdx] = Sib
    BY <1>1, <1>5, <1>7, NeighbourSlots DEF InnerMergeRight
  <2>3. heap' = [heap EXCEPT ![Cur] = InnerGrow(InnerAbsorb(@, Sep, sib), sib.size - 1),
                             ![Parent] = InnerDrop(@, SepIdx)]
    BY <1>7 DEF InnerMergeRight
  <2>4. heap' = [heap EXCEPT ![Cur] = q, ![Parent] = drop]
    BY <1>2, <1>3, <2>3
  <2> HIDE DEF q, drop
  <2>5. /\ Pids' = Pids /\ heap'[Cur] = q /\ heap'[Parent] = drop
        /\ \A p \in Pids \ {Cur, Parent} : heap'[p] = heap[p]
    BY <1>3, <2>4 DEF Pids
  <2>6. \A p \in T \ {Cur, Parent} : heap'[p] = G[p]
    BY <1>4, <2>5
  <2>7. PICK l, r : l = Cur /\ r = Sib
    OBVIOUS
  <2>8. /\ G[Parent] = heap[Parent] /\ l = heap[Parent].pids[SepIdx - 1] /\ r = heap[Parent].pids[SepIdx]
        /\ Glued(q, G[l], Sep, G[r]) /\ heap'[l] = q /\ \A p \in T \ {l, Parent} : heap'[p] = G[p]
    BY <1>6, <2>1, <2>2, <2>5, <2>6, <2>7
  <2>9. /\ Pids' = Pids /\ ReturnTo(Cur, NoSplit) /\ HasSibling /\ (LeafUnderflow \/ InnerUnderflow)
        /\ heap'[Parent] = InnerDrop(heap[Parent], SepIdx)
    BY <1>1, <2>5 DEF drop
  <2> QED BY <1>4, <2>8, <2>9 DEF Joins
<1>8. CASE InnerMergeLeft
  <2> DEFINE q == InnerAbsorb(sib, Sep, Page)
  <2>1. Page.size = 1
    BY <1>2, <1>8 DEF InnerMergeLeft, InnerMergeMiscounts
  <2>2. q \in InnerOver(Pids)
    BY <1>2, <1>3, InnerAbsorbType
  <2>3. Glued(InnerGrow(q, Page.size - 1), sib, Sep, Page)
    BY <1>2, <1>3, InnerMergeGlued
  <2>4. par.pids[SepIdx - 1] = Sib /\ par.pids[SepIdx] = Cur
    BY <1>1, <1>5, <1>8, NeighbourSlots DEF InnerMergeLeft
  <2>5. heap' = [heap EXCEPT ![Cur] = InnerGrow(@, Page.size - 1), ![Sib] = InnerAbsorb(@, Sep, Page),
                             ![Parent] = InnerDrop(@, SepIdx)]
    BY <1>8 DEF InnerMergeLeft
  <2>6. heap' = [heap EXCEPT ![Cur] = InnerGrow(Page, Page.size - 1), ![Sib] = q, ![Parent] = drop]
    BY <1>2, <1>3, <2>5
  <2> HIDE DEF q, drop
  <2>7. InnerGrow(Page, Page.size - 1) = Page /\ InnerGrow(q, Page.size - 1) = q
    <3>1. ASSUME NEW p \in InnerOver(Pids) PROVE InnerGrow(p, 0) = p
      BY InnerFields DEF InnerGrow, InnerOver
    <3> QED BY <1>2, <2>1, <2>2, <3>1
  <2>8. heap' = [heap EXCEPT ![Cur] = Page, ![Sib] = q, ![Parent] = drop]
    BY <2>6, <2>7
  <2>9. /\ Pids' = Pids /\ heap'[Cur] = Page /\ heap'[Sib] = q /\ heap'[Parent] = drop
        /\ \A p \in Pids \ {Cur, Sib, Parent} : heap'[p] = heap[p]
    BY <1>3, <2>8, ThreeWritten DEF Pids
  <2>10. \A p \in T \ {Sib, Parent} : heap'[p] = G[p]
    BY <1>2, <1>4, <2>9
  <2>11. PICK l, r : l = Sib /\ r = Cur
    OBVIOUS
  <2>12. /\ G[Parent] = heap[Parent] /\ l = heap[Parent].pids[SepIdx - 1] /\ r = heap[Parent].pids[SepIdx]
         /\ Glued(q, G[l], Sep, G[r]) /\ heap'[l] = q /\ \A p \in T \ {l, Parent} : heap'[p] = G[p]
    BY <1>6, <2>3, <2>4, <2>7, <2>9, <2>10, <2>11
  <2>13. /\ Pids' = Pids /\ ReturnTo(Cur, NoSplit) /\ HasSibling /\ (LeafUnderflow \/ InnerUnderflow)
         /\ heap'[Parent] = InnerDrop(heap[Parent], SepIdx)
    BY <1>1, <2>9 DEF drop
  <2> QED BY <1>4, <2>12, <2>13 DEF Joins
<1> QED
  BY <1>7, <1>8

\* Borrows and merges keep the order.
LEMMA BorrowMergeOrder ==
  ASSUME IndInv, NEW T, NEW lev, TreeShape(T, lev), NEW span, OrderShape(T, span),
         \/ LeafBorrowRight \/ LeafBorrowLeft \/ LeafMergeRight
         \/ InnerBorrowRight \/ InnerBorrowLeft
         \/ (InnerMergeRight \/ InnerMergeLeft) /\ ~InnerMergeMiscounts
  PROVE  StillOrdered(T)
<1>1. TreeInv /\ T \subseteq Pids
  BY PathFacts DEF TreeInv
<1>2. CASE LeafBorrowRight \/ LeafBorrowLeft \/ LeafMergeRight
  <2>1. PICK G : G = [heap EXCEPT ![Cur] = Erased]
    OBVIOUS
  <2>2. AtLeaf("Remove") /\ LeafHolds(Page, key)
    BY <1>2 DEF LeafBorrowRight, LeafBorrowLeft, LeafMergeRight, LeafLends, LeafMerges, LeafUnderflow
  <2>3. Ordered(G, T, span) /\ span[root] = Int /\ Forest(G, {root}, T, lev)
    BY <2>1, <2>2, ErasedOrder
  <2>4. Exchanges(G, T) \/ Joins(G, T)
    BY <1>1, <1>2, <2>1, LeafBorrows, LeafJoins
  <2> QED BY <2>3, <2>4, BorrowEnds, MergeReturns
<1>3. CASE \/ InnerBorrowRight \/ InnerBorrowLeft
           \/ (InnerMergeRight \/ InnerMergeLeft) /\ ~InnerMergeMiscounts
  <2>1. pc = "up" /\ call.op = "Remove"
    BY <1>3 DEF InnerBorrowRight, InnerBorrowLeft, InnerMergeRight, InnerMergeLeft, InnerLends, InnerMerges,
                InnerUnderflow
  <2>2. PICK G : G = heap
    OBVIOUS
  <2>3. Ordered(G, T, span) /\ span[root] = Int /\ Forest(G, {root}, T, lev)
    BY <2>1, <2>2, RestOrder, UpRemoveShape
  <2>4. Exchanges(G, T) \/ Joins(G, T)
    BY <1>1, <1>3, <2>2, InnerBorrows, InnerJoins
  <2> QED BY <2>3, <2>4, BorrowEnds, MergeReturns
<1> QED
  BY <1>2, <1>3

\* A frame with nothing to do, and the last one of a Remove.
LEMMA RemoveEndsOrder ==
  ASSUME IndInv, NEW T, NEW lev, TreeShape(T, lev), NEW span, OrderShape(T, span),
         InnerSafe \/ RootKeeps
  PROVE  StillOrdered(T)
<1>1. pc = "up" /\ call.op = "Remove" /\ heap' = heap /\ root' = root /\ Return(Done)
  BY DEF InnerSafe, RootKeeps
<1>2. Ordered(heap', T, span) /\ span[root'] = Int
  BY <1>1, RestOrder
<1>3. T \cup (Pids' \ Pids) \subseteq T
  BY <1>1 DEF Pids
<1> QED
  BY <1>1, <1>2, <1>3, EndsOrdered

\* A root with one child is replaced by it: nothing bounds what the child may hold.
LEMMA RootShrinksOrder ==
  ASSUME IndInv, NEW T, NEW lev, TreeShape(T, lev), NEW span, OrderShape(T, span),
         RootShrinks, ~ShrinksToDeadPage
  PROVE  StillOrdered(T)
<1>1. /\ pc = "up" /\ call.op = "Remove" /\ Len(path) = 1 /\ Page.size = 1 /\ root' = child
      /\ Return(Done) /\ heap' = heap /\ child = Page.pids[0]
  BY DEF RootShrinks, ShrinksToDeadPage
<1>2. Ordered(heap, T, span) /\ span[root] = Int
  BY <1>1, RestOrder
<1>3. Cur = root /\ root \in T /\ Page = heap[root] /\ Page \in InnerOver(Pids) /\ Page.kind = "inner"
  BY <1>1, PathFacts, InnerUpFacts, InnerFields
<1>4. Parted(Page, Int, span)
  BY <1>2, <1>3 DEF Ordered, InOrder
<1>5. \A k : k \in span[child] <=> k \in Int
  <2>1. 0 \in 0..(Page.size - 1) /\ \A k : Between(Page, 0, k)
    BY <1>1 DEF Between
  <2>2. \A k : k \in span[Page.pids[0]] <=> k \in Int /\ Between(Page, 0, k)
    BY <1>3, <1>4, <2>1 DEF Parted
  <2> QED BY <1>1, <2>1, <2>2
<1>6. span[child] = Int
  BY <1>5
<1>7. T \cup (Pids' \ Pids) \subseteq T
  BY <1>1 DEF Pids
<1>8. Ordered(heap', T, span) /\ span[root'] = Int
  BY <1>1, <1>2, <1>6
<1> QED
  BY <1>1, <1>7, <1>8, EndsOrdered

-----------------------------------------------------------------------------
\* Until the first faulty step the tree is in order, or the program has stopped.

\* Every step that is not faulty and does not stop the program keeps the order.
LEMMA OrderStep ==
  ASSUME IndInv, NEW T, NEW lev, TreeShape(T, lev), NEW span, OrderShape(T, span),
         [Next /\ ~Faulty]_vars, LeafMax >= 3
  PROVE  StillOrdered(T) \/ pc' \in {"aborted", "undefined"}
<1>1. CASE UNCHANGED vars
  <2>1. OrderShape(T, span)'
    BY <1>1 DEF vars, OrderShape, View, RootSpan, SearchSpan, Moved, Splitting, Cur, Parent, Page, IsLeaf
  <2>2. T \cup (Pids' \ Pids) \subseteq T
    BY <1>1 DEF vars, Pids
  <2> QED BY <2>1, <2>2 DEF StillOrdered
<1>2. CASE \E c \in Calls : Invoke(c)
  BY <1>2, InvokeOrder
<1>3. CASE Step /\ ~Faulty
  <2>1. CASE GoDown
    BY <2>1, GoDownOrder
  <2>2. CASE \/ GetAtInner \/ GetAtLeaf \/ UpdateAtInner \/ UpdateAtLeaf
             \/ InsertDuplicate \/ RemoveMiss
    BY <2>2, EndStepOrder
  <2>3. CASE LeafInsertFits \/ LeafInsertSplits
    BY <1>3, <2>3, LeafInsertOrder DEF Faulty
  <2>4. CASE InnerInsertFits \/ InnerInsertSplits
    BY <2>4, InnerInsertOrder
  <2>5. CASE GrowRoot
    BY <2>5, GrowRootOrder
  <2>6. CASE RemoveAtInner
    BY <1>3, <2>6, RemoveAtInnerOrder DEF Faulty
  <2>7. CASE RemoveFromLeaf
    BY <2>7, RemoveFromLeafOrder
  <2>8. CASE \/ LeafBorrowRight \/ LeafBorrowLeft \/ LeafMergeRight
             \/ InnerBorrowRight \/ InnerBorrowLeft \/ InnerMergeRight \/ InnerMergeLeft
    BY <1>3, <2>8, BorrowMergeOrder DEF Faulty
  <2>10. CASE LeafMergeLeft
    BY <1>3, <2>10 DEF Faulty, LeafMergeMiscounts, LeafMergeLeft
  <2>13. CASE InnerSafe \/ RootKeeps
    BY <2>13, RemoveEndsOrder
  <2>14. CASE RootShrinks
    BY <1>3, <2>14, RootShrinksOrder DEF Faulty
  <2>15. CASE RemoveMissBelowInner \/ NoSibling
    BY <2>15 DEF RemoveMissBelowInner, NoSibling, Stop
  <2> QED
    BY <1>3, <2>1, <2>2, <2>3, <2>4, <2>5, <2>6, <2>7, <2>8, <2>10, <2>13, <2>14, <2>15
       DEF Step
<1> QED
  BY <1>1, <1>2, <1>3 DEF Next

\* Until the program stops, the tree is in order.
OrderInv == pc \in {"aborted", "undefined"} \/ \E span : OrderShape(TreePages, span)

\* The order of a larger set of pages is that of the tree.
LEMMA OrderRestrict ==
  ASSUME NEW S, NEW span, OrderShape(S, span), NEW T, T \subseteq S
  PROVE  OrderShape(T, span)
BY DEF OrderShape, Ordered

\* A step that is not faulty keeps it so.
LEMMA OrderKeeps ==
  LeafMax >= 3 => (IndInv /\ TreeInv /\ OrderInv /\ [Next /\ ~Faulty]_vars /\ IndInv' => OrderInv')
<1>1. \A L, V : IndInv /\ TreeShape(L, V) => TreePages \subseteq L
  BY TreePagesShape
<1>2. (\A L, V : IndInv /\ TreeShape(L, V) => TreePages \subseteq L)'
  BY <1>1, PTL
<1>3. \A S, T, sp : OrderShape(S, sp) /\ T \subseteq S => OrderShape(T, sp)
  BY OrderRestrict
<1>4. (\A S, T, sp : OrderShape(S, sp) /\ T \subseteq S => OrderShape(T, sp))'
  BY <1>3, PTL
<1> SUFFICES ASSUME LeafMax >= 3, IndInv, TreeInv, OrderInv, [Next /\ ~Faulty]_vars, IndInv'
             PROVE  OrderInv'
  OBVIOUS
<1>5. CASE pc \in {"aborted", "undefined"}
  <2>1. ~Next
    BY <1>5 DEF Next, Step, Invoke, GoDown, GetAtInner, GetAtLeaf, UpdateAtInner, UpdateAtLeaf, InsertDuplicate,
           LeafInsertFits, LeafInsertSplits, InnerInsertFits, InnerInsertSplits, GrowRoot,
           RemoveAtInner, RemoveMiss, RemoveMissBelowInner, RemoveFromLeaf, NoSibling, Alone,
           LeafBorrowRight, LeafBorrowLeft, LeafMergeRight, LeafMergeLeft, InnerSafe,
           InnerBorrowRight, InnerBorrowLeft, InnerMergeRight, InnerMergeLeft, RootKeeps, RootShrinks,
           AtInner, AtLeaf, LeafUnderflow, InnerUnderflow, LeafLends, LeafMerges, InnerLends, InnerMerges
  <2>2. pc' = pc
    BY <2>1 DEF vars
  <2> QED BY <1>5, <2>2 DEF OrderInv
<1>6. ASSUME NEW span, OrderShape(TreePages, span) PROVE OrderInv'
  <2>1. PICK lev : TreeShape(TreePages, lev)
    BY TreePagesAreATree DEF TreeInv
  <2>2. StillTree(TreePages)
    <3>1. [Next /\ ~ShrinksToDeadPage]_vars
      BY DEF Faulty
    <3> QED BY <2>1, <3>1, TreeStep
  <2>3. StillOrdered(TreePages) \/ pc' \in {"aborted", "undefined"}
    BY <1>6, <2>1, OrderStep
  <2>4. CASE StillOrdered(TreePages)
    <3>1. PICK S, sp : OrderShape(S, sp)' /\ TreePages \cup (Pids' \ Pids) \subseteq S
      BY <2>4 DEF StillOrdered
    <3>2. PICK L, V : TreeShape(L, V)' /\ L \subseteq TreePages \cup (Pids' \ Pids)
      BY <2>2 DEF StillTree
    <3>3. TreePages' \subseteq L
      BY <1>2, <3>2
    <3>4. TreePages' \subseteq S
      BY <3>1, <3>2, <3>3
    <3>5. OrderShape(TreePages, sp)'
      BY <1>4, <3>1, <3>4
    <3> QED BY <3>5 DEF OrderInv
  <2> QED BY <2>3, <2>4 DEF OrderInv
<1> QED
  BY <1>5, <1>6 DEF OrderInv

\* The empty leaf is in order.
LEMMA InitOrder == Init => OrderInv
<1> SUFFICES ASSUME Init PROVE OrderInv
  OBVIOUS
<1> DEFINE span == [p \in Pids |-> Int]
<1>1. pc = "idle" /\ Pids = {0} /\ root = 0 /\ heap[0] = EmptyLeaf
  BY DEF Init, Pids
<1>2. View = heap /\ ~Splitting
  BY <1>1 DEF View, Moved, Splitting
<1>3. InOrder(EmptyLeaf, Int, span)
  <2>1. EmptyLeaf.kind = "leaf" /\ Places(EmptyLeaf) = {}
    BY DEF EmptyLeaf, Places, First
  <2>2. Sorted(EmptyLeaf, Int)
    BY <2>1 DEF Sorted
  <2> HIDE DEF span
  <2> QED BY <2>1, <2>2 DEF InOrder, Parted, AllInts
<1>4. \A p \in Pids : span[p] = Int
  OBVIOUS
<1> HIDE DEF span
<1>5. TreePages \subseteq Pids
  <2>1. IndInv /\ TreeInv
    BY InitEstablishes, InitTree
  <2> QED BY <2>1, TreePagesShape DEF TreeInv
<1>6. \A p \in TreePages : p \in Pids /\ View[p] = EmptyLeaf
  BY <1>1, <1>2, <1>5
<1>7. Ordered(View, TreePages, span) /\ RootSpan(span)
  BY <1>1, <1>2, <1>3, <1>4, <1>6 DEF Ordered, RootSpan
<1> QED
  BY <1>1, <1>7 DEF OrderInv, OrderShape

\* What every run of SoundCalls keeps.
LEMMA OrderAlways == LeafMax >= 3 => (SoundCalls => [](IndInv /\ TreeInv /\ OrderInv))
<1> SUFFICES ASSUME LeafMax >= 3 PROVE SoundCalls => [](IndInv /\ TreeInv /\ OrderInv)
  OBVIOUS
<1>1. SoundCalls => TreeSpec
  <2>1. ~Faulty => ~ShrinksToDeadPage
    BY DEF Faulty
  <2>2. [Next /\ ~Faulty]_vars => [Next /\ ~ShrinksToDeadPage]_vars
    BY <2>1
  <2> QED BY <2>2, PTL DEF SoundCalls, TreeSpec
<1>2. Init => OrderInv
  BY InitOrder
<1>3. IndInv /\ TreeInv /\ OrderInv /\ [Next /\ ~Faulty]_vars /\ IndInv' => OrderInv'
  BY OrderKeeps
<1> QED
  BY <1>1, <1>2, <1>3, TreeAlways, PTL DEF SoundCalls
=============================================================================
