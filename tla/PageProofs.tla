----------------------------- MODULE PageProofs ------------------------------
(***************************************************************************)
(* What the operators of LeafPage and InnerPage return: pages again, and of *)
(* which size; what they leave below an internal page; and how a heap stays *)
(* a forest when a page splits, merges, borrows or gets a parent.           *)
(***************************************************************************)
EXTENDS LeafPage, InnerPage, WellFoundedInduction, SequenceTheorems, TLAPS

\* Internal pages whose child slots, the stale ones included, hold ids in S.
InnerOver(S) ==
  [kind : {"inner"}, size : 0..InnerMax, slots : [InnerSlots -> Entries], pids : [InnerSlots -> S]]

\* GetMinSize is less than half of the slots, so that two pages at or below it
\* and the entry between them fit in one.
LEMMA MinSizeBound ==
  ASSUME NEW max \in Nat, max >= 1
  PROVE  MinSize(max) \in Nat /\ 2 * MinSize(max) <= max - 1 /\ max - 1 <= 2 * MinSize(max) + 1
BY DEF MinSize

\* What zero-filled memory reads as is an entry.
LEMMA ZeroEntryType == ZeroEntry \in Entries
BY ParameterAssumption DEF ZeroEntry, Entries

\* A page fresh from LeafPage::Init is a leaf page.
LEMMA EmptyLeafType == EmptyLeaf \in LeafPages
BY ParameterAssumption, ZeroEntryType DEF EmptyLeaf, LeafPages

\* A page fresh from InternalPage::Init is an internal page.
LEMMA EmptyInnerType == ASSUME NEW S, 0 \in S PROVE EmptyInner \in InnerOver(S)
BY ParameterAssumption, ZeroEntryType DEF EmptyInner, InnerOver

\* The slot moves keep the type of an array as long as they stay inside it.
LEMMA LeafMoves ==
  ASSUME NEW S, NEW a \in [LeafSlots -> S], NEW i \in Nat, NEW n \in Nat
  PROVE  /\ n < LeafMax => OpenGap(a, i, n) \in [LeafSlots -> S]
         /\ n <= LeafMax => CloseGap(a, i, n) \in [LeafSlots -> S]
BY ParameterAssumption DEF OpenGap, CloseGap, LeafSlots

\* The same for the two arrays of an internal page.
LEMMA InnerMoves ==
  ASSUME NEW S, NEW a \in [InnerSlots -> S], NEW i \in Nat, NEW n \in Nat
  PROVE  /\ n < InnerMax => OpenGap(a, i, n) \in [InnerSlots -> S]
         /\ n <= InnerMax => CloseGap(a, i, n) \in [InnerSlots -> S]
BY ParameterAssumption DEF OpenGap, CloseGap, InnerSlots

\* std::copy into a leaf, and below into an internal page, keeps the type of the
\* array it writes as long as it stays inside both arrays.
LEMMA LeafCopies ==
  ASSUME NEW S, NEW dst \in [LeafSlots -> S], NEW src \in [LeafSlots -> S],
         NEW at \in Nat, NEW from \in Nat, NEW n \in Int, from + n <= LeafMax, at + n <= LeafMax
  PROVE  CopyRange(dst, at, src, from, n) \in [LeafSlots -> S]
BY ParameterAssumption DEF CopyRange, LeafSlots

\* std::copy between the arrays of internal pages.
LEMMA InnerCopies ==
  ASSUME NEW S, NEW dst \in [InnerSlots -> S], NEW src \in [InnerSlots -> S],
         NEW at \in Nat, NEW from \in Nat, NEW n \in Int, from + n <= InnerMax, at + n <= InnerMax
  PROVE  CopyRange(dst, at, src, from, n) \in [InnerSlots -> S]
BY ParameterAssumption DEF CopyRange, InnerSlots

\* What membership says of the fields.
LEMMA LeafFields ==
  ASSUME NEW p \in LeafPages
  PROVE  /\ p.kind = "leaf" /\ p.size \in 0..LeafMax /\ p.size \in Nat
         /\ p.slots \in [LeafSlots -> Entries]
         /\ \A i \in LeafSlots : p.slots[i] \in Entries
BY ParameterAssumption DEF LeafPages

\* What membership says of the fields of an internal page.
LEMMA InnerFields ==
  ASSUME NEW S, NEW p \in InnerOver(S)
  PROVE  /\ p.kind = "inner" /\ p.size \in 0..InnerMax /\ p.size \in Nat
         /\ p.slots \in [InnerSlots -> Entries] /\ p.pids \in [InnerSlots -> S]
         /\ \A i \in InnerSlots : p.slots[i] \in Entries /\ p.pids[i] \in S
BY ParameterAssumption DEF InnerOver

\* The searches of both page classes return an index the arrays have.
LEMMA LeafSearchRange ==
  ASSUME NEW p \in LeafPages, NEW k
  PROVE  /\ LeafSearch(p, k) \in 0..p.size /\ LeafSearch(p, k) \in Nat
         /\ LeafHolds(p, k) => LeafSearch(p, k) \in LeafSlots /\ p.size >= 1
<1>1. p.size \in 0..LeafMax /\ p.size \in Nat /\ 0 \in 0..p.size
  BY LeafFields
<1>2. {i \in 0..(p.size - 1) : p.slots[i][1] < k} \in SUBSET (0..(p.size - 1))
  OBVIOUS
<1>3. LeafSearch(p, k) \in 0..p.size
  BY <1>1, <1>2, LowerBoundAssumption DEF LeafSearch
<1> QED
  BY <1>1, <1>3, ParameterAssumption DEF LeafHolds, LeafSlots

\* An internal page is searched from slot 1, so that there is a child left of the
\* position found.
LEMMA InnerSearchRange ==
  ASSUME NEW S, NEW p \in InnerOver(S), p.size >= 1, NEW k
  PROVE  /\ InnerSearch(p, k) \in 1..p.size /\ InnerSearch(p, k) \in Nat
         /\ InnerSearch(p, k) - 1 \in InnerSlots
         /\ InnerHolds(p, k) => InnerSearch(p, k) \in 1..(p.size - 1)
                                /\ InnerSearch(p, k) \in InnerSlots
<1>1. p.size \in 0..InnerMax /\ p.size \in Nat /\ 1 \in 0..p.size
  BY InnerFields
<1>2. {i \in 1..(p.size - 1) : p.slots[i][1] < k} \in SUBSET (1..(p.size - 1))
  OBVIOUS
<1>3. InnerSearch(p, k) \in 1..p.size
  BY <1>1, <1>2, LowerBoundAssumption DEF InnerSearch
<1> QED
  BY <1>1, <1>3, ParameterAssumption DEF InnerHolds, InnerSlots

-----------------------------------------------------------------------------
\* Leaves

\* LeafPage::Insert, before the split: one entry more.
LEMMA LeafPlaceType ==
  ASSUME NEW p \in LeafPages, p.size < LeafMax, NEW e \in Entries
  PROVE  LeafPlace(p, e) \in LeafPages /\ LeafPlace(p, e).size = p.size + 1
<1> DEFINE i == LeafSearch(p, e[1])
           slots == [OpenGap(p.slots, i, p.size) EXCEPT ![i] = e]
<1>1. i \in Nat /\ p.size \in Nat /\ p.size + 1 \in 0..LeafMax
  BY LeafSearchRange, LeafFields, ParameterAssumption
<1>2. OpenGap(p.slots, i, p.size) \in [LeafSlots -> Entries]
  <2> HIDE DEF i
  <2> QED BY <1>1, LeafFields, LeafMoves
<1>3. slots \in [LeafSlots -> Entries]
  BY <1>2
<1>4. LeafPlace(p, e) = [p EXCEPT !.size = p.size + 1, !.slots = slots]
  BY DEF LeafPlace
<1> HIDE DEF slots
<1> QED
  BY <1>1, <1>3, <1>4 DEF LeafPages

\* LeafPage::Insert, the split: both halves are below the slot count.
LEMMA LeafSplitTypes ==
  ASSUME NEW p \in LeafPages, p.size = LeafMax
  PROVE  /\ LeafLower(p) \in LeafPages /\ LeafLower(p).size \in 0..(LeafMax - 1)
         /\ LeafUpper(p) \in LeafPages /\ LeafUpper(p).size \in 0..(LeafMax - 1)
         /\ LeafMiddle(p) \in Entries
<1> DEFINE mid == MinSize(LeafMax)
           n == p.size - mid - 1
           slots == CopyRange(EmptyLeaf.slots, 0, p.slots, mid + 1, n)
<1>1. LeafMax \in Nat /\ mid \in Nat /\ mid \in 0..(LeafMax - 1) /\ mid \in LeafSlots
  BY ParameterAssumption, MinSizeBound DEF LeafSlots
<1> HIDE DEF mid
<1>2. /\ n \in Int /\ n \in 0..(LeafMax - 1) /\ n \in 0..LeafMax /\ mid + 1 \in Nat
      /\ mid + 1 + n <= LeafMax /\ 0 + n <= LeafMax
  BY <1>1
<1> HIDE DEF n
<1>3. slots \in [LeafSlots -> Entries]
  BY <1>1, <1>2, EmptyLeafType, LeafFields, LeafCopies
<1> HIDE DEF slots
<1>4. LeafUpper(p) = [EmptyLeaf EXCEPT !.size = n, !.slots = slots]
  BY DEF LeafUpper, n, slots, mid
<1>5. LeafUpper(p) \in LeafPages /\ LeafUpper(p).size = n
  BY <1>2, <1>3, <1>4, EmptyLeafType DEF LeafPages
<1>6. LeafLower(p) = [p EXCEPT !.size = mid] /\ mid \in 0..LeafMax
  BY <1>1 DEF LeafLower, mid
<1>7. LeafLower(p) \in LeafPages /\ LeafLower(p).size = mid
  BY <1>6, LeafFields DEF LeafPages
<1>8. LeafMiddle(p) \in Entries
  BY <1>1, LeafFields DEF LeafMiddle, mid
<1> QED
  BY <1>1, <1>2, <1>5, <1>7, <1>8

\* LeafPage::Update leaves the size alone.
LEMMA LeafAssignType ==
  ASSUME NEW p \in LeafPages, NEW k, NEW v \in Vals, LeafHolds(p, k)
  PROVE  LeafAssign(p, k, v) \in LeafPages /\ LeafAssign(p, k, v).size = p.size
<1> DEFINE i == LeafSearch(p, k)
           slots == [p.slots EXCEPT ![i] = <<p.slots[i][1], v>>]
<1>1. i \in LeafSlots
  BY LeafSearchRange
<1> HIDE DEF i
<1>2. <<p.slots[i][1], v>> \in Entries
  BY <1>1, LeafFields DEF Entries
<1>3. slots \in [LeafSlots -> Entries]
  BY <1>2, LeafFields
<1>4. LeafAssign(p, k, v) = [p EXCEPT !.slots = slots]
  BY DEF LeafAssign, i
<1> HIDE DEF slots
<1> QED
  BY <1>3, <1>4, LeafFields DEF LeafPages

\* LeafPage::Remove: one entry fewer, and there was one.
LEMMA LeafEraseType ==
  ASSUME NEW p \in LeafPages, NEW k, LeafHolds(p, k)
  PROVE  LeafErase(p, k) \in LeafPages /\ LeafErase(p, k).size = p.size - 1 /\ p.size >= 1
<1> DEFINE i == LeafSearch(p, k)
           slots == CloseGap(p.slots, i, p.size)
<1>1. i \in Nat /\ p.size >= 1 /\ p.size <= LeafMax /\ p.size \in Nat /\ p.size - 1 \in 0..LeafMax
  BY LeafSearchRange, LeafFields, ParameterAssumption
<1> HIDE DEF i
<1>2. slots \in [LeafSlots -> Entries]
  BY <1>1, LeafFields, LeafMoves
<1>3. LeafErase(p, k) = [p EXCEPT !.size = p.size - 1, !.slots = slots]
  BY DEF LeafErase, i
<1> HIDE DEF slots
<1> QED
  BY <1>1, <1>2, <1>3 DEF LeafPages

\* LeafPage::PushBack and PushFront.
LEMMA LeafPushTypes ==
  ASSUME NEW p \in LeafPages, p.size < LeafMax, NEW e \in Entries
  PROVE  /\ LeafPushBack(p, e) \in LeafPages /\ LeafPushBack(p, e).size = p.size + 1
         /\ LeafPushFront(p, e) \in LeafPages /\ LeafPushFront(p, e).size = p.size + 1
<1> DEFINE back == [p.slots EXCEPT ![p.size] = e]
           front == [OpenGap(p.slots, 0, p.size) EXCEPT ![0] = e]
<1>1. p.size \in Nat /\ p.size + 1 \in 0..LeafMax
  BY LeafFields, ParameterAssumption
<1>2. back \in [LeafSlots -> Entries]
  BY LeafFields
<1>3. OpenGap(p.slots, 0, p.size) \in [LeafSlots -> Entries]
  BY <1>1, LeafFields, LeafMoves
<1>4. front \in [LeafSlots -> Entries]
  BY <1>3
<1>5. /\ LeafPushBack(p, e) = [p EXCEPT !.size = p.size + 1, !.slots = back]
      /\ LeafPushFront(p, e) = [p EXCEPT !.size = p.size + 1, !.slots = front]
  BY DEF LeafPushBack, LeafPushFront
<1> HIDE DEF back, front
<1> QED
  BY <1>1, <1>2, <1>4, <1>5 DEF LeafPages

\* LeafPage::PopBack and PopFront, and the entries they hand over.
LEMMA LeafPopTypes ==
  ASSUME NEW p \in LeafPages, p.size >= 1
  PROVE  /\ LeafPopBack(p) \in LeafPages /\ LeafPopBack(p).size = p.size - 1
         /\ LeafPopFront(p) \in LeafPages /\ LeafPopFront(p).size = p.size - 1
         /\ LeafFirst(p) \in Entries /\ LeafLast(p) \in Entries
<1> DEFINE slots == CloseGap(p.slots, 0, p.size)
<1>1. /\ p.size \in Nat /\ p.size <= LeafMax /\ p.size - 1 \in 0..LeafMax
      /\ 0 \in LeafSlots /\ p.size - 1 \in LeafSlots
  BY LeafFields, ParameterAssumption DEF LeafSlots
<1>2. slots \in [LeafSlots -> Entries]
  BY <1>1, LeafFields, LeafMoves
<1>3. /\ LeafPopBack(p) = [p EXCEPT !.size = p.size - 1]
      /\ LeafPopFront(p) = [p EXCEPT !.size = p.size - 1, !.slots = slots]
  BY DEF LeafPopBack, LeafPopFront
<1>4. LeafFirst(p) \in Entries /\ LeafLast(p) \in Entries
  BY <1>1, LeafFields DEF LeafFirst, LeafLast
<1> HIDE DEF slots
<1> QED
  BY <1>1, <1>2, <1>3, <1>4 DEF LeafPages

\* A merge fits when the two pages and the separator do.
LEMMA LeafAbsorbType ==
  ASSUME NEW l \in LeafPages, NEW r \in LeafPages, NEW e \in Entries,
         l.size + r.size + 1 <= LeafMax
  PROVE  LeafAbsorb(l, e, r) \in LeafPages /\ LeafAbsorb(l, e, r).size = l.size + 1
<1> DEFINE b == LeafPushBack(l, e)
           slots == CopyRange(b.slots, b.size, r.slots, 0, r.size)
<1>1. l.size \in Nat /\ r.size \in Nat /\ r.size \in Int /\ l.size < LeafMax /\ 0 + r.size <= LeafMax
  BY LeafFields, ParameterAssumption
<1>2. b \in LeafPages /\ b.size = l.size + 1 /\ b.size \in Nat /\ b.size + r.size <= LeafMax
  BY <1>1, LeafPushTypes
<1> HIDE DEF b
<1>3. slots \in [LeafSlots -> Entries]
  BY <1>1, <1>2, LeafFields, LeafCopies
<1>4. LeafAbsorb(l, e, r) = [b EXCEPT !.slots = slots]
  BY DEF LeafAbsorb, b
<1> HIDE DEF slots
<1> QED
  BY <1>2, <1>3, <1>4, LeafFields DEF LeafPages

\* ChangeSizeBy on a leaf.
LEMMA LeafGrowType ==
  ASSUME NEW p \in LeafPages, NEW n \in Nat, p.size + n <= LeafMax
  PROVE  LeafGrow(p, n) \in LeafPages /\ LeafGrow(p, n).size = p.size + n
<1>1. p.size + n \in 0..LeafMax /\ LeafGrow(p, n) = [p EXCEPT !.size = p.size + n]
  BY LeafFields, ParameterAssumption DEF LeafGrow
<1> QED
  BY <1>1, LeafFields DEF LeafPages

-----------------------------------------------------------------------------
\* Internal pages

\* InternalPage::Insert, before the split: one child more.
LEMMA InnerPlaceType ==
  ASSUME NEW S, NEW p \in InnerOver(S), p.size >= 1, p.size < InnerMax,
         NEW e \in Entries, NEW pid \in S
  PROVE  InnerPlace(p, e, pid) \in InnerOver(S) /\ InnerPlace(p, e, pid).size = p.size + 1
<1> DEFINE i == InnerSearch(p, e[1])
           slots == [OpenGap(p.slots, i, p.size) EXCEPT ![i] = e]
           pids == [OpenGap(p.pids, i, p.size) EXCEPT ![i] = pid]
<1>1. i \in Nat /\ p.size \in Nat /\ p.size + 1 \in 0..InnerMax
  BY InnerSearchRange, InnerFields, ParameterAssumption
<1>2. p.slots \in [InnerSlots -> Entries] /\ p.pids \in [InnerSlots -> S]
  BY InnerFields
<1>3. /\ OpenGap(p.slots, i, p.size) \in [InnerSlots -> Entries]
      /\ OpenGap(p.pids, i, p.size) \in [InnerSlots -> S]
  <2> HIDE DEF i
  <2> QED BY <1>1, <1>2, InnerMoves
<1>4. slots \in [InnerSlots -> Entries] /\ pids \in [InnerSlots -> S]
  BY <1>3
<1>5. InnerPlace(p, e, pid) = [p EXCEPT !.size = p.size + 1, !.slots = slots, !.pids = pids]
  BY DEF InnerPlace
<1> HIDE DEF slots, pids
<1> QED
  BY <1>1, <1>4, <1>5 DEF InnerOver

\* InternalPage::Insert, the split: both halves have a child and are not full.
LEMMA InnerSplitTypes ==
  ASSUME NEW S, 0 \in S, NEW p \in InnerOver(S), p.size = InnerMax
  PROVE  /\ InnerLower(p) \in InnerOver(S) /\ InnerLower(p).size \in 1..(InnerMax - 1)
         /\ InnerUpper(p) \in InnerOver(S) /\ InnerUpper(p).size \in 1..(InnerMax - 1)
         /\ InnerMiddle(p) \in Entries
<1> DEFINE mid == MinSize(InnerMax)
           n == p.size - mid
           slots == CopyRange(EmptyInner.slots, 1, p.slots, mid + 1, n - 1)
           pids == CopyRange(EmptyInner.pids, 0, p.pids, mid, n)
<1>1. InnerMax \in Nat /\ mid \in Nat /\ mid \in 1..(InnerMax - 1) /\ mid \in InnerSlots
  BY ParameterAssumption, MinSizeBound DEF InnerSlots
<1> HIDE DEF mid
<1>2. /\ n \in Int /\ n - 1 \in Int /\ n \in 1..(InnerMax - 1) /\ n \in 0..InnerMax
      /\ mid + 1 \in Nat /\ mid + 1 + (n - 1) <= InnerMax /\ mid + n <= InnerMax
      /\ 1 + (n - 1) <= InnerMax /\ 0 + n <= InnerMax
  BY <1>1
<1> HIDE DEF n
<1>3. /\ EmptyInner \in InnerOver(S)
      /\ p.slots \in [InnerSlots -> Entries] /\ p.pids \in [InnerSlots -> S]
      /\ EmptyInner.slots \in [InnerSlots -> Entries] /\ EmptyInner.pids \in [InnerSlots -> S]
  BY EmptyInnerType, InnerFields
<1>4. slots \in [InnerSlots -> Entries] /\ pids \in [InnerSlots -> S]
  BY <1>1, <1>2, <1>3, InnerCopies
<1>5. InnerUpper(p) = [EmptyInner EXCEPT !.size = n, !.slots = slots, !.pids = pids]
  BY DEF InnerUpper, n, mid
<1> HIDE DEF slots, pids
<1>6. InnerUpper(p) \in InnerOver(S) /\ InnerUpper(p).size = n
  BY <1>2, <1>3, <1>4, <1>5 DEF InnerOver
<1>7. InnerLower(p) = [p EXCEPT !.size = mid] /\ mid \in 0..InnerMax
  BY <1>1 DEF InnerLower, mid
<1>8. InnerLower(p) \in InnerOver(S) /\ InnerLower(p).size = mid
  BY <1>7 DEF InnerOver
<1>9. InnerMiddle(p) \in Entries
  BY <1>1, InnerFields DEF InnerMiddle, mid
<1> QED
  BY <1>1, <1>2, <1>6, <1>8, <1>9

\* InternalPage::SetInitialState.
LEMMA NewRootType ==
  ASSUME NEW S, 0 \in S, NEW e \in Entries, NEW pid1 \in S, NEW pid2 \in S
  PROVE  NewRoot(e, pid1, pid2) \in InnerOver(S) /\ NewRoot(e, pid1, pid2).size = 2
<1>1. EmptyInner \in InnerOver(S) /\ 2 \in 0..InnerMax
  BY EmptyInnerType, ParameterAssumption
<1> QED
  BY <1>1 DEF NewRoot, InnerOver

\* SetPairAt and SetElemPairAt.
LEMMA InnerSetEntryType ==
  ASSUME NEW S, NEW p \in InnerOver(S), NEW i, NEW e \in Entries
  PROVE  InnerSetEntry(p, i, e) \in InnerOver(S) /\ InnerSetEntry(p, i, e).size = p.size
BY DEF InnerSetEntry, InnerOver

\* InternalPage::DoUpdateOrGetChild leaves the size alone.
LEMMA InnerAssignType ==
  ASSUME NEW S, NEW p \in InnerOver(S), p.size >= 1, NEW k, NEW v \in Vals, InnerHolds(p, k)
  PROVE  InnerAssign(p, k, v) \in InnerOver(S) /\ InnerAssign(p, k, v).size = p.size
<1> DEFINE i == InnerSearch(p, k)
           e == <<p.slots[i][1], v>>
<1>1. i \in InnerSlots
  BY InnerSearchRange
<1> HIDE DEF i
<1>2. e \in Entries
  BY <1>1, InnerFields DEF Entries
<1>3. InnerAssign(p, k, v) = InnerSetEntry(p, i, e)
  BY DEF InnerAssign, InnerSetEntry, i
<1> HIDE DEF e
<1> QED
  BY <1>2, <1>3, InnerSetEntryType

\* InternalPage::RemoveElemAndPidAt: one child fewer.
LEMMA InnerDropType ==
  ASSUME NEW S, NEW p \in InnerOver(S), p.size >= 1, NEW i \in Nat
  PROVE  InnerDrop(p, i) \in InnerOver(S) /\ InnerDrop(p, i).size = p.size - 1
<1> DEFINE slots == CloseGap(p.slots, i, p.size)
           pids == CloseGap(p.pids, i, p.size)
<1>1. p.size \in Nat /\ p.size <= InnerMax /\ p.size - 1 \in 0..InnerMax
  BY InnerFields, ParameterAssumption
<1>2. slots \in [InnerSlots -> Entries] /\ pids \in [InnerSlots -> S]
  BY <1>1, InnerFields, InnerMoves
<1>3. InnerDrop(p, i) = [p EXCEPT !.size = p.size - 1, !.slots = slots, !.pids = pids]
  BY DEF InnerDrop
<1> HIDE DEF slots, pids
<1> QED
  BY <1>1, <1>2, <1>3 DEF InnerOver

\* InternalPage::PushBack and PushFront.
LEMMA InnerPushTypes ==
  ASSUME NEW S, NEW p \in InnerOver(S), p.size < InnerMax, NEW e \in Entries, NEW pid \in S
  PROVE  /\ InnerPushBack(p, e, pid) \in InnerOver(S)
         /\ InnerPushBack(p, e, pid).size = p.size + 1
         /\ InnerPushFront(p, e, pid) \in InnerOver(S)
         /\ InnerPushFront(p, e, pid).size = p.size + 1
<1> DEFINE slots == [OpenGap(p.slots, 1, p.size) EXCEPT ![1] = e]
           pids == [OpenGap(p.pids, 0, p.size) EXCEPT ![0] = pid]
<1>1. p.size \in Nat /\ p.size + 1 \in 0..InnerMax
  BY InnerFields, ParameterAssumption
<1>2. p.slots \in [InnerSlots -> Entries] /\ p.pids \in [InnerSlots -> S]
  BY InnerFields
<1>3. InnerPushBack(p, e, pid) \in InnerOver(S) /\ InnerPushBack(p, e, pid).size = p.size + 1
  BY <1>1 DEF InnerPushBack, InnerOver
<1>4. /\ OpenGap(p.slots, 1, p.size) \in [InnerSlots -> Entries]
      /\ OpenGap(p.pids, 0, p.size) \in [InnerSlots -> S]
  BY <1>1, <1>2, InnerMoves
<1>5. slots \in [InnerSlots -> Entries] /\ pids \in [InnerSlots -> S]
  BY <1>4
<1>6. InnerPushFront(p, e, pid) = [p EXCEPT !.size = p.size + 1, !.slots = slots, !.pids = pids]
  BY DEF InnerPushFront
<1> HIDE DEF slots, pids
<1> QED
  BY <1>1, <1>3, <1>5, <1>6 DEF InnerOver

\* InternalPage::PopBack and PopFront.
LEMMA InnerPopTypes ==
  ASSUME NEW S, NEW p \in InnerOver(S), p.size >= 1
  PROVE  /\ InnerPopBack(p) \in InnerOver(S) /\ InnerPopBack(p).size = p.size - 1
         /\ InnerPopFront(p) \in InnerOver(S) /\ InnerPopFront(p).size = p.size - 1
<1> DEFINE zeroed == [p.slots EXCEPT ![1] = ZeroEntry]
           slots == CloseGap(zeroed, 0, p.size)
           pids == CloseGap(p.pids, 0, p.size)
<1>1. p.size \in Nat /\ p.size <= InnerMax /\ p.size - 1 \in 0..InnerMax
  BY InnerFields, ParameterAssumption
<1>2. zeroed \in [InnerSlots -> Entries] /\ p.pids \in [InnerSlots -> S]
  BY InnerFields, ZeroEntryType
<1>3. slots \in [InnerSlots -> Entries] /\ pids \in [InnerSlots -> S]
  <2> HIDE DEF zeroed
  <2> QED BY <1>1, <1>2, InnerMoves
<1>4. InnerPopFront(p) = [p EXCEPT !.size = p.size - 1, !.slots = slots, !.pids = pids]
  BY DEF InnerPopFront
<1> HIDE DEF slots, pids
<1> QED
  BY <1>1, <1>3, <1>4 DEF InnerPopBack, InnerOver

\* What a borrowing sibling hands over.
LEMMA InnerEnds ==
  ASSUME NEW S, NEW p \in InnerOver(S), p.size >= 1
  PROVE  /\ InnerFirst(p) \in Entries /\ InnerLast(p) \in Entries
         /\ p.pids[0] \in S /\ p.pids[p.size - 1] \in S
<1>1. 0 \in InnerSlots /\ 1 \in InnerSlots /\ p.size - 1 \in InnerSlots
  BY InnerFields, ParameterAssumption DEF InnerSlots
<1> QED
  BY <1>1, InnerFields DEF InnerFirst, InnerLast

\* A merge fits when the children of both pages do.
LEMMA InnerAbsorbType ==
  ASSUME NEW S, NEW l \in InnerOver(S), NEW r \in InnerOver(S), NEW e \in Entries,
         r.size >= 1, l.size + r.size <= InnerMax
  PROVE  InnerAbsorb(l, e, r) \in InnerOver(S) /\ InnerAbsorb(l, e, r).size = l.size + 1
<1> DEFINE b == InnerPushBack(l, e, r.pids[0])
           slots == CopyRange(b.slots, b.size, r.slots, 1, r.size - 1)
           pids == CopyRange(b.pids, b.size, r.pids, 1, r.size - 1)
<1>1. /\ l.size \in Nat /\ r.size \in Nat /\ r.size - 1 \in Int /\ l.size < InnerMax
      /\ l.size + 1 + (r.size - 1) <= InnerMax
      /\ 1 \in Nat /\ 1 + (r.size - 1) <= InnerMax /\ r.pids[0] \in S
  BY InnerFields, InnerEnds, ParameterAssumption
<1>2. b \in InnerOver(S) /\ b.size = l.size + 1 /\ b.size \in Nat /\ b.size + (r.size - 1) <= InnerMax
  BY <1>1, InnerPushTypes
<1> HIDE DEF b
<1>3. slots \in [InnerSlots -> Entries] /\ pids \in [InnerSlots -> S]
  <2>1. /\ b.slots \in [InnerSlots -> Entries] /\ b.pids \in [InnerSlots -> S]
        /\ r.slots \in [InnerSlots -> Entries] /\ r.pids \in [InnerSlots -> S]
    BY <1>2, InnerFields
  <2> QED
    BY <1>1, <1>2, <2>1, InnerCopies
<1>4. InnerAbsorb(l, e, r) = [b EXCEPT !.slots = slots, !.pids = pids]
  BY DEF InnerAbsorb, b
<1> HIDE DEF slots, pids
<1> QED
  BY <1>2, <1>3, <1>4 DEF InnerOver

\* ChangeSizeBy on an internal page.
LEMMA InnerGrowType ==
  ASSUME NEW S, NEW p \in InnerOver(S), NEW n \in Nat, p.size + n <= InnerMax
  PROVE  InnerGrow(p, n) \in InnerOver(S) /\ InnerGrow(p, n).size = p.size + n
<1>1. p.size + n \in 0..InnerMax
  BY InnerFields, ParameterAssumption
<1> QED
  BY <1>1 DEF InnerGrow, InnerOver

\* Ids stay valid when there are more of them.
LEMMA InnerOverMonotone ==
  ASSUME NEW S, NEW T, S \subseteq T
  PROVE  InnerOver(S) \subseteq InnerOver(T)
BY DEF InnerOver

-----------------------------------------------------------------------------
\* The least-number principle, for a set.
LEMMA LeastElement ==
  ASSUME NEW T \in SUBSET Nat, T # {}
  PROVE  \E m \in T : \A n \in T : m <= n
<1> DEFINE less == OpToRel(<, Nat)
<1>1. IsWellFoundedOn(less, Nat)
  BY NatLessThanWellFounded
<1>2. \A x, y \in Nat : y < x => <<y, x>> \in less
  BY DEF OpToRel
<1> HIDE DEF less
<1>3. PICK m \in T : \A n \in T : ~ (<<n, m>> \in less)
  BY <1>1, WFMin
<1>4. ASSUME NEW n \in T PROVE m <= n
  <2>1. m \in Nat /\ n \in Nat
    OBVIOUS
  <2>2. ~ (n < m)
    BY <2>1, <1>2, <1>3, Zenon
  <2> QED
    BY <2>1, <2>2
<1> QED
  BY <1>4

\* GetIdxByPid finds a child that is there, and the sibling index is next to it.
LEMMA SiblingIdxRange ==
  ASSUME NEW S, NEW p \in InnerOver(S), NEW pid,
         \E i \in 0..(p.size - 1) : p.pids[i] = pid
  PROVE  /\ IdxByPid(p, pid) \in 0..(p.size - 1) /\ p.pids[IdxByPid(p, pid)] = pid
         /\ SiblingIdx(p, pid) \in {IdxByPid(p, pid) - 1, IdxByPid(p, pid) + 1}
<1> DEFINE T == {i \in 0..(p.size - 1) : p.pids[i] = pid}
<1>1. p.size \in Nat /\ T \in SUBSET Nat /\ T # {}
  BY InnerFields
<1>2. PICK m \in T : \A n \in T : m <= n
  <2> HIDE DEF T
  <2> QED BY <1>1, LeastElement
<1>3. m \in 0..(p.size - 1) /\ p.pids[m] = pid /\ \A j \in 0..(m - 1) : p.pids[j] # pid
  BY <1>1, <1>2
<1>4. IdxByPid(p, pid) \in 0..(p.size - 1) /\ p.pids[IdxByPid(p, pid)] = pid
  BY <1>3 DEF IdxByPid
<1> QED
  BY <1>4 DEF SiblingIdx


-----------------------------------------------------------------------------
\* The pages below a page.
Kids(p) == IF p.kind = "leaf" THEN {} ELSE {p.pids[i] : i \in 0..(p.size - 1)}

\* No page is below it twice.
OneSlotEach(p) ==
  p.kind # "leaf" => \A i, j \in 0..(p.size - 1) : p.pids[i] = p.pids[j] => i = j

\* What InternalPage::Insert leaves in every slot.
LEMMA InnerPlaceSlots ==
  ASSUME NEW S, NEW p \in InnerOver(S), p.size >= 1, p.size < InnerMax,
         NEW e \in Entries, NEW pid \in S, NEW i, i = InnerSearch(p, e[1])
  PROVE  \A j \in 0..p.size :
           /\ InnerPlace(p, e, pid).pids[j]
                = IF j = i THEN pid ELSE IF j > i THEN p.pids[j - 1] ELSE p.pids[j]
           /\ InnerPlace(p, e, pid).slots[j]
                = IF j = i THEN e ELSE IF j > i THEN p.slots[j - 1] ELSE p.slots[j]
<1> DEFINE slots == [OpenGap(p.slots, i, p.size) EXCEPT ![i] = e]
           pids == [OpenGap(p.pids, i, p.size) EXCEPT ![i] = pid]
<1>1. /\ i \in 1..p.size /\ p.size \in Nat /\ p.size \in 0..(InnerMax - 1) /\ InnerMax \in Nat
      /\ p.slots \in [InnerSlots -> Entries] /\ p.pids \in [InnerSlots -> S]
  BY InnerSearchRange, InnerFields, ParameterAssumption
<1>2. p = [kind |-> p.kind, size |-> p.size, slots |-> p.slots, pids |-> p.pids]
  BY DEF InnerOver
<1>3. InnerPlace(p, e, pid).pids = pids /\ InnerPlace(p, e, pid).slots = slots
  BY <1>2 DEF InnerPlace
<1>4. ASSUME NEW j \in 0..p.size
      PROVE  /\ pids[j] = IF j = i THEN pid ELSE IF j > i THEN p.pids[j - 1] ELSE p.pids[j]
             /\ slots[j] = IF j = i THEN e ELSE IF j > i THEN p.slots[j - 1] ELSE p.slots[j]
  <2>1. j \in InnerSlots /\ i \in InnerSlots
    BY <1>1 DEF InnerSlots
  <2>2. j \in (i + 1)..p.size <=> j > i
    BY <1>1
  <2> QED
    BY <1>1, <2>1, <2>2 DEF OpenGap
<1> HIDE DEF slots, pids
<1> QED
  BY <1>3, <1>4

\* The pages below an internal page that has taken one more.
LEMMA InnerPlaceKids ==
  ASSUME NEW S, NEW p \in InnerOver(S), p.size >= 1, p.size < InnerMax,
         NEW e \in Entries, NEW pid \in S, pid \notin Kids(p), OneSlotEach(p)
  PROVE  Kids(InnerPlace(p, e, pid)) = Kids(p) \cup {pid} /\ OneSlotEach(InnerPlace(p, e, pid))
<1> DEFINE i == InnerSearch(p, e[1])
           q == InnerPlace(p, e, pid)
           n == p.size
<1>1. /\ i \in 1..n /\ n \in Nat /\ p.kind = "inner" /\ q.kind = "inner" /\ q.size = n + 1
  BY InnerSearchRange, InnerFields, InnerPlaceType
<1>2. \A j \in 0..n :
        q.pids[j] = IF j = i THEN pid ELSE IF j > i THEN p.pids[j - 1] ELSE p.pids[j]
  BY InnerPlaceSlots
<1>3. /\ Kids(p) = {p.pids[j] : j \in 0..(n - 1)}
      /\ \A j, k \in 0..(n - 1) : p.pids[j] = p.pids[k] => j = k
  BY <1>1 DEF Kids, OneSlotEach
<1> HIDE DEF i, q, n
<1>4. Kids(q) = {q.pids[j] : j \in 0..n} /\ q.size - 1 = n
  BY <1>1 DEF Kids
<1>5. ASSUME NEW j \in 0..n
      PROVE  (q.pids[j] = pid /\ j = i) \/ (j > i /\ j - 1 \in 0..(n - 1) /\ q.pids[j] = p.pids[j - 1])
             \/ (j < i /\ j \in 0..(n - 1) /\ q.pids[j] = p.pids[j])
  BY <1>1, <1>2
<1>6. ASSUME NEW j \in 0..(n - 1)
      PROVE  \E k \in 0..n : p.pids[j] = q.pids[k]
  <2>1. CASE j < i
    BY <1>1, <1>2, <2>1
  <2>2. CASE j >= i
    <3>1. j + 1 \in 0..n /\ j + 1 > i /\ j + 1 # i /\ (j + 1) - 1 = j
      BY <1>1, <2>2
    <3>2. q.pids[j + 1] = p.pids[j]
      BY <1>2, <3>1
    <3> QED BY <3>1, <3>2
  <2> QED BY <1>1, <2>1, <2>2
<1>7. pid = q.pids[i] /\ i \in 0..n
  BY <1>1, <1>2
<1>8. Kids(q) = Kids(p) \cup {pid}
  BY <1>3, <1>4, <1>5, <1>6, <1>7
<1>9. ASSUME NEW j \in 0..n, NEW k \in 0..n, q.pids[j] = q.pids[k] PROVE j = k
  <2>1. pid \notin {p.pids[x] : x \in 0..(n - 1)}
    BY <1>3
  <2> QED
    BY <1>1, <1>3, <1>5, <1>9, <2>1
<1> QED
  BY <1>1, <1>4, <1>8, <1>9 DEF OneSlotEach, q

\* The two halves of a split, and the page the new root starts as.
LEMMA InnerSplitSlots ==
  ASSUME NEW S, 0 \in S, NEW p \in InnerOver(S), p.size = InnerMax,
         NEW mid, mid = MinSize(InnerMax)
  PROVE  /\ mid \in 1..(InnerMax - 1) /\ InnerLower(p).size = mid
         /\ InnerUpper(p).size = InnerMax - mid
         /\ InnerLower(p).pids = p.pids /\ InnerLower(p).slots = p.slots
         /\ \A j \in 0..(InnerMax - mid - 1) : InnerUpper(p).pids[j] = p.pids[mid + j]
         /\ \A j \in 1..(InnerMax - mid - 1) : InnerUpper(p).slots[j] = p.slots[mid + j]
<1> DEFINE n == p.size - mid
           slots == CopyRange(EmptyInner.slots, 1, p.slots, mid + 1, n - 1)
           pids == CopyRange(EmptyInner.pids, 0, p.pids, mid, n)
<1>1. /\ InnerMax \in Nat /\ mid \in Nat /\ mid \in 1..(InnerMax - 1) /\ p.size = InnerMax
  BY ParameterAssumption, MinSizeBound
<1>2. /\ EmptyInner = [kind |-> "inner", size |-> 0,
                       slots |-> [i \in InnerSlots |-> ZeroEntry], pids |-> [i \in InnerSlots |-> 0]]
      /\ p = [kind |-> p.kind, size |-> p.size, slots |-> p.slots, pids |-> p.pids]
  BY DEF EmptyInner, InnerOver
<1>3. InnerUpper(p) = [EmptyInner EXCEPT !.size = n, !.slots = slots, !.pids = pids]
  BY DEF InnerUpper
<1>4. InnerUpper(p).size = n /\ InnerUpper(p).slots = slots /\ InnerUpper(p).pids = pids
  <2> HIDE DEF n, slots, pids
  <2> QED BY <1>2, <1>3
<1>5. /\ InnerLower(p).size = mid /\ InnerLower(p).pids = p.pids /\ InnerLower(p).slots = p.slots
  BY <1>2 DEF InnerLower
<1>6. ASSUME NEW j \in 0..(InnerMax - mid - 1)
      PROVE  pids[j] = p.pids[mid + j]
  <2>1. j \in InnerSlots /\ j \in 0..(0 + n - 1) /\ mid + j - 0 = mid + j
    BY <1>1 DEF InnerSlots
  <2>2. j \in DOMAIN EmptyInner.pids
    BY <1>2, <2>1
  <2> QED
    BY <2>1, <2>2 DEF CopyRange
<1>7. ASSUME NEW j \in 1..(InnerMax - mid - 1)
      PROVE  slots[j] = p.slots[mid + j]
  <2>1. j \in InnerSlots /\ j \in 1..(1 + (n - 1) - 1) /\ mid + 1 + j - 1 = mid + j
    BY <1>1 DEF InnerSlots
  <2>2. j \in DOMAIN EmptyInner.slots
    BY <1>2, <2>1
  <2> QED
    BY <2>1, <2>2 DEF CopyRange
<1> HIDE DEF slots, pids
<1> QED
  BY <1>1, <1>4, <1>5, <1>6, <1>7

\* The pages below the two halves of a split are those below the page that split.
LEMMA InnerSplitKids ==
  ASSUME NEW S, 0 \in S, NEW p \in InnerOver(S), p.size = InnerMax, OneSlotEach(p)
  PROVE  /\ Kids(InnerLower(p)) \cup Kids(InnerUpper(p)) = Kids(p)
         /\ Kids(InnerLower(p)) \cap Kids(InnerUpper(p)) = {}
         /\ OneSlotEach(InnerLower(p)) /\ OneSlotEach(InnerUpper(p))
<1> DEFINE l == InnerLower(p)
           u == InnerUpper(p)
           mid == MinSize(InnerMax)
<1>1. /\ mid \in 1..(InnerMax - 1) /\ l.size = mid /\ u.size = InnerMax - mid
      /\ l.pids = p.pids /\ \A j \in 0..(InnerMax - mid - 1) : u.pids[j] = p.pids[mid + j]
  BY InnerSplitSlots
<1>2. l.kind = "inner" /\ u.kind = "inner" /\ p.kind = "inner" /\ InnerMax \in Nat
  BY InnerSplitTypes, InnerFields, ParameterAssumption
<1>3. \A j, k \in 0..(InnerMax - 1) : p.pids[j] = p.pids[k] => j = k
  BY <1>2 DEF OneSlotEach
<1> HIDE DEF l, u, mid
<1>4. /\ Kids(p) = {p.pids[j] : j \in 0..(InnerMax - 1)}
      /\ Kids(l) = {p.pids[j] : j \in 0..(mid - 1)}
      /\ Kids(u) = {u.pids[j] : j \in 0..(InnerMax - mid - 1)}
  BY <1>1, <1>2 DEF Kids
<1>5. Kids(u) = {p.pids[j] : j \in mid..(InnerMax - 1)}
  <2>1. ASSUME NEW j \in mid..(InnerMax - 1)
        PROVE  j - mid \in 0..(InnerMax - mid - 1) /\ p.pids[j] = u.pids[j - mid]
    <3>1. j - mid \in 0..(InnerMax - mid - 1) /\ mid + (j - mid) = j
      BY <1>1, <1>2
    <3> QED BY <1>1, <3>1
  <2>2. ASSUME NEW j \in 0..(InnerMax - mid - 1)
        PROVE  mid + j \in mid..(InnerMax - 1) /\ u.pids[j] = p.pids[mid + j]
    BY <1>1, <1>2
  <2> QED
    BY <1>4, <2>1, <2>2
<1>6. 0..(InnerMax - 1) = (0..(mid - 1)) \cup (mid..(InnerMax - 1))
  BY <1>1, <1>2
<1>7. Kids(l) \cup Kids(u) = Kids(p)
  BY <1>4, <1>5, <1>6
<1>8. Kids(l) \cap Kids(u) = {}
  <2>1. \A j \in 0..(mid - 1), k \in mid..(InnerMax - 1) : p.pids[j] # p.pids[k]
    BY <1>1, <1>2, <1>3
  <2> QED
    BY <1>4, <1>5, <2>1
<1>9. OneSlotEach(l)
  BY <1>1, <1>2, <1>3 DEF OneSlotEach
<1>10. OneSlotEach(u)
  <2>1. ASSUME NEW j \in 0..(InnerMax - mid - 1), NEW k \in 0..(InnerMax - mid - 1),
               u.pids[j] = u.pids[k]
        PROVE  j = k
    <3>1. mid + j \in 0..(InnerMax - 1) /\ mid + k \in 0..(InnerMax - 1)
      BY <1>1, <1>2
    <3>2. mid + j = mid + k
      BY <1>1, <1>3, <2>1, <3>1
    <3> QED BY <1>1, <3>2
  <2> QED
    BY <1>1, <1>2, <2>1 DEF OneSlotEach
<1> QED
  BY <1>7, <1>8, <1>9, <1>10 DEF l, u

\* The pages below a new root.
LEMMA NewRootKids ==
  ASSUME NEW e, NEW pid1, NEW pid2, pid1 # pid2
  PROVE  /\ Kids(NewRoot(e, pid1, pid2)) = {pid1, pid2} /\ OneSlotEach(NewRoot(e, pid1, pid2))
         /\ NewRoot(e, pid1, pid2).slots[1] = e
         /\ NewRoot(e, pid1, pid2).pids[0] = pid1 /\ NewRoot(e, pid1, pid2).pids[1] = pid2
<1> DEFINE r == NewRoot(e, pid1, pid2)
<1>1. 0 \in InnerSlots /\ 1 \in InnerSlots
  BY ParameterAssumption DEF InnerSlots
<1>2. /\ r.kind = "inner" /\ r.size = 2 /\ r.pids[0] = pid1 /\ r.pids[1] = pid2 /\ r.slots[1] = e
  BY <1>1 DEF NewRoot, EmptyInner
<1>3. 0..(r.size - 1) = {0, 1}
  BY <1>2
<1> HIDE DEF r
<1>4. Kids(r) = {pid1, pid2}
  BY <1>2, <1>3 DEF Kids
<1>5. OneSlotEach(r)
  BY <1>2, <1>3 DEF OneSlotEach
<1> QED
  BY <1>2, <1>4, <1>5 DEF r

\* The pages below depend on the class, the size and the child slots only.
LEMMA SamePidsKids ==
  ASSUME NEW p, NEW q, q.kind = p.kind, p.kind # "leaf" => q.size = p.size /\ q.pids = p.pids
  PROVE  Kids(q) = Kids(p) /\ (OneSlotEach(p) => OneSlotEach(q))
BY DEF Kids, OneSlotEach

\* A written entry leaves them alone.
LEMMA InnerSetEntryKids ==
  ASSUME NEW S, NEW p \in InnerOver(S), NEW i, NEW e
  PROVE  /\ Kids(InnerSetEntry(p, i, e)) = Kids(p)
         /\ OneSlotEach(p) => OneSlotEach(InnerSetEntry(p, i, e))
<1>1. /\ InnerSetEntry(p, i, e).kind = p.kind /\ InnerSetEntry(p, i, e).size = p.size
      /\ InnerSetEntry(p, i, e).pids = p.pids
  BY DEF InnerSetEntry, InnerOver
<1> QED
  BY <1>1, SamePidsKids

\* An updated value leaves them alone.
LEMMA InnerAssignKids ==
  ASSUME NEW S, NEW p \in InnerOver(S), NEW k, NEW v
  PROVE  /\ Kids(InnerAssign(p, k, v)) = Kids(p)
         /\ OneSlotEach(p) => OneSlotEach(InnerAssign(p, k, v))
<1>1. /\ InnerAssign(p, k, v).kind = p.kind /\ InnerAssign(p, k, v).size = p.size
      /\ InnerAssign(p, k, v).pids = p.pids
  BY DEF InnerAssign, InnerOver
<1> QED
  BY <1>1, SamePidsKids

\* What RemoveElemAndPidAt leaves in every slot.
LEMMA InnerDropSlots ==
  ASSUME NEW S, NEW p \in InnerOver(S), p.size >= 1, NEW i \in 0..(p.size - 1)
  PROVE  \A j \in 0..(p.size - 2) :
           /\ InnerDrop(p, i).pids[j] = IF j >= i THEN p.pids[j + 1] ELSE p.pids[j]
           /\ InnerDrop(p, i).slots[j] = IF j >= i THEN p.slots[j + 1] ELSE p.slots[j]
<1>1. /\ p.size \in Nat /\ p.size <= InnerMax /\ InnerMax \in Nat /\ i \in Nat
      /\ p.slots \in [InnerSlots -> Entries] /\ p.pids \in [InnerSlots -> S]
  BY InnerFields, ParameterAssumption
<1>2. p = [kind |-> p.kind, size |-> p.size, slots |-> p.slots, pids |-> p.pids]
  BY DEF InnerOver
<1>3. /\ InnerDrop(p, i).slots = CloseGap(p.slots, i, p.size)
      /\ InnerDrop(p, i).pids = CloseGap(p.pids, i, p.size)
  BY <1>2 DEF InnerDrop
<1>4. ASSUME NEW j \in 0..(p.size - 2)
      PROVE  j \in InnerSlots /\ (j \in i..(p.size - 2) <=> j >= i)
  BY <1>1 DEF InnerSlots
<1> QED
  BY <1>1, <1>3, <1>4 DEF CloseGap

\* One of the pages below is dropped.
LEMMA InnerDropKids ==
  ASSUME NEW S, NEW p \in InnerOver(S), p.size >= 1, NEW i \in 0..(p.size - 1), OneSlotEach(p)
  PROVE  /\ Kids(InnerDrop(p, i)) = Kids(p) \ {p.pids[i]} /\ p.pids[i] \in Kids(p)
         /\ OneSlotEach(InnerDrop(p, i))
<1> DEFINE q == InnerDrop(p, i)
           n == p.size
<1>1. /\ n \in Nat /\ n >= 1 /\ p.kind = "inner" /\ q.kind = "inner" /\ q.size = n - 1 /\ i \in Nat
  BY InnerFields, InnerDropType
<1>2. \A j \in 0..(n - 2) : q.pids[j] = IF j >= i THEN p.pids[j + 1] ELSE p.pids[j]
  BY InnerDropSlots
<1>3. /\ Kids(p) = {p.pids[j] : j \in 0..(n - 1)}
      /\ \A j, k \in 0..(n - 1) : p.pids[j] = p.pids[k] => j = k
  BY <1>1 DEF Kids, OneSlotEach
<1> HIDE DEF q
<1>4. Kids(q) = {q.pids[j] : j \in 0..(n - 2)} /\ q.size - 1 = n - 2
  BY <1>1 DEF Kids
<1> DEFINE from(j) == IF j >= i THEN j + 1 ELSE j
<1>5. ASSUME NEW j \in 0..(n - 2)
      PROVE  from(j) \in 0..(n - 1) /\ from(j) # i /\ q.pids[j] = p.pids[from(j)]
  BY <1>1, <1>2
<1>6. ASSUME NEW j \in 0..(n - 1), j # i
      PROVE  \E k \in 0..(n - 2) : p.pids[j] = q.pids[k]
  <2>1. CASE j < i
    BY <1>1, <1>2, <2>1
  <2>2. CASE j > i
    <3>1. j - 1 \in 0..(n - 2) /\ j - 1 >= i /\ (j - 1) + 1 = j
      BY <1>1, <2>2
    <3> QED BY <1>2, <3>1
  <2> QED BY <1>1, <1>6, <2>1, <2>2
<1> HIDE DEF n
<1>7. Kids(q) = Kids(p) \ {p.pids[i]} /\ p.pids[i] \in Kids(p)
  <2>1. i \in 0..(n - 1)
    BY DEF n
  <2> HIDE DEF from
  <2> QED BY <1>3, <1>4, <1>5, <1>6, <2>1
<1>8. ASSUME NEW j \in 0..(n - 2), NEW k \in 0..(n - 2), q.pids[j] = q.pids[k] PROVE j = k
  <2>1. from(j) = from(k)
    <3> HIDE DEF from
    <3> QED BY <1>3, <1>5, <1>8
  <2> QED
    BY <1>1, <2>1
<1> QED
  BY <1>1, <1>4, <1>7, <1>8 DEF OneSlotEach, q

\* What the borrowing page holds after PushBack and PushFront.
LEMMA InnerPushSlots ==
  ASSUME NEW S, NEW p \in InnerOver(S), p.size >= 1, p.size < InnerMax, NEW e \in Entries, NEW pid \in S
  PROVE  \A j \in 0..p.size :
           /\ InnerPushBack(p, e, pid).pids[j] = IF j = p.size THEN pid ELSE p.pids[j]
           /\ InnerPushBack(p, e, pid).slots[j] = IF j = p.size THEN e ELSE p.slots[j]
           /\ InnerPushFront(p, e, pid).pids[j] = IF j = 0 THEN pid ELSE p.pids[j - 1]
           /\ j >= 1 => InnerPushFront(p, e, pid).slots[j] = IF j = 1 THEN e ELSE p.slots[j - 1]
<1> DEFINE slots == [OpenGap(p.slots, 1, p.size) EXCEPT ![1] = e]
           pids == [OpenGap(p.pids, 0, p.size) EXCEPT ![0] = pid]
<1>1. /\ p.size \in Nat /\ p.size <= InnerMax - 1 /\ InnerMax \in Nat
      /\ p.slots \in [InnerSlots -> Entries] /\ p.pids \in [InnerSlots -> S]
  BY InnerFields, ParameterAssumption
<1>2. p = [kind |-> p.kind, size |-> p.size, slots |-> p.slots, pids |-> p.pids]
  BY DEF InnerOver
<1>3. /\ InnerPushFront(p, e, pid).slots = slots /\ InnerPushFront(p, e, pid).pids = pids
      /\ InnerPushBack(p, e, pid).slots = [p.slots EXCEPT ![p.size] = e]
      /\ InnerPushBack(p, e, pid).pids = [p.pids EXCEPT ![p.size] = pid]
  BY <1>2 DEF InnerPushFront, InnerPushBack
<1>4. ASSUME NEW j \in 0..p.size
      PROVE  /\ pids[j] = IF j = 0 THEN pid ELSE p.pids[j - 1]
             /\ j >= 1 => slots[j] = IF j = 1 THEN e ELSE p.slots[j - 1]
             /\ [p.slots EXCEPT ![p.size] = e][j] = IF j = p.size THEN e ELSE p.slots[j]
             /\ [p.pids EXCEPT ![p.size] = pid][j] = IF j = p.size THEN pid ELSE p.pids[j]
  <2>1. j \in InnerSlots /\ 0 \in InnerSlots /\ 1 \in InnerSlots
    BY <1>1 DEF InnerSlots
  <2>2. (j \in (0 + 1)..p.size <=> j >= 1) /\ (j \in (1 + 1)..p.size <=> j >= 2)
    BY <1>1
  <2> QED
    BY <1>1, <2>1, <2>2 DEF OpenGap
<1> HIDE DEF slots, pids
<1> QED
  BY <1>3, <1>4

\* A page that takes over a child of its sibling.
LEMMA InnerPushKids ==
  ASSUME NEW S, NEW p \in InnerOver(S), p.size >= 1, p.size < InnerMax, NEW e \in Entries,
         NEW pid \in S, pid \notin Kids(p), OneSlotEach(p)
  PROVE  /\ Kids(InnerPushBack(p, e, pid)) = Kids(p) \cup {pid}
         /\ OneSlotEach(InnerPushBack(p, e, pid))
         /\ Kids(InnerPushFront(p, e, pid)) = Kids(p) \cup {pid}
         /\ OneSlotEach(InnerPushFront(p, e, pid))
<1> DEFINE b == InnerPushBack(p, e, pid)
           f == InnerPushFront(p, e, pid)
           n == p.size
<1>1. /\ n \in Nat /\ p.kind = "inner" /\ b.kind = "inner" /\ b.size = n + 1
      /\ f.kind = "inner" /\ f.size = n + 1
  BY InnerFields, InnerPushTypes
<1>2. \A j \in 0..n : /\ b.pids[j] = IF j = n THEN pid ELSE p.pids[j]
                      /\ f.pids[j] = IF j = 0 THEN pid ELSE p.pids[j - 1]
  BY InnerPushSlots
<1>3. /\ Kids(p) = {p.pids[j] : j \in 0..(n - 1)}
      /\ \A j, k \in 0..(n - 1) : p.pids[j] = p.pids[k] => j = k
  BY <1>1 DEF Kids, OneSlotEach
<1> HIDE DEF b, f, n
<1>4. /\ Kids(b) = {b.pids[j] : j \in 0..n} /\ b.size - 1 = n
      /\ Kids(f) = {f.pids[j] : j \in 0..n} /\ f.size - 1 = n
  BY <1>1 DEF Kids
<1>5. ASSUME NEW j \in 0..n
      PROVE  /\ (b.pids[j] = pid /\ j = n) \/ (j \in 0..(n - 1) /\ b.pids[j] = p.pids[j])
             /\ (f.pids[j] = pid /\ j = 0) \/ (j - 1 \in 0..(n - 1) /\ f.pids[j] = p.pids[j - 1])
  BY <1>1, <1>2
<1>6. ASSUME NEW j \in 0..(n - 1)
      PROVE  /\ j \in 0..n /\ p.pids[j] = b.pids[j]
             /\ j + 1 \in 0..n /\ p.pids[j] = f.pids[j + 1]
  <2>1. j \in 0..n /\ j # n /\ j + 1 \in 0..n /\ j + 1 # 0 /\ (j + 1) - 1 = j
    BY <1>1
  <2> QED BY <1>2, <2>1
<1>7. pid = b.pids[n] /\ n \in 0..n /\ pid = f.pids[0] /\ 0 \in 0..n
  BY <1>1, <1>2
<1>8. Kids(b) = Kids(p) \cup {pid} /\ Kids(f) = Kids(p) \cup {pid}
  BY <1>3, <1>4, <1>5, <1>6, <1>7
<1>9. pid \notin {p.pids[x] : x \in 0..(n - 1)}
  BY <1>3
<1>10. ASSUME NEW j \in 0..n, NEW k \in 0..n
       PROVE  /\ b.pids[j] = b.pids[k] => j = k
              /\ f.pids[j] = f.pids[k] => j = k
  BY <1>1, <1>3, <1>5, <1>9
<1> QED
  BY <1>1, <1>4, <1>8, <1>10 DEF OneSlotEach, b, f

\* What the lending sibling holds after PopFront and PopBack.
LEMMA InnerPopSlots ==
  ASSUME NEW S, NEW p \in InnerOver(S), p.size >= 2
  PROVE  /\ InnerPopBack(p).pids = p.pids /\ InnerPopBack(p).slots = p.slots
         /\ \A j \in 0..(p.size - 2) :
              /\ InnerPopFront(p).pids[j] = p.pids[j + 1]
              /\ j >= 1 => InnerPopFront(p).slots[j] = p.slots[j + 1]
<1> DEFINE zeroed == [p.slots EXCEPT ![1] = ZeroEntry]
           slots == CloseGap(zeroed, 0, p.size)
           pids == CloseGap(p.pids, 0, p.size)
<1>1. /\ p.size \in Nat /\ p.size <= InnerMax /\ InnerMax \in Nat
      /\ p.slots \in [InnerSlots -> Entries] /\ p.pids \in [InnerSlots -> S]
  BY InnerFields, ParameterAssumption
<1>2. p = [kind |-> p.kind, size |-> p.size, slots |-> p.slots, pids |-> p.pids]
  BY DEF InnerOver
<1>3. /\ InnerPopFront(p).slots = slots /\ InnerPopFront(p).pids = pids
      /\ InnerPopBack(p).slots = p.slots /\ InnerPopBack(p).pids = p.pids
  BY <1>2 DEF InnerPopFront, InnerPopBack
<1>4. ASSUME NEW j \in 0..(p.size - 2)
      PROVE  pids[j] = p.pids[j + 1] /\ (j >= 1 => slots[j] = p.slots[j + 1])
  <2>1. j \in InnerSlots /\ j + 1 \in InnerSlots /\ 1 \in InnerSlots
    BY <1>1 DEF InnerSlots
  <2>2. j + 1 = 1 <=> j = 0
    OBVIOUS
  <2> QED
    BY <1>1, <2>1, <2>2 DEF CloseGap
<1> HIDE DEF slots, pids
<1> QED
  BY <1>3, <1>4

\* A page that hands over a child.
LEMMA InnerPopKids ==
  ASSUME NEW S, NEW p \in InnerOver(S), p.size >= 2, OneSlotEach(p)
  PROVE  /\ p.pids[0] \in Kids(p) /\ p.pids[p.size - 1] \in Kids(p)
         /\ Kids(InnerPopBack(p)) = Kids(p) \ {p.pids[p.size - 1]}
         /\ OneSlotEach(InnerPopBack(p))
         /\ Kids(InnerPopFront(p)) = Kids(p) \ {p.pids[0]}
         /\ OneSlotEach(InnerPopFront(p))
<1> DEFINE b == InnerPopBack(p)
           f == InnerPopFront(p)
           n == p.size
<1>1. /\ n \in Nat /\ n >= 2 /\ p.kind = "inner" /\ b.kind = "inner" /\ b.size = n - 1
      /\ f.kind = "inner" /\ f.size = n - 1 /\ b.pids = p.pids
  BY InnerFields, InnerPopTypes, InnerPopSlots
<1>2. \A j \in 0..(n - 2) : f.pids[j] = p.pids[j + 1]
  BY InnerPopSlots
<1>3. /\ Kids(p) = {p.pids[j] : j \in 0..(n - 1)}
      /\ \A j, k \in 0..(n - 1) : p.pids[j] = p.pids[k] => j = k
  BY <1>1 DEF Kids, OneSlotEach
<1> HIDE DEF b, f
<1>4. /\ Kids(b) = {p.pids[j] : j \in 0..(n - 2)} /\ b.size - 1 = n - 2
      /\ Kids(f) = {f.pids[j] : j \in 0..(n - 2)} /\ f.size - 1 = n - 2
  BY <1>1 DEF Kids
<1>5. 0 \in 0..(n - 1) /\ n - 1 \in 0..(n - 1)
  BY <1>1
<1>6. p.pids[0] \in Kids(p) /\ p.pids[n - 1] \in Kids(p)
  BY <1>3, <1>5
<1> HIDE DEF n
<1>7. Kids(b) = Kids(p) \ {p.pids[n - 1]}
  <2>1. \A j \in 0..(n - 1) : j \in 0..(n - 2) <=> j # n - 1
    BY <1>1
  <2>2. \A j \in 0..(n - 2) : j \in 0..(n - 1)
    BY <1>1
  <2> QED BY <1>3, <1>4, <1>5, <2>1, <2>2
<1>8. Kids(f) = Kids(p) \ {p.pids[0]}
  <2>1. ASSUME NEW j \in 0..(n - 2)
        PROVE  j + 1 \in 0..(n - 1) /\ j + 1 # 0 /\ f.pids[j] = p.pids[j + 1]
    BY <1>1, <1>2
  <2>2. ASSUME NEW j \in 0..(n - 1), j # 0
        PROVE  j - 1 \in 0..(n - 2) /\ f.pids[j - 1] = p.pids[j]
    <3>1. j - 1 \in 0..(n - 2) /\ (j - 1) + 1 = j
      BY <1>1, <2>2
    <3> QED BY <1>2, <3>1
  <2> QED BY <1>3, <1>4, <1>5, <2>1, <2>2
<1>9. OneSlotEach(b)
  BY <1>1, <1>3, <1>4 DEF OneSlotEach
<1>10. OneSlotEach(f)
  <2>1. ASSUME NEW j \in 0..(n - 2), NEW k \in 0..(n - 2), f.pids[j] = f.pids[k] PROVE j = k
    <3>1. j + 1 \in 0..(n - 1) /\ k + 1 \in 0..(n - 1) /\ p.pids[j + 1] = p.pids[k + 1]
      BY <1>1, <1>2, <2>1
    <3>2. j + 1 = k + 1
      BY <1>3, <3>1
    <3> QED BY <3>2
  <2> QED
    BY <1>4, <2>1 DEF OneSlotEach
<1> QED
  BY <1>6, <1>7, <1>8, <1>9, <1>10 DEF b, f, n

\* What the merger holds after a merge, the copied children included.
LEMMA InnerAbsorbSlots ==
  ASSUME NEW S, NEW l \in InnerOver(S), NEW r \in InnerOver(S), NEW e \in Entries,
         l.size >= 1, r.size >= 1, l.size + r.size <= InnerMax
  PROVE  /\ \A j \in 0..(l.size - 1) : /\ InnerAbsorb(l, e, r).pids[j] = l.pids[j]
                                       /\ InnerAbsorb(l, e, r).slots[j] = l.slots[j]
         /\ InnerAbsorb(l, e, r).slots[l.size] = e
         /\ \A j \in 0..(r.size - 1) : InnerAbsorb(l, e, r).pids[l.size + j] = r.pids[j]
         /\ \A j \in 1..(r.size - 1) : InnerAbsorb(l, e, r).slots[l.size + j] = r.slots[j]
<1> DEFINE b == InnerPushBack(l, e, r.pids[0])
           slots == CopyRange(b.slots, b.size, r.slots, 1, r.size - 1)
           pids == CopyRange(b.pids, b.size, r.pids, 1, r.size - 1)
<1>1. /\ l.size \in Nat /\ r.size \in Nat /\ InnerMax \in Nat /\ l.size < InnerMax
      /\ r.pids[0] \in S
  BY InnerFields, InnerEnds, ParameterAssumption
<1>2. b \in InnerOver(S) /\ b.size = l.size + 1
  BY <1>1, InnerPushTypes
<1>3. \A j \in 0..l.size : /\ b.pids[j] = IF j = l.size THEN r.pids[0] ELSE l.pids[j]
                           /\ b.slots[j] = IF j = l.size THEN e ELSE l.slots[j]
  BY <1>1, InnerPushSlots
<1> HIDE DEF b
<1>4. b = [kind |-> b.kind, size |-> b.size, slots |-> b.slots, pids |-> b.pids]
      /\ DOMAIN b.slots = InnerSlots /\ DOMAIN b.pids = InnerSlots
  BY <1>2 DEF InnerOver
<1>5. InnerAbsorb(l, e, r).pids = pids /\ InnerAbsorb(l, e, r).slots = slots
  BY <1>4 DEF InnerAbsorb, b
<1>6. ASSUME NEW j \in 0..(InnerMax - 1), j <= l.size + r.size - 1
      PROVE  /\ j <= l.size => pids[j] = b.pids[j] /\ slots[j] = b.slots[j]
             /\ j > l.size => pids[j] = r.pids[j - l.size] /\ slots[j] = r.slots[j - l.size]
  <2>1. j \in InnerSlots /\ (j \in b.size..(b.size + (r.size - 1) - 1) <=> j > l.size)
        /\ 1 + j - b.size = j - l.size
    BY <1>1, <1>2, <1>6 DEF InnerSlots
  <2> QED
    BY <1>1, <1>4, <2>1 DEF CopyRange
<1> HIDE DEF slots, pids
<1>7. ASSUME NEW j \in 0..(l.size - 1)
      PROVE  pids[j] = l.pids[j] /\ slots[j] = l.slots[j]
  BY <1>1, <1>3, <1>6
<1>8. slots[l.size] = e /\ pids[l.size] = r.pids[0]
  BY <1>1, <1>3, <1>6
<1>9. ASSUME NEW j \in 1..(r.size - 1)
      PROVE  pids[l.size + j] = r.pids[j] /\ slots[l.size + j] = r.slots[j]
  <2>1. l.size + j \in 0..(InnerMax - 1) /\ l.size + j <= l.size + r.size - 1 /\ l.size + j > l.size
        /\ l.size + j - l.size = j
    BY <1>1
  <2>2. ASSUME NEW k, k = l.size + j
        PROVE  pids[k] = r.pids[j] /\ slots[k] = r.slots[j]
    <3>1. k \in 0..(InnerMax - 1) /\ k <= l.size + r.size - 1 /\ k > l.size /\ k - l.size = j
      BY <1>1, <2>1, <2>2
    <3> QED BY <1>6, <3>1
  <2> QED
    BY <2>2
<1>10. ASSUME NEW j \in 0..(r.size - 1)
       PROVE  pids[l.size + j] = r.pids[j]
  <2>1. CASE j = 0
    <3>1. l.size + j = l.size
      BY <1>1, <2>1
    <3> QED BY <1>8, <2>1, <3>1
  <2>2. CASE j # 0
    BY <1>1, <1>9, <2>2
  <2> QED BY <2>1, <2>2
<1> QED
  BY <1>5, <1>7, <1>8, <1>9, <1>10

\* A right sibling is taken over whole; of a left merge only the first child is
\* counted.
LEMMA InnerAbsorbKids ==
  ASSUME NEW S, NEW l \in InnerOver(S), NEW r \in InnerOver(S), NEW e \in Entries,
         l.size >= 1, r.size >= 1, l.size + r.size <= InnerMax,
         OneSlotEach(l), OneSlotEach(r), Kids(l) \cap Kids(r) = {}
  PROVE  /\ Kids(InnerGrow(InnerAbsorb(l, e, r), r.size - 1)) = Kids(l) \cup Kids(r)
         /\ OneSlotEach(InnerGrow(InnerAbsorb(l, e, r), r.size - 1))
         /\ Kids(InnerAbsorb(l, e, r)) = Kids(l) \cup {r.pids[0]} /\ r.pids[0] \in Kids(r)
         /\ OneSlotEach(InnerAbsorb(l, e, r))
<1> DEFINE m == InnerAbsorb(l, e, r)
           g == InnerGrow(m, r.size - 1)
           a == l.size
           n == r.size
<1>1. /\ a \in Nat /\ n \in Nat /\ a >= 1 /\ n >= 1 /\ l.kind = "inner" /\ r.kind = "inner"
      /\ m \in InnerOver(S) /\ m.kind = "inner" /\ m.size = a + 1 /\ a + n <= InnerMax
  BY InnerFields, InnerAbsorbType
<1>2. /\ \A j \in 0..(a - 1) : m.pids[j] = l.pids[j]
      /\ \A j \in 0..(n - 1) : m.pids[a + j] = r.pids[j]
  BY InnerAbsorbSlots
<1>3. /\ Kids(l) = {l.pids[j] : j \in 0..(a - 1)} /\ Kids(r) = {r.pids[j] : j \in 0..(n - 1)}
      /\ \A j, k \in 0..(a - 1) : l.pids[j] = l.pids[k] => j = k
      /\ \A j, k \in 0..(n - 1) : r.pids[j] = r.pids[k] => j = k
  BY <1>1 DEF Kids, OneSlotEach
<1> HIDE DEF m
<1>4. g.kind = "inner" /\ g.size = a + n /\ g.pids = m.pids
  BY <1>1 DEF InnerGrow, InnerOver
<1> HIDE DEF g, a, n
<1>5. \A j \in 0..(a - 1), k \in 0..(n - 1) : l.pids[j] # r.pids[k]
  BY <1>3
<1>6. ASSUME NEW j \in 0..(a + n - 1)
      PROVE  \/ j \in 0..(a - 1) /\ m.pids[j] = l.pids[j]
             \/ j >= a /\ j - a \in 0..(n - 1) /\ m.pids[j] = r.pids[j - a]
  <2>1. CASE j < a
    BY <1>1, <1>2, <2>1
  <2>2. CASE j >= a
    <3>1. j - a \in 0..(n - 1) /\ a + (j - a) = j
      BY <1>1, <2>2
    <3> QED BY <1>2, <2>2, <3>1
  <2> QED BY <1>1, <2>1, <2>2
<1>7. ASSUME NEW j \in 0..(a + n - 1), NEW k \in 0..(a + n - 1), m.pids[j] = m.pids[k] PROVE j = k
  <2>1. CASE j < a /\ k < a
    BY <1>1, <1>3, <1>6, <1>7, <2>1
  <2>2. CASE j >= a /\ k >= a
    <3>1. j - a \in 0..(n - 1) /\ k - a \in 0..(n - 1) /\ r.pids[j - a] = r.pids[k - a]
      BY <1>1, <1>6, <1>7, <2>2
    <3>2. j - a = k - a
      BY <1>3, <3>1
    <3> QED BY <1>1, <3>2
  <2>3. CASE (j < a /\ k >= a) \/ (j >= a /\ k < a)
    BY <1>1, <1>5, <1>6, <1>7, <2>3
  <2> QED BY <1>1, <2>1, <2>2, <2>3
<1>8. OneSlotEach(g) /\ OneSlotEach(m)
  <2>1. g.size - 1 = a + n - 1 /\ 0..(m.size - 1) \subseteq 0..(a + n - 1)
    BY <1>1, <1>4
  <2> QED BY <1>4, <1>7, <2>1 DEF OneSlotEach
<1>9. Kids(g) = {m.pids[j] : j \in 0..(a + n - 1)} /\ Kids(m) = {m.pids[j] : j \in 0..a}
  BY <1>1, <1>4 DEF Kids
<1>10. /\ \A j \in 0..(a - 1) : j \in 0..(a + n - 1) /\ j \in 0..a
       /\ \A j \in 0..(n - 1) : a + j \in 0..(a + n - 1)
       /\ \A j \in 0..a : j \in 0..(a - 1) \/ j = a
       /\ 0 \in 0..(n - 1) /\ a + 0 = a /\ a \in 0..a
  BY <1>1
<1>11. Kids(g) = Kids(l) \cup Kids(r)
  BY <1>2, <1>3, <1>6, <1>9, <1>10
<1>12. Kids(m) = Kids(l) \cup {r.pids[0]} /\ r.pids[0] \in Kids(r)
  BY <1>2, <1>3, <1>9, <1>10
<1> QED
  BY <1>8, <1>11, <1>12 DEF g, m, n
-----------------------------------------------------------------------------
\* The pages live of the heap h form a forest with the given roots: they hold
\* their children, each of which has one parent slot and is one level below its
\* parent, and the leaves are the pages at level 0.
Forest(h, roots, live, lev) ==
  /\ roots \subseteq live
  /\ \A p \in live :
       /\ lev[p] \in Nat /\ (h[p].kind = "leaf" <=> lev[p] = 0)
       /\ OneSlotEach(h[p])
       /\ \A c \in Kids(h[p]) : c \in live /\ c \notin roots /\ lev[p] = lev[c] + 1
  /\ \A p, q \in live : \A c : c \in Kids(h[p]) /\ c \in Kids(h[q]) => p = q

\* A path leads from the root down, one level at a time.
PathDown(h, path, root, live, lev) ==
  /\ path # <<>> => path[1] = root
  /\ \A i \in 1..Len(path) : path[i] \in live /\ lev[path[i]] + i = lev[root] + 1
  /\ \A i \in 1..(Len(path) - 1) : path[i + 1] \in Kids(h[path[i]])

-----------------------------------------------------------------------------
\* Steps that keep the children of every page.
LEMMA ForestSameKids ==
  ASSUME NEW h, NEW h2, NEW R, NEW live, NEW lev, Forest(h, R, live, lev),
         \A p \in live : /\ h2[p].kind = h[p].kind /\ Kids(h2[p]) = Kids(h[p])
                         /\ OneSlotEach(h[p]) => OneSlotEach(h2[p])
  PROVE  Forest(h2, R, live, lev)
BY DEF Forest

\* A leaf splits: the new page is a root of its own.
LEMMA ForestLeafSplit ==
  ASSUME NEW h, NEW h2, NEW r, NEW live, NEW lev, Forest(h, {r}, live, lev),
         NEW n, n \notin live, h2[n].kind = "leaf",
         \A p \in live : /\ h2[p].kind = h[p].kind /\ Kids(h2[p]) = Kids(h[p])
                         /\ OneSlotEach(h[p]) => OneSlotEach(h2[p]),
         NEW live2, live2 = live \cup {n},
         NEW lev2, lev2[n] = 0, \A p \in live : lev2[p] = lev[p]
  PROVE  Forest(h2, {r, n}, live2, lev2)
<1>1. lev2[n] = 0 /\ \A p \in live : p # n /\ lev2[p] = lev[p]
  OBVIOUS
<1>2. Kids(h2[n]) = {} /\ OneSlotEach(h2[n])
  BY DEF Kids, OneSlotEach
<1> QED
  BY <1>1, <1>2 DEF Forest

\* A page that is no root yet gets its parent.
LEMMA ForestJoin ==
  ASSUME NEW h, NEW h2, NEW r, NEW s, NEW live, NEW lev, Forest(h, {r, s}, live, lev), r # s,
         NEW c \in live, lev[c] = lev[s] + 1,
         \A p \in live : h2[p].kind = h[p].kind /\ OneSlotEach(h2[p]),
         \A p \in live \ {c} : Kids(h2[p]) = Kids(h[p]),
         Kids(h2[c]) = Kids(h[c]) \cup {s}
  PROVE  Forest(h2, {r}, live, lev)
BY DEF Forest

\* An internal page that takes it splits.
LEMMA ForestInnerSplit ==
  ASSUME NEW h, NEW h2, NEW r, NEW s, NEW live, NEW lev, Forest(h, {r, s}, live, lev), r # s,
         NEW c \in live, lev[c] = lev[s] + 1, NEW n, n \notin live,
         \A p \in live : h2[p].kind = h[p].kind /\ OneSlotEach(h2[p]),
         h2[n].kind = "inner", OneSlotEach(h2[n]),
         \A p \in live \ {c} : Kids(h2[p]) = Kids(h[p]),
         Kids(h2[c]) \cup Kids(h2[n]) = Kids(h[c]) \cup {s},
         Kids(h2[c]) \cap Kids(h2[n]) = {},
         NEW live2, live2 = live \cup {n},
         NEW lev2, lev2[n] = lev[c], \A p \in live : lev2[p] = lev[p]
  PROVE  Forest(h2, {r, n}, live2, lev2)
<1>1. lev2[n] = lev[c] /\ \A p \in live : p # n /\ lev2[p] = lev[p]
  OBVIOUS
<1>2. \A p \in live : lev[p] \in Nat
  BY DEF Forest
<1>3. \A x \in Kids(h2[c]) \cup Kids(h2[n]) : x \in live /\ x # r /\ x # n /\ lev[c] = lev[x] + 1
  BY DEF Forest
<1>4. \A p \in live \ {c} : \A x \in Kids(h2[p]) :
        /\ x \in live /\ x # r /\ x # n /\ lev[p] = lev[x] + 1
        /\ x \notin Kids(h2[c]) /\ x \notin Kids(h2[n])
  BY DEF Forest
<1>5. \A p \in live : h2[p].kind = "leaf" <=> lev[p] = 0
  BY DEF Forest
<1>6. lev[c] # 0 /\ lev[c] \in Nat
  <2>1. lev[s] \in Nat
    BY DEF Forest
  <2> QED BY <2>1
<1>7. \A p, q \in live \ {c} : \A x : x \in Kids(h2[p]) /\ x \in Kids(h2[q]) => p = q
  BY DEF Forest
<1>8. {r, n} \subseteq live2
  BY DEF Forest
<1>9. ASSUME NEW p \in live2
      PROVE  /\ lev2[p] \in Nat /\ (h2[p].kind = "leaf" <=> lev2[p] = 0)
             /\ OneSlotEach(h2[p])
             /\ \A x \in Kids(h2[p]) : x \in live2 /\ x \notin {r, n} /\ lev2[p] = lev2[x] + 1
  <2>1. CASE p = n
    BY <1>1, <1>3, <1>6, <2>1
  <2>2. CASE p = c
    BY <1>1, <1>2, <1>3, <1>5, <2>2
  <2>3. CASE p \in live \ {c}
    BY <1>1, <1>2, <1>4, <1>5, <2>3
  <2> QED BY <2>1, <2>2, <2>3
<1>10. ASSUME NEW p \in live2, NEW q \in live2, NEW x,
              x \in Kids(h2[p]), x \in Kids(h2[q])
       PROVE  p = q
  <2>1. CASE p \in live \ {c} /\ q \in live \ {c}
    BY <1>7, <1>10, <2>1
  <2>2. CASE p \in {c, n} /\ q \in {c, n}
    BY <1>10, <2>2
  <2>3. CASE p \in {c, n} /\ q \in live \ {c}
    BY <1>4, <1>10, <2>3
  <2>4. CASE q \in {c, n} /\ p \in live \ {c}
    BY <1>4, <1>10, <2>4
  <2> QED BY <2>1, <2>2, <2>3, <2>4
<1> QED
  BY <1>8, <1>9, <1>10 DEF Forest

\* The root split: both halves get a new root.
LEMMA ForestGrow ==
  ASSUME NEW h, NEW h2, NEW r, NEW s, NEW live, NEW lev, Forest(h, {r, s}, live, lev),
         lev[r] = lev[s], NEW n, n \notin live,
         \A p \in live : h2[p] = h[p],
         h2[n].kind = "inner", OneSlotEach(h2[n]), Kids(h2[n]) = {r, s},
         NEW live2, live2 = live \cup {n},
         NEW lev2, lev2[n] = lev[r] + 1, \A p \in live : lev2[p] = lev[p]
  PROVE  Forest(h2, {n}, live2, lev2)
<1>1. lev2[n] = lev[r] + 1 /\ \A p \in live : p # n /\ lev2[p] = lev[p]
  OBVIOUS
<1>2. r \in live /\ s \in live /\ lev[r] \in Nat /\ lev[r] + 1 \in Nat /\ lev[r] + 1 # 0
  BY DEF Forest
<1>3. \A p \in live \cup {n} :
        /\ lev2[p] \in Nat /\ (h2[p].kind = "leaf" <=> lev2[p] = 0)
        /\ OneSlotEach(h2[p])
        /\ \A c \in Kids(h2[p]) : c \in live \cup {n} /\ c \notin {n} /\ lev2[p] = lev2[c] + 1
  BY <1>1, <1>2 DEF Forest
<1>4. \A p, q \in live \cup {n} : \A c : c \in Kids(h2[p]) /\ c \in Kids(h2[q]) => p = q
  BY <1>1, <1>2 DEF Forest
<1> QED
  BY <1>3, <1>4 DEF Forest

\* A root with one child is replaced by it.
LEMMA ForestShrink ==
  ASSUME NEW h, NEW r, NEW live, NEW lev, Forest(h, {r}, live, lev),
         NEW c, Kids(h[r]) = {c}
  PROVE  Forest(h, {c}, live \ {r}, lev) /\ c \in live /\ c # r
<1>1. r \in live /\ c \in live /\ c # r
  BY DEF Forest
<1>2. \A p \in live \ {r} : \A x \in Kids(h[p]) : x \in live \ {r} /\ x # c /\ lev[p] = lev[x] + 1
  BY <1>1 DEF Forest
<1> QED
  BY <1>1, <1>2 DEF Forest

\* A page is merged into its sibling, which takes over all or some of its
\* children; the parent drops it.
LEMMA ForestMerge ==
  ASSUME NEW h, NEW h2, NEW r, NEW live, NEW lev, Forest(h, {r}, live, lev),
         NEW par \in live, NEW keep, NEW gone, keep \in Kids(h[par]), gone \in Kids(h[par]),
         keep # gone,
         \A p \in live \ {gone} : h2[p].kind = h[p].kind /\ OneSlotEach(h2[p]),
         \A p \in live \ {par, keep, gone} : Kids(h2[p]) = Kids(h[p]),
         Kids(h2[par]) = Kids(h[par]) \ {gone},
         Kids(h2[keep]) \subseteq Kids(h[keep]) \cup Kids(h[gone])
  PROVE  Forest(h2, {r}, live \ {gone}, lev)
<1>1. /\ keep \in live /\ gone \in live /\ lev[keep] = lev[gone] /\ gone # r
      /\ par # keep /\ par # gone
  <2>1. /\ keep \in live /\ gone \in live /\ lev[par] = lev[keep] + 1 /\ lev[par] = lev[gone] + 1
        /\ gone # r /\ lev[par] \in Nat /\ lev[keep] \in Nat /\ lev[gone] \in Nat
    BY DEF Forest
  <2> QED BY <2>1
<1>2. \A p \in live \ {gone} : \A x \in Kids(h2[p]) :
        x \in live /\ x # r /\ x # gone /\ lev[p] = lev[x] + 1
  BY <1>1 DEF Forest
<1>3. \A p, q \in live \ {gone} : \A x : x \in Kids(h2[p]) /\ x \in Kids(h2[q]) => p = q
  BY <1>1 DEF Forest
<1> QED
  BY <1>1, <1>2, <1>3 DEF Forest

\* A page takes over a child of its sibling.
LEMMA ForestBorrow ==
  ASSUME NEW h, NEW h2, NEW r, NEW live, NEW lev, Forest(h, {r}, live, lev),
         NEW to \in live, NEW from \in live, to # from, lev[to] = lev[from],
         NEW x \in Kids(h[from]),
         \A p \in live : h2[p].kind = h[p].kind /\ OneSlotEach(h2[p]),
         \A p \in live \ {to, from} : Kids(h2[p]) = Kids(h[p]),
         Kids(h2[to]) = Kids(h[to]) \cup {x}, Kids(h2[from]) = Kids(h[from]) \ {x}
  PROVE  Forest(h2, {r}, live, lev)
<1>1. \A p \in live : \A c \in Kids(h2[p]) : c \in live /\ c # r /\ lev[p] = lev[c] + 1
  BY DEF Forest
<1>2. \A p, q \in live : \A c : c \in Kids(h2[p]) /\ c \in Kids(h2[q]) => p = q
  BY DEF Forest
<1> QED
  BY <1>1, <1>2 DEF Forest

-----------------------------------------------------------------------------
\* A path one frame longer.
LEMMA PathAppend ==
  ASSUME NEW h, NEW h2, NEW S, NEW path \in Seq(S), path # <<>>, NEW root, NEW live, NEW lev,
         NEW R, Forest(h, R, live, lev), root \in live, PathDown(h, path, root, live, lev),
         NEW c \in S, c \in Kids(h[path[Len(path)]]),
         \A p \in live : Kids(h2[p]) = Kids(h[p])
  PROVE  PathDown(h2, Append(path, c), root, live, lev)
<1> DEFINE path2 == Append(path, c)
           n == Len(path)
<1>1. /\ n \in Nat /\ n >= 1 /\ Len(path2) = n + 1 /\ path2 # <<>> /\ path2[n + 1] = c
      /\ \A i \in 1..n : path2[i] = path[i]
  OBVIOUS
<1>2. path2[1] = root
  BY <1>1 DEF PathDown
<1>3. /\ path[n] \in live /\ lev[path[n]] + n = lev[root] + 1 /\ c \in live
      /\ lev[path[n]] = lev[c] + 1 /\ lev[c] \in Nat /\ lev[root] \in Nat
  BY <1>1 DEF PathDown, Forest
<1> HIDE DEF path2, n
<1>4. ASSUME NEW i \in 1..(n + 1) PROVE path2[i] \in live /\ lev[path2[i]] + i = lev[root] + 1
  <2>1. CASE i = n + 1
    <3>1. lev[c] + (n + 1) = lev[root] + 1
      BY <1>1, <1>3
    <3> QED BY <1>1, <1>3, <2>1, <3>1
  <2>2. CASE i \in 1..n
    BY <1>1, <2>2 DEF PathDown, n
  <2> QED BY <1>1, <2>1, <2>2
<1>5. ASSUME NEW i \in 1..n PROVE path2[i + 1] \in Kids(h2[path2[i]])
  <2>1. CASE i = n
    BY <1>1, <1>3, <2>1 DEF n
  <2>2. CASE i \in 1..(n - 1)
    <3>1. i + 1 \in 1..n /\ i \in 1..n
      BY <1>1, <2>2
    <3> QED BY <1>1, <2>2, <3>1 DEF PathDown, n
  <2> QED BY <1>1, <2>1, <2>2
<1>6. (n + 1) - 1 = n
  BY <1>1
<1> QED
  BY <1>1, <1>2, <1>4, <1>5, <1>6 DEF PathDown, path2

\* A path one frame shorter; the step may change the last two pages.
LEMMA PathFront ==
  ASSUME NEW h, NEW h2, NEW S, NEW path \in Seq(S), path # <<>>, NEW root,
         NEW live, NEW lev, NEW live2, NEW lev2, NEW R,
         Forest(h, R, live, lev), root \in live, PathDown(h, path, root, live, lev),
         NEW path2 \in Seq(S), Len(path2) = Len(path) - 1,
         \A i \in 1..Len(path2) : path2[i] = path[i],
         \A p \in live : lev[p] > lev[path[Len(path)]] => p \in live2 /\ lev2[p] = lev[p],
         lev2[root] = lev[root],
         \A p \in live : lev[p] > lev[path[Len(path)]] + 1 => Kids(h2[p]) = Kids(h[p])
  PROVE  PathDown(h2, path2, root, live2, lev2)
<1> DEFINE n == Len(path)
<1>1. n \in Nat /\ n >= 1 /\ Len(path2) = n - 1
  OBVIOUS
<1>2. /\ \A i \in 1..n : path[i] \in live /\ lev[path[i]] + i = lev[root] + 1 /\ lev[path[i]] \in Nat
      /\ lev[root] \in Nat /\ path[1] = root
  BY DEF PathDown, Forest
<1> HIDE DEF n
<1>3. ASSUME NEW i \in 1..(n - 1)
      PROVE  i \in 1..n /\ path[i] \in live /\ lev[path[i]] > lev[path[n]]
             /\ (i < n - 1 => lev[path[i]] > lev[path[n]] + 1)
  <2>1. i \in 1..n /\ n \in 1..n
    BY <1>1
  <2>2. /\ lev[path[i]] + i = lev[root] + 1 /\ lev[path[i]] \in Nat /\ path[i] \in live
        /\ lev[path[n]] + n = lev[root] + 1 /\ lev[path[n]] \in Nat
    BY <1>2, <2>1
  <2> QED BY <1>1, <1>2, <2>1, <2>2
<1>4. ASSUME NEW i \in 1..(n - 1)
      PROVE  path2[i] \in live2 /\ lev2[path2[i]] + i = lev2[root] + 1
  <2>1. path2[i] = path[i] /\ i \in 1..n
    BY <1>1, <1>3
  <2>2. path[i] \in live2 /\ lev2[path[i]] = lev[path[i]]
    BY <1>3 DEF n
  <2> QED BY <1>2, <2>1, <2>2
<1>5. ASSUME NEW i \in 1..(n - 1 - 1) PROVE path2[i + 1] \in Kids(h2[path2[i]])
  <2>1. i \in 1..(n - 1) /\ i + 1 \in 1..(n - 1) /\ i < n - 1
    BY <1>1
  <2>2. path2[i] = path[i] /\ path2[i + 1] = path[i + 1] /\ Kids(h2[path[i]]) = Kids(h[path[i]])
    BY <1>1, <1>3, <2>1 DEF n
  <2> QED BY <2>1, <2>2 DEF PathDown, n
<1>6. path2 # <<>> => path2[1] = root
  <2>1. ASSUME path2 # <<>> PROVE path2[1] = root
    <3>1. 1 \in 1..Len(path2)
      BY <2>1
    <3> QED BY <1>2, <3>1
  <2> QED BY <2>1
<1> QED
  BY <1>1, <1>4, <1>5, <1>6 DEF PathDown
=============================================================================
