------------------------------ MODULE InnerPage ------------------------------
(***************************************************************************)
(* InternalPage<KeyT, ValueT, PidT, KeyComparatorT> (inner_page.h).  A page *)
(* of size n has n children pids[0..n-1] and n-1 entries in slots[1..n-1];  *)
(* slots[0] is never a key ("first key is invalid!").  The entries carry    *)
(* values of their own: this is a B-tree and not a B+-tree.                 *)
(***************************************************************************)
EXTENDS BTreePage

InnerPages ==
  [kind : {"inner"}, size : 0..InnerMax,
   slots : [InnerSlots -> Entries], pids : [InnerSlots -> Nat]]

\* A zero-filled page after InternalPage::Init.
EmptyInner ==
  [kind |-> "inner", size |-> 0,
   slots |-> [i \in InnerSlots |-> ZeroEntry], pids |-> [i \in InnerSlots |-> 0]]

\* SetInitialState: a new root over the two halves of the old one.
NewRoot(e, pid1, pid2) ==
  [EmptyInner EXCEPT !.size = 2, !.slots[1] = e, !.pids[0] = pid1, !.pids[1] = pid2]

\* The lower_bound over slots[1..n-1] of GetChildPidOrValue, DoUpdateOrGetChild,
\* DowncastRemoveOrGetChildPid and Insert, its "key found" test and the child
\* to go to when the test fails.
InnerSearch(p, k) == LowerBound(1, p.size, {i \in 1..(p.size - 1) : p.slots[i][1] < k})

InnerHolds(p, k) ==
  LET i == InnerSearch(p, k) IN i < p.size /\ p.slots[i][1] = k

InnerValue(p, k) == p.slots[InnerSearch(p, k)][2]
InnerChild(p, k) == p.pids[InnerSearch(p, k) - 1]

\* DoUpdateOrGetChild, key found.
InnerAssign(p, k, v) == [p EXCEPT !.slots[InnerSearch(p, k)] = <<@[1], v>>]

\* Mutant: the new child is put on the left of its entry.
InnerPlaceLeft(p, e, pid) ==
  LET i == InnerSearch(p, e[1])
  IN  [p EXCEPT !.size = @ + 1,
                !.slots = [OpenGap(@, i, p.size) EXCEPT ![i] = e],
                !.pids = [OpenGap(@, i - 1, p.size) EXCEPT ![i - 1] = pid]]

\* Insert, steps 1 to 3.
InnerPlace(p, e, pid) ==
  LET i == InnerSearch(p, e[1])
  IN  [p EXCEPT !.size = @ + 1,
                !.slots = [OpenGap(@, i, p.size) EXCEPT ![i] = e],
                !.pids = [OpenGap(@, i, p.size) EXCEPT ![i] = pid]]

\* Mutant: splits one child late.
InnerFullLate(p) == p.size > InnerMax

InnerFull(p) == p.size >= InnerMax

\* Insert, step 4.
InnerMiddle(p) == p.slots[MinSize(InnerMax)]

InnerLower(p) == [p EXCEPT !.size = MinSize(InnerMax)]

\* Mutant: the first child is not copied.
InnerUpperSkips(p) ==
  LET mid == MinSize(InnerMax)
      n == p.size - mid
  IN  [EmptyInner EXCEPT !.size = n,
                         !.slots = CopyRange(@, 1, p.slots, mid + 1, n - 1),
                         !.pids = CopyRange(@, 0, p.pids, mid + 1, n - 1)]

InnerUpper(p) ==
  LET mid == MinSize(InnerMax)
      n == p.size - mid
  IN  [EmptyInner EXCEPT !.size = n,
                         !.slots = CopyRange(@, 1, p.slots, mid + 1, n - 1),
                         !.pids = CopyRange(@, 0, p.pids, mid, n)]

\* CheckOrBorrowOrMerge: fewer than the minimum are left.
InnerPoor(p) == p.size < MinSize(InnerMax)

InnerFirst(p) == p.slots[1]
InnerLast(p) == p.slots[p.size - 1]

InnerPushBack(p, e, pid) ==
  [p EXCEPT !.size = @ + 1, !.slots[p.size] = e, !.pids[p.size] = pid]

InnerPushFront(p, e, pid) ==
  [p EXCEPT !.size = @ + 1,
            !.slots = [OpenGap(@, 1, p.size) EXCEPT ![1] = e],
            !.pids = [OpenGap(@, 0, p.size) EXCEPT ![0] = pid]]

InnerPopBack(p) == [p EXCEPT !.size = @ - 1]

InnerPopFront(p) ==
  [p EXCEPT !.size = @ - 1,
            !.slots = CloseGap([@ EXCEPT ![1] = ZeroEntry], 0, p.size),
            !.pids = CloseGap(@, 0, p.size)]

\* SetPairAt and SetElemPairAt.
InnerSetEntry(p, i, e) == [p EXCEPT !.slots[i] = e]

\* RemoveElemAndPidAt.
InnerDrop(p, i) ==
  [p EXCEPT !.size = @ - 1,
            !.slots = CloseGap(@, i, p.size), !.pids = CloseGap(@, i, p.size)]

\* Merge: as LeafAbsorb, the copied children are not counted here.
InnerAbsorb(left, sep, right) ==
  LET l == InnerPushBack(left, sep, right.pids[0])
  IN  [l EXCEPT !.slots = CopyRange(@, l.size, right.slots, 1, right.size - 1),
                !.pids = CopyRange(@, l.size, right.pids, 1, right.size - 1)]

InnerGrow(p, n) == [p EXCEPT !.size = @ + n]

\* GetIdxByPid, for a child of the page: the first index the loop finds.
IdxByPid(p, pid) ==
  CHOOSE i \in 0..(p.size - 1) : p.pids[i] = pid /\ \A j \in 0..(i - 1) : p.pids[j] # pid

\* Mutant: no case for the last child.
SiblingIdxRight(p, pid) == IdxByPid(p, pid) + 1

\* The sibling LeafPage::Remove and CheckOrBorrowOrMerge turn to: the right
\* one, the left one for the last child.  -1 for an only child.
SiblingIdx(p, pid) ==
  LET i == IdxByPid(p, pid) IN IF i = p.size - 1 THEN i - 1 ELSE i + 1

=============================================================================
