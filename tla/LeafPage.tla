------------------------------ MODULE LeafPage -------------------------------
(***************************************************************************)
(* LeafPage<KeyT, ValueT, KeyComparatorT> (leaf_page.h): sorted slots of    *)
(* keys and values.  Every operator takes a page and returns the page as    *)
(* the method leaves it; which pages a method touches besides this one is   *)
(* said by the actions of BTreeIndex.                                       *)
(***************************************************************************)
EXTENDS BTreePage

LeafPages == [kind : {"leaf"}, size : 0..LeafMax, slots : [LeafSlots -> Entries]]

\* A zero-filled page after LeafPage::Init.
EmptyLeaf == [kind |-> "leaf", size |-> 0, slots |-> [i \in LeafSlots |-> ZeroEntry]]

\* The lower_bound call every method starts with, and its "key found" test.
LeafSearch(p, k) == LowerBound(0, p.size, {i \in 0..(p.size - 1) : p.slots[i][1] < k})

LeafHolds(p, k) ==
  LET i == LeafSearch(p, k) IN i < p.size /\ p.slots[i][1] = k

LeafValue(p, k) == p.slots[LeafSearch(p, k)][2]

\* Insert, steps 1 and 2: no test for an equal key.
LeafPlace(p, e) ==
  LET i == LeafSearch(p, e[1])
  IN  [p EXCEPT !.size = @ + 1,
                !.slots = [OpenGap(@, i, p.size) EXCEPT ![i] = e]]

\* Insert, step 3: after the insertion the page must be split.
LeafFull(p) == p.size >= LeafMax

\* Insert, step 4: the middle entry moves up, this page keeps the entries
\* below it, the new page takes those above it.
LeafMiddle(p) == p.slots[MinSize(LeafMax)]

LeafLower(p) == [p EXCEPT !.size = MinSize(LeafMax)]

\* Mutant: the middle entry is copied too.
LeafUpperKeepsMiddle(p) ==
  LET mid == MinSize(LeafMax)
  IN  [EmptyLeaf EXCEPT !.size = p.size - mid,
                        !.slots = CopyRange(@, 0, p.slots, mid, p.size - mid)]

LeafUpper(p) ==
  LET mid == MinSize(LeafMax)
      n == p.size - mid - 1
  IN  [EmptyLeaf EXCEPT !.size = n, !.slots = CopyRange(@, 0, p.slots, mid + 1, n)]

\* Update, step 3.
LeafAssign(p, k, v) == [p EXCEPT !.slots[LeafSearch(p, k)] = <<@[1], v>>]

\* Remove, step 3.
LeafErase(p, k) ==
  [p EXCEPT !.size = @ - 1, !.slots = CloseGap(@, LeafSearch(p, k), p.size)]

\* Mutant: one too few is accepted.
LeafPoorLate(p) == p.size + 1 < MinSize(LeafMax)

\* Remove, step 4: fewer than the minimum are left.
LeafPoor(p) == p.size < MinSize(LeafMax)

LeafFirst(p) == p.slots[0]
LeafLast(p) == p.slots[p.size - 1]

LeafPushBack(p, e) == [p EXCEPT !.size = @ + 1, !.slots[p.size] = e]

LeafPushFront(p, e) ==
  [p EXCEPT !.size = @ + 1, !.slots = [OpenGap(@, 0, p.size) EXCEPT ![0] = e]]

LeafPopBack(p) == [p EXCEPT !.size = @ - 1]

\* Mutant: nothing is moved.
LeafPopFrontStays(p) == [p EXCEPT !.size = @ - 1]

LeafPopFront(p) == [p EXCEPT !.size = @ - 1, !.slots = CloseGap(@, 0, p.size)]

\* Remove, step 4, merge: the left page takes the separator and copies of the
\* right page's entries.  Its size counts the separator only: the copied
\* entries are counted by a separate ChangeSizeBy, which BTreeIndex applies to
\* the page the code applies it to.
LeafAbsorb(left, sep, right) ==
  LET l == LeafPushBack(left, sep)
  IN  [l EXCEPT !.slots = CopyRange(@, l.size, right.slots, 0, right.size)]

LeafGrow(p, n) == [p EXCEPT !.size = @ + n]

=============================================================================
