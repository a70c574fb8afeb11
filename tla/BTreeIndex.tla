----------------------------- MODULE BTreeIndex ------------------------------
(***************************************************************************)
(* Index<KeyT, ValueT, KeyComparatorT> (index.h) over the pages of          *)
(* RawPageMgr.  One call runs at a time: Insert, Update and Remove hold     *)
(* rw_lock exclusively, and Get changes nothing.                            *)
(*                                                                          *)
(* A call is a sequence of steps, one per page it visits.  Going down, the  *)
(* page ids of the recursive calls in progress are in path, the root first  *)
(* and the page being visited last; going up, path has lost the frames that *)
(* returned and what they returned is in split (Insert) or child (Remove).  *)
(***************************************************************************)
EXTENDS LeafPage, InnerPage, Sequences, SequencesExt

VARIABLES
  heap,     \* RawPageMgr::pages_map: page id -> page
  nextPid,  \* RawPageMgr::next_page_id
  root,     \* Index::root, as a page id
  pc,       \* where the call in progress is, see Phases
  call,     \* the call in progress
  key,      \* removed_key of the current frame of a Remove
  path,     \* the frames of the recursion
  child,    \* child_raw_page of the frame a merged child returns to
  split,    \* SplitInfo of the frame a split child returns to
  result    \* what the last call returned

vars == <<heap, nextPid, root, pc, call, key, path, child, split, result>>

\* "aborted": exit(-1).  "undefined": a failed assert, an access outside an
\* array or through a pointer to the wrong page class; what the program does
\* from there is not described.
Phases == {"idle", "down", "up", "aborted", "undefined"}

Calls ==
  [op : {"Insert", "Update"}, key : Keys, val : Vals] \cup
  [op : {"Get", "Remove"}, key : Keys, val : {ZeroVal}]

NoCall == [op |-> "None", key |-> 0, val |-> ZeroVal]
NoSplit == [elem |-> ZeroEntry, pid |-> NoPid]

Pending == <<"pending">>
Done == <<"ok">>             \* Status{}
Throw == <<"throw">>         \* Unwrap of a KeyDuplicateException
NotFound == <<"none">>       \* an empty optional
Failed == <<"bad_alloc">>    \* std::bad_alloc, see BTreeFailure
Found(v) == <<"found", v>>
Results == {Pending, Done, Throw, NotFound, Failed} \cup {Found(v) : v \in Vals}

Pids == DOMAIN heap
Pages == LeafPages \cup InnerPages
IsLeaf(pid) == heap[pid].kind = "leaf"

\* Every page is a page of its class, every id in a child slot, on the path or
\* in what a frame returns is that of a page that exists: get_page never finds
\* nothing (btree_page.cpp:18-24).
TypeOK ==
  /\ nextPid \in Nat \ {0}
  /\ Pids \subseteq 0..(nextPid - 1) /\ 0 \in Pids
  /\ heap \in [Pids -> Pages]
  /\ \A pid \in Pids : ~IsLeaf(pid) => heap[pid].pids \in [InnerSlots -> Pids]
  /\ root \in Pids
  /\ pc \in Phases
  /\ call \in Calls \cup {NoCall}
  /\ key \in Keys
  /\ path \in Seq(Pids)
  /\ child \in Pids \cup {NoPid}
  /\ split \in [elem : Entries, pid : Pids \cup {NoPid}]
  /\ result \in Results

\* Only the frame being visited can be on a leaf: GoDown and RemoveAtInner
\* leave the internal page they are on, and a leaf's frame ends before
\* another is resumed.
FramesInner ==
  \A i \in 1..Len(path) : i < Len(path) \/ pc = "up" => ~IsLeaf(path[i])

\* What a frame needs from the call and from the frame above it.
FrameInputs ==
  /\ pc = "down" => call \in Calls /\ path # <<>>
  /\ pc = "up" => \/ call.op = "Insert" /\ split.pid \in Pids
                  \/ call.op = "Remove" /\ child \in Pids /\ path # <<>>

-----------------------------------------------------------------------------
\* RawPageMgr::create: pages h and a new one, with what the caller writes into it.
Create(h, page) ==
  /\ heap' = [pid \in DOMAIN h \cup {nextPid} |-> IF pid = nextPid THEN page ELSE h[pid]]
  /\ nextPid' = nextPid + 1

\* The page of the current frame, and that of the frame below it.
Cur == Last(path)
Parent == path[Len(path) - 1]
Page == heap[Cur]

\* The call returns r.
Return(r) ==
  /\ pc' = "idle" /\ result' = r
  /\ call' = NoCall /\ key' = 0 /\ path' = <<>> /\ child' = NoPid /\ split' = NoSplit

\* The program stops inside the call.
Stop(how) ==
  /\ pc' = how
  /\ UNCHANGED <<heap, nextPid, root, call, key, path, child, split, result>>

\* Mutant: child_raw_page is not set.
ReturnToForgetsChild(c, s) ==
  /\ pc' = "up" /\ path' = Front(path) /\ split' = s
  /\ UNCHANGED <<root, call, key, child, result>>

\* The current frame returns and leaves c, s to the frame below it.
ReturnTo(c, s) ==
  /\ pc' = "up" /\ path' = Front(path) /\ child' = c /\ split' = s
  /\ UNCHANGED <<root, call, key, result>>

\* Index::create: the root is an empty leaf.
Init ==
  /\ heap = [pid \in {0} |-> EmptyLeaf] /\ nextPid = 1 /\ root = 0
  /\ pc = "idle" /\ call = NoCall /\ key = 0 /\ path = <<>>
  /\ child = NoPid /\ split = NoSplit /\ result = Pending

Invoke(c) ==
  /\ pc = "idle"
  /\ pc' = "down" /\ call' = c /\ key' = c.key /\ path' = <<root>> /\ result' = Pending
  /\ UNCHANGED <<heap, nextPid, root, child, split>>

AtLeaf(op) == pc = "down" /\ call.op = op /\ IsLeaf(Cur)
AtInner(op) == pc = "down" /\ call.op = op /\ ~IsLeaf(Cur)

\* The key is not in this internal page: the recursive call on a child.
GoDown ==
  /\ pc = "down" /\ ~IsLeaf(Cur)
  /\ ~InnerHolds(Page, key)
  /\ path' = Append(path, InnerChild(Page, key))
  /\ UNCHANGED <<heap, nextPid, root, pc, call, key, child, split, result>>

-----------------------------------------------------------------------------
\* Get and Update

GetAtInner ==
  /\ AtInner("Get") /\ InnerHolds(Page, key)
  /\ Return(Found(InnerValue(Page, key)))
  /\ UNCHANGED <<heap, nextPid, root>>

GetAtLeaf ==
  /\ AtLeaf("Get")
  /\ Return(IF LeafHolds(Page, key) THEN Found(LeafValue(Page, key)) ELSE NotFound)
  /\ UNCHANGED <<heap, nextPid, root>>

UpdateAtInner ==
  /\ AtInner("Update") /\ InnerHolds(Page, key)
  /\ heap' = [heap EXCEPT ![Cur] = InnerAssign(@, key, call.val)]
  /\ Return(Done)
  /\ UNCHANGED <<nextPid, root>>

\* A missing key is not reported: both cases return Status{}.
UpdateAtLeaf ==
  /\ AtLeaf("Update")
  /\ heap' = IF LeafHolds(Page, key)
             THEN [heap EXCEPT ![Cur] = LeafAssign(@, key, call.val)] ELSE heap
  /\ Return(Done)
  /\ UNCHANGED <<nextPid, root>>

-----------------------------------------------------------------------------
\* Insert

\* KeyDuplicateException: Index::Insert drops the one its own call to
\* InsertFromInternal returns; a deeper one is thrown by Unwrap on the way up.
InsertDuplicate ==
  /\ AtInner("Insert") /\ InnerHolds(Page, key)
  /\ Return(IF Len(path) = 1 THEN Done ELSE Throw)
  /\ UNCHANGED <<heap, nextPid, root>>

LeafInsertFits ==
  /\ AtLeaf("Insert")
  /\ LET leaf == LeafPlace(Page, <<key, call.val>>)
     IN  /\ ~LeafFull(leaf)
         /\ heap' = [heap EXCEPT ![Cur] = leaf]
  /\ Return(Done)
  /\ UNCHANGED <<nextPid, root>>

LeafInsertSplits ==
  /\ AtLeaf("Insert")
  /\ LET leaf == LeafPlace(Page, <<key, call.val>>)
     IN  /\ LeafFull(leaf)
         /\ Create([heap EXCEPT ![Cur] = LeafLower(leaf)], LeafUpper(leaf))
         /\ ReturnTo(NoPid, [elem |-> LeafMiddle(leaf), pid |-> nextPid])

\* The child split: the internal page takes the middle entry and the new page.
InnerInsertFits ==
  /\ pc = "up" /\ call.op = "Insert" /\ path # <<>>
  /\ LET inner == InnerPlace(Page, split.elem, split.pid)
     IN  /\ ~InnerFull(inner)
         /\ heap' = [heap EXCEPT ![Cur] = inner]
  /\ Return(Done)
  /\ UNCHANGED <<nextPid, root>>

InnerInsertSplits ==
  /\ pc = "up" /\ call.op = "Insert" /\ path # <<>>
  /\ LET inner == InnerPlace(Page, split.elem, split.pid)
     IN  /\ InnerFull(inner)
         /\ Create([heap EXCEPT ![Cur] = InnerLower(inner)], InnerUpper(inner))
         /\ ReturnTo(NoPid, [elem |-> InnerMiddle(inner), pid |-> nextPid])

\* The root split.
GrowRoot ==
  /\ pc = "up" /\ call.op = "Insert" /\ path = <<>>
  /\ Create(heap, NewRoot(split.elem, root, split.pid))
  /\ root' = nextPid
  /\ Return(Done)

-----------------------------------------------------------------------------
\* Remove, going down

\* GetRawPageFirstElem
FirstElem(page) == IF page.kind = "leaf" THEN LeafFirst(page) ELSE InnerFirst(page)

\* DowncastRemoveOrGetChildPid, key found: the first entry of the child right
\* of the key takes its place and is what the recursive call removes.
RemoveAtInner ==
  /\ AtInner("Remove") /\ InnerHolds(Page, key)
  /\ LET i == InnerSearch(Page, key)
         e == FirstElem(heap[Page.pids[i]])
     IN  /\ heap' = [heap EXCEPT ![Cur] = InnerSetEntry(@, i, e)]
         /\ key' = e[1]
         /\ path' = Append(path, Page.pids[i])
  /\ UNCHANGED <<nextPid, root, pc, call, child, split, result>>

\* The leaf after the removal, and whether it must borrow or merge.
Erased == LeafErase(Page, key)
LeafUnderflow ==
  AtLeaf("Remove") /\ LeafHolds(Page, key) /\ Len(path) > 1 /\ LeafPoor(Erased)

\* A merged child left this internal page with too few children.
InnerUnderflow ==
  pc = "up" /\ call.op = "Remove" /\ Len(path) > 1 /\ InnerPoor(Page)

\* The parent's slot of the current page, its sibling's slot, the slot of the
\* entry between the two, and the sibling's page.
MyIdx == IdxByPid(heap[Parent], Cur)
SibIdx == SiblingIdx(heap[Parent], Cur)
SepIdx == IF MyIdx > SibIdx THEN MyIdx ELSE SibIdx
Sep == heap[Parent].slots[SepIdx]
Sib == heap[Parent].pids[SibIdx]

\* The parent knows this page (assert(cur_idx_in_parent != -1)), and PidAt finds
\* its sibling in the array.
SiblingListed ==
  /\ \E i \in 0..(heap[Parent].size - 1) : heap[Parent].pids[i] = Cur
  /\ SibIdx \in 0..(heap[Parent].size - 1)

\* ... and the sibling to borrow from or merge with is a page of the same class,
\* and not one of the other two pages the code writes while it reads it.
HasSibling ==
  /\ SiblingListed
  /\ IsLeaf(Sib) = IsLeaf(Cur)
  /\ Parent # Cur /\ Sib \notin {Parent, Cur}

\* The frame turns to a sibling that is not there.  A leaf's frame looks its
\* sibling up whatever the removal does to the leaf, a miss included, an internal
\* page's only once too few children are left.
Alone ==
  \/ AtLeaf("Remove") /\ Len(path) > 1 /\ ~SiblingListed
  \/ (LeafUnderflow \/ InnerUnderflow) /\ ~HasSibling

NoSibling == Alone /\ Stop("undefined")

\* Mutant: a miss starts over from the root.
RemoveMissRetries ==
  /\ AtLeaf("Remove") /\ ~LeafHolds(Page, key) /\ ~Alone /\ Len(path) <= 2
  /\ path' = <<root>>
  /\ UNCHANGED <<heap, nextPid, root, pc, call, key, child, split, result>>

\* KeyNotFound: Index::Remove accepts it from the leaf or from its child, a
\* frame of RemoveFromInternal on an internal page does not.
RemoveMiss ==
  /\ AtLeaf("Remove") /\ ~LeafHolds(Page, key) /\ ~Alone /\ Len(path) <= 2
  /\ Return(Done)
  /\ UNCHANGED <<heap, nextPid, root>>

RemoveMissBelowInner ==
  /\ AtLeaf("Remove") /\ ~LeafHolds(Page, key) /\ ~Alone /\ Len(path) > 2
  /\ Stop("aborted")

RemoveFromLeaf ==
  /\ AtLeaf("Remove") /\ LeafHolds(Page, key) /\ ~LeafUnderflow /\ ~Alone
  /\ heap' = [heap EXCEPT ![Cur] = Erased]
  /\ Return(Done)
  /\ UNCHANGED <<nextPid, root>>

-----------------------------------------------------------------------------
\* Remove, borrowing and merging: leaves at the bottom, internal pages going up

RightSibling == SibIdx > MyIdx

LeafLends == LeafUnderflow /\ HasSibling /\ heap[Sib].size > MinSize(LeafMax)
LeafMerges == LeafUnderflow /\ HasSibling /\ heap[Sib].size <= MinSize(LeafMax)

LeafBorrowRight ==
  /\ LeafLends /\ RightSibling
  /\ heap' = [heap EXCEPT ![Cur] = LeafPushBack(Erased, Sep),
                          ![Sib] = LeafPopFront(@),
                          ![Parent] = InnerSetEntry(@, SepIdx, LeafFirst(heap[Sib]))]
  /\ Return(Done)
  /\ UNCHANGED <<nextPid, root>>

LeafBorrowLeft ==
  /\ LeafLends /\ ~RightSibling
  /\ heap' = [heap EXCEPT ![Cur] = LeafPushFront(Erased, Sep),
                          ![Sib] = LeafPopBack(@),
                          ![Parent] = InnerSetEntry(@, SepIdx, LeafLast(heap[Sib]))]
  /\ Return(Done)
  /\ UNCHANGED <<nextPid, root>>

\* Mutant: the frame below gets the page that was merged away.
LeafMergeRightReturnsMergee ==
  /\ LeafMerges /\ RightSibling
  /\ heap' = [heap EXCEPT ![Cur] = LeafGrow(LeafAbsorb(Erased, Sep, heap[Sib]), heap[Sib].size),
                          ![Parent] = InnerDrop(@, SepIdx)]
  /\ ReturnTo(Sib, NoSplit)
  /\ UNCHANGED nextPid

\* ChangeSizeBy(mergee_leaf.GetSize()) is applied to this page, which is the
\* merger here ...
LeafMergeRight ==
  /\ LeafMerges /\ RightSibling
  /\ heap' = [heap EXCEPT ![Cur] = LeafGrow(LeafAbsorb(Erased, Sep, heap[Sib]), heap[Sib].size),
                          ![Parent] = InnerDrop(@, SepIdx)]
  /\ ReturnTo(Cur, NoSplit)
  /\ UNCHANGED nextPid

\* ... and the mergee here.
LeafMergeLeft ==
  /\ LeafMerges /\ ~RightSibling
  /\ heap' = [heap EXCEPT ![Cur] = LeafGrow(Erased, Erased.size),
                          ![Sib] = LeafAbsorb(@, Sep, Erased),
                          ![Parent] = InnerDrop(@, SepIdx)]
  /\ ReturnTo(Cur, NoSplit)
  /\ UNCHANGED nextPid

\* CheckOrBorrowOrMerge, nothing to do.
InnerSafe ==
  /\ pc = "up" /\ call.op = "Remove" /\ Len(path) > 1 /\ ~InnerPoor(Page)
  /\ Return(Done)
  /\ UNCHANGED <<heap, nextPid, root>>

InnerLends == InnerUnderflow /\ HasSibling /\ heap[Sib].size > MinSize(InnerMax)
InnerMerges == InnerUnderflow /\ HasSibling /\ heap[Sib].size <= MinSize(InnerMax)

InnerBorrowRight ==
  /\ InnerLends /\ RightSibling
  /\ heap' = [heap EXCEPT ![Cur] = InnerPushBack(@, Sep, heap[Sib].pids[0]),
                          ![Sib] = InnerPopFront(@),
                          ![Parent] = InnerSetEntry(@, SepIdx, InnerFirst(heap[Sib]))]
  /\ Return(Done)
  /\ UNCHANGED <<nextPid, root>>

InnerBorrowLeft ==
  /\ InnerLends /\ ~RightSibling
  /\ heap' = [heap EXCEPT
       ![Cur] = InnerPushFront(@, Sep, heap[Sib].pids[heap[Sib].size - 1]),
       ![Sib] = InnerPopBack(@),
       ![Parent] = InnerSetEntry(@, SepIdx, InnerLast(heap[Sib]))]
  /\ Return(Done)
  /\ UNCHANGED <<nextPid, root>>

InnerMergeRight ==
  /\ InnerMerges /\ RightSibling
  /\ heap' = [heap EXCEPT
       ![Cur] = InnerGrow(InnerAbsorb(@, Sep, heap[Sib]), heap[Sib].size - 1),
       ![Parent] = InnerDrop(@, SepIdx)]
  /\ ReturnTo(Cur, NoSplit)
  /\ UNCHANGED nextPid

InnerMergeLeft ==
  /\ InnerMerges /\ ~RightSibling
  /\ heap' = [heap EXCEPT ![Cur] = InnerGrow(@, Page.size - 1),
                          ![Sib] = InnerAbsorb(@, Sep, Page),
                          ![Parent] = InnerDrop(@, SepIdx)]
  /\ ReturnTo(Cur, NoSplit)
  /\ UNCHANGED nextPid

\* Index::Remove, after a merge below the root: a root with one child is
\* replaced, by the page the recursive call was made on.
RootKeeps ==
  /\ pc = "up" /\ call.op = "Remove" /\ Len(path) = 1 /\ Page.size # 1
  /\ Return(Done)
  /\ UNCHANGED <<heap, nextPid, root>>

\* Mutant: the new root is the page in the slot that was just dropped.
RootShrinksToDropped ==
  /\ pc = "up" /\ call.op = "Remove" /\ Len(path) = 1 /\ Page.size = 1
  /\ root' = Page.pids[1]
  /\ Return(Done)
  /\ UNCHANGED <<heap, nextPid>>

RootShrinks ==
  /\ pc = "up" /\ call.op = "Remove" /\ Len(path) = 1 /\ Page.size = 1
  /\ root' = child
  /\ Return(Done)
  /\ UNCHANGED <<heap, nextPid>>

-----------------------------------------------------------------------------
Step ==
  \/ GoDown \/ GetAtInner \/ GetAtLeaf \/ UpdateAtInner \/ UpdateAtLeaf
  \/ InsertDuplicate \/ LeafInsertFits \/ LeafInsertSplits
  \/ InnerInsertFits \/ InnerInsertSplits \/ GrowRoot
  \/ RemoveAtInner \/ RemoveMiss \/ RemoveMissBelowInner \/ RemoveFromLeaf
  \/ NoSibling
  \/ LeafBorrowRight \/ LeafBorrowLeft \/ LeafMergeRight \/ LeafMergeLeft
  \/ InnerSafe \/ InnerBorrowRight \/ InnerBorrowLeft \/ InnerMergeRight \/ InnerMergeLeft
  \/ RootKeeps \/ RootShrinks

Next == Step \/ \E c \in Calls : Invoke(c)

Spec == Init /\ [][Next]_vars

=============================================================================
