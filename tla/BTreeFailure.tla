----------------------------- MODULE BTreeFailure -----------------------------
(***************************************************************************)
(* BTreeIndex when memory can run out.  RawPageMgr::create and the           *)
(* make_shared calls of index.h throw std::bad_alloc, nothing catches it     *)
(* inside the index, and the frames of the call unwind: what they had        *)
(* written stays.  next_page_id has moved on before the page is allocated.   *)
(***************************************************************************)
EXTENDS BTreeMap

\* The exception leaves the call; no page and no root has changed in this step.
Unwind == Return(Failed) /\ UNCHANGED <<heap, root>>

\* The SplitInfo of the root frame and of a leaf's frame, before the leaf is
\* touched.
BeginFails ==
  /\ \/ AtLeaf("Insert") \/ AtLeaf("Update")
     \/ Len(path) = 1 /\ (AtInner("Insert") \/ AtInner("Update"))
  /\ Unwind /\ UNCHANGED nextPid

\* Mutant: the lower half is cut off before the new page is there.
LeafCutThenSplitFails ==
  /\ AtLeaf("Insert")
  /\ LET leaf == LeafPlace(Page, <<key, call.val>>)
     IN  /\ LeafFull(leaf)
         /\ heap' = [heap EXCEPT ![Cur] = LeafLower(leaf)]
  /\ nextPid' = nextPid + 1
  /\ Return(Failed) /\ UNCHANGED root

\* The entry is in its leaf, which stays at its maximum size.
LeafSplitFails ==
  /\ AtLeaf("Insert")
  /\ LET leaf == LeafPlace(Page, <<key, call.val>>)
     IN  /\ LeafFull(leaf)
         /\ heap' = [heap EXCEPT ![Cur] = leaf]
  /\ nextPid' = nextPid + 1
  /\ Return(Failed) /\ UNCHANGED root

\* The same in an internal page.
InnerSplitFails ==
  /\ pc = "up" /\ call.op = "Insert" /\ path # <<>>
  /\ LET inner == InnerPlace(Page, split.elem, split.pid)
     IN  /\ InnerFull(inner)
         /\ heap' = [heap EXCEPT ![Cur] = inner]
  /\ nextPid' = nextPid + 1
  /\ Return(Failed) /\ UNCHANGED root

\* The child has split, and its new page is not linked from anywhere.
LinkFails ==
  /\ pc = "up" /\ call.op = "Insert" /\ path # <<>>
  /\ Unwind /\ UNCHANGED nextPid

GrowRootFails ==
  /\ pc = "up" /\ call.op = "Insert" /\ path = <<>>
  /\ Unwind /\ nextPid' = nextPid + 1

Fails == BeginFails \/ LeafSplitFails \/ InnerSplitFails \/ LinkFails \/ GrowRootFails

\* A page left at its maximum size: the next entry put into it goes past the end
\* of its arrays.
FullPageInserts ==
  \/ AtLeaf("Insert") /\ LeafFull(Page)
  \/ pc = "up" /\ call.op = "Insert" /\ path # <<>> /\ InnerFull(Page)

=============================================================================
