------------------------------ MODULE BTreeMap -------------------------------
(***************************************************************************)
(* The map a tree of pages stands for, and BTreeIndex as an implementation  *)
(* of KVMap.                                                                *)
(***************************************************************************)
EXTENDS BTreeIndex

Live(page) ==
  IF page.kind = "leaf" THEN {page.slots[i] : i \in 0..(page.size - 1)}
                        ELSE {page.slots[i] : i \in 1..(page.size - 1)}

Children(pid) ==
  IF IsLeaf(pid) THEN {} ELSE {heap[pid].pids[i] : i \in 0..(heap[pid].size - 1)}

\* The pages below those in S, level by level, and all together.
Layers(S) ==
  LET Below[R \in SUBSET Pids] ==
        LET Under == UNION {Children(pid) : pid \in R}
        IN  IF R = {} THEN {} ELSE {R} \cup Below[Under]
  IN  Below[S]

Reachable(S) ==
  LET Reach[R \in SUBSET Pids] ==
        LET More == R \cup UNION {Children(pid) : pid \in R}
        IN  IF More = R THEN R ELSE Reach[More]
  IN  Reach[S]

\* A page a split has just created is not linked yet.
Roots == IF split = NoSplit THEN {root} ELSE {root, split.pid}
TreePages == Reachable(Roots)

Contents ==
  (UNION {Live(heap[pid]) : pid \in TreePages})
    \cup (IF split = NoSplit THEN {} ELSE {split.elem})

-----------------------------------------------------------------------------
\* Properties that hold whatever the callers do.

\* Between steps no page is full, which every insert, borrow and merge takes for
\* granted, and an internal page keeps a child: Insert splits a page that has
\* become full (leaf_page.h:114, inner_page.h:172) and a merge finds room for
\* both pages.  That no copy goes past the end of an array within a step is in
\* TypeOK: see CopyRange.
SlotsFit ==
  \A pid \in Pids :
    heap[pid].size \in IF IsLeaf(pid) THEN 0..(LeafMax - 1) ELSE 1..(InnerMax - 1)

\* Each page of the tree has one parent slot, and the tree is of the same height
\* everywhere: siblings are of one class, which LeafPage::Remove and
\* CheckOrBorrowOrMerge take for granted when they cast a sibling's memory
\* (leaf_page.h:252, inner_page.h:479).
ChildSlots(S) ==
  {s \in S \X InnerSlots : ~IsLeaf(s[1]) /\ s[2] < heap[s[1]].size}

Balanced ==
  /\ Cardinality(TreePages) = Cardinality(Roots) + Cardinality(ChildSlots(TreePages))
  /\ \A layer \in Layers({root}) : \A p1, p2 \in layer : IsLeaf(p1) = IsLeaf(p2)

\* Between calls, every page but the root is at least half full (GetMinSize):
\* no borrow or merge is forgotten on the way up.
HalfFull ==
  pc = "idle" => \A pid \in TreePages \ {root} :
    heap[pid].size >= MinSize(IF IsLeaf(pid) THEN LeafMax ELSE InnerMax)

-----------------------------------------------------------------------------
\* What goes wrong.  A state is Faulty when the next step is one of the steps
\* that break the index (README, "Findings").
LeafMergeMiscounts == LeafMerges /\ ~RightSibling
InnerMergeMiscounts == InnerMerges /\ ~RightSibling /\ Page.size > 1
ShrinksToDeadPage ==
  pc = "up" /\ call.op = "Remove" /\ Len(path) = 1 /\ Page.size = 1 /\ child # Page.pids[0]
SeparatorOverInner ==
  AtInner("Remove") /\ InnerHolds(Page, key) /\ ~IsLeaf(Page.pids[InnerSearch(Page, key)])
InsertsTwice == AtLeaf("Insert") /\ LeafHolds(Page, key)
MissBelowInner == AtLeaf("Remove") /\ ~LeafHolds(Page, key) /\ Len(path) > 2

Faulty ==
  \/ LeafMergeMiscounts \/ InnerMergeMiscounts \/ ShrinksToDeadPage
  \/ SeparatorOverInner \/ InsertsTwice \/ MissBelowInner

\* Any calls, as long as the root is not replaced by a page that was merged away,
\* and as long as no step is a faulty one.
TreeSpec == Init /\ [][Next /\ ~ShrinksToDeadPage]_vars
SoundCalls == Init /\ [][Next /\ ~Faulty]_vars

-----------------------------------------------------------------------------
\* Properties of the index as a search tree, lost at a faulty step.

\* The search Get makes, as a function of the tree.
Lookup(k) ==
  LET Find[pid \in Pids] ==
        IF IsLeaf(pid)
        THEN IF LeafHolds(heap[pid], k) THEN Found(LeafValue(heap[pid], k)) ELSE NotFound
        ELSE IF InnerHolds(heap[pid], k) THEN Found(InnerValue(heap[pid], k))
                                         ELSE Find[InnerChild(heap[pid], k)]
  IN  Find[root]

\* Between calls a search finds every entry of the tree: splits, borrows and
\* merges keep the separators between the keys they separate.
EveryEntryIsFound == pc = "idle" => \A e \in Contents : Lookup(e[1]) = Found(e[2])

\* No two live slots of the tree hold the same key between calls ("assert key
\* not exist", "assert not duplicate", inner_page.h:288-290).
LiveSlots ==
  {s \in TreePages \X (LeafSlots \cup InnerSlots) :
     s[2] < heap[s[1]].size /\ (IsLeaf(s[1]) \/ s[2] > 0)}

OneEntryPerKey ==
  pc = "idle" => \A s, t \in LiveSlots :
    heap[s[1]].slots[s[2]][1] = heap[t[1]].slots[t[2]][1] => s = t

\* The program never reaches one of its exit(-1), fails an assert, or reads a
\* child slot or a page that is not there ("should not reach here!",
\* index.h:554).
NeverStops == pc \notin {"aborted", "undefined"}

\* A page that left the tree, merged into its sibling or replaced as the root,
\* is never part of it again.
DroppedStaysDropped == [][\A pid \in Pids \ TreePages : pid \notin TreePages']_vars

\* A merge that takes a page out of the tree keeps the entries it had left
\* ("copy mergee to merger", leaf_page.h:287).
MergeKeepsEntries ==
  [][\A pid \in TreePages \ TreePages' :
       \A e \in Live(heap[pid]) : e[1] # key => e \in Contents']_vars

\* Once a Remove has returned, its key is gone (unittest.cpp:53-63).
RemovedIsGone ==
  [][call.op = "Remove" /\ pc' = "idle" => \A e \in Contents' : e[1] # call.key]_vars

-----------------------------------------------------------------------------
\* BTreeIndex implements KVMap.

\* The call in progress has taken effect: an Insert once its leaf is written,
\* a Remove once the entry is gone from its leaf or overwritten in the internal
\* page that held it.
TookEffect ==
  /\ pc # "idle"
  /\ \/ pc = "up"
     \/ call.op = "Remove" /\ key # call.key

\* Every call does to Contents, and answers, what one operation of a map does,
\* at one step between its invocation and its return.
Map == INSTANCE KVMap WITH
  Clients <- {1},
  store <- Contents,
  call <- [c \in {1} |-> IF pc = "idle" THEN NoCall ELSE call],
  took <- [c \in {1} |-> TookEffect],
  resp <- [c \in {1} |-> result]

\* The index is a map: what each call of index.h does and answers is what one
\* operation of KVMap does and answers.  When memory runs out a call may also
\* leave its entry behind, or lose the entries of an interval, but never does
\* anything else to the map (leaf_page.h:120, inner_page.h:176, index.h:194).
MapSpec == Map!SpecOrFail

=============================================================================
