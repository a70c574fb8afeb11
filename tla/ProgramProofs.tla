---------------------------- MODULE ProgramProofs -----------------------------
(***************************************************************************)
(* The programs of Programs make calls in the order of a queue: they insert *)
(* keys that are not there and remove the least one there is.  Such calls   *)
(* meet no faulty step: the path of a Remove is the leftmost one, so its    *)
(* key is in a leaf and every merge is to the right.  What the programs     *)
(* find in the index then follows from the map it implements.               *)
(***************************************************************************)
EXTENDS Programs, MapProofs

-----------------------------------------------------------------------------
\* Calls in the order of a queue.

\* What the client has seen to holds until the call takes effect.
Ready ==
  pc = "down" =>
    /\ call.op = "Insert" => \A e \in Contents : e[1] # call.key
    /\ call.op = "Remove" => /\ key = call.key
                             /\ \E e \in Contents : e[1] = key
                             /\ \A e \in Contents : key <= e[1]

\* A Remove goes to the first child of each page, also when it comes back from it.
Leftmost ==
  pc \in {"down", "up"} /\ call.op = "Remove" =>
    /\ \A j \in 1..(Len(path) - 1) : path[j + 1] = heap[path[j]].pids[0]
    /\ pc = "up" => child = Page.pids[0]

QueueInv == IndInv /\ TreeInv /\ OrderInv /\ NeverStops /\ Ready /\ Leftmost

\* On the way down the tree is at rest, and the key belongs below the page.
LEMMA OnTheWay ==
  ASSUME QueueInv, pc = "down"
  PROVE  \E lev, span :
           /\ TreeShape(TreePages, lev) /\ Rest(lev, span)
           /\ path # <<>> /\ Cur \in TreePages /\ call \in Calls /\ key = call.key
           /\ key \in span[Cur] /\ key \in Int /\ InOrder(Page, span[Cur], span) /\ Page = heap[Cur]
<1>1. IndInv /\ TreeInv /\ OrderInv /\ Rooted
  BY TreeIsRooted DEF QueueInv
<1>2. PICK span : OrderShape(TreePages, span)
  BY <1>1 DEF OrderInv
<1>3. PICK lev : TreeShape(TreePages, lev)
  BY <1>1, TreePagesAreATree DEF TreeInv
<1>4. call \in Calls /\ path # <<>>
  BY <1>1, HeapTypes
<1>5. Cur \in TreePages
  BY <1>1, <1>3, <1>4, PathFacts
<1>6. ~Moved /\ key = call.key /\ key \in span[Cur]
  BY <1>1, <1>2, DownOrder DEF Moved, QueueInv, Ready
<1>7. Rest(lev, span)
  BY <1>1, <1>2, <1>3, <1>6, SoundIsRest
<1>8. InOrder(heap[Cur], span[Cur], span)
  BY <1>1, <1>5, <1>7, TreePage
<1>9. key \in Int
  BY <1>6, <1>8 DEF InOrder, AllInts
<1> QED
  BY <1>3, <1>4, <1>5, <1>6, <1>7, <1>8, <1>9 DEF Page

\* Every page below the root has an entry.
LEMMA HasAnEntry ==
  ASSUME QueueInv, LeafMax >= 3, InnerMax >= 5, pc = "down", NEW lev, NEW span,
         TreeShape(TreePages, lev), Rest(lev, span), NEW c \in TreePages, c # root
  PROVE  \E e \in Contents : e[1] \in span[c]
<1>1. IndInv /\ heap[c].size >= HalfOf(heap[c])
  BY DownShape DEF QueueInv
<1>2. /\ InOrder(heap[c], span[c], span) /\ heap[c].size \in Nat
      /\ heap[c].kind # "leaf" => heap[c].kind = "inner"
  BY <1>1, TreePage
<1>3. /\ MinSize(LeafMax) \in Nat /\ MinSize(LeafMax) >= 1
      /\ MinSize(InnerMax) \in Nat /\ MinSize(InnerMax) >= 2
  BY ParameterAssumption DEF MinSize
<1>4. PICK j : j = First(heap[c])
  OBVIOUS
<1>5. j \in Places(heap[c])
  <2>1. CASE heap[c].kind = "leaf"
    BY <1>1, <1>2, <1>3, <1>4, <2>1 DEF HalfOf, First, Places
  <2>2. CASE heap[c].kind # "leaf"
    BY <1>1, <1>2, <1>3, <1>4, <2>2 DEF HalfOf, First, Places
  <2> QED BY <2>1, <2>2
<1>6. PICK e : e = heap[c].slots[j]
  OBVIOUS
<1>7. e \in Contents
  BY <1>1, <1>5, <1>6, EntryOfSlot
<1>8. e[1] \in span[c]
  BY <1>2, <1>5, <1>6 DEF InOrder, Sorted
<1> QED
  BY <1>7, <1>8

\* The least key is in the leaf on the left.
LEMMA LeastIsLeft ==
  ASSUME QueueInv, LeafMax >= 3, InnerMax >= 5, AtInner("Remove")
  PROVE  ~InnerHolds(Page, key) /\ InnerChild(Page, key) = Page.pids[0]
<1>1. pc = "down" /\ call.op = "Remove" /\ ~IsLeaf(Cur) /\ \A e \in Contents : key <= e[1]
  BY DEF AtInner, QueueInv, Ready
<1>2. PICK lev, span :
           /\ TreeShape(TreePages, lev) /\ Rest(lev, span)
           /\ path # <<>> /\ Cur \in TreePages
           /\ key \in span[Cur] /\ key \in Int /\ InOrder(Page, span[Cur], span) /\ Page = heap[Cur]
  BY <1>1, OnTheWay
<1>3. IndInv /\ Page \in InnerOver(Pids) /\ Page.size >= 1 /\ Page.kind = "inner" /\ Page.size \in Nat
  BY <1>1, <1>2, TreePage DEF IsLeaf, QueueInv
<1>4. AllInts(span[Cur]) /\ Sorted(Page, span[Cur]) /\ Parted(Page, span[Cur], span)
  BY <1>2 DEF InOrder
<1>a. PICK m : m = InnerSearch(Page, key)
  OBVIOUS
<1>5. /\ m \in 1..Page.size
      /\ \A j \in 1..(m - 1) : Page.slots[j][1] < key
      /\ InnerHolds(Page, key) => m < Page.size /\ Page.slots[m][1] = key
  <2>1. Page \in InnerOver(Pids) /\ Page.size >= 1 /\ AllInts(span[Cur]) /\ Sorted(Page, span[Cur]) /\ key \in Int
    BY <1>2, <1>3, <1>4
  <2> QED BY <1>a, <2>1, InnerSearchPlace
<1>6. m = 1
  <2> SUFFICES ASSUME m # 1 PROVE FALSE
    OBVIOUS
  <2>1. 1 \in 1..(m - 1) /\ 1 \in Places(Page)
    BY <1>3, <1>5 DEF Places, First
  <2>2. Page.slots[1][1] < key /\ Page.slots[1][1] \in Int
    BY <1>4, <1>5, <2>1 DEF Sorted, AllInts
  <2>3. PICK e : e = heap[Cur].slots[1]
    OBVIOUS
  <2>4. e \in Contents
    BY <1>2, <1>3, <2>1, <2>3, EntryOfSlot
  <2> QED BY <1>1, <1>2, <2>2, <2>3, <2>4
<1>7. ~InnerHolds(Page, key)
  <2> SUFFICES ASSUME InnerHolds(Page, key) PROVE FALSE
    OBVIOUS
  <2> DEFINE c == Page.pids[0]
  <2>1. 1 < Page.size /\ Page.slots[1][1] = key
    BY <1>5, <1>6
  <2>2. c \in Kids(Page)
    BY <1>3 DEF Kids
  <2>3. c \in TreePages /\ c # root
    BY <1>2, <2>2 DEF Rest, Forest
  <2>4. PICK e \in Contents : e[1] \in span[c]
    BY <1>1, <1>2, <2>3, HasAnEntry
  <2>5. e[1] \in span[Cur] /\ e[1] < key
    BY <1>3, <1>4, <2>1, <2>4 DEF Parted, Between
  <2>6. e[1] \in Int
    BY <1>4, <2>5 DEF AllInts
  <2> QED BY <1>1, <1>2, <2>4, <2>5, <2>6
<1> QED
  BY <1>6, <1>7, <1>a DEF InnerChild

\* The sibling of a page on the left is the one on its right.
LEMMA TurnsRight ==
  ASSUME QueueInv, LeafUnderflow \/ InnerUnderflow, HasSibling
  PROVE  RightSibling
<1>1. pc \in {"down", "up"} /\ call.op = "Remove" /\ Len(path) > 1 /\ IndInv
  BY DEF LeafUnderflow, InnerUnderflow, AtLeaf, QueueInv
<1>2. path \in Seq(Pids) /\ path # <<>> /\ Len(path) \in Nat
  BY <1>1 DEF IndInv, TypeOK
<1>3. Cur = path[Len(path)] /\ path[Len(path) - 1] = Parent
  BY <1>2 DEF Cur, Parent, Last
<1>4. Cur = heap[Parent].pids[0]
  <2>1. Len(path) - 1 \in 1..(Len(path) - 1) /\ (Len(path) - 1) + 1 = Len(path)
    BY <1>1, <1>2
  <2> QED BY <1>1, <1>3, <2>1 DEF QueueInv, Leftmost
<1> DEFINE n == heap[Parent].size
<1>5. n \in Int /\ n >= 1 /\ SibIdx \in 0..(n - 1)
  <2>1. n \in Nat
    BY <1>1, ParentPage, HeapTypes
  <2> QED BY <2>1 DEF HasSibling, SiblingListed
<1>6. IdxByPid(heap[Parent], Cur) = 0
  <2>1. 0 \in 0..(n - 1) /\ heap[Parent].pids[0] = Cur /\ \A j \in 0..(0 - 1) : heap[Parent].pids[j] # Cur
    BY <1>4, <1>5
  <2>2. \A x \in 0..(n - 1) :
          heap[Parent].pids[x] = Cur /\ (\A j \in 0..(x - 1) : heap[Parent].pids[j] # Cur) => x = 0
    BY <1>4, <1>5
  <2> QED BY <2>1, <2>2 DEF IdxByPid
<1> QED
  BY <1>5, <1>6 DEF SibIdx, SiblingIdx, MyIdx, RightSibling

\* So no step of such calls is a faulty one.
LEMMA QueueNotFaulty ==
  ASSUME QueueInv, LeafMax >= 3, InnerMax >= 5
  PROVE  ~Faulty
<1>1. ~LeafMergeMiscounts
  BY TurnsRight DEF LeafMergeMiscounts, LeafMerges
<1>2. ~InnerMergeMiscounts
  BY TurnsRight DEF InnerMergeMiscounts, InnerMerges
<1>3. ~ShrinksToDeadPage
  BY DEF ShrinksToDeadPage, QueueInv, Leftmost
<1>4. ~SeparatorOverInner
  BY LeastIsLeft DEF SeparatorOverInner
<1>5. ~InsertsTwice /\ ~MissBelowInner
  <2> SUFFICES ASSUME InsertsTwice \/ MissBelowInner PROVE FALSE
    OBVIOUS
  <2>1. pc = "down" /\ IsLeaf(Cur) /\ IndInv
    BY DEF InsertsTwice, MissBelowInner, AtLeaf, QueueInv
  <2>2. PICK lev, span :
             /\ Rest(lev, span) /\ Cur \in TreePages /\ key = call.key /\ key \in span[Cur] /\ Page = heap[Cur]
    BY <2>1, OnTheWay
  <2>3. /\ LeafHolds(Page, key) => \E e \in Contents : e[1] = key
        /\ ~LeafHolds(Page, key) => \A e \in Contents : e[1] # key
    BY <2>1, <2>2, PageTells
  <2> QED BY <2>1, <2>2, <2>3 DEF InsertsTwice, MissBelowInner, AtLeaf, QueueInv, Ready
<1> QED
  BY <1>1, <1>2, <1>3, <1>4, <1>5 DEF Faulty

\* Where a Remove is after a merge to the right.
LEMMA MergeStaysLeft ==
  ASSUME QueueInv, LeafUnderflow \/ InnerUnderflow, HasSibling, ReturnTo(Cur, NoSplit),
         heap'[Parent] = InnerDrop(heap[Parent], SepIdx),
         \A p \in Pids \ {Cur, Sib, Parent} : heap'[p] = heap[p]
  PROVE  Leftmost'
<1>1. pc \in {"down", "up"} /\ call.op = "Remove" /\ Len(path) > 1 /\ IndInv /\ TreeInv
  BY DEF LeafUnderflow, InnerUnderflow, AtLeaf, QueueInv
<1>2. PICK live, lev : TreeShape(live, lev)
  BY <1>1 DEF TreeInv
<1>3. /\ Parent \in live /\ Cur \in live /\ Sib \in live
      /\ lev[Sib] = lev[Cur] /\ lev[Parent] = lev[Cur] + 1 /\ lev[Cur] \in Nat
      /\ SepIdx \in 1..(heap[Parent].size - 1)
  BY <1>1, <1>2, SiblingShape
<1>4. /\ path' \in Seq(Pids) /\ Len(path') = Len(path) - 1 /\ Len(path) \in Nat
      /\ \A j \in 1..Len(path') : path'[j] = path[j]
      /\ path' # <<>> /\ Last(path') = Parent
  BY <1>1, FrontParent DEF ReturnTo, IndInv, TypeOK
<1>5. /\ \A j \in 1..Len(path) : path[j] \in live /\ lev[path[j]] + j = lev[root] + 1
      /\ live \subseteq Pids /\ lev[root] \in Nat /\ lev[Cur] + Len(path) = lev[root] + 1
  BY <1>1, <1>2, PathFacts DEF TreeShape, PathDown
<1>6. \A j \in 1..(Len(path) - 1) : path[j + 1] = heap[path[j]].pids[0]
  BY <1>1 DEF QueueInv, Leftmost
<1>7. heap'[Parent].pids[0] = heap[Parent].pids[0]
  <2>1. heap[Parent] \in InnerOver(Pids) /\ heap[Parent].size \in Int
    BY <1>1, ParentPage
  <2>2. heap'[Parent].pids = CloseGap(heap[Parent].pids, SepIdx, heap[Parent].size)
    BY <2>1 DEF InnerDrop, InnerOver
  <2>3. 0 \in DOMAIN heap[Parent].pids /\ 0 \notin SepIdx..(heap[Parent].size - 2)
    BY <1>3, <2>1, ParameterAssumption DEF InnerOver, InnerSlots
  <2> QED BY <2>2, <2>3 DEF CloseGap
<1>8. ASSUME NEW j \in 1..(Len(path') - 1) PROVE path'[j + 1] = heap'[path'[j]].pids[0]
  <2>1. j \in 1..Len(path) /\ j \in 1..Len(path') /\ j + 1 \in 1..Len(path') /\ j < Len(path) - 1
        /\ j \in 1..(Len(path) - 1)
    BY <1>4
  <2>2. path[j] \in live /\ lev[path[j]] + j = lev[root] + 1
    BY <1>5, <2>1
  <2>3. path[j] # Cur /\ path[j] # Sib /\ path[j] # Parent
    <3>1. j \in Int /\ Len(path) \in Int /\ lev[Cur] \in Int /\ j < Len(path) - 1
      BY <1>3, <1>4, <2>1
    <3>2. lev[Cur] + j # lev[Cur] + Len(path) /\ (lev[Cur] + 1) + j # lev[Cur] + Len(path)
      BY <3>1
    <3> QED BY <1>3, <1>5, <2>2, <3>2
  <2>4. heap'[path[j]] = heap[path[j]]
    BY <1>5, <2>2, <2>3
  <2> QED BY <1>4, <1>6, <2>1, <2>4
<1>9. child' = heap'[Last(path')].pids[0]
  <2>1. Len(path) - 1 \in 1..(Len(path) - 1) /\ (Len(path) - 1) + 1 = Len(path)
    BY <1>1, <1>4
  <2>2. path[Len(path) - 1] = Parent /\ path[Len(path)] = Cur
    BY <1>1 DEF Parent, Cur, Last
  <2> QED BY <1>4, <1>6, <1>7, <2>1, <2>2 DEF ReturnTo
<1> QED
  BY <1>8, <1>9 DEF Leftmost, Page, Cur

\* A step of the index that does not end the call.
LEMMA StepsOn ==
  ASSUME Step, pc' \in {"down", "up"}, QueueInv, LeafMax >= 3, InnerMax >= 5
  PROVE  \/ GoDown
         \/ LeafMergeRight \/ InnerMergeRight
         \/ call'.op = "Insert" /\ pc' = "up"
<1>1. ~RemoveAtInner
  BY LeastIsLeft DEF RemoveAtInner
<1>2. ~LeafMergeLeft /\ ~InnerMergeLeft
  BY TurnsRight DEF LeafMergeLeft, InnerMergeLeft, LeafMerges, InnerMerges
<1> QED
  BY <1>1, <1>2
     DEF Step, GetAtInner, GetAtLeaf, UpdateAtInner, UpdateAtLeaf, InsertDuplicate,
         LeafInsertFits, LeafInsertSplits, InnerInsertFits, InnerInsertSplits, GrowRoot,
         RemoveMiss, RemoveMissBelowInner, RemoveFromLeaf, NoSibling, Stop,
         LeafBorrowRight, LeafBorrowLeft, InnerSafe, InnerBorrowRight, InnerBorrowLeft,
         RootKeeps, RootShrinks, Return, ReturnTo, AtLeaf

\* The two facts about the client's calls stay true.
LEMMA QueueStep ==
  ASSUME QueueInv, LeafMax >= 3, InnerMax >= 5, Step, MapStep
  PROVE  Ready' /\ Leftmost'
<1>1. CASE pc' \notin {"down", "up"}
  BY <1>1 DEF Ready, Leftmost
<1>2. CASE call'.op = "Insert" /\ pc' = "up"
  BY <1>2 DEF Ready, Leftmost
<1>3. CASE GoDown
  <2>1. pc = "down" /\ pc' = "down" /\ heap' = heap /\ call' = call /\ key' = key
        /\ path' = Append(path, InnerChild(Page, key)) /\ ~IsLeaf(Cur)
    BY <1>3 DEF GoDown
  <2>2. Contents' = Contents
    <3>1. ~TookEffect' /\ pc' # "idle"
      BY <2>1 DEF TookEffect, QueueInv, Ready
    <3> QED BY <2>1, <3>1 DEF MapStep, Starts, Answers, TakesEffect, Ends, Within, Invoke, Return
  <2>3. Ready'
    BY <2>1, <2>2 DEF Ready, QueueInv
  <2>4. Leftmost'
    <3> SUFFICES ASSUME call.op = "Remove", NEW j \in 1..(Len(path') - 1)
                 PROVE  path'[j + 1] = heap[path'[j]].pids[0]
      BY <2>1 DEF Leftmost
    <3>1. InnerChild(Page, key) = Page.pids[0]
      BY <2>1, LeastIsLeft DEF AtInner
    <3>2. path \in Seq(Pids) /\ path # <<>>
      BY <2>1, HeapTypes DEF QueueInv
    <3>3. Len(path') = Len(path) + 1 /\ Len(path) \in Nat /\ path'[Len(path) + 1] = Page.pids[0]
          /\ \A n \in 1..Len(path) : path'[n] = path[n]
      BY <2>1, <3>1, <3>2
    <3>4. CASE j = Len(path)
      BY <3>2, <3>3, <3>4 DEF Page, Cur, Last
    <3>5. CASE j # Len(path)
      <4>1. j \in 1..(Len(path) - 1) /\ j \in 1..Len(path) /\ j + 1 \in 1..Len(path)
        BY <3>3, <3>5
      <4> QED BY <2>1, <3>3, <4>1 DEF QueueInv, Leftmost
    <3> QED BY <3>4, <3>5
  <2> QED BY <2>3, <2>4
<1>4. CASE LeafMergeRight \/ InnerMergeRight
  <2>1. /\ LeafUnderflow \/ InnerUnderflow
        /\ HasSibling /\ ReturnTo(Cur, NoSplit) /\ IndInv /\ TreeInv
    BY <1>4 DEF LeafMergeRight, InnerMergeRight, LeafMerges, InnerMerges, QueueInv
  <2>2. PICK live, lev : TreeShape(live, lev)
    BY <2>1 DEF TreeInv
  <2>3. Parent \in Pids /\ Cur \in Pids /\ Parent # Cur
    BY <2>1, <2>2, SiblingShape DEF TreeShape
  <2>4. heap'[Parent] = InnerDrop(heap[Parent], SepIdx) /\ \A p \in Pids \ {Cur, Sib, Parent} : heap'[p] = heap[p]
    <3>1. CASE LeafMergeRight
      BY <2>3, <3>1 DEF LeafMergeRight, Pids
    <3>2. CASE InnerMergeRight
      BY <2>3, <3>2 DEF InnerMergeRight, Pids
    <3> QED BY <1>4, <3>1, <3>2
  <2>5. pc' = "up"
    BY <2>1 DEF ReturnTo
  <2> QED BY <2>1, <2>4, <2>5, MergeStaysLeft DEF Ready
<1> QED
  BY <1>1, <1>2, <1>3, <1>4, StepsOn

\* A call of such a client.
LEMMA QueueInvoke ==
  ASSUME QueueInv, NEW c \in Calls, InQueueOrder(c), Invoke(c), Contents' = Contents
  PROVE  Ready' /\ Leftmost'
<1>1. call' = c /\ key' = c.key /\ path' = <<root>> /\ pc' = "down"
  BY DEF Invoke
<1>2. Ready'
  BY <1>1 DEF Ready, InQueueOrder
<1>3. Leftmost'
  BY <1>1 DEF Leftmost
<1> QED
  BY <1>2, <1>3

\* The steps of an index with such a client, one operation of a map each.
QueueNext == Step \/ \E c \in Calls : InQueueOrder(c) /\ Invoke(c)

LEMMA QueueKeeps ==
  LeafMax >= 3 /\ InnerMax >= 5 =>
    (QueueInv /\ [QueueNext]_vars => QueueInv' /\ ~Faulty /\ [MapStep]_vars)
<1> SUFFICES ASSUME LeafMax >= 3, InnerMax >= 5
             PROVE  QueueInv /\ [QueueNext]_vars => QueueInv' /\ ~Faulty /\ [MapStep]_vars
  OBVIOUS
<1>1. QueueInv => ~Faulty
  BY QueueNotFaulty
<1>2. QueueInv /\ [QueueNext]_vars => IndInv' /\ TreeInv' /\ [Next /\ ~Faulty]_vars
  <2>1. ~Faulty => ~ShrinksToDeadPage
    BY DEF Faulty
  <2>2. [QueueNext]_vars => [Next]_vars
    BY DEF QueueNext, Next
  <2> QED BY <1>1, <2>1, <2>2, NextKeeps, TreeKeeps DEF QueueInv
<1>3. QueueInv /\ [QueueNext]_vars => OrderInv'
  BY <1>2, OrderKeeps DEF QueueInv
<1> SUFFICES ASSUME QueueInv, [QueueNext]_vars PROVE NeverStops' /\ Ready' /\ Leftmost' /\ [MapStep]_vars
  BY <1>1, <1>2, <1>3 DEF QueueInv
<1>4. CASE QueueNext
  <2>1. Next /\ ~Faulty /\ IndInv /\ TreeInv /\ OrderInv /\ IndInv' /\ TreeInv' /\ NeverStops
    BY <1>1, <1>2, <1>4 DEF QueueInv, QueueNext, Next
  <2>2. PICK lev, span : Sound(lev, span)
    BY <2>1, SoundThere DEF NeverStops
  <2>3. ~NoSibling
    BY <2>1, <2>2, SiblingThere DEF NoSibling, Sound
  <2>4. MapStep
    BY <2>1, <2>2, <2>3, StepMaps
  <2>5. CASE Step
    <3>1. pc' \notin {"aborted", "undefined"}
      BY <2>1, <2>3, <2>5
         DEF Step, GoDown, GetAtInner, GetAtLeaf, UpdateAtInner, UpdateAtLeaf, InsertDuplicate,
             LeafInsertFits, LeafInsertSplits, InnerInsertFits, InnerInsertSplits, GrowRoot,
             RemoveAtInner, RemoveMiss, RemoveMissBelowInner, RemoveFromLeaf,
             LeafBorrowRight, LeafBorrowLeft, LeafMergeRight, LeafMergeLeft,
             InnerSafe, InnerBorrowRight, InnerBorrowLeft, InnerMergeRight, InnerMergeLeft,
             RootKeeps, RootShrinks, Return, ReturnTo, NeverStops, Faulty, MissBelowInner
    <3> QED BY <2>4, <2>5, <3>1, QueueStep DEF NeverStops
  <2>6. CASE \E c \in Calls : InQueueOrder(c) /\ Invoke(c)
    <3>1. PICK c \in Calls : InQueueOrder(c) /\ Invoke(c)
      BY <2>6
    <3>2. Contents' = Contents
      BY <2>2, <3>1, NothingWritten DEF Invoke
    <3> QED BY <2>4, <3>1, <3>2, QueueInvoke DEF Invoke, NeverStops
  <2> QED BY <1>4, <2>5, <2>6 DEF QueueNext
<1>5. CASE UNCHANGED vars
  <2>1. Contents' = Contents
    BY <1>5 DEF vars, Contents, TreePages, Roots, Reachable, Children, IsLeaf, Pids, Live
  <2>2. UNCHANGED <<heap, nextPid, root, pc, call, key, path, child, split, result>>
    BY <1>5 DEF vars
  <2> QED BY <1>5, <2>1, <2>2 DEF QueueInv, NeverStops, Ready, Leftmost, Page, Cur
<1> QED
  BY <1>4, <1>5

-----------------------------------------------------------------------------
\* Where the programs are.

\* The key of round n: RoundKey is KeyAt(i).
KeyAt(n) ==
  LET m == IF program.order = "up" THEN n ELSE program.size - 1 - n
  IN  IF program.name = "queue" THEN 2 * m + 1 ELSE m

\* Of which operation the calls of a loop are.
OpOf(s) ==
  CASE s = "insert" -> "Insert" [] s = "update" -> "Update" [] s = "remove" -> "Remove" [] OTHER -> "Get"

\* The call of this round has been made.
Running == IF program.name = "engine" THEN op.ran ELSE busy

\* The loops, their variable, and the operation engine.cpp holds.
ControlOK ==
  /\ program \in [name : Names \ {"queue"}, size : {TestNum}, order : {"up"}]
                   \cup [name : Names \cap {"queue"}, size : Preloads, order : Orders]
  /\ \/ stage \in {"insert", "end"}
     \/ stage \in {"update", "get", "dump", "remove"} /\ program.name # "queue"
     \/ stage = "absent" /\ program.name = "unittest"
     \/ stage = "calls" /\ program.name = "queue"
  /\ i \in Nat /\ (stage \notin {"calls", "end"} => i < Rounds)
  /\ busy \in BOOLEAN /\ (program.name = "engine" => ~busy)
  /\ \/ op = NoOp
     \/ /\ program.name = "engine" /\ stage \in {"insert", "update", "get", "remove"}
        /\ op.op = OpOf(stage) /\ op.key = KeyAt(i) /\ op.cell \in Cells /\ op.ran \in BOOLEAN
  /\ cells \in [Cells -> Vals \cup {Dead}]
  /\ pc # "idle" => Running
  /\ stage \in {"dump", "end"} => ~Running

\* How many rounds of the loop have done to the index what they do.
Past == IF Running /\ (pc = "idle" \/ TookEffect) THEN i + 1 ELSE i

\* The rounds whose keys are in the index when m of the loop's are past.
RowsAt(m) ==
  CASE stage = "insert" -> 0..(m - 1)
    [] stage = "remove" -> m..(program.size - 1)
    [] stage = "absent" -> {}
    [] OTHER -> 0..(program.size - 1)

\* The entries C have just those keys then, and in unittest.cpp the values written.
Holding(C, m) ==
  /\ stage \notin {"calls", "end"} => {e[1] : e \in C} = {KeyAt(n) : n \in RowsAt(m)}
  /\ program.name = "unittest" =>
       /\ stage = "update" => \A e \in C : e[1] < m => e[2] = NewVal
       /\ stage \in {"get", "dump"} => \A e \in C : e[2] = NewVal

Stocked == Holding(Contents, Past)

\* The call in progress is the one of the round.
Called ==
  pc # "idle" /\ stage # "calls" =>
    /\ call.op = OpOf(stage) /\ call.key = KeyAt(i)
    /\ program.name = "unittest" /\ stage = "update" => call.val = NewVal

\* What it may be answered.
Good(a) ==
  CASE stage = "get" -> IF program.name = "unittest" THEN a = Found(NewVal) ELSE a \notin {Throw, NotFound}
    [] stage = "absent" -> a = NotFound
    [] OTHER -> a = Done

Told == pc = "idle" /\ Running /\ stage # "calls" => Good(result)

StageInv == ControlOK /\ Stocked /\ Called /\ Told

ProgramInv == QueueInv /\ StageInv

\* What the parameters say of a program's keys.
LEMMA RoundKeys ==
  ASSUME ControlOK
  PROVE  /\ program.name \in {"engine", "unittest", "queue"} /\ program.size \in Nat /\ program.size >= 1
         /\ \A n \in 0..(program.size - 1) : KeyAt(n) \in Keys /\ KeyAt(n) \in Int
         /\ \A n, m \in 0..(program.size - 1) : KeyAt(n) = KeyAt(m) => n = m
         /\ program.name # "queue" => \A n : KeyAt(n) = n
         /\ RoundKey = KeyAt(i) /\ NewVal \in Vals /\ ZeroVal \in Vals
<1>1. NewVal \in Vals /\ ZeroVal \in Vals /\ Keys \subseteq Int
  BY ProgramAssumption, ParameterAssumption DEF NewVal
<1>2. RoundKey = KeyAt(i)
  BY DEF RoundKey, KeyAt
<1>3. CASE program \in [name : Names \ {"queue"}, size : {TestNum}, order : {"up"}]
  <2>a. program.name \in Names \ {"queue"} /\ program.size = TestNum /\ program.order = "up"
    BY <1>3
  <2>b. /\ Names \subseteq {"engine", "unittest", "queue"}
        /\ TestNum \in Nat \ {0} /\ 0..(TestNum - 1) \subseteq Keys
    BY ProgramAssumption
  <2>1. /\ program.name \in {"engine", "unittest"} /\ program.size \in Nat /\ program.size >= 1
        /\ 0..(program.size - 1) \subseteq Keys /\ program.order = "up"
    <3>1. TestNum \in Nat /\ TestNum >= 1
      BY <2>b
    <3>2. program.name \in {"engine", "unittest"}
      BY <2>a, <2>b
    <3> QED BY <2>a, <2>b, <3>1, <3>2
  <2>2. \A n : KeyAt(n) = n
    BY <2>1 DEF KeyAt
  <2> QED BY <1>1, <1>2, <2>1, <2>2
<1>4. CASE program \in [name : Names \cap {"queue"}, size : Preloads, order : Orders]
  <2>a. program.name = "queue" /\ program.size \in Preloads
    BY <1>4
  <2>b. Preloads \subseteq Nat \ {0} /\ \A size \in Preloads : \A n \in 0..(size - 1) : 2 * n + 1 \in Keys
    BY ProgramAssumption
  <2>1. /\ program.name = "queue" /\ program.size \in Nat /\ program.size >= 1
        /\ \A n \in 0..(program.size - 1) : 2 * n + 1 \in Keys
    <3>1. PICK z \in Preloads : program.size = z
      BY <2>a
    <3>2. z \in Nat /\ z >= 1
      BY <2>b
    <3>3. \A n \in 0..(z - 1) : 2 * n + 1 \in Keys
      BY <2>b
    <3> QED BY <2>a, <3>1, <3>2, <3>3
  <2>2. ASSUME NEW n \in 0..(program.size - 1)
        PROVE  \E m \in 0..(program.size - 1) :
                 KeyAt(n) = 2 * m + 1 /\ m = (IF program.order = "up" THEN n ELSE program.size - 1 - n)
    BY <2>1 DEF KeyAt
  <2>3. \A n \in 0..(program.size - 1) : KeyAt(n) \in Keys /\ KeyAt(n) \in Int
    BY <1>1, <2>1, <2>2
  <2>4. ASSUME NEW n \in 0..(program.size - 1), NEW m \in 0..(program.size - 1), KeyAt(n) = KeyAt(m)
        PROVE  n = m
    <3>1. PICK x \in 0..(program.size - 1) :
            KeyAt(n) = 2 * x + 1 /\ x = (IF program.order = "up" THEN n ELSE program.size - 1 - n)
      BY <2>2
    <3>2. PICK y \in 0..(program.size - 1) :
            KeyAt(m) = 2 * y + 1 /\ y = (IF program.order = "up" THEN m ELSE program.size - 1 - m)
      BY <2>2
    <3>3. x = y
      <4>1. x \in Int /\ y \in Int
        BY <2>1
      <4>2. 2 * x + 1 = 2 * y + 1
        BY <2>4, <3>1, <3>2
      <4> QED BY <4>1, <4>2
    <3> QED BY <2>1, <3>1, <3>2, <3>3
  <2> QED BY <1>1, <1>2, <2>1, <2>3, <2>4
<1> QED
  BY <1>3, <1>4 DEF ControlOK

\* What a call does to the map and is answered, when an Insert is of a new key.
LEMMA OutcomeIs ==
  ASSUME NEW r \in Calls, NEW C, NEW a, <<C, a>> \in Map!Outcomes(r),
         r.op = "Insert" => \A e \in Contents : e[1] # r.key
  PROVE  /\ r.op = "Insert" => a = Done /\ C = Contents \cup {<<r.key, r.val>>}
         /\ r.op = "Remove" => a = Done /\ C = {e \in Contents : e[1] # r.key}
         /\ r.op = "Update" =>
              /\ a = Done
              /\ C = IF \E e \in Contents : e[1] = r.key
                     THEN {e \in Contents : e[1] # r.key} \cup {<<r.key, r.val>>} ELSE Contents
         /\ r.op = "Get" =>
              /\ C = Contents
              /\ \/ \E e \in Contents : e[1] = r.key /\ a = Found(e[2])
                 \/ (\A e \in Contents : e[1] # r.key) /\ a = NotFound
<1>1. r.op \in {"Insert", "Update", "Get", "Remove"}
  BY DEF Calls
<1>2. CASE r.op = "Insert"
  <2>1. ~Map!Has(r.key)
    BY <1>2 DEF Map!Has
  <2>2. <<C, a>> \in {<<Contents \cup {<<r.key, r.val>>}, <<"ok">>>>}
    BY <1>2, <2>1 DEF Map!Outcomes
  <2> QED BY <1>2, <2>2 DEF Done
<1>3. CASE r.op = "Remove"
  <2>1. <<C, a>> \in {<<Map!Without(r.key), <<"ok">>>>}
    BY <1>3 DEF Map!Outcomes
  <2> QED BY <1>3, <2>1 DEF Map!Without, Done
<1>4. CASE r.op = "Update"
  <2>1. <<C, a>> \in {<<IF Map!Has(r.key) THEN Map!Without(r.key) \cup {<<r.key, r.val>>} ELSE Contents, <<"ok">>>>}
    BY <1>4 DEF Map!Outcomes
  <2> QED BY <1>4, <2>1 DEF Map!Without, Map!Has, Done
<1>5. CASE r.op = "Get"
  <2>1. <<C, a>> \in IF Map!Has(r.key) THEN {<<Contents, <<"found", e[2]>>>> : e \in Contents \ Map!Without(r.key)}
                     ELSE {<<Contents, <<"none">>>>}
    BY <1>5 DEF Map!Outcomes
  <2>2. CASE Map!Has(r.key)
    <3>1. PICK e \in Contents \ Map!Without(r.key) : <<C, a>> = <<Contents, <<"found", e[2]>>>>
      BY <2>1, <2>2
    <3> QED BY <1>5, <3>1 DEF Map!Without, Found
  <2>3. CASE ~Map!Has(r.key)
    <3>1. <<C, a>> = <<Contents, <<"none">>>>
      BY <2>1, <2>3
    <3> QED BY <1>5, <2>3, <3>1 DEF Map!Has, NotFound
  <2> QED BY <2>2, <2>3
<1> QED
  BY <1>1, <1>2, <1>3, <1>4, <1>5

\* What is known of a round whose call has not taken effect.
LEMMA BeforeEffect ==
  ASSUME ProgramInv, stage # "calls", pc = "down", ~TookEffect
  PROVE  /\ stage \in {"insert", "update", "get", "remove", "absent"}
         /\ i \in Nat /\ i < program.size /\ call.op = OpOf(stage) /\ call.key = KeyAt(i)
         /\ program.name = "unittest" /\ stage = "update" => call.val = NewVal
         /\ {e[1] : e \in Contents} = {KeyAt(n) : n \in RowsAt(i)} /\ Holding(Contents, i)
         /\ call \in Calls /\ (call.op = "Insert" => \A e \in Contents : e[1] # call.key)
<1>1. Running /\ ControlOK /\ pc # "idle"
  BY DEF ProgramInv, StageInv, ControlOK
<1>2. stage \in {"insert", "update", "get", "remove", "absent"}
  BY <1>1 DEF ControlOK
<1>3. Past = i /\ Holding(Contents, i)
  BY DEF Past, ProgramInv, StageInv, Stocked
<1>4. i \in Nat /\ i < program.size
  BY <1>1, <1>2 DEF ControlOK, Rounds
<1>5. IndInv /\ Ready
  BY DEF ProgramInv, QueueInv
<1>6. call \in Calls
  BY <1>5, HeapTypes
<1>7. /\ call.op = OpOf(stage) /\ call.key = KeyAt(i)
      /\ program.name = "unittest" /\ stage = "update" => call.val = NewVal
  BY <1>1 DEF ProgramInv, StageInv, Called
<1>8. {e[1] : e \in Contents} = {KeyAt(n) : n \in RowsAt(i)}
  BY <1>2, <1>3 DEF Holding
<1>9. call.op = "Insert" => \A e \in Contents : e[1] # call.key
  BY <1>5 DEF Ready
<1> QED
  BY <1>2, <1>3, <1>4, <1>6, <1>7, <1>8, <1>9

\* The call of a round does what the loop is for, and is answered so.
LEMMA EffectOfRound ==
  ASSUME ProgramInv, stage # "calls", pc = "down", ~TookEffect,
         NEW C, NEW a, <<C, a>> \in Map!Outcomes(call)
  PROVE  Good(a) /\ Holding(C, i + 1)
<1>1. /\ stage \in {"insert", "update", "get", "remove", "absent"}
      /\ i \in Nat /\ i < program.size /\ call.op = OpOf(stage) /\ call.key = KeyAt(i)
      /\ program.name = "unittest" /\ stage = "update" => call.val = NewVal
      /\ {e[1] : e \in Contents} = {KeyAt(n) : n \in RowsAt(i)} /\ Holding(Contents, i)
      /\ call \in Calls /\ (call.op = "Insert" => \A e \in Contents : e[1] # call.key)
  BY BeforeEffect
<1>2. ControlOK
  BY DEF ProgramInv, StageInv
<1>3. /\ program.name \in {"engine", "unittest", "queue"} /\ program.size \in Nat
      /\ \A n \in 0..(program.size - 1) : KeyAt(n) \in Int
      /\ \A n, m \in 0..(program.size - 1) : KeyAt(n) = KeyAt(m) => n = m
      /\ program.name # "queue" => \A n : KeyAt(n) = n
  BY <1>2, RoundKeys
<1>4. /\ call.op = "Insert" => a = Done /\ C = Contents \cup {<<call.key, call.val>>}
      /\ call.op = "Remove" => a = Done /\ C = {e \in Contents : e[1] # call.key}
      /\ call.op = "Update" =>
              /\ a = Done
              /\ C = IF \E e \in Contents : e[1] = call.key
                     THEN {e \in Contents : e[1] # call.key} \cup {<<call.key, call.val>>} ELSE Contents
      /\ call.op = "Get" =>
              /\ C = Contents
              /\ \/ \E e \in Contents : e[1] = call.key /\ a = Found(e[2])
                 \/ (\A e \in Contents : e[1] # call.key) /\ a = NotFound
  BY <1>1, OutcomeIs
<1>5. /\ \A e \in Contents : \E n \in RowsAt(i) : e[1] = KeyAt(n)
      /\ \A n \in RowsAt(i) : \E e \in Contents : e[1] = KeyAt(n)
  BY <1>1
<1>6. SUFFICES /\ Good(a)
               /\ \A e \in C : \E n \in RowsAt(i + 1) : e[1] = KeyAt(n)
               /\ \A n \in RowsAt(i + 1) : \E e \in C : e[1] = KeyAt(n)
               /\ program.name = "unittest" =>
                    /\ stage = "update" => \A e \in C : e[1] < i + 1 => e[2] = NewVal
                    /\ stage \in {"get", "dump"} => \A e \in C : e[2] = NewVal
  <2>1. ASSUME \A e \in C : \E n \in RowsAt(i + 1) : e[1] = KeyAt(n),
               \A n \in RowsAt(i + 1) : \E e \in C : e[1] = KeyAt(n)
        PROVE  {e[1] : e \in C} = {KeyAt(n) : n \in RowsAt(i + 1)}
    <3>1. \A k \in {e[1] : e \in C} : k \in {KeyAt(n) : n \in RowsAt(i + 1)}
      BY <2>1
    <3>2. \A k \in {KeyAt(n) : n \in RowsAt(i + 1)} : k \in {e[1] : e \in C}
      BY <2>1
    <3> QED BY <3>1, <3>2
  <2> QED BY <1>6, <2>1 DEF Holding
<1>7. CASE stage = "insert"
  <2>1. a = Done /\ C = Contents \cup {<<KeyAt(i), call.val>>}
    BY <1>1, <1>4, <1>7 DEF OpOf
  <2>2. RowsAt(i) = 0..(i - 1) /\ RowsAt(i + 1) = 0..((i + 1) - 1)
    BY <1>7 DEF RowsAt
  <2>3. \A n : n \in RowsAt(i + 1) <=> n \in RowsAt(i) \/ n = i
    BY <1>1, <2>2
  <2>4. <<KeyAt(i), call.val>>[1] = KeyAt(i)
    OBVIOUS
  <2> QED BY <1>5, <1>7, <2>1, <2>3, <2>4 DEF Good
<1>8. CASE stage = "update"
  <2>1. a = Done /\ call.op = "Update" /\ RowsAt(i) = 0..(program.size - 1) /\ RowsAt(i + 1) = RowsAt(i)
    BY <1>1, <1>4, <1>8 DEF OpOf, RowsAt
  <2>2. i \in RowsAt(i)
    BY <1>1, <1>3, <2>1
  <2>3. C = {e \in Contents : e[1] # KeyAt(i)} \cup {<<KeyAt(i), call.val>>}
    BY <1>1, <1>4, <1>5, <2>1, <2>2
  <2>4. <<KeyAt(i), call.val>>[1] = KeyAt(i) /\ <<KeyAt(i), call.val>>[2] = call.val
    OBVIOUS
  <2>5. \A e \in C : \E n \in RowsAt(i) : e[1] = KeyAt(n)
    BY <1>5, <2>2, <2>3, <2>4
  <2>6. \A n \in RowsAt(i) : \E e \in C : e[1] = KeyAt(n)
    <3> SUFFICES ASSUME NEW n \in RowsAt(i) PROVE \E e \in C : e[1] = KeyAt(n)
      OBVIOUS
    <3>1. CASE KeyAt(n) = KeyAt(i)
      BY <2>3, <2>4, <3>1
    <3>2. CASE KeyAt(n) # KeyAt(i)
      BY <1>5, <2>3, <3>2
    <3> QED BY <3>1, <3>2
  <2>7. ASSUME program.name = "unittest", NEW e \in C, e[1] < i + 1 PROVE e[2] = NewVal
    <3>1. CASE e = <<KeyAt(i), call.val>>
      BY <1>1, <1>8, <2>4, <2>7, <3>1
    <3>2. CASE e # <<KeyAt(i), call.val>>
      <4>1. e \in Contents /\ e[1] # KeyAt(i) /\ e[1] \in Int /\ KeyAt(i) = i
        <5>1. e \in Contents /\ e[1] # KeyAt(i)
          BY <2>3, <3>2
        <5>2. PICK n \in RowsAt(i) : e[1] = KeyAt(n)
          BY <1>5, <5>1
        <5> QED BY <1>3, <2>1, <2>7, <5>1, <5>2
      <4>2. e[1] < i
        BY <1>1, <2>7, <4>1
      <4> QED BY <1>1, <1>8, <2>7, <4>1, <4>2 DEF Holding
    <3> QED BY <3>1, <3>2
  <2> QED BY <1>8, <2>1, <2>5, <2>6, <2>7 DEF Good
<1>9. CASE stage = "get"
  <2>1. call.op = "Get" /\ RowsAt(i) = 0..(program.size - 1) /\ RowsAt(i + 1) = RowsAt(i)
    BY <1>1, <1>9 DEF OpOf, RowsAt
  <2>2. i \in RowsAt(i)
    BY <1>1, <1>3, <2>1
  <2>3. C = Contents /\ \E e \in Contents : a = Found(e[2])
    BY <1>1, <1>4, <1>5, <2>1, <2>2
  <2>4. program.name = "unittest" => \A e \in Contents : e[2] = NewVal
    BY <1>1, <1>9 DEF Holding
  <2>5. a \notin {Throw, NotFound}
    BY <2>3 DEF Found, Throw, NotFound
  <2>6. Good(a)
    BY <1>9, <2>3, <2>4, <2>5 DEF Good
  <2> QED BY <1>5, <1>9, <2>1, <2>3, <2>4, <2>6
<1>10. CASE stage = "remove"
  <2>1. a = Done /\ C = {e \in Contents : e[1] # KeyAt(i)}
    BY <1>1, <1>4, <1>10 DEF OpOf
  <2>2. RowsAt(i) = i..(program.size - 1) /\ RowsAt(i + 1) = (i + 1)..(program.size - 1)
    BY <1>10 DEF RowsAt
  <2>3. \A n : n \in RowsAt(i + 1) <=> n \in RowsAt(i) /\ n # i
    BY <1>1, <1>3, <2>2
  <2>4. \A n \in RowsAt(i) : n # i => KeyAt(n) # KeyAt(i)
    <3>1. i \in 0..(program.size - 1) /\ \A n \in RowsAt(i) : n \in 0..(program.size - 1)
      BY <1>1, <1>3, <2>2
    <3> QED BY <1>3, <3>1
  <2> QED BY <1>5, <1>10, <2>1, <2>3, <2>4 DEF Good
<1>11. CASE stage = "absent"
  <2>1. RowsAt(i) = {} /\ RowsAt(i + 1) = {} /\ call.op = "Get"
    BY <1>1, <1>11 DEF RowsAt, OpOf
  <2>2. C = Contents /\ a = NotFound
    BY <1>4, <1>5, <2>1
  <2> QED BY <1>5, <1>11, <2>1, <2>2 DEF Good
<1> QED
  BY <1>1, <1>7, <1>8, <1>9, <1>10, <1>11

\* A program that does nothing itself goes on with the same round.
LEMMA SameRound ==
  ASSUME UNCHANGED <<program, stage, i, busy, cells, res, op>>, ControlOK, pc' # "idle" => pc # "idle"
  PROVE  /\ ControlOK' /\ (Running' <=> Running)
         /\ \A C, m : Holding(C, m) /\ Contents' = C /\ Past' = m => Stocked'
         /\ \A a : Good(a) /\ result' = a => Told'
         /\ pc # "idle" /\ Called /\ call' = call => Called'
<1>1. Running' <=> Running
  BY DEF Running
<1>2. ControlOK'
  BY <1>1 DEF ControlOK, Rounds, OpOf, KeyAt, Running
<1>3. ASSUME NEW C, NEW m, Holding(C, m), Contents' = C, Past' = m PROVE Stocked'
  BY <1>3 DEF Stocked, Holding, RowsAt, KeyAt, NewVal
<1>4. ASSUME NEW a, Good(a), result' = a PROVE Told'
  BY <1>4 DEF Told, Good, NewVal
<1>5. ASSUME pc # "idle", Called, call' = call PROVE Called'
  BY <1>5 DEF Called, OpOf, KeyAt, NewVal
<1> QED
  BY <1>1, <1>2, <1>3, <1>4, <1>5

\* A step of the index in a call.
LEMMA RoundStep ==
  ASSUME ProgramInv, Step, MapStep, UNCHANGED <<program, stage, i, busy, cells, res, op>>
  PROVE  StageInv'
<1>1. pc # "idle" /\ ControlOK /\ Stocked /\ Called /\ IndInv
  BY DEF ProgramInv, StageInv, QueueInv, Step, GoDown, GetAtInner, GetAtLeaf, UpdateAtInner, UpdateAtLeaf,
         InsertDuplicate, LeafInsertFits, LeafInsertSplits, InnerInsertFits, InnerInsertSplits, GrowRoot,
         RemoveAtInner, RemoveMiss, RemoveMissBelowInner, RemoveFromLeaf, NoSibling, Alone,
         LeafBorrowRight, LeafBorrowLeft, LeafMergeRight, LeafMergeLeft, LeafLends, LeafMerges,
         InnerSafe, InnerBorrowRight, InnerBorrowLeft, InnerMergeRight, InnerMergeLeft, InnerLends, InnerMerges,
         LeafUnderflow, InnerUnderflow, RootKeeps, RootShrinks, AtLeaf, AtInner
<1>2. Running /\ ControlOK' /\ Running'
  BY <1>1, SameRound DEF ControlOK
<1>3. CASE stage = "calls"
  <2>1. program.name # "unittest" /\ stage' = "calls" /\ program' = program
    BY <1>1, <1>3 DEF ControlOK
  <2>2. Stocked' /\ Called' /\ Told'
    BY <2>1 DEF Stocked, Holding, Called, Told
  <2> QED BY <1>2, <2>2 DEF StageInv
<1>4. CASE stage # "calls" /\ Answers
  <2>1. PICK a : pc = "down" /\ ~TookEffect /\ <<Contents', a>> \in Map!Outcomes(call) /\ Return(a)
    BY <1>4 DEF Answers, Acts
  <2>2. PICK C : C = Contents'
    OBVIOUS
  <2>3. Good(a) /\ Holding(C, i + 1)
    BY <1>4, <2>1, <2>2, EffectOfRound
  <2>4. pc' = "idle" /\ result' = a
    BY <2>1 DEF Return
  <2>5. Past' = i + 1
    BY <1>2, <2>4 DEF Past
  <2>6. Stocked' /\ Told'
    BY <1>1, <2>2, <2>3, <2>4, <2>5, SameRound
  <2> QED BY <1>2, <2>4, <2>6 DEF StageInv, Called
<1>5. CASE stage # "calls" /\ TakesEffect
  <2>1. /\ pc = "down" /\ ~TookEffect /\ <<Contents', Done>> \in Map!Outcomes(call)
        /\ pc' # "idle" /\ TookEffect' /\ call' = call
    BY <1>5 DEF TakesEffect, Acts
  <2>2. PICK C : C = Contents'
    OBVIOUS
  <2>3. Holding(C, i + 1)
    BY <1>5, <2>1, <2>2, EffectOfRound
  <2>4. Past' = i + 1
    BY <1>2, <2>1 DEF Past
  <2>5. Stocked' /\ Called'
    BY <1>1, <2>1, <2>2, <2>3, <2>4, SameRound
  <2> QED BY <1>2, <2>1, <2>5 DEF StageInv, Told
<1>6. CASE stage # "calls" /\ Ends
  <2>1. TookEffect /\ pc' = "idle" /\ result' = Done /\ Contents' = Contents
    BY <1>6 DEF Ends, Return
  <2>2. Past = i + 1 /\ Past' = i + 1
    BY <1>2, <2>1 DEF Past
  <2>3. call.op \in {"Insert", "Remove"}
    BY <1>1, <2>1 DEF TookEffect, IndInv, FrameInputs, NeverStops, ProgramInv, QueueInv, TypeOK, Phases
  <2>4. stage \notin {"get", "absent"}
    BY <1>1, <1>6, <2>3 DEF Called, OpOf
  <2>5. Good(Done)
    BY <2>4 DEF Good
  <2>6. Stocked' /\ Told'
    BY <1>1, <2>1, <2>2, <2>5, SameRound DEF Stocked
  <2> QED BY <1>2, <2>1, <2>6 DEF StageInv, Called
<1>7. CASE stage # "calls" /\ Within
  <2>1. pc' # "idle" /\ TookEffect' = TookEffect /\ call' = call /\ Contents' = Contents
    BY <1>7 DEF Within
  <2>2. Past' = Past
    BY <1>1, <1>2, <2>1 DEF Past
  <2>3. Stocked' /\ Called'
    BY <1>1, <2>1, <2>2, SameRound DEF Stocked
  <2> QED BY <1>2, <2>1, <2>3 DEF StageInv, Told
<1> QED
  BY <1>1, <1>3, <1>4, <1>5, <1>6, <1>7 DEF MapStep, Starts, Invoke

\* Neither the entries nor the call have changed when the index has not.
LEMMA NothingMoves == UNCHANGED vars => Contents' = Contents /\ TookEffect' = TookEffect
BY DEF vars, Contents, TreePages, Roots, Reachable, Children, IsLeaf, Pids, Live, TookEffect

\* The call a round is for is in the order of a queue.
LEMMA RoundInOrder ==
  ASSUME ProgramInv, pc = "idle", ~Running, stage \in {"insert", "update", "get", "remove", "absent"},
         NEW c, c.op = OpOf(stage), c.key = KeyAt(i)
  PROVE  KeyAt(i) \in Keys /\ InQueueOrder(c)
<1>1. ControlOK /\ Stocked
  BY DEF ProgramInv, StageInv
<1>2. /\ program.name \in {"engine", "unittest", "queue"} /\ program.size \in Nat
      /\ \A n \in 0..(program.size - 1) : KeyAt(n) \in Keys
      /\ \A n, m \in 0..(program.size - 1) : KeyAt(n) = KeyAt(m) => n = m
      /\ program.name # "queue" => \A n : KeyAt(n) = n
  BY <1>1, RoundKeys
<1>3. i \in Nat /\ i < program.size
  BY <1>1 DEF ControlOK, Rounds
<1>4. i \in 0..(program.size - 1)
  BY <1>2, <1>3
<1>5. Past = i
  BY DEF Past
<1>6. {e[1] : e \in Contents} = {KeyAt(n) : n \in RowsAt(i)}
  BY <1>1, <1>5 DEF Stocked, Holding
<1>7. /\ \A e \in Contents : \E n \in RowsAt(i) : e[1] = KeyAt(n)
      /\ \A n \in RowsAt(i) : \E e \in Contents : e[1] = KeyAt(n)
  BY <1>6
<1>8. CASE stage = "insert"
  <2>1. ASSUME NEW e \in Contents, e[1] = KeyAt(i) PROVE FALSE
    <3>1. PICK n \in 0..(i - 1) : KeyAt(n) = KeyAt(i)
      BY <1>7, <1>8, <2>1 DEF RowsAt
    <3>2. n \in 0..(program.size - 1) /\ n # i
      BY <1>2, <1>3, <3>1
    <3> QED BY <1>2, <1>4, <3>1, <3>2
  <2> QED BY <1>2, <1>4, <1>8, <2>1 DEF OpOf, InQueueOrder
<1>9. CASE stage = "remove"
  <2>1. RowsAt(i) = i..(program.size - 1) /\ \A n : KeyAt(n) = n
    BY <1>1, <1>2, <1>9 DEF RowsAt, ControlOK
  <2>2. \E e \in Contents : e[1] = c.key
    BY <1>2, <1>3, <1>7, <2>1
  <2>3. \A f \in Contents : c.key <= f[1]
    <3> SUFFICES ASSUME NEW f \in Contents PROVE i <= f[1]
      BY <2>1
    <3>1. PICK n \in i..(program.size - 1) : f[1] = n
      BY <1>7, <2>1
    <3> QED BY <1>2, <1>3, <3>1
  <2> QED BY <1>2, <1>4, <1>9, <2>2, <2>3 DEF OpOf, InQueueOrder
<1>10. CASE stage \notin {"insert", "remove"}
  BY <1>2, <1>4, <1>10 DEF OpOf, InQueueOrder
<1> QED
  BY <1>8, <1>9, <1>10

\* The call of a round starts.
LEMMA RoundStarts ==
  ASSUME ProgramInv, pc = "idle", ~Running, Running', ControlOK', NEW c, Invoke(c), [MapStep]_vars,
         UNCHANGED <<program, stage, i>>,
         stage # "calls" => /\ c.op = OpOf(stage) /\ c.key = KeyAt(i)
                            /\ program.name = "unittest" /\ stage = "update" => c.val = NewVal
  PROVE  StageInv'
<1>1. pc' = "down" /\ call' = c /\ key' = c.key
  BY DEF Invoke
<1>2. Contents' = Contents
  <2>1. ~TookEffect
    BY DEF TookEffect
  <2>2. pc' # pc
    BY <1>1
  <2>3. MapStep
    BY <2>2 DEF vars
  <2> QED BY <2>1, <2>3 DEF MapStep, Starts, Answers, TakesEffect, Ends, Within, Acts
<1>3. Past = i /\ Past' = i
  BY <1>1 DEF Past, TookEffect
<1>4. Stocked
  BY DEF ProgramInv, StageInv
<1>5. Stocked'
  BY <1>2, <1>3, <1>4 DEF Stocked, Holding, RowsAt, KeyAt, NewVal
<1>6. Called'
  BY <1>1 DEF Called, OpOf, KeyAt, NewVal
<1>7. Told'
  BY <1>1 DEF Told
<1> QED
  BY <1>5, <1>6, <1>7 DEF StageInv

\* The loop after this one.
Following ==
  LET all == Stages[program.name]
  IN  all[1 + CHOOSE n \in 1..(Len(all) - 1) : all[n] = stage]

LEMMA NextLoop ==
  ASSUME ControlOK, stage # "end", NEW s, s = Following
  PROVE  /\ stage = "insert" => s = IF program.name = "queue" THEN "calls" ELSE "update"
         /\ stage = "update" => s = "get"
         /\ stage = "get" => s = "dump"
         /\ stage = "dump" => s = "remove"
         /\ stage = "remove" => s = IF program.name = "unittest" THEN "absent" ELSE "end"
         /\ stage \in {"absent", "calls"} => s = "end"
<1>1. program.name \in {"engine", "unittest", "queue"}
  BY RoundKeys
<1>a. PICK all : all = Stages[program.name]
  OBVIOUS
<1>b. PICK m : m = CHOOSE n \in 1..(Len(all) - 1) : all[n] = stage
  OBVIOUS
<1>c. s = all[1 + m]
  BY <1>a, <1>b DEF Following
<1>d. (\E n \in 1..(Len(all) - 1) : all[n] = stage) => m \in 1..(Len(all) - 1) /\ all[m] = stage
  BY <1>b
<1>2. CASE program.name = "engine"
  <2>1. all = <<"insert", "update", "get", "dump", "remove", "end">> /\ Len(all) = 6
    BY <1>a, <1>2 DEF Stages
  <2>2. stage \in {"insert", "update", "get", "dump", "remove"}
    BY <1>2 DEF ControlOK
  <2>3. m \in 1..5 /\ all[m] = stage
    BY <1>d, <2>1, <2>2
  <2>4. m = 1 \/ m = 2 \/ m = 3 \/ m = 4 \/ m = 5
    BY <2>3
  <2> QED BY <1>2, <1>c, <2>1, <2>3, <2>4
<1>3. CASE program.name = "unittest"
  <2>1. all = <<"insert", "update", "get", "dump", "remove", "absent", "end">> /\ Len(all) = 7
    BY <1>a, <1>3 DEF Stages
  <2>2. stage \in {"insert", "update", "get", "dump", "remove", "absent"}
    BY <1>3 DEF ControlOK
  <2>3. m \in 1..6 /\ all[m] = stage
    BY <1>d, <2>1, <2>2
  <2>4. m = 1 \/ m = 2 \/ m = 3 \/ m = 4 \/ m = 5 \/ m = 6
    BY <2>3
  <2> QED BY <1>3, <1>c, <2>1, <2>3, <2>4
<1>4. CASE program.name = "queue"
  <2>1. all = <<"insert", "calls", "end">> /\ Len(all) = 3
    BY <1>a, <1>4 DEF Stages
  <2>2. stage \in {"insert", "calls"}
    BY <1>4 DEF ControlOK
  <2>3. m \in 1..2 /\ all[m] = stage
    BY <1>d, <2>1, <2>2
  <2>4. m = 1 \/ m = 2
    BY <2>3
  <2> QED BY <1>4, <1>c, <2>1, <2>3, <2>4
<1> QED
  BY <1>1, <1>2, <1>3, <1>4

\* What a loop has left in the index is what the next one finds.
LEMMA LoopEnds ==
  ASSUME ControlOK, stage # "end", ~(i + 1 < Rounds), stage' = Following,
         Holding(Contents, IF stage = "dump" THEN i ELSE i + 1), UNCHANGED <<program, vars>>
  PROVE  /\ Holding(Contents, 0)'
         /\ \/ stage' = "end"
            \/ stage' \in {"update", "get", "dump", "remove"} /\ program.name # "queue"
            \/ stage' = "absent" /\ program.name = "unittest"
            \/ stage' = "calls" /\ program.name = "queue"
<1>1. /\ program.name \in {"engine", "unittest", "queue"} /\ program.size \in Nat
      /\ program.name # "queue" => \A n : KeyAt(n) = n
  BY RoundKeys
<1>2. Contents' = Contents
  BY NothingMoves
<1>a. PICK s : s = stage'
  OBVIOUS
<1>3. /\ stage = "insert" => s = IF program.name = "queue" THEN "calls" ELSE "update"
      /\ stage = "update" => s = "get"
      /\ stage = "get" => s = "dump"
      /\ stage = "dump" => s = "remove"
      /\ stage = "remove" => s = IF program.name = "unittest" THEN "absent" ELSE "end"
      /\ stage \in {"absent", "calls"} => s = "end"
  BY <1>a, NextLoop
<1>4. CASE s \in {"calls", "end"}
  <2>1. program.name = "queue" \/ s = "end"
    BY <1>1, <1>3, <1>4 DEF ControlOK
  <2>2. Holding(Contents, 0)'
    BY <1>a, <1>4 DEF Holding
  <2> QED BY <1>a, <1>4, <2>1, <2>2
<1>5. CASE s \notin {"calls", "end"}
  <2>1. program.name # "queue" /\ stage \in {"insert", "update", "get", "dump", "remove"}
    BY <1>1, <1>3, <1>5 DEF ControlOK
  <2>2. i \in Nat /\ i < Rounds
    BY <2>1 DEF ControlOK
  <2>3. stage # "dump" => i + 1 = program.size
    BY <1>1, <2>1, <2>2 DEF Rounds
  <2>4. {e[1] : e \in Contents} = {KeyAt(n) : n \in RowsAt(IF stage = "dump" THEN i ELSE i + 1)}
    BY <2>1 DEF Holding
  <2>5. CASE s # "absent"
    <3>1. stage # "remove"
      BY <1>3, <1>5, <2>5
    <3>2. RowsAt(IF stage = "dump" THEN i ELSE i + 1) = 0..(program.size - 1)
      BY <2>1, <2>3, <3>1 DEF RowsAt
    <3>3. {e[1] : e \in Contents} = {n : n \in 0..(program.size - 1)}
      BY <1>1, <2>1, <2>4, <3>2
    <3>4. \A e \in Contents : e[1] \in 0..(program.size - 1)
      BY <3>3
    <3>5. RowsAt(0)' = 0..(program.size - 1)
      <4>1. s \in {"update", "get", "dump", "remove"}
        BY <1>3, <1>5, <2>1, <2>5
      <4> QED BY <1>a, <4>1 DEF RowsAt
    <3>6. {e[1] : e \in Contents'} = {KeyAt(n) : n \in RowsAt(0)}'
      <4>1. \A n : KeyAt(n)' = KeyAt(n)
        BY DEF KeyAt
      <4>2. \A n : KeyAt(n)' = n
        BY <1>1, <2>1, <4>1
      <4> QED BY <1>2, <3>3, <3>5, <4>2
    <3>7. ASSUME program.name = "unittest", NEW e \in Contents
          PROVE  /\ s = "update" => ~(e[1] < 0)
                 /\ s \in {"get", "dump"} => e[2] = NewVal
      <4>1. e[1] \in 0..(program.size - 1)
        BY <3>4
      <4>2. ~(e[1] < 0) /\ e[1] < program.size
        BY <1>1, <4>1
      <4>3. stage = "update" => e[2] = NewVal
        BY <2>3, <3>7, <4>2 DEF Holding
      <4>4. stage = "get" => e[2] = NewVal
        BY <3>7 DEF Holding
      <4>5. s \in {"get", "dump"} => stage \in {"update", "get"}
        BY <1>3, <2>1
      <4> QED BY <4>2, <4>3, <4>4, <4>5
    <3>8. Holding(Contents, 0)'
      BY <1>a, <1>2, <3>6, <3>7 DEF Holding, NewVal
    <3> QED BY <1>a, <1>3, <1>5, <2>1, <2>5, <3>8
  <2>6. CASE s = "absent"
    <3>1. stage = "remove" /\ program.name = "unittest"
      BY <1>3, <2>1, <2>6
    <3>2. RowsAt(IF stage = "dump" THEN i ELSE i + 1) = {}
      BY <1>1, <2>3, <3>1 DEF RowsAt
    <3>3. RowsAt(0)' = {}
      BY <1>a, <2>6 DEF RowsAt
    <3>4. Contents = {}
      BY <2>4, <3>2
    <3>5. Holding(Contents, 0)'
      BY <1>a, <1>2, <2>6, <3>3, <3>4 DEF Holding
    <3> QED BY <1>a, <2>6, <3>1, <3>5
  <2> QED BY <2>5, <2>6
<1> QED
  BY <1>4, <1>5

\* A round ends.
LEMMA RoundEnds ==
  ASSUME ProgramInv, pc = "idle", Running \/ stage = "dump", Advance, op' = NoOp,
         UNCHANGED <<vars, cells>>
  PROVE  StageInv'
<1>1. ControlOK /\ Stocked
  BY DEF ProgramInv, StageInv
<1>2. pc' = "idle" /\ busy' = FALSE /\ program' = program /\ Contents' = Contents
  BY NothingMoves DEF Advance, vars
<1>3. ~Running' /\ Called' /\ Told' /\ Past' = i'
  BY <1>2 DEF Running, NoOp, Called, Told, Past
<1>4. stage # "end" /\ Past = IF stage = "dump" THEN i ELSE i + 1
  BY <1>1 DEF ControlOK, Past
<1>5. program.size \in Nat /\ program.size >= 1 /\ i \in Nat
  BY <1>1, RoundKeys DEF ControlOK
<1>6. CASE i + 1 < Rounds
  <2>1. i' = i + 1 /\ stage' = stage
    BY <1>6 DEF Advance
  <2>2. stage # "dump"
    BY <1>5, <1>6 DEF Rounds
  <2>3. ControlOK'
    <3>1. i' \in Nat /\ (stage' \notin {"calls", "end"} => i' < Rounds')
      BY <1>2, <1>5, <1>6, <2>1 DEF Rounds
    <3> QED BY <1>1, <1>2, <1>3, <2>1, <2>2, <3>1 DEF ControlOK
  <2>4. Stocked'
    BY <1>1, <1>2, <1>3, <1>4, <2>1, <2>2 DEF Stocked, Holding, RowsAt, KeyAt, NewVal
  <2> QED BY <1>3, <2>3, <2>4 DEF StageInv
<1>7. CASE ~(i + 1 < Rounds)
  <2>1. i' = 0 /\ stage' = Following
    BY <1>7 DEF Advance, Following
  <2>2. Holding(Contents, IF stage = "dump" THEN i ELSE i + 1)
    BY <1>1, <1>4 DEF Stocked
  <2>3. /\ Holding(Contents, 0)'
        /\ \/ stage' = "end"
           \/ stage' \in {"update", "get", "dump", "remove"} /\ program.name # "queue"
           \/ stage' = "absent" /\ program.name = "unittest"
           \/ stage' = "calls" /\ program.name = "queue"
    BY <1>1, <1>2, <1>4, <1>7, <2>1, <2>2, LoopEnds
  <2>4. Stocked'
    BY <1>3, <2>1, <2>3 DEF Stocked
  <2>5. ControlOK'
    <3>1. i' \in Nat /\ (stage' \notin {"calls", "end"} => i' < Rounds')
      BY <1>2, <1>5, <2>1 DEF Rounds
    <3> QED BY <1>1, <1>2, <1>3, <2>3, <3>1 DEF ControlOK
  <2> QED BY <1>3, <2>4, <2>5 DEF StageInv
<1> QED
  BY <1>6, <1>7

\* Nothing happens to the index, and no round ends or starts.
LEMMA NoRound ==
  ASSUME ProgramInv, UNCHANGED <<vars, program, stage, i, busy>>, ControlOK', Running' <=> Running
  PROVE  StageInv'
<1>1. Contents' = Contents /\ TookEffect' = TookEffect /\ pc' = pc /\ call' = call /\ result' = result
  BY NothingMoves DEF vars
<1>2. Past' = Past
  BY <1>1 DEF Past
<1>3. Stocked /\ Called /\ Told
  BY DEF ProgramInv, StageInv
<1>4. Stocked'
  BY <1>1, <1>2, <1>3 DEF Stocked, Holding, RowsAt, KeyAt, NewVal
<1>5. Called' /\ Told'
  BY <1>1, <1>3 DEF Called, Told, Good, OpOf, KeyAt, NewVal
<1> QED
  BY <1>4, <1>5 DEF StageInv

\* engine.cpp makes its calls through IndexOpFactory.
LEMMA EngineStep ==
  ASSUME ProgramInv, EngineMakes \/ EngineSetsVal \/ EngineRuns \/ EngineGoesOn
  PROVE  [QueueNext]_vars /\ ([MapStep]_vars => StageInv')
<1>1. ControlOK /\ Told
  BY DEF ProgramInv, StageInv
<1>2. NewVal \in Vals /\ ZeroVal \in Vals
  BY <1>1, RoundKeys
<1>3. CASE EngineMakes
  <2>1. program.name = "engine" /\ op = NoOp /\ UNCHANGED <<vars, program, stage, i, busy>>
    BY <1>3 DEF EngineMakes, MakeOp
  <2>2. KeyAt(i) = i
    BY <1>1, <2>1, RoundKeys
  <2>3. /\ stage \in {"insert", "update", "get", "remove"}
        /\ op'.op = OpOf(stage) /\ op'.key = i /\ op'.cell \in Cells /\ op'.ran = FALSE
    BY <1>3 DEF EngineMakes, MakeOp, OpOf, Cells
  <2>4. cells' \in [Cells -> Vals \cup {Dead}]
    BY <1>1, <1>3 DEF ControlOK, EngineMakes, MakeOp
  <2>5. Running' <=> Running
    BY <2>1, <2>3 DEF Running, NoOp
  <2>6. OpOf(stage)' = OpOf(stage) /\ KeyAt(i)' = KeyAt(i) /\ Rounds' = Rounds /\ pc' = pc
    BY <2>1 DEF OpOf, KeyAt, Rounds, vars
  <2>7. ControlOK'
    BY <1>1, <2>1, <2>2, <2>3, <2>4, <2>5, <2>6 DEF ControlOK
  <2> QED BY <2>1, <2>5, <2>7, NoRound
<1>4. CASE EngineSetsVal
  <2>1. op' = op /\ UNCHANGED <<vars, program, stage, i, busy>>
    BY <1>4 DEF EngineSetsVal
  <2>2. cells' \in [Cells -> Vals \cup {Dead}]
    BY <1>1, <1>2, <1>4 DEF ControlOK, EngineSetsVal
  <2>3. Running' <=> Running
    BY <2>1 DEF Running
  <2>4. OpOf(stage)' = OpOf(stage) /\ KeyAt(i)' = KeyAt(i) /\ Rounds' = Rounds /\ pc' = pc
    BY <2>1 DEF OpOf, KeyAt, Rounds, vars
  <2>5. ControlOK'
    BY <1>1, <2>1, <2>2, <2>3, <2>4 DEF ControlOK
  <2> QED BY <2>1, <2>3, <2>5, NoRound
<1>5. CASE EngineRuns
  <2>1. /\ op # NoOp /\ ~op.ran /\ op' = [op EXCEPT !.ran = TRUE]
        /\ UNCHANGED <<cells, program, stage, i, busy>>
    BY <1>5 DEF EngineRuns, RunOp
  <2>2. /\ program.name = "engine" /\ stage \in {"insert", "update", "get", "remove"}
        /\ op.op = OpOf(stage) /\ op.key = KeyAt(i) /\ op.cell \in Cells
    BY <1>1, <2>1 DEF ControlOK
  <2>3. PICK v \in ReadCell(op.cell) :
          Invoke([op |-> op.op, key |-> op.key, val |-> IF op.op \in {"Insert", "Update"} THEN v ELSE ZeroVal])
    BY <1>5 DEF EngineRuns, RunOp
  <2>4. v \in Vals
    BY <1>1, <2>2, <2>3 DEF ReadCell, ControlOK
  <2>5. PICK c : c = [op |-> op.op, key |-> op.key, val |-> IF op.op \in {"Insert", "Update"} THEN v ELSE ZeroVal]
    OBVIOUS
  <2>6. c.op = OpOf(stage) /\ c.key = KeyAt(i) /\ Invoke(c) /\ pc = "idle" /\ ~Running
    BY <2>1, <2>2, <2>3, <2>5 DEF Invoke, Running
  <2>7. KeyAt(i) \in Keys /\ InQueueOrder(c)
    BY <2>2, <2>6, RoundInOrder
  <2>8. c \in Calls
    <3>1. OpOf(stage) \in {"Insert", "Update", "Get", "Remove"}
      BY <2>2 DEF OpOf
    <3> QED BY <1>2, <2>2, <2>4, <2>5, <2>7, <3>1 DEF Calls
  <2>9. op'.op = op.op /\ op'.key = op.key /\ op'.cell = op.cell /\ op'.ran = TRUE
    BY <1>1, <2>1 DEF ControlOK, NoOp
  <2>10. Running'
    BY <2>1, <2>2, <2>9 DEF Running
  <2>11. OpOf(stage)' = OpOf(stage) /\ KeyAt(i)' = KeyAt(i) /\ Rounds' = Rounds
    BY <2>1 DEF OpOf, KeyAt, Rounds
  <2>12. ControlOK'
    BY <1>1, <2>1, <2>2, <2>9, <2>10, <2>11 DEF ControlOK
  <2>13. [MapStep]_vars => StageInv'
    BY <2>1, <2>2, <2>6, <2>10, <2>12, RoundStarts
  <2> QED BY <2>6, <2>7, <2>8, <2>13 DEF QueueNext
<1>6. CASE EngineGoesOn
  <2>1. /\ op.ran /\ pc = "idle" /\ op' = NoOp /\ UNCHANGED <<vars, cells>>
        /\ res' = IF op.op = "Get" THEN result ELSE res
    BY <1>6 DEF EngineGoesOn, OpEnds
  <2>2. program.name = "engine" /\ stage \in {"insert", "update", "get", "remove"} /\ op.op = OpOf(stage)
    BY <1>1, <2>1 DEF ControlOK, NoOp
  <2>3. Running
    BY <2>1, <2>2 DEF Running
  <2>4. Good(result)
    BY <1>1, <2>1, <2>2, <2>3 DEF Told
  <2>5. result # Throw /\ (op.op = "Get" => res' # NotFound)
    BY <2>1, <2>2, <2>4 DEF Good, OpOf, Done, Throw
  <2>6. Advance
    BY <1>6, <2>5 DEF EngineGoesOn
  <2> QED BY <2>1, <2>3, <2>6, RoundEnds
<1> QED
  BY <1>3, <1>4, <1>5, <1>6

\* unittest.cpp and the queue call the index directly.
LEMMA DirectStep ==
  ASSUME ProgramInv, CallsDirectly \/ QueueCalls \/ GoesOn
  PROVE  [QueueNext]_vars /\ ([MapStep]_vars => StageInv')
<1>1. ControlOK /\ Told
  BY DEF ProgramInv, StageInv
<1>2. NewVal \in Vals /\ ZeroVal \in Vals /\ RoundKey = KeyAt(i)
  BY <1>1, RoundKeys
<1>3. CASE CallsDirectly \/ QueueCalls
  <2>1. /\ program.name # "engine" /\ ~busy /\ busy' = TRUE /\ UNCHANGED <<fvars, program, stage, i>>
        /\ pc = "idle" /\ stage \notin {"dump", "end"}
    BY <1>1, <1>3 DEF CallsDirectly, QueueCalls, Invoke, ControlOK
  <2>2. ~Running /\ Running'
    BY <2>1 DEF Running
  <2>3. ControlOK'
    <3>1. OpOf(stage)' = OpOf(stage) /\ KeyAt(i)' = KeyAt(i) /\ Rounds' = Rounds
      BY <2>1 DEF OpOf, KeyAt, Rounds
    <3> QED BY <1>1, <2>1, <2>2, <3>1 DEF ControlOK, fvars
  <2>4. \E c \in Calls :
          /\ InQueueOrder(c) /\ Invoke(c)
          /\ stage # "calls" => /\ c.op = OpOf(stage) /\ c.key = KeyAt(i)
                                /\ program.name = "unittest" /\ stage = "update" => c.val = NewVal
    <3>1. CASE CallsDirectly
      <4>1. stage \in {"insert", "update", "get", "remove", "absent"} /\ Invoke(RoundCall)
        BY <1>1, <3>1 DEF CallsDirectly, ControlOK
      <4>2. PICK c : c = RoundCall
        OBVIOUS
      <4>3. /\ c.op = OpOf(stage) /\ c.key = KeyAt(i) /\ (stage = "update" => c.val = NewVal)
        BY <1>2, <4>1, <4>2 DEF RoundCall, OpOf
      <4>4. KeyAt(i) \in Keys /\ InQueueOrder(c)
        BY <2>1, <2>2, <4>1, <4>3, RoundInOrder
      <4>5. c \in Calls
        BY <1>2, <4>1, <4>2, <4>4 DEF RoundCall, Calls
      <4> QED BY <4>1, <4>2, <4>3, <4>4, <4>5
    <3>2. CASE QueueCalls
      BY <3>2 DEF QueueCalls
    <3> QED BY <1>3, <3>1, <3>2
  <2>5. PICK c \in Calls :
          /\ InQueueOrder(c) /\ Invoke(c)
          /\ stage # "calls" => /\ c.op = OpOf(stage) /\ c.key = KeyAt(i)
                                /\ program.name = "unittest" /\ stage = "update" => c.val = NewVal
    BY <2>4
  <2>6. [MapStep]_vars => StageInv'
    BY <2>1, <2>2, <2>3, <2>5, RoundStarts
  <2> QED BY <2>5, <2>6 DEF QueueNext
<1>4. CASE GoesOn
  <2>1. busy /\ pc = "idle" /\ UNCHANGED <<vars, fvars>>
    BY <1>4 DEF GoesOn
  <2>2. program.name # "engine" /\ op = NoOp /\ Running
    BY <1>1, <2>1 DEF ControlOK, Running
  <2>3. program.name = "unittest" => Expected
    <3>1. program.name = "unittest" => stage # "calls"
      BY <1>1 DEF ControlOK
    <3> QED BY <1>1, <2>1, <2>2, <3>1 DEF Told, Good, Expected
  <2>4. Advance
    BY <1>4, <2>3 DEF GoesOn
  <2>5. op' = NoOp /\ UNCHANGED <<vars, cells>>
    BY <2>1, <2>2 DEF fvars
  <2> QED BY <2>1, <2>2, <2>4, <2>5, RoundEnds
<1> QED
  BY <1>3, <1>4

\* Every step of a program keeps what is known of it, and is one of a map's.
LEMMA ProgramKeeps ==
  LeafMax >= 3 /\ InnerMax >= 5 =>
    (ProgramInv /\ [PNext]_pvars => ProgramInv' /\ [MapStep]_vars)
<1> SUFFICES ASSUME LeafMax >= 3, InnerMax >= 5, ProgramInv, [PNext]_pvars
             PROVE  ProgramInv' /\ [MapStep]_vars
  OBVIOUS
<1>1. ControlOK
  BY DEF ProgramInv, StageInv
<1>2. [QueueNext]_vars /\ ([MapStep]_vars => StageInv')
  <2>1. CASE EngineMakes \/ EngineSetsVal \/ EngineRuns \/ EngineGoesOn
    BY <2>1, EngineStep
  <2>2. CASE CallsDirectly \/ QueueCalls \/ GoesOn
    BY <2>2, DirectStep
  <2>3. CASE Dump
    <3>1. stage = "dump" /\ pc = "idle" /\ Advance /\ UNCHANGED <<vars, fvars>>
      BY <2>3 DEF Dump
    <3>2. op' = NoOp /\ UNCHANGED <<vars, cells>>
      BY <1>1, <3>1 DEF ControlOK, fvars
    <3> QED BY <3>1, <3>2, RoundEnds
  <2>4. CASE InCall
    <3>1. Step /\ UNCHANGED <<program, stage, i, busy, cells, res, op>>
      BY <2>4 DEF InCall, fvars
    <3>2. CASE UNCHANGED vars
      <4>1. Running' <=> Running
        BY <3>1 DEF Running
      <4>2. pc' = pc
        BY <3>2 DEF vars
      <4>3. ControlOK'
        BY <1>1, <3>1, <4>2, SameRound
      <4> QED BY <3>1, <3>2, <4>1, <4>3, NoRound
    <3>3. MapStep => StageInv'
      BY <3>1, RoundStep
    <3> QED BY <3>1, <3>2, <3>3 DEF QueueNext
  <2>5. CASE UNCHANGED pvars \/ Ended
    <3>1. UNCHANGED <<vars, program, stage, i, busy, cells, res, op>>
      BY <2>5 DEF pvars, fvars, Ended
    <3>2. (Running' <=> Running) /\ pc' = pc
      BY <3>1 DEF Running, vars
    <3>3. ControlOK'
      BY <1>1, <3>1, <3>2, SameRound
    <3> QED BY <3>1, <3>2, <3>3, NoRound
  <2> QED BY <2>1, <2>2, <2>3, <2>4, <2>5 DEF PNext
<1>3. QueueInv' /\ [MapStep]_vars
  BY <1>2, QueueKeeps DEF ProgramInv
<1> QED
  BY <1>2, <1>3 DEF ProgramInv

LEMMA ProgramStarts == PInit => ProgramInv
<1> SUFFICES ASSUME PInit PROVE ProgramInv
  OBVIOUS
<1>1. Init /\ FInit /\ stage = "insert" /\ i = 0 /\ busy = FALSE
  BY DEF PInit
<1>2. pc = "idle"
  BY <1>1 DEF Init
<1>3. QueueInv
  BY <1>1, <1>2, InitEstablishes, InitTree, InitOrder DEF QueueInv, NeverStops, Ready, Leftmost
<1>4. ZeroVal \in Vals
  BY ParameterAssumption
<1>5. ~Running
  BY <1>1 DEF Running, FInit, NoOp
<1>6. ControlOK
  <2>1. /\ program \in [name : Names \ {"queue"}, size : {TestNum}, order : {"up"}]
                         \cup [name : Names \cap {"queue"}, size : Preloads, order : Orders]
    BY DEF PInit
  <2>2. program.size \in Nat /\ program.size >= 1
    <3>1. CASE program \in [name : Names \ {"queue"}, size : {TestNum}, order : {"up"}]
      <4>1. program.size = TestNum /\ TestNum \in Nat \ {0}
        BY <3>1, ProgramAssumption
      <4> QED BY <4>1
    <3>2. CASE program \in [name : Names \cap {"queue"}, size : Preloads, order : Orders]
      <4>1. program.size \in Nat \ {0}
        BY <3>2, ProgramAssumption
      <4> QED BY <4>1
    <3> QED BY <2>1, <3>1, <3>2
  <2>3. 0 < Rounds
    BY <1>1, <2>2 DEF Rounds
  <2>4. cells \in [Cells -> Vals \cup {Dead}]
    BY <1>1, <1>4 DEF FInit
  <2> QED BY <1>1, <1>2, <1>5, <2>1, <2>3, <2>4 DEF ControlOK, FInit
<1>7. Past = 0 /\ Contents = {}
  BY <1>1, <1>5, EmptyAtFirst DEF Past
<1>8. RowsAt(0) = {}
  BY <1>1 DEF RowsAt
<1>9. Stocked
  BY <1>1, <1>7, <1>8 DEF Stocked, Holding
<1> QED
  BY <1>2, <1>3, <1>5, <1>6, <1>9 DEF ProgramInv, StageInv, Called, Told

\* What is known of the programs and their index, always.
LEMMA ProgramAlways ==
  LeafMax >= 3 /\ InnerMax >= 5 => (PSpec => []ProgramInv /\ [][IndInv /\ MapStep]_vars)
<1> SUFFICES ASSUME LeafMax >= 3, InnerMax >= 5 PROVE PSpec => []ProgramInv /\ [][IndInv /\ MapStep]_vars
  OBVIOUS
<1>1. ProgramInv /\ [PNext]_pvars => ProgramInv' /\ [MapStep]_vars
  BY ProgramKeeps
<1>2. ProgramInv /\ [MapStep]_vars => [IndInv /\ MapStep]_vars
  BY DEF ProgramInv, QueueInv
<1> QED
  BY <1>1, <1>2, ProgramStarts, PTL DEF PSpec

-----------------------------------------------------------------------------
\* The calls of engine.cpp, unittest.cpp and the queue never reach a step that
\* breaks the index: their merges are to the right, and the key they remove is
\* in a leaf.
THEOREM ProgramsAreSound == LeafMax >= 3 /\ InnerMax >= 5 => (PSpec => []NotFaulty)
<1> SUFFICES ASSUME LeafMax >= 3, InnerMax >= 5 PROVE PSpec => []NotFaulty
  OBVIOUS
<1>1. ProgramInv => NotFaulty
  BY QueueNotFaulty DEF ProgramInv, NotFaulty
<1> QED
  BY <1>1, ProgramAlways, PTL

\* The asserts of unittest.cpp hold and no exception leaves main in engine.cpp, for
\* every TEST_NUM: the keys of the rounds that are past are in the index, or gone.
THEOREM ProgramsSucceed == LeafMax >= 3 /\ InnerMax >= 5 => (PSpec => []AssertsHold)
<1> SUFFICES ASSUME LeafMax >= 3, InnerMax >= 5 PROVE PSpec => []AssertsHold
  OBVIOUS
<1>1. ProgramInv => AssertsHold
  BY DEF ProgramInv, StageInv, ControlOK, AssertsHold
<1> QED
  BY <1>1, ProgramAlways, PTL

\* For these programs the index is a map, with nothing assumed of its steps: the
\* safety part of FairMapSpec.
THEOREM ProgramsSeeAMap == LeafMax >= 3 /\ InnerMax >= 5 => (PSpec => Map!Spec)
<1> SUFFICES ASSUME LeafMax >= 3, InnerMax >= 5 PROVE PSpec => Map!Spec
  OBVIOUS
<1>1. [IndInv /\ MapStep]_vars => [Map!Next]_Map!vars
  BY MapStepOrNone
<1>2. PInit => Init
  BY DEF PInit
<1> QED
  BY <1>1, <1>2, InitMaps, ProgramAlways, PTL DEF PSpec, Map!Spec
=============================================================================
