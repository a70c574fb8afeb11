-------------------------- MODULE BTreeIndexProofs ---------------------------
(***************************************************************************)
(* TypeOK and SlotsFit are invariants of BTreeIndex, whatever the keys, the *)
(* values, the slot counts and the calls; and the pages reached from the    *)
(* root are a tree of one height, at least half full, that loses pages for  *)
(* good, in which the program does not stop up to the first faulty step.    *)
(*                                                                          *)
(* A page of the heap is kept below its slot count by what the other pages  *)
(* and the call in progress are: a merge needs both sizes at or below       *)
(* MinSize, the parent's size must allow for a dropped child, a split takes  *)
(* what the frame above left in split.  So the two are proved together, with *)
(* FramesInner and FrameInputs.                                             *)
(*                                                                          *)
(* Reachable and Layers are recursive functions of the pages, and nothing is *)
(* shown by induction on them: ReachableLeast says that the pages reached    *)
(* are the least set that holds the roots and the children of its pages.     *)
(* What a step does to them is shown of any set of pages that is a forest    *)
(* (TreeShape), and read of TreePages at the end.                            *)
(***************************************************************************)
EXTENDS BTreeMap, PageProofs, SequenceTheorems, FiniteSetTheorems

\* The inductive invariant.
IndInv == TypeOK /\ SlotsFit /\ FramesInner /\ FrameInputs

\* Pages that are not full, whose child slots hold ids in S.
FitPages(S) ==
  {p \in LeafPages : p.size \in 0..(LeafMax - 1)} \cup
  {p \in InnerOver(S) : p.size \in 1..(InnerMax - 1)}

\* How a page is shown to fit: a leaf ...
LEMMA FitLeaf ==
  ASSUME NEW S, NEW p \in LeafPages, p.size \in 0..(LeafMax - 1)
  PROVE  p \in FitPages(S) /\ p.kind = "leaf"
BY LeafFields DEF FitPages

\* ... and an internal page.
LEMMA FitInner ==
  ASSUME NEW S, NEW p \in InnerOver(S), p.size \in 1..(InnerMax - 1)
  PROVE  p \in FitPages(S) /\ p.kind = "inner"
BY InnerFields DEF FitPages

\* What fitting says of a page, by its kind.
LEMMA FitCases ==
  ASSUME NEW S, NEW p \in FitPages(S)
  PROVE  /\ p.kind = "leaf" => p \in LeafPages /\ p.size \in 0..(LeafMax - 1)
         /\ p.kind # "leaf" => p \in InnerOver(S) /\ p.size \in 1..(InnerMax - 1)
                               /\ p.kind = "inner"
         /\ p.kind \in {"leaf", "inner"}
BY DEF FitPages, LeafPages, InnerOver

\* Creating a page takes nothing from the others.
LEMMA FitMonotone ==
  ASSUME NEW S, NEW T, S \subseteq T
  PROVE  FitPages(S) \subseteq FitPages(T)
BY InnerOverMonotone DEF FitPages

\* The two halves of what is said of the heap, as one.
LEMMA HeapForm ==
  ASSUME NEW P \in SUBSET Nat, NEW h
  PROVE  h \in [P -> FitPages(P)]
         <=> /\ h \in [P -> Pages]
             /\ \A pid \in P : h[pid].kind # "leaf" => h[pid].pids \in [InnerSlots -> P]
             /\ \A pid \in P :
                  h[pid].size \in IF h[pid].kind = "leaf" THEN 0..(LeafMax - 1)
                                                         ELSE 1..(InnerMax - 1)
<1>1. ASSUME NEW p \in FitPages(P)
      PROVE  /\ p \in Pages
             /\ p.kind # "leaf" => p.pids \in [InnerSlots -> P]
             /\ p.size \in IF p.kind = "leaf" THEN 0..(LeafMax - 1) ELSE 1..(InnerMax - 1)
  <2>1. P \subseteq Nat
    OBVIOUS
  <2>2. InnerOver(P) \subseteq InnerPages
    BY <2>1 DEF InnerOver, InnerPages
  <2> QED
    BY <2>2, FitCases, InnerFields DEF Pages
<1>2. ASSUME NEW p \in Pages, p.kind # "leaf" => p.pids \in [InnerSlots -> P],
             p.size \in IF p.kind = "leaf" THEN 0..(LeafMax - 1) ELSE 1..(InnerMax - 1)
      PROVE  p \in FitPages(P)
  <2>1. CASE p \in LeafPages
    BY <1>2, <2>1, LeafFields DEF FitPages
  <2>2. CASE p \in InnerPages
    <3>1. p \in InnerOver(P) /\ p.kind # "leaf"
      BY <1>2, <2>2 DEF InnerPages, InnerOver
    <3> QED
      BY <1>2, <3>1 DEF FitPages
  <2> QED
    BY <2>1, <2>2 DEF Pages
<1>3. CASE h \in [P -> FitPages(P)]
  BY <1>1, <1>3
<1>4. CASE /\ h \in [P -> Pages]
           /\ \A pid \in P : h[pid].kind # "leaf" => h[pid].pids \in [InnerSlots -> P]
           /\ \A pid \in P :
                h[pid].size \in IF h[pid].kind = "leaf" THEN 0..(LeafMax - 1)
                                                       ELSE 1..(InnerMax - 1)
  BY <1>2, <1>4
<1> QED
  BY <1>3, <1>4

\* The heap, as the page lemmas need it.
LEMMA HeapFits ==
  ASSUME TypeOK, SlotsFit
  PROVE  heap \in [Pids -> FitPages(Pids)]
<1>1. Pids \in SUBSET Nat
  BY DEF TypeOK
<1> HIDE DEF Pids
<1> QED
  BY <1>1, HeapForm DEF TypeOK, SlotsFit, IsLeaf

-----------------------------------------------------------------------------
\* The pages a step is about.

\* The page of the current frame.
LEMMA CurPage ==
  ASSUME IndInv, path # <<>>
  PROVE  /\ Len(path) \in Nat /\ Len(path) >= 1 /\ Cur \in Pids
         /\ Page = heap[Cur] /\ Page \in FitPages(Pids)
         /\ IsLeaf(Cur) => Page \in LeafPages /\ Page.size \in 0..(LeafMax - 1)
         /\ ~IsLeaf(Cur) => Page \in InnerOver(Pids) /\ Page.size \in 1..(InnerMax - 1)
<1>1. path \in Seq(Pids) /\ heap \in [Pids -> FitPages(Pids)]
  BY HeapFits DEF IndInv, TypeOK
<1>2. Len(path) \in Nat /\ Len(path) >= 1 /\ Cur \in Pids
  BY <1>1 DEF Cur, Last
<1>3. Page = heap[Cur] /\ Page \in FitPages(Pids)
  BY <1>1, <1>2 DEF Page
<1> QED
  BY <1>2, <1>3, FitCases DEF IsLeaf

\* The page of the frame below it, which is internal.
LEMMA ParentPage ==
  ASSUME IndInv, Len(path) > 1
  PROVE  /\ path # <<>> /\ Parent \in Pids /\ ~IsLeaf(Parent)
         /\ heap[Parent] \in InnerOver(Pids) /\ heap[Parent].size \in 1..(InnerMax - 1)
<1>1. path \in Seq(Pids) /\ heap \in [Pids -> FitPages(Pids)]
  BY HeapFits DEF IndInv, TypeOK
<1>2. path # <<>> /\ Len(path) \in Nat /\ Len(path) - 1 \in 1..Len(path)
  BY <1>1
<1>3. Parent \in Pids /\ ~IsLeaf(Parent)
  BY <1>1, <1>2 DEF Parent, IndInv, FramesInner
<1> QED
  BY <1>1, <1>2, <1>3, FitCases DEF IsLeaf

\* The sibling a page borrows from or merges with, and the entry between them.
LEMMA SiblingPage ==
  ASSUME IndInv, Len(path) > 1, HasSibling
  PROVE  /\ Sib \in Pids /\ heap[Sib] \in FitPages(Pids)
         /\ IsLeaf(Cur) => heap[Sib] \in LeafPages /\ heap[Sib].size \in 0..(LeafMax - 1)
         /\ ~IsLeaf(Cur) => heap[Sib] \in InnerOver(Pids) /\ heap[Sib].size \in 1..(InnerMax - 1)
         /\ SepIdx \in 1..(heap[Parent].size - 1) /\ SepIdx \in Nat /\ Sep \in Entries
         /\ heap[Parent].size >= 2
         /\ Parent # Cur /\ Sib # Cur /\ Sib # Parent
<1> DEFINE p == heap[Parent]
<1>1. p \in InnerOver(Pids) /\ p.size \in 1..(InnerMax - 1)
  BY ParentPage
<1>2. /\ \E i \in 0..(p.size - 1) : p.pids[i] = Cur
      /\ SibIdx \in 0..(p.size - 1)
      /\ IsLeaf(Sib) = IsLeaf(Cur)
      /\ Parent # Cur /\ Sib # Cur /\ Sib # Parent
  BY DEF HasSibling, SiblingListed
<1>3. MyIdx \in 0..(p.size - 1) /\ SibIdx \in {MyIdx - 1, MyIdx + 1}
  BY <1>1, <1>2, SiblingIdxRange DEF MyIdx, SibIdx
<1>4. SepIdx \in 1..(p.size - 1) /\ p.size >= 2
  BY <1>1, <1>2, <1>3 DEF SepIdx
<1>5. SepIdx \in InnerSlots /\ SepIdx \in Nat /\ SibIdx \in InnerSlots
  BY <1>1, <1>2, <1>4, ParameterAssumption DEF InnerSlots
<1>6. Sep \in Entries /\ Sib \in Pids
  BY <1>1, <1>5, InnerFields DEF Sep, Sib
<1>7. heap[Sib] \in FitPages(Pids)
  BY <1>6, HeapFits DEF IndInv
<1> QED
  BY <1>2, <1>4, <1>5, <1>6, <1>7, FitCases DEF IsLeaf

-----------------------------------------------------------------------------
\* The three ways in which a step ends.

\* TypeOK and SlotsFit of the next state, put together from its variables.
LEMMA Reassemble ==
  ASSUME nextPid' \in Nat \ {0}, Pids' \subseteq 0..(nextPid' - 1), 0 \in Pids',
         heap' \in [Pids' -> FitPages(Pids')], root' \in Pids',
         pc' \in Phases, call' \in Calls \cup {NoCall}, key' \in Keys, path' \in Seq(Pids'),
         child' \in Pids' \cup {NoPid}, split' \in [elem : Entries, pid : Pids' \cup {NoPid}],
         result' \in Results
  PROVE  TypeOK' /\ SlotsFit'
<1>1. Pids' \in SUBSET Nat
  OBVIOUS
<1>2. /\ heap' \in [Pids' -> Pages]
      /\ \A pid \in Pids' : heap'[pid].kind # "leaf" => heap'[pid].pids \in [InnerSlots -> Pids']
      /\ \A pid \in Pids' :
           heap'[pid].size \in IF heap'[pid].kind = "leaf" THEN 0..(LeafMax - 1)
                                                          ELSE 1..(InnerMax - 1)
  BY <1>1, HeapForm
<1> QED
  BY <1>2 DEF TypeOK, SlotsFit, IsLeaf

\* What a step does to the page ids: nothing, a new page, or an id given to a
\* page that could not be created.
IdsKept ==
  \/ nextPid' = nextPid /\ Pids' = Pids
  \/ nextPid' = nextPid + 1 /\ Pids' \in {Pids, Pids \cup {nextPid}}

\* Creating a page leaves the old ids valid.
LEMMA PidsGrow ==
  ASSUME IdsKept
  PROVE  Pids \subseteq Pids' /\ FitPages(Pids) \subseteq FitPages(Pids')
         /\ Seq(Pids) \subseteq Seq(Pids')
<1>1. Pids \subseteq Pids'
  BY DEF IdsKept
<1>2. FitPages(Pids) \subseteq FitPages(Pids')
  BY <1>1, FitMonotone
<1>3. Seq(Pids) \subseteq Seq(Pids')
  BY <1>1
<1> QED
  BY <1>1, <1>2, <1>3

\* ... and below the next id.
LEMMA IdsFacts ==
  ASSUME TypeOK, IdsKept
  PROVE  nextPid' \in Nat \ {0} /\ Pids' \subseteq 0..(nextPid' - 1) /\ 0 \in Pids'
<1>1. nextPid \in Nat \ {0} /\ Pids \subseteq 0..(nextPid - 1) /\ 0 \in Pids
  BY DEF TypeOK
<1>2. CASE nextPid' = nextPid /\ Pids' = Pids
  BY <1>1, <1>2
<1>3. CASE nextPid' = nextPid + 1 /\ Pids' \in {Pids, Pids \cup {nextPid}}
  <2> HIDE DEF Pids
  <2> QED BY <1>1, <1>3
<1> QED
  BY <1>2, <1>3 DEF IdsKept

\* What is left of the path when the last frame returns.
LEMMA FrontFacts ==
  ASSUME NEW S, NEW q \in Seq(S), q # <<>>
  PROVE  /\ Front(q) \in Seq(S) /\ Len(Front(q)) = Len(q) - 1
         /\ \A i \in 1..Len(Front(q)) : Front(q)[i] = q[i]
<1> DEFINE n == Len(q) - 1
<1>1. n \in Nat /\ \A i \in 1..n : q[i] \in S
  OBVIOUS
<1>2. Front(q) = SubSeq(q, 1, n)
  BY DEF Front
<1>3. 1 \in Int /\ n \in Int
  BY <1>1
<1> HIDE DEF n
<1>4. /\ SubSeq(q, 1, n) \in Seq(S)
      /\ Len(SubSeq(q, 1, n)) = IF 1 <= n THEN n - 1 + 1 ELSE 0
      /\ \A i \in 1..(n - 1 + 1) : SubSeq(q, 1, n)[i] = q[1 + i - 1]
  BY <1>1, <1>3, SubSeqProperties
<1>5. Len(Front(q)) = n /\ \A i \in 1..n : Front(q)[i] = q[i]
  BY <1>1, <1>2, <1>4
<1> QED
  BY <1>2, <1>4, <1>5 DEF n

\* The call returns to its caller.
LEMMA ReturnKeeps ==
  ASSUME IndInv, NEW r \in Results, Return(r),
         IdsKept,
         heap' \in [Pids' -> FitPages(Pids')], root' \in Pids'
  PROVE  IndInv'
<1>1. nextPid' \in Nat \ {0} /\ Pids' \subseteq 0..(nextPid' - 1) /\ 0 \in Pids'
  BY IdsFacts DEF IndInv
<1>2. /\ pc' = "idle" /\ result' = r /\ call' = NoCall /\ key' = 0
      /\ path' = <<>> /\ child' = NoPid /\ split' = NoSplit
  BY DEF Return
<1>3. split' \in [elem : Entries, pid : Pids' \cup {NoPid}]
  BY <1>2, ZeroEntryType DEF NoSplit
<1>4. TypeOK' /\ SlotsFit'
  BY <1>1, <1>2, <1>3, Reassemble, ParameterAssumption DEF Phases
<1>5. FramesInner' /\ FrameInputs'
  BY <1>2 DEF FramesInner, FrameInputs
<1> QED
  BY <1>4, <1>5 DEF IndInv

\* A frame returns to the one below it.
LEMMA ReturnToKeeps ==
  ASSUME IndInv, path # <<>>, pc \in {"down", "up"},
         NEW c, NEW s \in [elem : Entries, pid : Pids' \cup {NoPid}], ReturnTo(c, s),
         \/ call.op = "Insert" /\ s.pid \in Pids' /\ c = NoPid
         \/ call.op = "Remove" /\ c \in Pids /\ Len(path) > 1,
         IdsKept,
         heap' \in [Pids' -> FitPages(Pids')],
         \A pid \in Pids : heap'[pid].kind = heap[pid].kind
  PROVE  IndInv'
<1>1. /\ path \in Seq(Pids) /\ root \in Pids
      /\ call \in Calls \cup {NoCall} /\ key \in Keys /\ result \in Results
  BY DEF IndInv, TypeOK
<1>11. nextPid' \in Nat \ {0} /\ Pids' \subseteq 0..(nextPid' - 1) /\ 0 \in Pids'
  BY IdsFacts DEF IndInv
<1>2. /\ pc' = "up" /\ path' = Front(path) /\ child' = c /\ split' = s
      /\ root' = root /\ call' = call /\ key' = key /\ result' = result
  BY DEF ReturnTo
<1>3. Pids \subseteq Pids' /\ Seq(Pids) \subseteq Seq(Pids')
  BY PidsGrow
<1>4. /\ path' \in Seq(Pids) /\ Len(path') = Len(path) - 1
      /\ \A i \in 1..Len(path') : path'[i] = path[i]
  BY <1>1, <1>2, FrontFacts
<1>5. root' \in Pids' /\ path' \in Seq(Pids') /\ child' \in Pids' \cup {NoPid}
  BY <1>1, <1>2, <1>3, <1>4
<1>6. pc' \in Phases
  BY <1>2 DEF Phases
<1>7. TypeOK' /\ SlotsFit'
  BY <1>1, <1>11, <1>2, <1>5, <1>6, Reassemble
<1>8. ASSUME NEW i \in 1..Len(path') PROVE heap'[path'[i]].kind # "leaf"
  <2>1. i \in 1..Len(path) /\ i < Len(path) /\ path[i] \in Pids /\ path'[i] = path[i]
    <3>1. Len(path) \in Nat /\ Len(path') = Len(path) - 1 /\ path'[i] = path[i]
      BY <1>1, <1>4
    <3> HIDE DEF Pids
    <3> QED BY <1>1, <3>1
  <2>2. heap[path[i]].kind # "leaf"
    BY <2>1 DEF IndInv, FramesInner, IsLeaf
  <2> QED
    BY <2>1, <2>2
<1>9. FramesInner'
  BY <1>8 DEF FramesInner, IsLeaf
<1>10. FrameInputs'
  BY <1>1, <1>2, <1>3, <1>4 DEF FrameInputs
<1> QED
  BY <1>7, <1>9, <1>10 DEF IndInv

\* A frame calls another one on a child.
LEMMA DescendKeeps ==
  ASSUME IndInv, pc = "down", path # <<>>, ~IsLeaf(Cur), NEW pid \in Pids,
         path' = Append(path, pid), nextPid' = nextPid, heap' \in [Pids -> FitPages(Pids)],
         \A q \in Pids : heap'[q].kind = heap[q].kind,
         key' \in Keys, UNCHANGED <<root, pc, call, child, split, result>>
  PROVE  IndInv'
<1>1. Pids' = Pids /\ IdsKept /\ nextPid \in Nat \ {0}
      /\ Pids \subseteq 0..(nextPid - 1) /\ 0 \in Pids
  BY DEF Pids, IdsKept, IndInv, TypeOK
<1>2. /\ nextPid \in Nat \ {0} /\ path \in Seq(Pids) /\ root \in Pids /\ pc \in Phases
      /\ call \in Calls \cup {NoCall} /\ result \in Results
      /\ child \in Pids \cup {NoPid} /\ split \in [elem : Entries, pid : Pids \cup {NoPid}]
  BY DEF IndInv, TypeOK
<1>3. /\ path' \in Seq(Pids) /\ Len(path') = Len(path) + 1 /\ path' # <<>>
      /\ \A i \in 1..Len(path) : path'[i] = path[i] /\ path[i] \in Pids
  BY <1>2
<1>4. TypeOK' /\ SlotsFit'
  BY <1>1, <1>2, <1>3, Reassemble
<1>5. ASSUME NEW i \in 1..Len(path) PROVE heap[path[i]].kind # "leaf"
  <2>1. CASE i < Len(path)
    BY <2>1 DEF IndInv, FramesInner, IsLeaf
  <2>2. CASE i = Len(path)
    BY <2>2 DEF Cur, Last, IsLeaf
  <2> QED
    BY <1>2, <2>1, <2>2
<1>6. FramesInner'
  <2>1. ASSUME NEW i \in 1..Len(path'), i < Len(path') PROVE heap'[path'[i]].kind # "leaf"
    <3>1. i \in 1..Len(path)
      BY <1>2, <1>3, <2>1
    <3> QED
      BY <3>1, <1>3, <1>5
  <2> QED
    BY <2>1 DEF FramesInner, IsLeaf, IndInv
<1>7. FrameInputs'
  BY <1>1, <1>3 DEF IndInv, FrameInputs
<1> QED
  BY <1>4, <1>6, <1>7 DEF IndInv

-----------------------------------------------------------------------------
\* Going down, Get and Update.

\* The parts of the invariant every step uses.
LEMMA HeapTypes ==
  ASSUME IndInv
  PROVE  /\ nextPid \in Nat \ {0} /\ nextPid \in Nat /\ 0 \in Pids /\ root \in Pids
         /\ heap \in [Pids -> FitPages(Pids)] /\ path \in Seq(Pids)
         /\ key \in Keys /\ call \in Calls \cup {NoCall}
         /\ split \in [elem : Entries, pid : Pids \cup {NoPid}]
         /\ pc = "down" => call \in Calls /\ path # <<>>
BY HeapFits DEF IndInv, TypeOK, FrameInputs

\* A call starts at the root.
LEMMA InvokeKeeps ==
  ASSUME IndInv, NEW c \in Calls, Invoke(c)
  PROVE  IndInv'
<1>1. /\ pc' = "down" /\ call' = c /\ key' = c.key /\ path' = <<root>> /\ result' = Pending
      /\ heap' = heap /\ nextPid' = nextPid /\ root' = root /\ child' = child /\ split' = split
  BY DEF Invoke
<1>2. /\ Pids' = Pids /\ Pids \subseteq 0..(nextPid - 1) /\ c.key \in Keys /\ Pending \in Results
      /\ child \in Pids \cup {NoPid}
  BY <1>1 DEF Pids, Calls, Results, IndInv, TypeOK
<1>3. path' \in Seq(Pids) /\ Len(path') = 1 /\ path' # <<>>
  BY <1>1, HeapTypes
<1>4. pc' \in Phases
  BY <1>1 DEF Phases
<1>5. TypeOK' /\ SlotsFit'
  BY <1>1, <1>2, <1>3, <1>4, HeapTypes, Reassemble
<1>6. FramesInner' /\ FrameInputs'
  BY <1>1, <1>3 DEF FramesInner, FrameInputs
<1> QED
  BY <1>5, <1>6 DEF IndInv

\* The key is not in an internal page: the search goes on in a child.
LEMMA GoDownKeeps ==
  ASSUME IndInv, GoDown
  PROVE  IndInv'
<1>1. pc = "down" /\ ~IsLeaf(Cur) /\ path # <<>>
  BY HeapTypes DEF GoDown
<1>2. Page \in InnerOver(Pids) /\ Page.size >= 1
  BY <1>1, CurPage
<1>3. InnerChild(Page, key) \in Pids
  BY <1>2, InnerSearchRange, InnerFields DEF InnerChild
<1>4. /\ path' = Append(path, InnerChild(Page, key)) /\ key' = key
      /\ UNCHANGED <<heap, nextPid, root, pc, call, child, split, result>>
  BY DEF GoDown
<1>5. key' \in Keys /\ heap' \in [Pids -> FitPages(Pids)]
      /\ \A q \in Pids : heap'[q].kind = heap[q].kind
  BY <1>4, HeapTypes
<1> QED
  BY <1>1, <1>3, <1>4, <1>5, DescendKeeps

\* A step that returns and leaves the heap and the root alone.
LEMMA ReturnUnchangedKeeps ==
  ASSUME IndInv, NEW r \in Results, Return(r), UNCHANGED <<heap, nextPid, root>>
  PROVE  IndInv'
<1>1. Pids' = Pids /\ IdsKept
  BY DEF Pids, IdsKept
<1> QED
  BY <1>1, HeapTypes, ReturnKeeps

\* A step that returns and writes pages without creating one.
LEMMA ReturnWritesKeeps ==
  ASSUME IndInv, NEW r \in Results, Return(r), UNCHANGED <<nextPid, root>>,
         heap' \in [Pids -> FitPages(Pids)]
  PROVE  IndInv'
<1>1. Pids' = Pids /\ IdsKept
  BY DEF Pids, IdsKept
<1> QED
  BY <1>1, HeapTypes, ReturnKeeps

\* What a call can return.
LEMMA ResultTypes ==
  /\ Done \in Results /\ Throw \in Results /\ NotFound \in Results
  /\ \A v \in Vals : Found(v) \in Results
BY DEF Results

\* Get returns a value that is in a page it has reached.
LEMMA GetKeeps ==
  ASSUME IndInv, GetAtInner \/ GetAtLeaf
  PROVE  IndInv'
<1>1. CASE GetAtInner
  <2>1. path # <<>> /\ ~IsLeaf(Cur) /\ InnerHolds(Page, key)
    BY <1>1, HeapTypes DEF GetAtInner, AtInner
  <2>2. Page \in InnerOver(Pids) /\ Page.size >= 1
    BY <2>1, CurPage
  <2>3. InnerValue(Page, key) \in Vals
    BY <2>1, <2>2, InnerSearchRange, InnerFields DEF InnerValue, Entries
  <2> QED
    BY <1>1, <2>3, ResultTypes, ReturnUnchangedKeeps DEF GetAtInner
<1>2. CASE GetAtLeaf
  <2>1. path # <<>> /\ IsLeaf(Cur)
    BY <1>2, HeapTypes DEF GetAtLeaf, AtLeaf
  <2>2. Page \in LeafPages
    BY <2>1, CurPage
  <2>3. LeafHolds(Page, key) => LeafValue(Page, key) \in Vals
    BY <2>2, LeafSearchRange, LeafFields DEF LeafValue, Entries
  <2>4. (IF LeafHolds(Page, key) THEN Found(LeafValue(Page, key)) ELSE NotFound) \in Results
    BY <2>3, ResultTypes
  <2> QED
    BY <1>2, <2>4, ReturnUnchangedKeeps DEF GetAtLeaf
<1> QED
  BY <1>1, <1>2

\* What a call carries.
LEMMA CallTypes ==
  ASSUME NEW c \in Calls
  PROVE  c.op \in {"Insert", "Update", "Get", "Remove"} /\ c.key \in Keys /\ c.val \in Vals
BY ParameterAssumption DEF Calls

\* Update writes one live slot.
LEMMA UpdateKeeps ==
  ASSUME IndInv, UpdateAtInner \/ UpdateAtLeaf
  PROVE  IndInv'
<1>1. pc = "down" /\ path # <<>> /\ call.val \in Vals
  BY HeapTypes, CallTypes DEF UpdateAtInner, UpdateAtLeaf, AtInner, AtLeaf
<1>2. CASE UpdateAtInner
  <2>1. ~IsLeaf(Cur) /\ InnerHolds(Page, key)
    BY <1>2 DEF UpdateAtInner, AtInner
  <2>2. Cur \in Pids /\ Page \in InnerOver(Pids) /\ Page.size \in 1..(InnerMax - 1)
    BY <1>1, <2>1, CurPage
  <2>3. InnerAssign(Page, key, call.val) \in FitPages(Pids)
    BY <1>1, <2>1, <2>2, InnerAssignType, FitInner
  <2>4. heap' = [heap EXCEPT ![Cur] = InnerAssign(Page, key, call.val)]
    BY <1>2 DEF UpdateAtInner, Page
  <2>5. heap' \in [Pids -> FitPages(Pids)]
    BY <2>2, <2>3, <2>4, HeapTypes
  <2> QED
    BY <1>2, <2>5, ResultTypes, ReturnWritesKeeps DEF UpdateAtInner
<1>3. CASE UpdateAtLeaf
  <2>1. IsLeaf(Cur)
    BY <1>3 DEF UpdateAtLeaf, AtLeaf
  <2>2. Cur \in Pids /\ Page \in LeafPages /\ Page.size \in 0..(LeafMax - 1)
    BY <1>1, <2>1, CurPage
  <2>3. LeafHolds(Page, key) => LeafAssign(Page, key, call.val) \in FitPages(Pids)
    BY <1>1, <2>2, LeafAssignType, FitLeaf
  <2>4. heap' = IF LeafHolds(Page, key)
                THEN [heap EXCEPT ![Cur] = LeafAssign(Page, key, call.val)] ELSE heap
    BY <1>3 DEF UpdateAtLeaf, Page
  <2>5. heap' \in [Pids -> FitPages(Pids)]
    BY <2>2, <2>3, <2>4, HeapTypes
  <2> QED
    BY <1>3, <2>5, ResultTypes, ReturnWritesKeeps DEF UpdateAtLeaf
<1> QED
  BY <1>2, <1>3

-----------------------------------------------------------------------------
\* Insert

\* Creating a page uses one id.
LEMMA CreateIds ==
  ASSUME NEW h, DOMAIN h = Pids, NEW p, Create(h, p)
  PROVE  IdsKept /\ Pids' = Pids \cup {nextPid}
BY DEF Create, IdsKept, Pids

\* A step that splits the current page and creates the other half.
LEMMA CreateFits ==
  ASSUME IndInv, NEW h \in [Pids -> FitPages(Pids)], NEW p \in FitPages(Pids'), Create(h, p)
  PROVE  /\ IdsKept /\ nextPid \in Pids' /\ Pids \subseteq Pids'
         /\ heap' \in [Pids' -> FitPages(Pids')]
         /\ \A pid \in Pids : heap'[pid] = h[pid]
<1>1. nextPid' = nextPid + 1
      /\ heap' = [pid \in Pids \cup {nextPid} |-> IF pid = nextPid THEN p ELSE h[pid]]
  BY DEF Create
<1>2. Pids' = Pids \cup {nextPid} /\ IdsKept
  BY CreateIds
<1>3. IdsKept
  BY <1>2
<1>4. Pids \subseteq Pids' /\ FitPages(Pids) \subseteq FitPages(Pids')
  BY <1>3, PidsGrow
<1>5. nextPid \notin Pids
  <2>1. nextPid \in Nat /\ Pids \subseteq 0..(nextPid - 1)
    BY DEF IndInv, TypeOK
  <2> HIDE DEF Pids
  <2> QED BY <2>1
<1> QED
  BY <1>1, <1>2, <1>3, <1>4, <1>5

\* A split leaves this page its lower half and creates the upper one.
LEMMA SplitKeeps ==
  ASSUME IndInv, pc \in {"down", "up"}, path # <<>>, call.op = "Insert",
         NEW lower \in FitPages(Pids), lower.kind = Page.kind, NEW e \in Entries,
         NEW upper \in FitPages(Pids'),
         Create([heap EXCEPT ![Cur] = lower], upper),
         ReturnTo(NoPid, [elem |-> e, pid |-> nextPid])
  PROVE  IndInv'
<1> DEFINE h == [heap EXCEPT ![Cur] = lower]
           s == [elem |-> e, pid |-> nextPid]
<1>1. Cur \in Pids /\ Page = heap[Cur]
  BY CurPage
<1>2. h \in [Pids -> FitPages(Pids)] /\ \A pid \in Pids : h[pid].kind = heap[pid].kind
  BY <1>1, HeapTypes
<1> HIDE DEF h
<1>3. Create(h, upper)
  BY DEF h
<1>4. /\ IdsKept /\ nextPid \in Pids' /\ Pids \subseteq Pids'
      /\ heap' \in [Pids' -> FitPages(Pids')]
      /\ \A pid \in Pids : heap'[pid] = h[pid]
  BY <1>2, <1>3, CreateFits
<1>5. s \in [elem : Entries, pid : Pids' \cup {NoPid}] /\ s.pid \in Pids'
  BY <1>4
<1> HIDE DEF s
<1>6. ReturnTo(NoPid, s)
  BY DEF s
<1>7. \A pid \in Pids : heap'[pid].kind = heap[pid].kind
  BY <1>2, <1>4
<1> QED
  BY <1>4, <1>5, <1>6, <1>7, ReturnToKeeps

\* Insert at the leaf.
LEMMA LeafInsertKeeps ==
  ASSUME IndInv, LeafInsertFits \/ LeafInsertSplits
  PROVE  IndInv'
<1> DEFINE e == <<key, call.val>>
           leaf == LeafPlace(Page, e)
<1>1. pc = "down" /\ path # <<>> /\ IsLeaf(Cur) /\ call.op = "Insert" /\ call.val \in Vals
  BY HeapTypes, CallTypes DEF LeafInsertFits, LeafInsertSplits, AtLeaf
<1>2. Cur \in Pids /\ Page \in LeafPages /\ Page.size \in 0..(LeafMax - 1)
  BY <1>1, CurPage
<1>3. e \in Entries /\ Page.size < LeafMax
  BY <1>1, <1>2, HeapTypes, ParameterAssumption DEF Entries
<1> HIDE DEF e
<1>4. leaf \in LeafPages /\ leaf.size = Page.size + 1
  BY <1>2, <1>3, LeafPlaceType
<1> HIDE DEF leaf
<1>5. CASE LeafInsertFits
  <2>1. ~LeafFull(leaf) /\ heap' = [heap EXCEPT ![Cur] = leaf]
    BY <1>5 DEF LeafInsertFits, leaf, e
  <2>2. leaf \in FitPages(Pids)
    BY <1>2, <1>4, <2>1, ParameterAssumption, FitLeaf DEF LeafFull
  <2>3. heap' \in [Pids -> FitPages(Pids)]
    BY <1>2, <2>1, <2>2, HeapTypes
  <2> QED
    BY <1>5, <2>3, ResultTypes, ReturnWritesKeeps DEF LeafInsertFits
<1>6. CASE LeafInsertSplits
  <2>1. /\ LeafFull(leaf)
        /\ Create([heap EXCEPT ![Cur] = LeafLower(leaf)], LeafUpper(leaf))
        /\ ReturnTo(NoPid, [elem |-> LeafMiddle(leaf), pid |-> nextPid])
    BY <1>6 DEF LeafInsertSplits, leaf, e
  <2>2. leaf.size = LeafMax
    BY <1>2, <1>4, <2>1, ParameterAssumption DEF LeafFull
  <2>3. /\ LeafLower(leaf) \in FitPages(Pids) /\ LeafLower(leaf).kind = Page.kind
        /\ LeafUpper(leaf) \in FitPages(Pids') /\ LeafMiddle(leaf) \in Entries
    BY <1>2, <1>4, <2>2, LeafSplitTypes, FitLeaf, LeafFields
  <2> QED
    BY <1>1, <2>1, <2>3, SplitKeeps
<1> QED
  BY <1>5, <1>6

\* Insert in an internal page whose child split.
LEMMA InnerInsertKeeps ==
  ASSUME IndInv, InnerInsertFits \/ InnerInsertSplits
  PROVE  IndInv'
<1> DEFINE inner == InnerPlace(Page, split.elem, split.pid)
<1>1. pc = "up" /\ path # <<>> /\ call.op = "Insert"
  BY DEF InnerInsertFits, InnerInsertSplits
<1>2. ~IsLeaf(Cur) /\ Len(path) \in Nat
  BY <1>1, CurPage DEF IndInv, FramesInner, Cur, Last
<1>3. Cur \in Pids /\ Page \in InnerOver(Pids) /\ Page.size \in 1..(InnerMax - 1)
  BY <1>1, <1>2, CurPage
<1>4. split.elem \in Entries /\ split.pid \in Pids
  BY <1>1, HeapTypes DEF IndInv, FrameInputs
<1>5. inner \in InnerOver(Pids) /\ inner.size = Page.size + 1
  BY <1>3, <1>4, ParameterAssumption, InnerPlaceType
<1> HIDE DEF inner
<1>6. CASE InnerInsertFits
  <2>1. ~InnerFull(inner) /\ heap' = [heap EXCEPT ![Cur] = inner]
    BY <1>6 DEF InnerInsertFits, inner
  <2>2. inner \in FitPages(Pids)
    BY <1>3, <1>5, <2>1, ParameterAssumption, FitInner DEF InnerFull
  <2>3. heap' \in [Pids -> FitPages(Pids)]
    BY <1>3, <2>1, <2>2, HeapTypes
  <2> QED
    BY <1>6, <2>3, ResultTypes, ReturnWritesKeeps DEF InnerInsertFits
<1>7. CASE InnerInsertSplits
  <2>1. /\ InnerFull(inner)
        /\ Create([heap EXCEPT ![Cur] = InnerLower(inner)], InnerUpper(inner))
        /\ ReturnTo(NoPid, [elem |-> InnerMiddle(inner), pid |-> nextPid])
    BY <1>7 DEF InnerInsertSplits, inner
  <2>2. inner.size = InnerMax
    BY <1>3, <1>5, <2>1, ParameterAssumption DEF InnerFull
  <2>3. /\ InnerLower(inner) \in FitPages(Pids) /\ InnerLower(inner).kind = Page.kind
        /\ InnerUpper(inner) \in FitPages(Pids) /\ InnerMiddle(inner) \in Entries
    BY <1>3, <1>5, <2>2, HeapTypes, InnerSplitTypes, FitInner, InnerFields
  <2>4. InnerUpper(inner) \in FitPages(Pids')
    BY <2>1, <2>3, HeapTypes, PidsGrow DEF Create
  <2> QED
    BY <1>1, <2>1, <2>3, <2>4, SplitKeeps
<1> QED
  BY <1>6, <1>7

\* The root split.
LEMMA GrowRootKeeps ==
  ASSUME IndInv, GrowRoot
  PROVE  IndInv'
<1> DEFINE p == NewRoot(split.elem, root, split.pid)
<1>1. /\ Create(heap, p) /\ root' = nextPid /\ Return(Done)
      /\ pc = "up" /\ call.op = "Insert"
  BY DEF GrowRoot
<1>2. split.elem \in Entries /\ split.pid \in Pids
  BY <1>1, HeapTypes DEF IndInv, FrameInputs
<1>3. p \in InnerOver(Pids) /\ p.size = 2
  BY <1>2, HeapTypes, NewRootType
<1> HIDE DEF p
<1>4. p \in FitPages(Pids)
  BY <1>3, ParameterAssumption, FitInner
<1>5. p \in FitPages(Pids')
  <2>1. DOMAIN heap = Pids
    BY DEF Pids
  <2> QED BY <2>1, <1>1, <1>4, CreateIds, PidsGrow
<1>6. IdsKept /\ nextPid \in Pids' /\ heap' \in [Pids' -> FitPages(Pids')]
  BY <1>1, <1>5, HeapTypes, CreateFits
<1> QED
  BY <1>1, <1>6, ResultTypes, ReturnKeeps

-----------------------------------------------------------------------------
\* Remove, going down

\* The program stops inside a call.
LEMMA StopKeeps ==
  ASSUME IndInv, NEW how \in {"aborted", "undefined"}, Stop(how)
  PROVE  IndInv'
<1>1. /\ pc' = how
      /\ UNCHANGED <<heap, nextPid, root, call, key, path, child, split, result>>
  BY DEF Stop
<1>2. TypeOK' /\ SlotsFit'
  BY <1>1 DEF IndInv, TypeOK, SlotsFit, Phases, Pids, IsLeaf
<1>3. FramesInner' /\ FrameInputs'
  BY <1>1 DEF IndInv, FramesInner, FrameInputs, IsLeaf
<1> QED
  BY <1>2, <1>3 DEF IndInv

\* A separator is replaced by the first entry of the child on its right.
LEMMA RemoveAtInnerKeeps ==
  ASSUME IndInv, RemoveAtInner
  PROVE  IndInv'
<1> DEFINE i == InnerSearch(Page, key)
           below == Page.pids[i]
           e == FirstElem(heap[below])
<1>1. pc = "down" /\ path # <<>> /\ ~IsLeaf(Cur) /\ InnerHolds(Page, key)
  BY HeapTypes DEF RemoveAtInner, AtInner
<1>2. /\ Cur \in Pids /\ Page = heap[Cur]
      /\ Page \in InnerOver(Pids) /\ Page.size \in 1..(InnerMax - 1)
  BY <1>1, CurPage
<1>3. /\ heap' = [heap EXCEPT ![Cur] = InnerSetEntry(Page, i, e)]
      /\ key' = e[1] /\ path' = Append(path, below)
      /\ UNCHANGED <<nextPid, root, pc, call, child, split, result>>
  BY DEF RemoveAtInner, Page
<1>4. i \in InnerSlots
  BY <1>1, <1>2, InnerSearchRange
<1> HIDE DEF i
<1>5. below \in Pids
  BY <1>2, <1>4, InnerFields
<1>6. heap[below] \in FitPages(Pids)
  BY <1>5, HeapTypes
<1> HIDE DEF below
<1>7. e \in Entries
  <2> DEFINE p == heap[below]
  <2>1. CASE p.kind = "leaf"
    <3>1. p \in LeafPages /\ 0 \in LeafSlots
      BY <1>6, <2>1, FitCases, ParameterAssumption DEF LeafSlots
    <3> QED
      BY <2>1, <3>1, LeafFields DEF FirstElem, LeafFirst
  <2>2. CASE p.kind # "leaf"
    <3>1. p \in InnerOver(Pids) /\ p.size >= 1
      BY <1>6, <2>2, FitCases
    <3> QED
      BY <2>2, <3>1, InnerEnds DEF FirstElem
  <2> QED
    BY <2>1, <2>2
<1> HIDE DEF e
<1>8. InnerSetEntry(Page, i, e) \in FitPages(Pids) /\ InnerSetEntry(Page, i, e).kind = Page.kind
  BY <1>2, <1>7, InnerSetEntryType, FitInner, InnerFields
<1>9. /\ heap' \in [Pids -> FitPages(Pids)]
      /\ \A q \in Pids : heap'[q].kind = heap[q].kind
  BY <1>2, <1>3, <1>8, HeapTypes
<1>10. key' \in Keys
  BY <1>3, <1>7 DEF Entries
<1> QED
  BY <1>1, <1>3, <1>5, <1>9, <1>10, DescendKeeps

\* The leaf after the removal.
LEMMA ErasedType ==
  ASSUME IndInv, AtLeaf("Remove"), LeafHolds(Page, key)
  PROVE  /\ path # <<>> /\ IsLeaf(Cur) /\ Cur \in Pids /\ Erased \in LeafPages
         /\ Erased.size \in 0..(LeafMax - 2) /\ Erased \in FitPages(Pids)
<1>1. path # <<>> /\ IsLeaf(Cur)
  BY HeapTypes DEF AtLeaf
<1>2. Cur \in Pids /\ Page \in LeafPages /\ Page.size \in 0..(LeafMax - 1)
  BY <1>1, CurPage
<1>3. Erased \in LeafPages /\ Erased.size = Page.size - 1 /\ Page.size >= 1
  BY <1>2, LeafEraseType DEF Erased
<1>4. Erased.size \in 0..(LeafMax - 2) /\ Erased.size \in 0..(LeafMax - 1)
  BY <1>2, <1>3, ParameterAssumption
<1> QED
  BY <1>1, <1>2, <1>3, <1>4, FitLeaf

\* The steps that end a call without borrowing or merging.
LEMMA RemoveEndsKeeps ==
  ASSUME IndInv, RemoveMiss \/ RemoveMissBelowInner \/ RemoveFromLeaf \/ NoSibling
                 \/ InsertDuplicate
  PROVE  IndInv'
<1>1. CASE RemoveMiss
  BY <1>1, ResultTypes, ReturnUnchangedKeeps DEF RemoveMiss
<1>2. CASE RemoveMissBelowInner
  BY <1>2, StopKeeps DEF RemoveMissBelowInner
<1>3. CASE RemoveFromLeaf
  <2>1. Cur \in Pids /\ Erased \in FitPages(Pids)
    BY <1>3, ErasedType DEF RemoveFromLeaf
  <2>2. heap' = [heap EXCEPT ![Cur] = Erased]
    BY <1>3 DEF RemoveFromLeaf
  <2>3. heap' \in [Pids -> FitPages(Pids)]
    BY <2>1, <2>2, HeapTypes
  <2> QED
    BY <1>3, <2>3, ResultTypes, ReturnWritesKeeps DEF RemoveFromLeaf
<1>4. CASE NoSibling
  BY <1>4, StopKeeps DEF NoSibling
<1>5. CASE InsertDuplicate
  <2>1. (IF Len(path) = 1 THEN Done ELSE Throw) \in Results
    BY ResultTypes
  <2> QED
    BY <1>5, <2>1, ReturnUnchangedKeeps DEF InsertDuplicate
<1> QED
  BY <1>1, <1>2, <1>3, <1>4, <1>5

-----------------------------------------------------------------------------
\* Remove, borrowing and merging

\* The page, its sibling and their parent are three pages: writing them
\* is writing each once.
LEMMA ThreeWrites ==
  ASSUME NEW P, NEW F, NEW h \in [P -> F], NEW a \in P, NEW b \in P, NEW c \in P,
         a # b, a # c, b # c, NEW x \in F, NEW y \in F, NEW z \in F
  PROVE  /\ [h EXCEPT ![a] = x, ![b] = y, ![c] = z] \in [P -> F]
         /\ x.kind = h[a].kind /\ y.kind = h[b].kind /\ z.kind = h[c].kind
            => \A q \in P : [h EXCEPT ![a] = x, ![b] = y, ![c] = z][q].kind = h[q].kind
<1> DEFINE g == [h EXCEPT ![a] = x, ![b] = y, ![c] = z]
<1>1. /\ g \in [P -> F] /\ g[a] = x /\ g[b] = y /\ g[c] = z
      /\ \A q \in P \ {a, b, c} : g[q] = h[q]
  OBVIOUS
<1> HIDE DEF g
<1> SUFFICES /\ g \in [P -> F]
             /\ x.kind = h[a].kind /\ y.kind = h[b].kind /\ z.kind = h[c].kind
                => \A q \in P : g[q].kind = h[q].kind
  BY DEF g
<1> QED
  BY <1>1

\* The three pages of a borrow or a merge, and what becomes of the parent.
LEMMA UnderflowPages ==
  ASSUME IndInv, LeafUnderflow \/ InnerUnderflow, HasSibling
  PROVE  /\ path # <<>> /\ Len(path) > 1 /\ Cur \in Pids /\ Parent \in Pids /\ Sib \in Pids
         /\ Parent # Cur /\ Sib # Cur /\ Sib # Parent
         /\ Sep \in Entries /\ SepIdx \in Nat
         /\ heap[Parent] \in InnerOver(Pids) /\ heap[Parent].kind = "inner"
         /\ \A e \in Entries : /\ InnerSetEntry(heap[Parent], SepIdx, e) \in FitPages(Pids)
                               /\ InnerSetEntry(heap[Parent], SepIdx, e).kind = "inner"
         /\ InnerDrop(heap[Parent], SepIdx) \in FitPages(Pids)
         /\ InnerDrop(heap[Parent], SepIdx).kind = "inner"
<1>1. Len(path) > 1
  BY DEF LeafUnderflow, InnerUnderflow
<1>2. /\ path # <<>> /\ Parent \in Pids /\ heap[Parent] \in InnerOver(Pids)
      /\ heap[Parent].size \in 1..(InnerMax - 1)
  BY <1>1, ParentPage
<1>3. Cur \in Pids
  BY <1>2, CurPage
<1>4. /\ Sib \in Pids /\ Sep \in Entries /\ SepIdx \in Nat /\ heap[Parent].size >= 2
      /\ Parent # Cur /\ Sib # Cur /\ Sib # Parent
  BY <1>1, SiblingPage
<1>5. ASSUME NEW e \in Entries
      PROVE  /\ InnerSetEntry(heap[Parent], SepIdx, e) \in FitPages(Pids)
             /\ InnerSetEntry(heap[Parent], SepIdx, e).kind = "inner"
  BY <1>2, InnerSetEntryType, FitInner
<1>6. InnerDrop(heap[Parent], SepIdx) \in InnerOver(Pids)
      /\ InnerDrop(heap[Parent], SepIdx).size \in 1..(InnerMax - 1)
  BY <1>2, <1>4, InnerDropType, ParameterAssumption
<1> QED
  BY <1>1, <1>2, <1>3, <1>4, <1>5, <1>6, FitInner, InnerFields

\* How many entries the two leaves have.
LEMMA LeafUnderflowSizes ==
  ASSUME IndInv, LeafUnderflow, HasSibling
  PROVE  /\ pc = "down" /\ call.op = "Remove" /\ IsLeaf(Cur)
         /\ Erased \in LeafPages /\ Erased.size \in 0..(MinSize(LeafMax) - 1)
         /\ heap[Sib] \in LeafPages /\ heap[Sib].size \in 0..(LeafMax - 1)
         /\ MinSize(LeafMax) \in Nat /\ 2 * MinSize(LeafMax) <= LeafMax - 1 /\ LeafMax \in Nat
<1>1. AtLeaf("Remove") /\ LeafHolds(Page, key) /\ LeafPoor(Erased) /\ Len(path) > 1
  BY DEF LeafUnderflow
<1>2. IsLeaf(Cur) /\ Erased \in LeafPages
  BY <1>1, ErasedType
<1>3. heap[Sib] \in LeafPages /\ heap[Sib].size \in 0..(LeafMax - 1)
  BY <1>1, <1>2, SiblingPage
<1>4. MinSize(LeafMax) \in Nat /\ 2 * MinSize(LeafMax) <= LeafMax - 1
  BY ParameterAssumption, MinSizeBound
<1>5. Erased.size \in 0..(MinSize(LeafMax) - 1)
  BY <1>1, <1>2, <1>4, LeafFields DEF LeafPoor
<1> QED
  BY <1>1, <1>2, <1>3, <1>4, <1>5, ParameterAssumption DEF AtLeaf

\* A leaf that lends has more than the minimum and one that borrows has less.
LEMMA LeafBorrowKeeps ==
  ASSUME IndInv, LeafBorrowRight \/ LeafBorrowLeft
  PROVE  IndInv'
<1> DEFINE sib == heap[Sib]
           par == heap[Parent]
<1>1. LeafUnderflow /\ HasSibling /\ sib.size > MinSize(LeafMax)
  BY DEF LeafBorrowRight, LeafBorrowLeft, LeafLends
<1>2. /\ Erased \in LeafPages /\ Erased.size \in 0..(MinSize(LeafMax) - 1)
      /\ sib \in LeafPages /\ sib.size \in 0..(LeafMax - 1) /\ LeafMax \in Nat
      /\ MinSize(LeafMax) \in Nat /\ 2 * MinSize(LeafMax) <= LeafMax - 1
  BY <1>1, LeafUnderflowSizes
<1>3. /\ Cur \in Pids /\ Parent \in Pids /\ Sib \in Pids
      /\ Parent # Cur /\ Sib # Cur /\ Sib # Parent /\ Sep \in Entries
      /\ \A e \in Entries : InnerSetEntry(par, SepIdx, e) \in FitPages(Pids)
  BY <1>1, UnderflowPages
<1>4. heap \in [Pids -> FitPages(Pids)]
  BY HeapTypes
<1>5. sib.size >= 1 /\ Erased.size < LeafMax
  BY <1>1, <1>2
<1>6. /\ LeafPopFront(sib) \in FitPages(Pids) /\ LeafPopBack(sib) \in FitPages(Pids)
      /\ LeafFirst(sib) \in Entries /\ LeafLast(sib) \in Entries
  <2>1. sib.size - 1 \in 0..(LeafMax - 1)
    BY <1>2, <1>5
  <2> QED
    BY <1>2, <1>5, <2>1, LeafPopTypes, FitLeaf
<1>7. LeafPushBack(Erased, Sep) \in FitPages(Pids) /\ LeafPushFront(Erased, Sep) \in FitPages(Pids)
  <2>1. Erased.size + 1 \in 0..(LeafMax - 1)
    BY <1>2
  <2> QED
    BY <1>2, <1>3, <1>5, <2>1, LeafPushTypes, FitLeaf
<1>8. CASE LeafBorrowRight
  <2>1. heap' = [heap EXCEPT ![Cur] = LeafPushBack(Erased, Sep),
                             ![Sib] = LeafPopFront(sib),
                             ![Parent] = InnerSetEntry(par, SepIdx, LeafFirst(sib))]
    BY <1>3, <1>4, <1>8 DEF LeafBorrowRight
  <2>2. InnerSetEntry(par, SepIdx, LeafFirst(sib)) \in FitPages(Pids)
    BY <1>3, <1>6
  <2>3. heap' \in [Pids -> FitPages(Pids)]
    BY <1>3, <1>4, <1>6, <1>7, <2>1, <2>2, ThreeWrites
  <2> QED
    BY <1>8, <2>3, ResultTypes, ReturnWritesKeeps DEF LeafBorrowRight
<1>9. CASE LeafBorrowLeft
  <2>1. heap' = [heap EXCEPT ![Cur] = LeafPushFront(Erased, Sep),
                             ![Sib] = LeafPopBack(sib),
                             ![Parent] = InnerSetEntry(par, SepIdx, LeafLast(sib))]
    BY <1>3, <1>4, <1>9 DEF LeafBorrowLeft
  <2>2. InnerSetEntry(par, SepIdx, LeafLast(sib)) \in FitPages(Pids)
    BY <1>3, <1>6
  <2>3. heap' \in [Pids -> FitPages(Pids)]
    BY <1>3, <1>4, <1>6, <1>7, <2>1, <2>2, ThreeWrites
  <2> QED
    BY <1>9, <2>3, ResultTypes, ReturnWritesKeeps DEF LeafBorrowLeft
<1> QED
  BY <1>8, <1>9

\* A merge returns the current page to the frame below.
LEMMA MergeReturnKeeps ==
  ASSUME IndInv, pc \in {"down", "up"}, call.op = "Remove", Len(path) > 1,
         ReturnTo(Cur, NoSplit), nextPid' = nextPid, heap' \in [Pids -> FitPages(Pids)],
         \A q \in Pids : heap'[q].kind = heap[q].kind
  PROVE  IndInv'
<1>1. Pids' = Pids /\ IdsKept
  BY DEF Pids, IdsKept
<1>2. path # <<>> /\ Cur \in Pids
  BY ParentPage, CurPage
<1>3. NoSplit \in [elem : Entries, pid : Pids' \cup {NoPid}]
  BY ZeroEntryType DEF NoSplit
<1> QED
  BY <1>1, <1>2, <1>3, ReturnToKeeps

\* Two leaves at or below the minimum and their separator fit in one, and so does
\* the wrong count of the page merged away.
LEMMA LeafMergeKeeps ==
  ASSUME IndInv, LeafMergeRight \/ LeafMergeLeft
  PROVE  IndInv'
<1> DEFINE sib == heap[Sib]
           par == heap[Parent]
<1>1. LeafUnderflow /\ HasSibling /\ sib.size <= MinSize(LeafMax)
  BY DEF LeafMergeRight, LeafMergeLeft, LeafMerges
<1>2. /\ Erased \in LeafPages /\ Erased.size \in 0..(MinSize(LeafMax) - 1)
      /\ sib \in LeafPages /\ sib.size \in 0..(LeafMax - 1) /\ LeafMax \in Nat
      /\ MinSize(LeafMax) \in Nat /\ 2 * MinSize(LeafMax) <= LeafMax - 1
      /\ pc = "down" /\ call.op = "Remove" /\ IsLeaf(Cur)
  BY <1>1, LeafUnderflowSizes
<1>3. /\ Cur \in Pids /\ Parent \in Pids /\ Sib \in Pids /\ Len(path) > 1
      /\ Parent # Cur /\ Sib # Cur /\ Sib # Parent /\ Sep \in Entries
      /\ InnerDrop(par, SepIdx) \in FitPages(Pids)
      /\ InnerDrop(par, SepIdx).kind = "inner" /\ par.kind = "inner"
  BY <1>1, UnderflowPages
<1>4. heap \in [Pids -> FitPages(Pids)] /\ heap[Cur].kind = "leaf" /\ sib.kind = "leaf"
  BY <1>2, HeapTypes, LeafFields DEF IsLeaf
<1>5. CASE LeafMergeRight
  <2> DEFINE l == LeafAbsorb(Erased, Sep, sib)
             g == LeafGrow(l, sib.size)
  <2>1. l \in LeafPages /\ l.size = Erased.size + 1
    BY <1>1, <1>2, <1>3, LeafAbsorbType
  <2> HIDE DEF l
  <2>2. sib.size \in Nat /\ l.size + sib.size \in 0..(LeafMax - 1) /\ l.size + sib.size <= LeafMax
    BY <1>1, <1>2, <2>1
  <2>3. g \in LeafPages /\ g.size = l.size + sib.size
    BY <2>1, <2>2, LeafGrowType
  <2> HIDE DEF g
  <2>4. g \in FitPages(Pids) /\ g.kind = "leaf"
    BY <2>2, <2>3, FitLeaf
  <2>5. heap' = [heap EXCEPT ![Cur] = g, ![Sib] = sib, ![Parent] = InnerDrop(par, SepIdx)]
    <3>1. heap' = [heap EXCEPT ![Cur] = g, ![Parent] = InnerDrop(par, SepIdx)]
      BY <1>3, <1>4, <1>5 DEF LeafMergeRight, g, l
    <3> QED
      BY <1>3, <1>4, <3>1
  <2>6. heap' \in [Pids -> FitPages(Pids)] /\ \A q \in Pids : heap'[q].kind = heap[q].kind
    BY <1>3, <1>4, <2>4, <2>5, ThreeWrites
  <2> QED
    BY <1>2, <1>3, <1>5, <2>6, MergeReturnKeeps DEF LeafMergeRight
<1>6. CASE LeafMergeLeft
  <2> DEFINE g == LeafGrow(Erased, Erased.size)
             l == LeafAbsorb(sib, Sep, Erased)
  <2>1. /\ Erased.size \in Nat /\ Erased.size + Erased.size \in 0..(LeafMax - 1)
        /\ Erased.size + Erased.size <= LeafMax
        /\ sib.size + Erased.size + 1 <= LeafMax /\ sib.size + 1 \in 0..(LeafMax - 1)
    BY <1>1, <1>2
  <2>2. g \in LeafPages /\ g.size = Erased.size + Erased.size
    BY <1>2, <2>1, LeafGrowType
  <2>3. l \in LeafPages /\ l.size = sib.size + 1
    BY <1>2, <1>3, <2>1, LeafAbsorbType
  <2> HIDE DEF g, l
  <2>4. g \in FitPages(Pids) /\ l \in FitPages(Pids) /\ g.kind = "leaf" /\ l.kind = "leaf"
    BY <2>1, <2>2, <2>3, FitLeaf
  <2>5. heap' = [heap EXCEPT ![Cur] = g, ![Sib] = l, ![Parent] = InnerDrop(par, SepIdx)]
    BY <1>3, <1>4, <1>6 DEF LeafMergeLeft, g, l
  <2>6. heap' \in [Pids -> FitPages(Pids)] /\ \A q \in Pids : heap'[q].kind = heap[q].kind
    BY <1>3, <1>4, <2>4, <2>5, ThreeWrites
  <2> QED
    BY <1>2, <1>3, <1>6, <2>6, MergeReturnKeeps DEF LeafMergeLeft
<1> QED
  BY <1>5, <1>6

\* The page a merge returns to.
LEMMA InnerUpFacts ==
  ASSUME IndInv, pc = "up", Len(path) > 0
  PROVE  /\ path # <<>> /\ ~IsLeaf(Cur) /\ Page = heap[Cur] /\ Cur \in Pids
         /\ Page \in InnerOver(Pids) /\ Page.size \in 1..(InnerMax - 1)
<1>1. path # <<>> /\ Len(path) \in Nat
  BY HeapTypes
<1>2. ~IsLeaf(Cur)
  BY <1>1 DEF IndInv, FramesInner, Cur, Last
<1> QED
  BY <1>1, <1>2, CurPage

\* How many children the two internal pages have.
LEMMA InnerUnderflowSizes ==
  ASSUME IndInv, InnerUnderflow, HasSibling
  PROVE  /\ pc = "up" /\ call.op = "Remove" /\ heap[Cur] = Page
         /\ Page \in InnerOver(Pids) /\ Page.size \in 1..(MinSize(InnerMax) - 1)
         /\ heap[Sib] \in InnerOver(Pids) /\ heap[Sib].size \in 1..(InnerMax - 1)
         /\ MinSize(InnerMax) \in Nat /\ 2 * MinSize(InnerMax) <= InnerMax - 1 /\ InnerMax \in Nat
<1>1. pc = "up" /\ call.op = "Remove" /\ Len(path) > 1 /\ InnerPoor(Page)
  BY DEF InnerUnderflow
<1>2. ~IsLeaf(Cur) /\ Page = heap[Cur] /\ Page \in InnerOver(Pids) /\ Page.size \in 1..(InnerMax - 1)
  <2>1. Len(path) > 0
    BY <1>1, HeapTypes
  <2> QED
    BY <1>1, <2>1, InnerUpFacts
<1>3. heap[Sib] \in InnerOver(Pids) /\ heap[Sib].size \in 1..(InnerMax - 1)
  BY <1>1, <1>2, SiblingPage
<1>4. MinSize(InnerMax) \in Nat /\ 2 * MinSize(InnerMax) <= InnerMax - 1
  BY ParameterAssumption, MinSizeBound
<1>5. Page.size \in 1..(MinSize(InnerMax) - 1)
  BY <1>1, <1>2, <1>4 DEF InnerPoor
<1> QED
  BY <1>1, <1>2, <1>3, <1>4, <1>5, ParameterAssumption

\* As LeafBorrowKeeps.
LEMMA InnerBorrowKeeps ==
  ASSUME IndInv, InnerBorrowRight \/ InnerBorrowLeft
  PROVE  IndInv'
<1> DEFINE sib == heap[Sib]
           par == heap[Parent]
           first == sib.pids[0]
           last == sib.pids[sib.size - 1]
<1>1. InnerUnderflow /\ HasSibling /\ sib.size > MinSize(InnerMax)
  BY DEF InnerBorrowRight, InnerBorrowLeft, InnerLends
<1>2. /\ Page \in InnerOver(Pids) /\ Page.size \in 1..(MinSize(InnerMax) - 1) /\ heap[Cur] = Page
      /\ sib \in InnerOver(Pids) /\ sib.size \in 1..(InnerMax - 1) /\ InnerMax \in Nat
      /\ MinSize(InnerMax) \in Nat /\ 2 * MinSize(InnerMax) <= InnerMax - 1
  BY <1>1, InnerUnderflowSizes
<1>3. /\ Cur \in Pids /\ Parent \in Pids /\ Sib \in Pids
      /\ Parent # Cur /\ Sib # Cur /\ Sib # Parent /\ Sep \in Entries
      /\ \A e \in Entries : InnerSetEntry(par, SepIdx, e) \in FitPages(Pids)
  BY <1>1, UnderflowPages
<1>4. heap \in [Pids -> FitPages(Pids)]
  BY HeapTypes
<1>5. /\ sib.size >= 1 /\ Page.size < InnerMax
      /\ sib.size - 1 \in 1..(InnerMax - 1) /\ Page.size + 1 \in 1..(InnerMax - 1)
  BY <1>1, <1>2
<1>6. /\ InnerPopFront(sib) \in FitPages(Pids) /\ InnerPopBack(sib) \in FitPages(Pids)
      /\ InnerFirst(sib) \in Entries /\ InnerLast(sib) \in Entries
      /\ first \in Pids /\ last \in Pids
  BY <1>2, <1>5, InnerPopTypes, InnerEnds, FitInner
<1> HIDE DEF first, last
<1>7. /\ InnerPushBack(Page, Sep, first) \in FitPages(Pids)
      /\ InnerPushFront(Page, Sep, last) \in FitPages(Pids)
  <2>1. /\ InnerPushBack(Page, Sep, first) \in InnerOver(Pids)
        /\ InnerPushBack(Page, Sep, first).size = Page.size + 1
        /\ InnerPushFront(Page, Sep, last) \in InnerOver(Pids)
        /\ InnerPushFront(Page, Sep, last).size = Page.size + 1
    BY <1>2, <1>3, <1>5, <1>6, InnerPushTypes
  <2> QED
    BY <1>5, <2>1, FitInner
<1>8. CASE InnerBorrowRight
  <2>1. heap' = [heap EXCEPT ![Cur] = InnerPushBack(Page, Sep, first),
                             ![Sib] = InnerPopFront(sib),
                             ![Parent] = InnerSetEntry(par, SepIdx, InnerFirst(sib))]
    BY <1>2, <1>3, <1>4, <1>8 DEF InnerBorrowRight, first
  <2>2. InnerSetEntry(par, SepIdx, InnerFirst(sib)) \in FitPages(Pids)
    BY <1>3, <1>6
  <2>3. heap' \in [Pids -> FitPages(Pids)]
    BY <1>3, <1>4, <1>6, <1>7, <2>1, <2>2, ThreeWrites
  <2> QED
    BY <1>8, <2>3, ResultTypes, ReturnWritesKeeps DEF InnerBorrowRight
<1>9. CASE InnerBorrowLeft
  <2>1. heap' = [heap EXCEPT ![Cur] = InnerPushFront(Page, Sep, last),
                             ![Sib] = InnerPopBack(sib),
                             ![Parent] = InnerSetEntry(par, SepIdx, InnerLast(sib))]
    BY <1>2, <1>3, <1>4, <1>9 DEF InnerBorrowLeft, last
  <2>2. InnerSetEntry(par, SepIdx, InnerLast(sib)) \in FitPages(Pids)
    BY <1>3, <1>6
  <2>3. heap' \in [Pids -> FitPages(Pids)]
    BY <1>3, <1>4, <1>6, <1>7, <2>1, <2>2, ThreeWrites
  <2> QED
    BY <1>9, <2>3, ResultTypes, ReturnWritesKeeps DEF InnerBorrowLeft
<1> QED
  BY <1>8, <1>9

\* As LeafMergeKeeps; here the separator takes the place of the empty slot 0.
LEMMA InnerMergeKeeps ==
  ASSUME IndInv, InnerMergeRight \/ InnerMergeLeft
  PROVE  IndInv'
<1> DEFINE sib == heap[Sib]
           par == heap[Parent]
<1>1. InnerUnderflow /\ HasSibling /\ sib.size <= MinSize(InnerMax)
  BY DEF InnerMergeRight, InnerMergeLeft, InnerMerges
<1>2. /\ Page \in InnerOver(Pids) /\ Page.size \in 1..(MinSize(InnerMax) - 1) /\ heap[Cur] = Page
      /\ sib \in InnerOver(Pids) /\ sib.size \in 1..(InnerMax - 1) /\ InnerMax \in Nat
      /\ MinSize(InnerMax) \in Nat /\ 2 * MinSize(InnerMax) <= InnerMax - 1
      /\ pc = "up" /\ call.op = "Remove"
  BY <1>1, InnerUnderflowSizes
<1>3. /\ Cur \in Pids /\ Parent \in Pids /\ Sib \in Pids /\ Len(path) > 1
      /\ Parent # Cur /\ Sib # Cur /\ Sib # Parent /\ Sep \in Entries
      /\ InnerDrop(par, SepIdx) \in FitPages(Pids)
      /\ InnerDrop(par, SepIdx).kind = "inner" /\ par.kind = "inner"
  BY <1>1, UnderflowPages
<1>4. heap \in [Pids -> FitPages(Pids)] /\ heap[Cur].kind = "inner" /\ sib.kind = "inner"
  BY <1>2, HeapTypes, InnerFields
<1>5. CASE InnerMergeRight
  <2> DEFINE l == InnerAbsorb(Page, Sep, sib)
             g == InnerGrow(l, sib.size - 1)
  <2>1. sib.size >= 1 /\ Page.size + sib.size <= InnerMax
    BY <1>1, <1>2
  <2>2. l \in InnerOver(Pids) /\ l.size = Page.size + 1
    BY <1>2, <1>3, <2>1, InnerAbsorbType
  <2> HIDE DEF l
  <2>3. /\ sib.size - 1 \in Nat /\ l.size + (sib.size - 1) \in 1..(InnerMax - 1)
        /\ l.size + (sib.size - 1) <= InnerMax
    BY <1>1, <1>2, <2>2
  <2>4. g \in InnerOver(Pids) /\ g.size = l.size + (sib.size - 1)
    BY <2>2, <2>3, InnerGrowType
  <2> HIDE DEF g
  <2>5. g \in FitPages(Pids) /\ g.kind = "inner"
    BY <2>3, <2>4, FitInner
  <2>6. heap' = [heap EXCEPT ![Cur] = g, ![Sib] = sib, ![Parent] = InnerDrop(par, SepIdx)]
    <3>1. heap' = [heap EXCEPT ![Cur] = g, ![Parent] = InnerDrop(par, SepIdx)]
      BY <1>2, <1>3, <1>4, <1>5 DEF InnerMergeRight, g, l
    <3> QED
      BY <1>3, <1>4, <3>1
  <2>7. heap' \in [Pids -> FitPages(Pids)] /\ \A q \in Pids : heap'[q].kind = heap[q].kind
    BY <1>3, <1>4, <2>5, <2>6, ThreeWrites
  <2> QED
    BY <1>2, <1>3, <1>5, <2>7, MergeReturnKeeps DEF InnerMergeRight
<1>6. CASE InnerMergeLeft
  <2> DEFINE g == InnerGrow(Page, Page.size - 1)
             l == InnerAbsorb(sib, Sep, Page)
  <2>1. /\ Page.size - 1 \in Nat /\ Page.size + (Page.size - 1) \in 1..(InnerMax - 1)
        /\ Page.size + (Page.size - 1) <= InnerMax
        /\ Page.size >= 1 /\ sib.size + Page.size <= InnerMax /\ sib.size + 1 \in 1..(InnerMax - 1)
    BY <1>1, <1>2
  <2>2. g \in InnerOver(Pids) /\ g.size = Page.size + (Page.size - 1)
    BY <1>2, <2>1, InnerGrowType
  <2>3. l \in InnerOver(Pids) /\ l.size = sib.size + 1
    BY <1>2, <1>3, <2>1, InnerAbsorbType
  <2> HIDE DEF g, l
  <2>4. g \in FitPages(Pids) /\ l \in FitPages(Pids) /\ g.kind = "inner" /\ l.kind = "inner"
    BY <2>1, <2>2, <2>3, FitInner
  <2>5. heap' = [heap EXCEPT ![Cur] = g, ![Sib] = l, ![Parent] = InnerDrop(par, SepIdx)]
    BY <1>2, <1>3, <1>4, <1>6 DEF InnerMergeLeft, g, l
  <2>6. heap' \in [Pids -> FitPages(Pids)] /\ \A q \in Pids : heap'[q].kind = heap[q].kind
    BY <1>3, <1>4, <2>4, <2>5, ThreeWrites
  <2> QED
    BY <1>2, <1>3, <1>6, <2>6, MergeReturnKeeps DEF InnerMergeLeft
<1> QED
  BY <1>5, <1>6

\* The steps that end a Remove after its merges.
LEMMA RemoveUpKeeps ==
  ASSUME IndInv, InnerSafe \/ RootKeeps \/ RootShrinks
  PROVE  IndInv'
<1>1. CASE InnerSafe
  BY <1>1, ResultTypes, ReturnUnchangedKeeps DEF InnerSafe
<1>2. CASE RootKeeps
  BY <1>2, ResultTypes, ReturnUnchangedKeeps DEF RootKeeps
<1>3. CASE RootShrinks
  <2>1. /\ pc = "up" /\ call.op = "Remove" /\ Return(Done) /\ root' = child
        /\ UNCHANGED <<heap, nextPid>>
    BY <1>3 DEF RootShrinks
  <2>2. child \in Pids
    BY <2>1 DEF IndInv, FrameInputs
  <2>3. Pids' = Pids
    BY <2>1 DEF Pids
  <2> QED
    BY <2>1, <2>2, <2>3, HeapTypes, ResultTypes, ReturnKeeps
<1> QED
  BY <1>1, <1>2, <1>3

-----------------------------------------------------------------------------
\* The invariant, and what it gives.

\* Index::create establishes the invariant.
LEMMA InitEstablishes == Init => IndInv
<1> SUFFICES ASSUME Init PROVE IndInv
  OBVIOUS
<1>1. /\ heap = [pid \in {0} |-> EmptyLeaf] /\ nextPid = 1 /\ root = 0 /\ pc = "idle"
      /\ call = NoCall /\ key = 0 /\ path = <<>> /\ child = NoPid /\ split = NoSplit
      /\ result = Pending
  BY DEF Init
<1>2. Pids = {0}
  BY <1>1 DEF Pids
<1>3. EmptyLeaf \in LeafPages /\ EmptyLeaf.size = 0 /\ EmptyLeaf.kind = "leaf"
  BY EmptyLeafType DEF EmptyLeaf
<1>4. split \in [elem : Entries, pid : Pids \cup {NoPid}]
  BY <1>1, ZeroEntryType DEF NoSplit
<1>5. heap \in [Pids -> Pages] /\ \A pid \in Pids : IsLeaf(pid) /\ heap[pid].size = 0
  BY <1>1, <1>2, <1>3 DEF Pages, IsLeaf
<1>6. TypeOK
  BY <1>1, <1>2, <1>4, <1>5, ParameterAssumption DEF TypeOK, Phases, Results
<1>7. SlotsFit
  BY <1>5, ParameterAssumption DEF SlotsFit
<1>8. FramesInner /\ FrameInputs
  BY <1>1 DEF FramesInner, FrameInputs
<1> QED
  BY <1>6, <1>7, <1>8 DEF IndInv

\* Every step keeps it.
LEMMA NextKeeps == IndInv /\ [Next]_vars => IndInv'
<1> SUFFICES ASSUME IndInv, [Next]_vars PROVE IndInv'
  OBVIOUS
<1>1. CASE Step
  <2>1. CASE GoDown
    BY <2>1, GoDownKeeps
  <2>2. CASE GetAtInner \/ GetAtLeaf
    BY <2>2, GetKeeps
  <2>3. CASE UpdateAtInner \/ UpdateAtLeaf
    BY <2>3, UpdateKeeps
  <2>4. CASE LeafInsertFits \/ LeafInsertSplits
    BY <2>4, LeafInsertKeeps
  <2>5. CASE InnerInsertFits \/ InnerInsertSplits
    BY <2>5, InnerInsertKeeps
  <2>6. CASE GrowRoot
    BY <2>6, GrowRootKeeps
  <2>7. CASE RemoveAtInner
    BY <2>7, RemoveAtInnerKeeps
  <2>8. CASE RemoveMiss \/ RemoveMissBelowInner \/ RemoveFromLeaf \/ NoSibling \/ InsertDuplicate
    BY <2>8, RemoveEndsKeeps
  <2>9. CASE LeafBorrowRight \/ LeafBorrowLeft
    BY <2>9, LeafBorrowKeeps
  <2>10. CASE LeafMergeRight \/ LeafMergeLeft
    BY <2>10, LeafMergeKeeps
  <2>11. CASE InnerBorrowRight \/ InnerBorrowLeft
    BY <2>11, InnerBorrowKeeps
  <2>12. CASE InnerMergeRight \/ InnerMergeLeft
    BY <2>12, InnerMergeKeeps
  <2>13. CASE InnerSafe \/ RootKeeps \/ RootShrinks
    BY <2>13, RemoveUpKeeps
  <2> QED
    BY <1>1, <2>1, <2>2, <2>3, <2>4, <2>5, <2>6, <2>7, <2>8, <2>9, <2>10, <2>11, <2>12, <2>13
       DEF Step
<1>2. CASE \E c \in Calls : Invoke(c)
  BY <1>2, InvokeKeeps
<1>3. CASE UNCHANGED vars
  <2>1. UNCHANGED <<heap, nextPid, root, pc, call, key, path, child, split, result>>
    BY <1>3 DEF vars
  <2>2. TypeOK' /\ SlotsFit'
    BY <2>1 DEF IndInv, TypeOK, SlotsFit, Pids, IsLeaf
  <2>3. FramesInner' /\ FrameInputs'
    BY <2>1 DEF IndInv, FramesInner, FrameInputs, IsLeaf, Pids
  <2> QED
    BY <2>2, <2>3 DEF IndInv
<1> QED
  BY <1>1, <1>2, <1>3 DEF Next

\* The state always has its type, for every kind of key and value and every
\* slot count: no step reads a page that was never created, and only the frame
\* that visits a page can be on a leaf.
THEOREM TypeCorrect == Spec => []TypeOK
<1>1. Spec => []IndInv
  BY InitEstablishes, NextKeeps, PTL DEF Spec
<1>2. IndInv => TypeOK
  BY DEF IndInv
<1> QED
  BY <1>1, <1>2, PTL

\* No slot array is ever written at or past its end and no internal page loses
\* its last child, whatever calls are made in whatever order, the wrongly
\* counted merges included.
THEOREM NoOverflow == Spec => []SlotsFit
<1>1. Spec => []IndInv
  BY InitEstablishes, NextKeeps, PTL DEF Spec
<1>2. IndInv => SlotsFit
  BY DEF IndInv
<1> QED
  BY <1>1, <1>2, PTL

-----------------------------------------------------------------------------
(***************************************************************************)
(* The tree of the index.                                                   *)
(***************************************************************************)
\* A set of pages that holds the children of its pages.
Closed(A) == A \in SUBSET Pids /\ \A pid \in A : Children(pid) \subseteq A

\* The ids in the live child slots are those of pages.
LEMMA ChildrenArePids ==
  ASSUME TypeOK
  PROVE  \A pid \in Pids : Children(pid) \in SUBSET Pids
<1> SUFFICES ASSUME NEW pid \in Pids, ~IsLeaf(pid)
             PROVE  Children(pid) \in SUBSET Pids
  BY DEF Children
<1>1. heap[pid] \in Pages /\ heap[pid].pids \in [InnerSlots -> Pids]
  BY DEF TypeOK
<1>2. heap[pid].size \in 0..InnerMax
  BY <1>1 DEF Pages, LeafPages, InnerPages, IsLeaf
<1>3. 0..(heap[pid].size - 1) \subseteq InnerSlots
  BY <1>2, ParameterAssumption DEF InnerSlots
<1> QED
  BY <1>1, <1>3 DEF Children

\* Reachable is defined by recursion on a set; a function does satisfy it, the one
\* that gives the least closed set around the argument.
LEMMA ReachableDef ==
  ASSUME TypeOK, NEW S \in SUBSET Pids
  PROVE  Reachable(S) = (LET More == S \cup UNION {Children(pid) : pid \in S}
                         IN IF More = S THEN S ELSE Reachable(More))
<1> DEFINE More(R) == R \cup UNION {Children(pid) : pid \in R}
           Least(R) == {p \in Pids : \A A \in SUBSET Pids : R \subseteq A /\ Closed(A) => p \in A}
           f == [R \in SUBSET Pids |-> Least(R)]
           IsReach(g) == g = [R \in SUBSET Pids |-> IF More(R) = R THEN R ELSE g[More(R)]]
<1>1. ASSUME NEW R \in SUBSET Pids
      PROVE  /\ More(R) \in SUBSET Pids
             /\ f[R] = IF More(R) = R THEN R ELSE f[More(R)]
  <2>1. More(R) \in SUBSET Pids
    BY ChildrenArePids
  <2>2. f[R] = Least(R) /\ f[More(R)] = Least(More(R))
    BY <2>1
  <2>3. ASSUME More(R) = R PROVE Least(R) = R
    <3>1. Closed(R)
      BY <2>1, <2>3 DEF Closed
    <3> QED
      BY <3>1
  <2>4. Least(R) = Least(More(R))
    <3>1. \A A : R \subseteq A /\ Closed(A) <=> More(R) \subseteq A /\ Closed(A)
      BY DEF Closed
    <3> QED
      BY <3>1
  <2> QED
    BY <2>1, <2>2, <2>3, <2>4
<1>2. IsReach(f)
  BY <1>1, Zenon
<1> DEFINE g == CHOOSE g : IsReach(g)
<1>3. IsReach(g)
  <2> HIDE DEF IsReach, f
  <2> QED BY <1>2, Zenon
<1>4. \A R \in SUBSET Pids : Reachable(R) = g[R]
  BY Zenon DEF Reachable
<1>5. g[S] = IF More(S) = S THEN S ELSE g[More(S)]
  <2> HIDE DEF More, g
  <2> QED BY <1>3, Zenon
<1> HIDE DEF g
<1> QED
  BY <1>1, <1>4, <1>5

-----------------------------------------------------------------------------
\* The least a page but the root holds between calls (GetMinSize).
HalfOf(page) == MinSize(IF page.kind = "leaf" THEN LeafMax ELSE InnerMax)

\* A frame returns the page a split made; the frame of a Remove that is resumed may
\* be on a page that has just lost a child, and so may the one the program stops in.
Splitting == pc = "up" /\ call.op = "Insert"

\* The page that may have one entry or child too few.
Hole == IF pc \notin {"idle", "down"} /\ call.op = "Remove" /\ path # <<>> THEN {Cur} ELSE {}

\* Half is a number of entries or children; of a large enough internal page, two.
LEMMA HalfOfType ==
  \A page : HalfOf(page) \in Nat /\ (InnerMax >= 5 /\ page.kind # "leaf" => HalfOf(page) >= 2)
<1>1. MinSize(LeafMax) \in Nat /\ MinSize(InnerMax) \in Nat /\ (InnerMax >= 5 => MinSize(InnerMax) >= 2)
  BY ParameterAssumption, MinSizeBound
<1> QED
  BY <1>1 DEF HalfOf

\* Every page but the root holds half, one less in the hole.
Sizes(live) ==
  \A p \in live \ {root} : heap[p].size >= HalfOf(heap[p]) - (IF p \in Hole THEN 1 ELSE 0)

\* The root is a leaf or has two children, unless one was just merged away or the
\* root has split.
Wide(page) == page.kind = "leaf" \/ page.size >= 2

\* Smaller pages split into one with a single child.
RootWide ==
  InnerMax >= 5 => Wide(heap[root]) \/ root \in Hole \/ (Splitting /\ path = <<>>)

\* live: the pages of the tree.  lev: how far each is above the leaves.
TreeShape(live, lev) ==
  /\ live \subseteq Pids
  /\ Forest(heap, Roots, live, lev)
  /\ PathDown(heap, path, root, live, lev)
  /\ split # NoSplit <=> Splitting
  /\ Splitting => /\ split.pid # root /\ lev[split.pid] + Len(path) = lev[root]
                  /\ path = <<>> => heap[root].size >= HalfOf(heap[root])
  /\ Sizes(live)
  /\ RootWide

\* Some set of pages, on some levels, is the tree.
TreeInv == \E live, lev : TreeShape(live, lev)

\* The tree after a step: its pages were pages of it, or are new.
StillTree(live) == \E L, V : TreeShape(L, V)' /\ L \subseteq live \cup (Pids' \ Pids)

\* What the path says of the current page and of the one below it in the
\* recursion.
LEMMA PathFacts ==
  ASSUME IndInv, NEW live, NEW lev, TreeShape(live, lev)
  PROVE  /\ root \in live /\ live \subseteq Pids /\ lev[root] \in Nat
         /\ path # <<>> => /\ Cur = path[Len(path)] /\ Cur \in live /\ lev[Cur] \in Nat
                           /\ lev[Cur] + Len(path) = lev[root] + 1
         /\ Len(path) = 1 => Cur = root
         /\ Len(path) > 1 => /\ path # <<>> /\ Parent \in live /\ Cur \in Kids(heap[Parent])
                             /\ lev[Parent] = lev[Cur] + 1 /\ Parent # Cur /\ Cur # root
<1>1. path \in Seq(Pids) /\ root \in Roots
  BY HeapTypes DEF Roots
<1>2. root \in live /\ live \subseteq Pids /\ \A p \in live : lev[p] \in Nat
  BY <1>1 DEF TreeShape, Forest
<1>3. Len(path) \in Nat /\ (path # <<>> => Len(path) \in 1..Len(path) /\ Cur = path[Len(path)])
  BY <1>1 DEF Cur, Last
<1>4. path # <<>> => Cur \in live /\ lev[Cur] + Len(path) = lev[root] + 1
  BY <1>3 DEF TreeShape, PathDown
<1>5. Len(path) = 1 => Cur = root
  <2>1. Len(path) = 1 => path # <<>>
    BY <1>1
  <2> QED BY <1>3, <2>1 DEF TreeShape, PathDown
<1>6. ASSUME Len(path) > 1
      PROVE  /\ path # <<>> /\ Parent \in live /\ Cur \in Kids(heap[Parent])
             /\ lev[Parent] = lev[Cur] + 1 /\ Parent # Cur /\ Cur # root
  <2> DEFINE n == Len(path) - 1
  <2>1. n \in 1..Len(path) /\ n \in 1..(Len(path) - 1) /\ n + 1 = Len(path) /\ path # <<>>
    BY <1>1, <1>3, <1>6
  <2>2. Parent = path[n] /\ Cur = path[n + 1]
    BY <1>3, <2>1 DEF Parent
  <2>3. Parent \in live /\ Cur \in Kids(heap[Parent])
    BY <2>1, <2>2 DEF TreeShape, PathDown
  <2>4. lev[Parent] = lev[Cur] + 1 /\ Cur \notin Roots /\ lev[Cur] \in Nat
    BY <1>2, <2>3 DEF TreeShape, Forest
  <2> QED
    BY <1>1, <2>1, <2>3, <2>4
<1> QED
  BY <1>2, <1>3, <1>4, <1>5, <1>6

\* A frame that visits its page: the tree has one root, and no page lacks an entry.
LEMMA DownShape ==
  ASSUME IndInv, NEW live, NEW lev, TreeShape(live, lev), pc \in {"idle", "down"}
  PROVE  /\ Forest(heap, {root}, live, lev) /\ split = NoSplit
         /\ \A p \in live \ {root} : heap[p].size >= HalfOf(heap[p])
         /\ InnerMax >= 5 => Wide(heap[root])
<1>1. split = NoSplit /\ Hole = {} /\ ~Splitting
  BY DEF TreeShape, Splitting, Hole
<1>2. \A p \in live \ {root} : heap[p].size >= HalfOf(heap[p]) - 0
  BY <1>1 DEF TreeShape, Sizes
<1>3. \A p \in live \ {root} : heap[p].size >= HalfOf(heap[p])
  <2>1. ASSUME NEW p \in live \ {root} PROVE heap[p].size >= HalfOf(heap[p])
    <3>1. HalfOf(heap[p]) \in Int
      BY HalfOfType
    <3> QED BY <1>2, <3>1
  <2> QED BY <2>1
<1>4. InnerMax >= 5 => Wide(heap[root])
  BY <1>1 DEF TreeShape, RootWide
<1> QED
  BY <1>1, <1>3, <1>4 DEF TreeShape, Roots

\* A frame of a Remove is resumed: its page may lack one child.
LEMMA UpRemoveShape ==
  ASSUME IndInv, NEW live, NEW lev, TreeShape(live, lev), pc = "up", call.op = "Remove"
  PROVE  /\ Forest(heap, {root}, live, lev) /\ split = NoSplit /\ path # <<>>
         /\ \A p \in live \ {root, Cur} : heap[p].size >= HalfOf(heap[p])
         /\ Cur # root => heap[Cur].size >= HalfOf(heap[Cur]) - 1
         /\ InnerMax >= 5 /\ Cur # root => Wide(heap[root])
<1>1. split = NoSplit /\ path # <<>> /\ Hole = {Cur} /\ ~Splitting
  BY DEF TreeShape, Splitting, Hole, IndInv, FrameInputs
<1>2. \A p : HalfOf(heap[p]) \in Int
  BY HalfOfType
<1>3. \A p \in live \ {root, Cur} : heap[p].size >= HalfOf(heap[p])
  <2>1. \A p \in live \ {root, Cur} : heap[p].size >= HalfOf(heap[p]) - 0
    BY <1>1 DEF TreeShape, Sizes
  <2> QED BY <1>2, <2>1
<1>4. Cur # root => heap[Cur].size >= HalfOf(heap[Cur]) - 1
  BY <1>1, PathFacts DEF TreeShape, Sizes
<1>5. InnerMax >= 5 /\ Cur # root => Wide(heap[root])
  BY <1>1 DEF TreeShape, RootWide
<1> QED
  BY <1>1, <1>3, <1>4, <1>5 DEF TreeShape, Roots

\* A frame of an Insert is resumed, or the root split.
LEMMA UpInsertShape ==
  ASSUME IndInv, NEW live, NEW lev, TreeShape(live, lev), pc = "up", call.op = "Insert"
  PROVE  /\ Forest(heap, {root, split.pid}, live, lev) /\ split.pid # root /\ split.pid \in live
         /\ lev[split.pid] + Len(path) = lev[root] /\ lev[split.pid] \in Nat
         /\ path = <<>> => heap[root].size >= HalfOf(heap[root])
         /\ \A p \in live \ {root} : heap[p].size >= HalfOf(heap[p])
         /\ InnerMax >= 5 /\ path # <<>> => Wide(heap[root])
<1>1. split # NoSplit /\ Hole = {} /\ Roots = {root, split.pid}
  BY DEF TreeShape, Splitting, Hole, Roots
<1>2. \A p : HalfOf(heap[p]) \in Int
  BY HalfOfType
<1>3. \A p \in live \ {root} : heap[p].size >= HalfOf(heap[p])
  <2>1. \A p \in live \ {root} : heap[p].size >= HalfOf(heap[p]) - 0
    BY <1>1 DEF TreeShape, Sizes
  <2> QED BY <1>2, <2>1
<1>4. split.pid \in live /\ lev[split.pid] \in Nat
  BY <1>1 DEF TreeShape, Forest
<1>5. InnerMax >= 5 /\ path # <<>> => Wide(heap[root])
  BY <1>1 DEF TreeShape, RootWide
<1> QED
  BY <1>1, <1>3, <1>4, <1>5 DEF TreeShape, Splitting

-----------------------------------------------------------------------------
\* The ways in which a step ends, as in BTreeIndexProofs.

\* The call returns: the tree has one root and no page lacks an entry.
LEMMA EndsInShape ==
  ASSUME NEW r, Return(r), NEW L \in SUBSET Pids', NEW V, Forest(heap', {root'}, L, V),
         NEW live, L \subseteq live \cup (Pids' \ Pids),
         \A p \in L \ {root'} : heap'[p].size >= HalfOf(heap'[p]),
         InnerMax >= 5 => Wide(heap'[root'])
  PROVE  StillTree(live)
<1>1. pc' = "idle" /\ path' = <<>> /\ split' = NoSplit
  BY DEF Return
<1>2. Roots' = {root'} /\ Hole' = {} /\ ~Splitting'
  BY <1>1 DEF Roots, Hole, Splitting
<1>3. PathDown(heap', path', root', L, V)
  BY <1>1 DEF PathDown
<1>4. Sizes(L)'
  <2>1. \A p : HalfOf(heap'[p]) \in Int
    BY HalfOfType
  <2> QED BY <1>2, <2>1 DEF Sizes
<1>5. RootWide'
  BY DEF RootWide, Wide
<1>6. TreeShape(L, V)'
  BY <1>1, <1>2, <1>3, <1>4, <1>5 DEF TreeShape
<1> QED
  BY <1>6 DEF StillTree

\* The call returns and has changed no child slot and taken no entry.
LEMMA EndsSame ==
  ASSUME NEW r, Return(r), NEW live \in SUBSET Pids, NEW lev, Forest(heap, {root}, live, lev),
         root' = root, Pids \subseteq Pids',
         \A p \in live : /\ heap'[p].kind = heap[p].kind /\ Kids(heap'[p]) = Kids(heap[p])
                         /\ OneSlotEach(heap[p]) => OneSlotEach(heap'[p]),
         \A p \in live \ {root} : heap'[p].size >= HalfOf(heap'[p]),
         InnerMax >= 5 => Wide(heap'[root])
  PROVE  StillTree(live)
<1>1. Forest(heap', {root}, live, lev)
  BY ForestSameKids
<1>2. live \in SUBSET Pids'
  OBVIOUS
<1> QED
  BY <1>1, <1>2, EndsInShape

\* A frame of a Remove returns after a merge.
LEMMA ReturnsMerged ==
  ASSUME call.op = "Remove", NEW c, ReturnTo(c, NoSplit),
         NEW L \in SUBSET Pids', NEW V, Forest(heap', {root}, L, V),
         PathDown(heap', path', root, L, V), path' # <<>>,
         NEW live, L \subseteq live \cup (Pids' \ Pids),
         \A p \in L \ {root, Last(path')} : heap'[p].size >= HalfOf(heap'[p]),
         Last(path') # root =>
           heap'[Last(path')].size >= HalfOf(heap'[Last(path')]) - 1,
         InnerMax >= 5 /\ Last(path') # root => Wide(heap'[root])
  PROVE  StillTree(live)
<1>1. pc' = "up" /\ split' = NoSplit /\ root' = root /\ call' = call
  BY DEF ReturnTo
<1>2. Roots' = {root} /\ Hole' = {Last(path')} /\ ~Splitting'
  BY <1>1 DEF Roots, Hole, Splitting, Cur
<1>3. Sizes(L)'
  <2>1. \A p : HalfOf(heap'[p]) \in Int
    BY HalfOfType
  <2>2. ASSUME NEW p \in L \ {root}
        PROVE  heap'[p].size >= HalfOf(heap'[p]) - (IF p \in {Last(path')} THEN 1 ELSE 0)
    BY <2>1
  <2> QED BY <1>1, <1>2, <2>2 DEF Sizes
<1>4. RootWide'
  BY <1>1, <1>2 DEF RootWide, Wide
<1>5. TreeShape(L, V)'
  BY <1>1, <1>2, <1>3, <1>4 DEF TreeShape
<1> QED
  BY <1>5 DEF StillTree

\* A frame of an Insert returns a page it has split off.
LEMMA ReturnsSplit ==
  ASSUME call.op = "Insert", NEW c, NEW e, NEW n \in Nat, ReturnTo(c, [elem |-> e, pid |-> n]),
         NEW L \in SUBSET Pids', NEW V, Forest(heap', {root, n}, L, V), n # root,
         PathDown(heap', path', root, L, V), V[n] + Len(path') = V[root],
         path' = <<>> => heap'[root].size >= HalfOf(heap'[root]),
         \A p \in L \ {root} : heap'[p].size >= HalfOf(heap'[p]),
         NEW live, L \subseteq live \cup (Pids' \ Pids),
         InnerMax >= 5 /\ path' # <<>> => Wide(heap'[root])
  PROVE  StillTree(live)
<1>1. pc' = "up" /\ split' = [elem |-> e, pid |-> n] /\ root' = root /\ call' = call
  BY DEF ReturnTo
<1>2. split' # NoSplit /\ split'.pid = n
  <2>1. n # NoPid
    BY DEF NoPid
  <2> QED BY <1>1, <2>1 DEF NoSplit
<1>3. Roots' = {root, n} /\ Hole' = {} /\ Splitting'
  BY <1>1, <1>2 DEF Roots, Hole, Splitting
<1>4. Sizes(L)'
  <2>1. \A p : HalfOf(heap'[p]) \in Int
    BY HalfOfType
  <2> QED BY <1>1, <1>3, <2>1 DEF Sizes
<1>5. RootWide'
  BY <1>1, <1>3 DEF RootWide, Wide
<1>6. TreeShape(L, V)'
  BY <1>1, <1>2, <1>3, <1>4, <1>5 DEF TreeShape
<1> QED
  BY <1>6 DEF StillTree

\* A frame calls another one on a child.
LEMMA DescendsInShape ==
  ASSUME IndInv, pc = "down", path # <<>>, NEW live, NEW lev, TreeShape(live, lev),
         NEW c \in Pids, c \in Kids(heap[Cur]), path' = Append(path, c), Pids' = Pids,
         UNCHANGED <<root, pc, call, split>>,
         \A p \in live : /\ heap'[p].kind = heap[p].kind /\ Kids(heap'[p]) = Kids(heap[p])
                         /\ OneSlotEach(heap[p]) => OneSlotEach(heap'[p])
                         /\ heap'[p].size = heap[p].size
  PROVE  StillTree(live)
<1>1. /\ Forest(heap, {root}, live, lev) /\ split = NoSplit /\ root \in live
      /\ \A p \in live \ {root} : heap[p].size >= HalfOf(heap[p])
      /\ InnerMax >= 5 => Wide(heap[root])
  BY DownShape, PathFacts
<1>2. Forest(heap', {root}, live, lev)
  BY <1>1, ForestSameKids
<1>3. path \in Seq(Pids) /\ c \in Kids(heap[path[Len(path)]]) /\ PathDown(heap, path, root, live, lev)
  BY HeapTypes, PathFacts DEF TreeShape
<1>4. PathDown(heap', path', root, live, lev)
  BY <1>1, <1>3, PathAppend
<1>5. Roots' = {root} /\ Hole' = {} /\ ~Splitting' /\ split' = NoSplit
  BY <1>1 DEF Roots, Hole, Splitting
<1>6. Sizes(live)'
  <2>1. \A p : HalfOf(heap'[p]) \in Int
    BY HalfOfType
  <2>2. \A p \in live \ {root} : heap'[p].size >= HalfOf(heap'[p])
    BY <1>1 DEF HalfOf
  <2> QED BY <1>5, <2>1, <2>2 DEF Sizes
<1>7. RootWide'
  BY <1>1 DEF RootWide, Wide
<1>8. TreeShape(live, lev)'
  BY <1>2, <1>4, <1>5, <1>6, <1>7 DEF TreeShape
<1> QED
  BY <1>8 DEF StillTree

-----------------------------------------------------------------------------
\* A leaf has no children.
LEMMA LeafKids ==
  ASSUME NEW p, p.kind = "leaf"
  PROVE  Kids(p) = {} /\ OneSlotEach(p) /\ HalfOf(p) = MinSize(LeafMax)
BY DEF Kids, OneSlotEach, HalfOf

\* Half of an internal page.
LEMMA InnerHalf ==
  ASSUME NEW p, p.kind = "inner"
  PROVE  HalfOf(p) = MinSize(InnerMax)
BY DEF HalfOf

\* What the children of a page are called in BTreeMap.
LEMMA KidsAreChildren == \A pid \in Pids : Children(pid) = Kids(heap[pid])
BY DEF Children, Kids, IsLeaf

\* The sibling is a page of the tree, next to the current one.
LEMMA SiblingShape ==
  ASSUME IndInv, NEW live, NEW lev, TreeShape(live, lev), LeafUnderflow \/ InnerUnderflow, HasSibling
  PROVE  /\ Len(path) > 1 /\ Parent \in live /\ Cur \in live /\ Sib \in live
         /\ Parent # Cur /\ Sib # Cur /\ Sib # Parent /\ Cur # root /\ Sib # root
         /\ Cur \in Kids(heap[Parent]) /\ Sib \in Kids(heap[Parent])
         /\ lev[Sib] = lev[Cur] /\ lev[Parent] = lev[Cur] + 1 /\ lev[Cur] \in Nat
         /\ SepIdx \in 1..(heap[Parent].size - 1)
         /\ RightSibling => heap[Parent].pids[SepIdx] = Sib
         /\ ~RightSibling => heap[Parent].pids[SepIdx] = Cur
<1> DEFINE p == heap[Parent]
<1>1. Len(path) > 1 /\ p \in InnerOver(Pids) /\ p.kind = "inner"
  BY UnderflowPages
<1>2. /\ SibIdx \in 0..(p.size - 1) /\ Parent # Cur /\ Sib # Cur /\ Sib # Parent
      /\ \E i \in 0..(p.size - 1) : p.pids[i] = Cur
  BY DEF HasSibling, SiblingListed
<1>3. MyIdx \in 0..(p.size - 1) /\ p.pids[MyIdx] = Cur /\ SibIdx \in {MyIdx - 1, MyIdx + 1}
  BY <1>1, <1>2, SiblingIdxRange DEF MyIdx, SibIdx
<1>4. Sib = p.pids[SibIdx] /\ Sib \in Kids(p)
  BY <1>1, <1>2 DEF Sib, Kids
<1>5. /\ path # <<>> /\ Parent \in live /\ Cur \in live /\ Cur \in Kids(p)
      /\ lev[Parent] = lev[Cur] + 1 /\ Cur # root /\ lev[Cur] \in Nat
  BY <1>1, PathFacts
<1>6. Sib \in live /\ Sib \notin Roots /\ lev[Parent] = lev[Sib] + 1 /\ lev[Sib] \in Nat
  BY <1>4, <1>5 DEF TreeShape, Forest
<1>7. lev[Sib] = lev[Cur] /\ Sib # root
  BY <1>5, <1>6 DEF Roots
<1>8. SepIdx \in 1..(p.size - 1) /\ p.size \in Nat
  BY <1>1, <1>2, <1>3, InnerFields DEF SepIdx
<1>9. RightSibling => p.pids[SepIdx] = Sib
  BY <1>2, <1>3, <1>4, <1>8 DEF RightSibling, SepIdx
<1>10. ~RightSibling => p.pids[SepIdx] = Cur
  BY <1>2, <1>3, <1>8 DEF RightSibling, SepIdx
<1> QED
  BY <1>1, <1>2, <1>4, <1>5, <1>6, <1>7, <1>8, <1>9, <1>10

-----------------------------------------------------------------------------
\* The steps that change no child slot.

\* A call starts at the root.
LEMMA InvokeShape ==
  ASSUME IndInv, NEW live, NEW lev, TreeShape(live, lev), NEW c \in Calls, Invoke(c)
  PROVE  StillTree(live)
<1>1. /\ pc = "idle" /\ pc' = "down" /\ path' = <<root>> /\ call' = c
      /\ heap' = heap /\ root' = root /\ split' = split
  BY DEF Invoke
<1>2. /\ Forest(heap, {root}, live, lev) /\ split = NoSplit /\ root \in live /\ lev[root] \in Nat
      /\ \A p \in live \ {root} : heap[p].size >= HalfOf(heap[p])
      /\ InnerMax >= 5 => Wide(heap[root])
  BY <1>1, DownShape, PathFacts
<1>3. PathDown(heap', path', root', live, lev)
  <2>1. Len(path') = 1 /\ path'[1] = root /\ 1..(Len(path') - 1) = {} /\ 1..Len(path') = {1}
    BY <1>1
  <2> QED BY <1>1, <1>2, <2>1 DEF PathDown
<1>4. Roots' = {root} /\ Hole' = {} /\ ~Splitting' /\ split' = NoSplit
  BY <1>1, <1>2 DEF Roots, Hole, Splitting
<1>5. Sizes(live)'
  <2>1. \A p : HalfOf(heap'[p]) \in Int
    BY HalfOfType
  <2> QED BY <1>1, <1>2, <1>4, <2>1 DEF Sizes
<1>6. live \subseteq Pids'
  BY <1>1 DEF Pids, TreeShape
<1>7. RootWide'
  BY <1>1, <1>2 DEF RootWide, Wide
<1>8. TreeShape(live, lev)'
  BY <1>1, <1>2, <1>3, <1>4, <1>5, <1>6, <1>7 DEF TreeShape
<1> QED
  BY <1>8 DEF StillTree

\* The steps that only read end the call.
LEMMA ReadShape ==
  ASSUME IndInv, NEW live, NEW lev, TreeShape(live, lev), pc = "down",
         NEW r, Return(r), UNCHANGED <<heap, root>>
  PROVE  StillTree(live)
<1>1. /\ Forest(heap, {root}, live, lev) /\ live \in SUBSET Pids /\ Pids' = Pids
      /\ \A p \in live \ {root} : heap[p].size >= HalfOf(heap[p])
      /\ InnerMax >= 5 => Wide(heap'[root])
  BY DownShape DEF TreeShape, Pids
<1> QED
  BY <1>1, EndsSame

\* The steps that write the current page and end the call.
LEMMA WriteShape ==
  ASSUME IndInv, NEW live, NEW lev, TreeShape(live, lev), pc = "down", path # <<>>,
         NEW r, Return(r), NEW q, heap' = [heap EXCEPT ![Cur] = q], root' = root,
         q.kind = Page.kind, q.kind = "leaf" \/ q.size = Page.size, Kids(q) = Kids(Page), OneSlotEach(Page) => OneSlotEach(q),
         Cur # root => q.size >= HalfOf(q)
  PROVE  StillTree(live)
<1>1. /\ Forest(heap, {root}, live, lev) /\ live \in SUBSET Pids /\ Pids' = Pids
      /\ \A p \in live \ {root} : heap[p].size >= HalfOf(heap[p])
      /\ InnerMax >= 5 => Wide(heap[root])
  BY DownShape DEF TreeShape, Pids
<1>2. Cur \in Pids /\ Page = heap[Cur] /\ \A p \in Pids : heap'[p] = IF p = Cur THEN q ELSE heap[p]
  BY CurPage, HeapTypes
<1>3. InnerMax >= 5 => Wide(heap'[root])
  BY <1>1, <1>2, HeapTypes DEF Wide
<1> QED
  BY <1>1, <1>2, <1>3, EndsSame

\* The steps down: into a child, or past a separator that is overwritten.
LEMMA DownStepShape ==
  ASSUME IndInv, NEW live, NEW lev, TreeShape(live, lev), GoDown \/ RemoveAtInner
  PROVE  StillTree(live)
<1> DEFINE i == InnerSearch(Page, key)
           e == FirstElem(heap[Page.pids[i]])
<1>1. pc = "down" /\ path # <<>> /\ ~IsLeaf(Cur)
  BY HeapTypes DEF GoDown, RemoveAtInner, AtInner
<1>2. /\ Cur \in Pids /\ Page = heap[Cur] /\ Page \in InnerOver(Pids) /\ Page.size >= 1
      /\ Page.size \in Nat /\ Page.kind = "inner" /\ live \subseteq Pids /\ heap \in [Pids -> FitPages(Pids)]
  BY <1>1, CurPage, InnerFields, HeapTypes DEF TreeShape
<1>3. /\ i \in 1..Page.size /\ Page.pids \in [InnerSlots -> Pids]
      /\ \A j \in 0..(Page.size - 1) : Page.pids[j] \in Kids(Page) /\ Page.pids[j] \in Pids
  BY <1>2, InnerSearchRange, InnerFields, ParameterAssumption DEF Kids, InnerSlots
<1>4. CASE GoDown
  <2>1. /\ path' = Append(path, Page.pids[i - 1])
        /\ UNCHANGED <<heap, nextPid, root, pc, call, key, child, split, result>>
    BY <1>4 DEF GoDown, InnerChild
  <2>2. Page.pids[i - 1] \in Kids(heap[Cur]) /\ Page.pids[i - 1] \in Pids
    <3>1. i - 1 \in 0..(Page.size - 1)
      BY <1>2, <1>3
    <3> QED BY <1>2, <1>3, <3>1
  <2>3. Pids' = Pids
    BY <2>1 DEF Pids
  <2> QED
    BY <1>1, <2>1, <2>2, <2>3, DescendsInShape
<1>5. CASE RemoveAtInner
  <2>1. /\ path' = Append(path, Page.pids[i]) /\ heap' = [heap EXCEPT ![Cur] = InnerSetEntry(Page, i, e)]
        /\ UNCHANGED <<nextPid, root, pc, call, child, split, result>> /\ InnerHolds(Page, key)
    BY <1>5 DEF RemoveAtInner, Page, AtInner
  <2>2. Page.pids[i] \in Kids(heap[Cur]) /\ Page.pids[i] \in Pids
    <3>1. i \in 1..(Page.size - 1)
      BY <1>2, <2>1, InnerSearchRange
    <3>2. i \in 0..(Page.size - 1)
      BY <3>1
    <3> QED BY <1>2, <1>3, <3>2
  <2> HIDE DEF i, e
  <2> DEFINE q == InnerSetEntry(Page, i, e)
  <2>3. /\ Kids(q) = Kids(Page) /\ (OneSlotEach(Page) => OneSlotEach(q))
        /\ q.kind = Page.kind /\ q.size = Page.size
    <3>1. q.kind = Page.kind /\ q.size = Page.size
      BY <1>2 DEF InnerSetEntry, InnerOver
    <3> QED BY <1>2, <3>1, InnerSetEntryKids
  <2> HIDE DEF q
  <2>4. Pids' = Pids /\ \A p \in Pids : heap'[p] = IF p = Cur THEN q ELSE heap[p]
    BY <1>2, <2>1 DEF Pids, q
  <2>5. \A p \in live : /\ heap'[p].kind = heap[p].kind /\ Kids(heap'[p]) = Kids(heap[p])
                        /\ OneSlotEach(heap[p]) => OneSlotEach(heap'[p])
                        /\ heap'[p].size = heap[p].size
    BY <1>2, <2>3, <2>4
  <2>6. path' = Append(path, Page.pids[i]) /\ UNCHANGED <<root, pc, call, split>> /\ Pids' = Pids
    BY <2>1, <2>4
  <2> QED
    BY <1>1, <2>2, <2>5, <2>6, DescendsInShape
<1> QED
  BY <1>4, <1>5

\* Get, Update and the Inserts and Removes that change nothing.
LEMMA EndStepShape ==
  ASSUME IndInv, NEW live, NEW lev, TreeShape(live, lev),
         \/ GetAtInner \/ GetAtLeaf \/ UpdateAtInner \/ UpdateAtLeaf
         \/ InsertDuplicate \/ RemoveMiss
  PROVE  StillTree(live)
<1>1. pc = "down" /\ path # <<>>
  BY HeapTypes DEF GetAtInner, GetAtLeaf, UpdateAtInner, UpdateAtLeaf, InsertDuplicate, RemoveMiss,
                   AtInner, AtLeaf
<1>2. CASE GetAtInner \/ GetAtLeaf \/ InsertDuplicate \/ RemoveMiss
  <2>1. (\E r : Return(r)) /\ UNCHANGED <<heap, root>>
    BY <1>2 DEF GetAtInner, GetAtLeaf, InsertDuplicate, RemoveMiss
  <2> QED
    BY <1>1, <2>1, ReadShape
<1>3. CASE UpdateAtLeaf /\ ~LeafHolds(Page, key)
  BY <1>1, <1>3, ReadShape DEF UpdateAtLeaf
<1>4. Page = heap[Cur] /\ (Cur # root => Page.size >= HalfOf(Page))
  BY <1>1, CurPage, PathFacts, DownShape
<1>5. CASE UpdateAtLeaf /\ LeafHolds(Page, key)
  <2> DEFINE q == LeafAssign(Page, key, call.val)
  <2>1. /\ heap' = [heap EXCEPT ![Cur] = q] /\ Return(Done) /\ root' = root /\ IsLeaf(Cur)
        /\ call.val \in Vals
    BY <1>5, HeapTypes, CallTypes DEF UpdateAtLeaf, AtLeaf, Page
  <2>2. Page \in LeafPages
    BY <1>1, <2>1, CurPage
  <2>3. q \in LeafPages /\ q.size = Page.size
    BY <1>5, <2>1, <2>2, LeafAssignType
  <2> HIDE DEF q
  <2>4. q.kind = "leaf" /\ Page.kind = "leaf"
    BY <2>2, <2>3, LeafFields
  <2> QED
    BY <1>1, <1>4, <2>1, <2>3, <2>4, LeafKids, WriteShape
<1>6. CASE UpdateAtInner
  <2> DEFINE q == InnerAssign(Page, key, call.val)
  <2>1. /\ heap' = [heap EXCEPT ![Cur] = q] /\ Return(Done) /\ root' = root /\ ~IsLeaf(Cur)
    BY <1>6 DEF UpdateAtInner, AtInner, Page
  <2>2. Page \in InnerOver(Pids)
    BY <1>1, <2>1, CurPage
  <2>3. q.kind = Page.kind /\ q.size = Page.size
    BY <2>2 DEF InnerAssign, InnerOver
  <2>4. Kids(q) = Kids(Page) /\ (OneSlotEach(Page) => OneSlotEach(q))
    BY <2>2, InnerAssignKids
  <2> HIDE DEF q
  <2>5. HalfOf(q) = HalfOf(Page)
    BY <2>3 DEF HalfOf
  <2> QED
    BY <1>1, <1>4, <2>1, <2>3, <2>4, <2>5, WriteShape
<1> QED
  BY <1>2, <1>3, <1>5, <1>6

\* What RawPageMgr::create leaves in the heap.
LEMMA CreatedPage ==
  ASSUME IndInv, NEW h, DOMAIN h = Pids, NEW q, Create(h, q)
  PROVE  /\ Pids' = Pids \cup {nextPid} /\ nextPid \notin Pids /\ nextPid \in Nat
         /\ heap'[nextPid] = q /\ \A p \in Pids : heap'[p] = h[p]
<1>1. Pids' = Pids \cup {nextPid}
  BY CreateIds
<1>2. nextPid \notin Pids /\ nextPid \in Nat
  BY DEF IndInv, TypeOK
<1>3. heap' = [pid \in Pids \cup {nextPid} |-> IF pid = nextPid THEN q ELSE h[pid]]
  BY DEF Create
<1> QED
  BY <1>1, <1>2, <1>3

\* Insert into a leaf.
LEMMA LeafInsertShape ==
  ASSUME IndInv, NEW live, NEW lev, TreeShape(live, lev), LeafInsertFits \/ LeafInsertSplits
  PROVE  StillTree(live)
<1> DEFINE e == <<key, call.val>>
           leaf == LeafPlace(Page, e)
<1>1. pc = "down" /\ path # <<>> /\ IsLeaf(Cur) /\ call.op = "Insert" /\ call.val \in Vals
  BY HeapTypes, CallTypes DEF LeafInsertFits, LeafInsertSplits, AtLeaf
<1>2. Cur \in Pids /\ Page \in LeafPages /\ Page.size \in 0..(LeafMax - 1) /\ Page = heap[Cur]
  BY <1>1, CurPage
<1>3. e \in Entries /\ Page.size < LeafMax
  BY <1>1, <1>2, HeapTypes, ParameterAssumption DEF Entries
<1> HIDE DEF e
<1>4. leaf \in LeafPages /\ leaf.size = Page.size + 1 /\ leaf.kind = "leaf" /\ Page.kind = "leaf"
  BY <1>2, <1>3, LeafPlaceType, LeafFields
<1> HIDE DEF leaf
<1>5. /\ Forest(heap, {root}, live, lev) /\ split = NoSplit /\ live \in SUBSET Pids
      /\ \A p \in live \ {root} : heap[p].size >= HalfOf(heap[p])
  BY <1>1, DownShape DEF TreeShape
<1>6. /\ Cur \in live /\ root \in live /\ lev[root] \in Nat
      /\ Cur = path[Len(path)] /\ lev[Cur] + Len(path) = lev[root] + 1
      /\ Len(path) = 1 => Cur = root
  BY <1>1, PathFacts
<1>7. MinSize(LeafMax) \in Nat /\ 2 * MinSize(LeafMax) <= LeafMax - 1 /\ LeafMax \in Nat
      /\ LeafMax - 1 <= 2 * MinSize(LeafMax) + 1
  BY ParameterAssumption, MinSizeBound
<1>8. CASE LeafInsertFits
  <2>1. heap' = [heap EXCEPT ![Cur] = leaf] /\ Return(Done) /\ root' = root
    BY <1>8 DEF LeafInsertFits, leaf, e
  <2>2. Cur # root => leaf.size >= HalfOf(leaf)
    <3>1. Cur # root => Page.size >= HalfOf(Page)
      BY <1>2, <1>5, <1>6
    <3>2. HalfOf(Page) = MinSize(LeafMax) /\ HalfOf(leaf) = MinSize(LeafMax)
      BY <1>2, <1>4, LeafKids
    <3> QED BY <1>2, <1>4, <1>7, <3>1, <3>2
  <2> QED
    BY <1>1, <1>4, <2>1, <2>2, LeafKids, WriteShape
<1>9. CASE LeafInsertSplits
  <2> DEFINE l == LeafLower(leaf)
             u == LeafUpper(leaf)
             n == nextPid
             h == [heap EXCEPT ![Cur] = l]
             live2 == live \cup {n}
             lev2 == [p \in live \cup {n} |-> IF p = n THEN 0 ELSE lev[p]]
  <2>1. /\ LeafFull(leaf) /\ Create(h, u)
        /\ ReturnTo(NoPid, [elem |-> LeafMiddle(leaf), pid |-> n])
    BY <1>9 DEF LeafInsertSplits, leaf, e
  <2>2. leaf.size = LeafMax
    BY <1>2, <1>4, <1>7, <2>1 DEF LeafFull
  <2>3. /\ l \in LeafPages /\ u \in LeafPages /\ l.kind = "leaf" /\ u.kind = "leaf"
        /\ l.size = MinSize(LeafMax) /\ u.size = LeafMax - MinSize(LeafMax) - 1
    <3>1. l \in LeafPages /\ u \in LeafPages
      BY <1>4, <2>2, LeafSplitTypes
    <3>2. l.size = MinSize(LeafMax)
      BY <1>4 DEF LeafLower, LeafPages
    <3>3. u.size = LeafMax - MinSize(LeafMax) - 1
      BY <2>2 DEF LeafUpper, EmptyLeaf
    <3> QED BY <3>1, <3>2, <3>3, LeafFields
  <2> HIDE DEF l, u
  <2>4. l.size >= HalfOf(l) /\ u.size >= HalfOf(u)
    BY <1>7, <2>3, LeafKids
  <2>5. DOMAIN h = Pids /\ \A p \in Pids : h[p] = IF p = Cur THEN l ELSE heap[p]
    BY HeapTypes
  <2> HIDE DEF h
  <2>6. /\ Pids' = Pids \cup {n} /\ n \notin Pids /\ n \in Nat /\ heap'[n] = u
        /\ \A p \in Pids : heap'[p] = IF p = Cur THEN l ELSE heap[p]
    BY <2>1, <2>5, CreatedPage
  <2>8. n \notin live /\ n # root /\ live2 \in SUBSET Pids'
    BY <1>5, <1>6, <2>6
  <2>9. \A p \in live : /\ heap'[p].kind = heap[p].kind /\ Kids(heap'[p]) = Kids(heap[p])
                        /\ OneSlotEach(heap[p]) => OneSlotEach(heap'[p])
    <3>1. Kids(l) = Kids(heap[Cur]) /\ OneSlotEach(l) /\ l.kind = heap[Cur].kind
      BY <1>2, <1>4, <2>3, LeafKids
    <3> QED BY <1>5, <2>6, <3>1
  <2>11. lev2[n] = 0 /\ live2 = live \cup {n} /\ \A p \in live : lev2[p] = lev[p]
    BY <2>8
  <2>10. Forest(heap', {root, n}, live2, lev2)
    <3> HIDE DEF n, live2, lev2
    <3>1. Forest(heap, {root}, live, lev) /\ n \notin live /\ heap'[n].kind = "leaf"
      BY <1>5, <2>3, <2>6, <2>8
    <3> QED BY ONLY <2>9, <2>11, <3>1, ForestLeafSplit
  <2>12. path' = Front(path)
    BY <2>1 DEF ReturnTo
  <2>13. /\ path \in Seq(Pids) /\ path' \in Seq(Pids) /\ Len(path') = Len(path) - 1
         /\ \A i \in 1..Len(path') : path'[i] = path[i]
    BY <1>1, <2>12, HeapTypes, FrontFacts
  <2> HIDE DEF live2, lev2
  <2>14. PathDown(heap', path', root, live2, lev2)
    <3>1. PathDown(heap, path, root, live, lev) /\ live \subseteq live2
      BY DEF TreeShape, live2
    <3> QED
      BY <1>1, <1>5, <1>6, <2>9, <2>11, <2>13, <3>1, PathFront
  <2>15. lev2[n] + Len(path') = lev2[root]
    <3>1. lev[Cur] = 0 /\ Len(path) \in Nat /\ root \in live
      BY <1>2, <1>4, <1>5, <1>6, HeapTypes DEF Forest
    <3> QED BY <1>6, <2>11, <2>13, <3>1
  <2>16. path' = <<>> => heap'[root].size >= HalfOf(heap'[root])
    <3>1. path' = <<>> => Len(path) = 1
      BY <2>13, HeapTypes
    <3> QED BY <1>2, <1>6, <2>4, <2>6, <3>1
  <2>18. InnerMax >= 5 /\ path' # <<>> => Wide(heap'[root])
    <3>1. path' # <<>> => Len(path) > 1
      BY <2>13, HeapTypes
    <3>2. Len(path) > 1 => Cur # root
      BY PathFacts
    <3>3. InnerMax >= 5 => Wide(heap[root])
      BY <1>1, DownShape
    <3>4. Cur # root => heap'[root] = heap[root]
      BY <1>5, <1>6, <2>6
    <3> QED BY ONLY <3>1, <3>2, <3>3, <3>4
  <2>19. live2 \subseteq live \cup (Pids' \ Pids)
    BY <2>6 DEF live2
  <2>17. \A p \in live2 \ {root} : heap'[p].size >= HalfOf(heap'[p])
    BY <1>5, <2>4, <2>6 DEF live2
  <2> QED
    BY <1>1, <2>1, <2>6, <2>8, <2>10, <2>14, <2>15, <2>16, <2>17, <2>18, <2>19, ReturnsSplit
<1> QED
  BY <1>8, <1>9

\* Insert into an internal page whose child split.
LEMMA InnerInsertShape ==
  ASSUME IndInv, NEW live, NEW lev, TreeShape(live, lev), InnerInsertFits \/ InnerInsertSplits
  PROVE  StillTree(live)
<1> DEFINE inner == InnerPlace(Page, split.elem, split.pid)
           s == split.pid
<1>1. pc = "up" /\ path # <<>> /\ call.op = "Insert" /\ Len(path) > 0
  BY HeapTypes DEF InnerInsertFits, InnerInsertSplits
<1>2. /\ Cur \in Pids /\ Page \in InnerOver(Pids) /\ Page.size \in 1..(InnerMax - 1)
      /\ Page = heap[Cur] /\ Page.kind = "inner"
  BY <1>1, InnerUpFacts, InnerFields
<1>3. split.elem \in Entries /\ s \in Pids
  BY <1>1, HeapTypes DEF IndInv, FrameInputs
<1>4. /\ Forest(heap, {root, s}, live, lev) /\ root # s /\ s \in live /\ lev[s] \in Nat
      /\ lev[s] + Len(path) = lev[root] /\ live \in SUBSET Pids
      /\ \A p \in live \ {root} : heap[p].size >= HalfOf(heap[p])
  BY <1>1, UpInsertShape DEF TreeShape
<1>5. /\ Cur \in live /\ root \in live /\ lev[root] \in Nat /\ lev[Cur] \in Nat
      /\ Cur = path[Len(path)] /\ lev[Cur] + Len(path) = lev[root] + 1
      /\ Len(path) = 1 => Cur = root
  BY <1>1, PathFacts
<1>6. lev[Cur] = lev[s] + 1 /\ Len(path) \in Nat
  BY <1>4, <1>5, HeapTypes
<1>7. s \notin Kids(Page) /\ \A p \in live : OneSlotEach(heap[p])
  BY <1>2, <1>4, <1>5 DEF Forest
<1>8. /\ inner \in InnerOver(Pids) /\ inner.size = Page.size + 1 /\ inner.kind = "inner"
      /\ Kids(inner) = Kids(Page) \cup {s} /\ OneSlotEach(inner)
  <2>1. PICK pg, e, w : pg = Page /\ e = split.elem /\ w = s
    OBVIOUS
  <2>2. /\ pg \in InnerOver(Pids) /\ pg.size >= 1 /\ pg.size < InnerMax
        /\ e \in Entries /\ w \in Pids
    BY <1>2, <1>3, <2>1, ParameterAssumption
  <2>3. w \notin Kids(pg) /\ OneSlotEach(pg)
    BY <1>2, <1>5, <1>7, <2>1
  <2>4. InnerPlace(pg, e, w) \in InnerOver(Pids) /\ InnerPlace(pg, e, w).size = pg.size + 1
    BY ONLY <2>2, InnerPlaceType
  <2>5. /\ Kids(InnerPlace(pg, e, w)) = Kids(pg) \cup {w}
        /\ OneSlotEach(InnerPlace(pg, e, w))
    BY ONLY <2>2, <2>3, InnerPlaceKids
  <2>6. InnerPlace(pg, e, w).kind = "inner"
    BY <2>4, InnerFields
  <2> QED
    BY <2>1, <2>4, <2>5, <2>6
<1>9. /\ MinSize(InnerMax) \in Nat /\ 2 * MinSize(InnerMax) <= InnerMax - 1 /\ InnerMax \in Nat
      /\ HalfOf(Page) = MinSize(InnerMax)
  BY <1>2, ParameterAssumption, MinSizeBound, InnerHalf
<1> HIDE DEF inner, s
<1>10. CASE InnerInsertFits
  <2>1. heap' = [heap EXCEPT ![Cur] = inner] /\ Return(Done) /\ root' = root
    BY <1>10 DEF InnerInsertFits, inner
  <2>2. Pids' = Pids /\ \A p \in Pids : heap'[p] = IF p = Cur THEN inner ELSE heap[p]
    BY <2>1, HeapTypes DEF Pids
  <2>3. /\ \A p \in live : heap'[p].kind = heap[p].kind /\ OneSlotEach(heap'[p])
        /\ \A p \in live \ {Cur} : Kids(heap'[p]) = Kids(heap[p])
        /\ Kids(heap'[Cur]) = Kids(heap[Cur]) \cup {s}
    BY <1>2, <1>4, <1>7, <1>8, <2>2
  <2>4. Forest(heap', {root}, live, lev)
    <3>1. Forest(heap, {root, s}, live, lev) /\ root # s /\ Cur \in live /\ lev[Cur] = lev[s] + 1
      BY <1>4, <1>5, <1>6
    <3> QED BY <2>3, <3>1, ForestJoin
  <2>5. \A p \in live \ {root} : heap'[p].size >= HalfOf(heap'[p])
    <3>1. HalfOf(inner) = MinSize(InnerMax)
      BY <1>8, InnerHalf
    <3>2. Cur # root => inner.size >= HalfOf(inner)
      BY <1>2, <1>4, <1>5, <1>8, <1>9, <3>1
    <3> QED BY <1>4, <2>2, <3>2
  <2>6. InnerMax >= 5 => Wide(heap'[root])
    <3>1. InnerMax >= 5 => Wide(heap[root])
      BY <1>1, UpInsertShape
    <3>2. root \in Pids /\ Page.size \in Nat /\ Page.kind = "inner"
      BY <1>2, <1>4, <1>5
    <3> QED BY <1>2, <1>8, <2>2, <3>1, <3>2 DEF Wide
  <2> QED
    BY <1>4, <2>1, <2>2, <2>4, <2>5, <2>6, EndsInShape
<1>11. CASE InnerInsertSplits
  <2> DEFINE l == InnerLower(inner)
             u == InnerUpper(inner)
             n == nextPid
             h == [heap EXCEPT ![Cur] = l]
             live2 == live \cup {n}
             lev2 == [p \in live \cup {n} |-> IF p = n THEN lev[Cur] ELSE lev[p]]
  <2>1. /\ InnerFull(inner) /\ Create(h, u)
        /\ ReturnTo(NoPid, [elem |-> InnerMiddle(inner), pid |-> n])
    BY <1>11 DEF InnerInsertSplits, inner
  <2>2. inner.size = InnerMax
    BY <1>2, <1>8, <1>9, <2>1 DEF InnerFull
  <2>3. /\ l \in InnerOver(Pids) /\ u \in InnerOver(Pids) /\ l.kind = "inner" /\ u.kind = "inner"
        /\ l.size = MinSize(InnerMax) /\ u.size = InnerMax - MinSize(InnerMax)
        /\ Kids(l) \cup Kids(u) = Kids(Page) \cup {s} /\ Kids(l) \cap Kids(u) = {}
        /\ OneSlotEach(l) /\ OneSlotEach(u)
    BY <1>8, <2>2, InnerSplitTypes, InnerSplitSlots, InnerSplitKids, InnerFields, HeapTypes
  <2> HIDE DEF l, u
  <2>4. l.size >= HalfOf(l) /\ u.size >= HalfOf(u)
    BY <1>9, <2>3, InnerHalf
  <2>5. DOMAIN h = Pids /\ \A p \in Pids : h[p] = IF p = Cur THEN l ELSE heap[p]
    BY HeapTypes
  <2> HIDE DEF h
  <2>6. /\ Pids' = Pids \cup {n} /\ n \notin Pids /\ n \in Nat /\ heap'[n] = u
        /\ \A p \in Pids : heap'[p] = IF p = Cur THEN l ELSE heap[p]
    BY <2>1, <2>5, CreatedPage
  <2>7. n \notin live /\ n # root /\ live2 \in SUBSET Pids'
    BY <1>4, <1>5, <2>6
  <2>8. /\ \A p \in live : heap'[p].kind = heap[p].kind /\ OneSlotEach(heap'[p])
        /\ \A p \in live \ {Cur} : Kids(heap'[p]) = Kids(heap[p])
        /\ heap'[Cur] = l
    BY <1>2, <1>4, <1>5, <1>7, <2>3, <2>6
  <2>9. Forest(heap', {root, n}, live2, lev2)
    <3>1. /\ Forest(heap, {root, s}, live, lev) /\ root # s /\ Cur \in live /\ n \notin live
          /\ lev[Cur] = lev[s] + 1
      BY <1>4, <1>5, <1>6, <2>7
    <3>2. /\ heap'[n].kind = "inner" /\ OneSlotEach(heap'[n])
          /\ Kids(heap'[Cur]) \cup Kids(heap'[n]) = Kids(heap[Cur]) \cup {s}
          /\ Kids(heap'[Cur]) \cap Kids(heap'[n]) = {}
          /\ \A p \in live : heap'[p].kind = heap[p].kind /\ OneSlotEach(heap'[p])
          /\ \A p \in live \ {Cur} : Kids(heap'[p]) = Kids(heap[p])
      BY <1>2, <2>3, <2>6, <2>8
    <3>3. live2 = live \cup {n} /\ lev2[n] = lev[Cur] /\ \A p \in live : lev2[p] = lev[p]
      BY <2>7
    <3> HIDE DEF n, live2, lev2
    <3> QED BY <3>1, <3>2, <3>3, ForestInnerSplit
  <2>10. lev2[n] = lev[Cur] /\ \A p \in live : lev2[p] = lev[p]
    BY <2>7
  <2>11. path' = Front(path)
    BY <2>1 DEF ReturnTo
  <2>12. /\ path \in Seq(Pids) /\ path' \in Seq(Pids) /\ Len(path') = Len(path) - 1
         /\ \A i \in 1..Len(path') : path'[i] = path[i]
    BY <1>1, <2>11, HeapTypes, FrontFacts
  <2> HIDE DEF live2, lev2
  <2>13. PathDown(heap', path', root, live2, lev2)
    <3>1. PathDown(heap, path, root, live, lev) /\ live \subseteq live2
      BY DEF TreeShape, live2
    <3>2. \A p \in live : lev[p] > lev[Cur] + 1 => Kids(heap'[p]) = Kids(heap[p])
      BY <1>5, <2>8
    <3>3. /\ lev2[root] = lev[root] /\ path # <<>> /\ root \in live
          /\ \A p \in live : lev[p] > lev[path[Len(path)]] => p \in live2 /\ lev2[p] = lev[p]
          /\ \A p \in live : lev[p] > lev[path[Len(path)]] + 1 => Kids(heap'[p]) = Kids(heap[p])
      BY <1>1, <1>5, <2>10, <3>1, <3>2
    <3> HIDE DEF n
    <3> QED
      BY <1>4, <2>12, <3>1, <3>3, PathFront
  <2>14. lev2[n] + Len(path') = lev2[root]
    <3>1. lev2[n] = lev[Cur] /\ lev2[root] = lev[root]
      BY <1>5, <2>10
    <3> DEFINE m == Len(path)
               m2 == Len(path')
    <3>2. m \in Nat /\ m2 = m - 1 /\ lev[Cur] + m = lev[root] + 1 /\ lev[Cur] \in Nat /\ lev[root] \in Nat
      BY <1>5, <1>6, <2>12
    <3> HIDE DEF m, m2, n
    <3>3. lev[Cur] + m2 = lev[root]
      BY <3>2
    <3> QED BY <3>1, <3>3 DEF m2
  <2>15. path' = <<>> => heap'[root].size >= HalfOf(heap'[root])
    <3>1. path' = <<>> => Len(path) = 1
      BY <2>12, <1>6
    <3> QED BY <1>2, <1>5, <2>4, <2>6, <3>1
  <2>16. \A p \in live2 \ {root} : heap'[p].size >= HalfOf(heap'[p])
    BY <1>4, <2>4, <2>6 DEF live2
  <2>17. InnerMax >= 5 /\ path' # <<>> => Wide(heap'[root])
    <3>1. path' # <<>> => Len(path) > 1
      BY <2>12, <1>6
    <3>2. Len(path) > 1 => Cur # root
      BY PathFacts
    <3>3. InnerMax >= 5 => Wide(heap[root])
      BY <1>1, UpInsertShape
    <3>4. Cur # root => heap'[root] = heap[root]
      BY <1>4, <1>5, <2>6
    <3> QED BY ONLY <3>1, <3>2, <3>3, <3>4
  <2>18. live2 \subseteq live \cup (Pids' \ Pids)
    BY <2>6 DEF live2
  <2> QED
    BY <1>1, <2>1, <2>6, <2>7, <2>17, <2>18, <2>9, <2>13, <2>14, <2>15, <2>16, ReturnsSplit
<1> QED
  BY <1>10, <1>11

\* The root split.
LEMMA GrowRootShape ==
  ASSUME IndInv, NEW live, NEW lev, TreeShape(live, lev), GrowRoot
  PROVE  StillTree(live)
<1> DEFINE s == split.pid
           q == NewRoot(split.elem, root, s)
           n == nextPid
           live2 == live \cup {n}
           lev2 == [p \in live \cup {n} |-> IF p = n THEN lev[root] + 1 ELSE lev[p]]
<1>1. /\ pc = "up" /\ call.op = "Insert" /\ path = <<>> /\ Create(heap, q) /\ root' = n /\ Return(Done)
  BY DEF GrowRoot
<1>2. /\ Forest(heap, {root, s}, live, lev) /\ s # root /\ s \in live /\ lev[s] \in Nat
      /\ lev[s] + Len(path) = lev[root] /\ live \in SUBSET Pids
      /\ heap[root].size >= HalfOf(heap[root])
      /\ \A p \in live \ {root} : heap[p].size >= HalfOf(heap[p])
  BY <1>1, UpInsertShape DEF TreeShape
<1>3. lev[root] = lev[s]
  BY <1>1, <1>2
<1>4. DOMAIN heap = Pids
  BY DEF Pids
<1>5. /\ Pids' = Pids \cup {n} /\ n \notin Pids /\ n \in Nat /\ heap'[n] = q
      /\ \A p \in Pids : heap'[p] = heap[p]
  BY <1>1, <1>4, CreatedPage
<1>6. q.kind = "inner" /\ Kids(q) = {root, s} /\ OneSlotEach(q)
  <2>1. q.kind = "inner"
    BY DEF NewRoot, EmptyInner
  <2> QED BY <1>2, <2>1, NewRootKids
<1>10. InnerMax >= 5 => Wide(q)
  <2>1. q.size = 2
    BY DEF NewRoot
  <2> QED BY <2>1 DEF Wide
<1> HIDE DEF q
<1>7. n \notin live /\ \A p \in live : heap'[p] = heap[p]
  BY <1>2, <1>5
<1>8. Forest(heap', {n}, live2, lev2)
  <2>1. heap'[n].kind = "inner" /\ Kids(heap'[n]) = {root, s} /\ OneSlotEach(heap'[n])
    BY <1>5, <1>6
  <2>2. Forest(heap, {root, s}, live, lev) /\ lev[root] = lev[s]
    BY <1>2, <1>3
  <2>3. live2 = live \cup {n} /\ lev2[n] = lev[root] + 1 /\ \A p \in live : lev2[p] = lev[p]
    BY <1>7
  <2>4. n \notin live /\ \A p \in live : heap'[p] = heap[p]
    BY <1>7
  <2> HIDE DEF n, s, live2, lev2
  <2> QED BY ONLY <2>1, <2>2, <2>3, <2>4, ForestGrow
<1> HIDE DEF lev2
<1>9. live2 \in SUBSET Pids' /\ \A p \in live2 \ {n} : heap'[p].size >= HalfOf(heap'[p])
  BY <1>2, <1>5, <1>7
<1>11. live2 \subseteq live \cup (Pids' \ Pids) /\ (InnerMax >= 5 => Wide(heap'[root']))
  BY <1>1, <1>5, <1>10
<1> HIDE DEF live2
<1> QED
  BY <1>1, <1>8, <1>9, <1>11, EndsInShape

\* Remove from a leaf that keeps enough entries.
LEMMA LeafRemoveShape ==
  ASSUME IndInv, NEW live, NEW lev, TreeShape(live, lev), RemoveFromLeaf
  PROVE  StillTree(live)
<1>1. /\ AtLeaf("Remove") /\ LeafHolds(Page, key) /\ ~LeafUnderflow /\ pc = "down"
      /\ heap' = [heap EXCEPT ![Cur] = Erased] /\ Return(Done) /\ root' = root
  BY DEF RemoveFromLeaf, AtLeaf
<1>2. path # <<>> /\ IsLeaf(Cur) /\ Erased \in LeafPages /\ Erased.size \in Nat
  BY <1>1, ErasedType, LeafFields
<1>3. Page.kind = "leaf" /\ Erased.kind = "leaf" /\ Len(path) \in Nat /\ Len(path) >= 1
  BY <1>2, CurPage, LeafFields
<1>4. Cur # root => Erased.size >= HalfOf(Erased)
  <2>1. Cur # root => Len(path) > 1
    <3> DEFINE m == Len(path)
    <3>1. m \in Nat /\ m >= 1 /\ (m = 1 => Cur = root)
      BY <1>3, PathFacts
    <3> HIDE DEF m
    <3>2. Cur # root => m > 1
      BY <3>1
    <3> QED BY <3>2 DEF m
  <2>2. Cur # root => ~LeafPoor(Erased)
    BY <1>1, <2>1 DEF LeafUnderflow
  <2>3. MinSize(LeafMax) \in Nat /\ HalfOf(Erased) = MinSize(LeafMax)
    BY <1>3, LeafKids, ParameterAssumption, MinSizeBound
  <2> QED BY <1>2, <2>2, <2>3 DEF LeafPoor
<1> QED
  BY <1>1, <1>2, <1>3, <1>4, LeafKids, WriteShape

-----------------------------------------------------------------------------
\* Borrowing and merging: the steps that write the page, its sibling and their
\* parent.

\* A heap after its three writes.
LEMMA ThreeWritten ==
  ASSUME NEW h, NEW a \in DOMAIN h, NEW b \in DOMAIN h, NEW c \in DOMAIN h,
         a # b, a # c, b # c, NEW x, NEW y, NEW z, NEW h2,
         h2 = [h EXCEPT ![a] = x, ![b] = y, ![c] = z]
  PROVE  /\ DOMAIN h2 = DOMAIN h /\ h2[a] = x /\ h2[b] = y /\ h2[c] = z
         /\ \A p \in DOMAIN h \ {a, b, c} : h2[p] = h[p]
OBVIOUS

\* A leaf that borrows an entry.
LEMMA LeafBorrowShape ==
  ASSUME IndInv, NEW live, NEW lev, TreeShape(live, lev), LeafBorrowRight \/ LeafBorrowLeft
  PROVE  StillTree(live)
<1> DEFINE sib == heap[Sib]
           par == heap[Parent]
<1>1. LeafUnderflow /\ HasSibling /\ sib.size > MinSize(LeafMax)
  BY DEF LeafBorrowRight, LeafBorrowLeft, LeafLends
<1>2. /\ Erased \in LeafPages /\ Erased.size \in 0..(MinSize(LeafMax) - 1)
      /\ sib \in LeafPages /\ sib.size \in 0..(LeafMax - 1) /\ LeafMax \in Nat
      /\ MinSize(LeafMax) \in Nat /\ 2 * MinSize(LeafMax) <= LeafMax - 1
      /\ pc = "down" /\ IsLeaf(Cur)
  BY <1>1, LeafUnderflowSizes
<1>3. /\ Cur \in Pids /\ Parent \in Pids /\ Sib \in Pids /\ path # <<>>
      /\ Parent # Cur /\ Sib # Cur /\ Sib # Parent /\ Sep \in Entries
      /\ par \in InnerOver(Pids) /\ par.kind = "inner"
  BY <1>1, UnderflowPages
<1>4. heap \in [Pids -> FitPages(Pids)]
  BY HeapTypes
<1>5. /\ Page = heap[Cur] /\ Page \in LeafPages /\ Page.size >= 1 /\ Page.size \in Nat
      /\ Erased.size = Page.size - 1 /\ Cur # root /\ Sib # root /\ Cur \in live
  <2>1. LeafHolds(Page, key)
    BY <1>1 DEF LeafUnderflow
  <2> QED BY <1>1, <1>2, <1>3, <2>1, CurPage, SiblingShape, LeafEraseType, LeafFields DEF Erased
<1>6. /\ Forest(heap, {root}, live, lev) /\ live \in SUBSET Pids
      /\ \A p \in live \ {root} : heap[p].size >= HalfOf(heap[p])
  BY <1>2, DownShape DEF TreeShape
<1>7. Page.kind = "leaf" /\ sib.kind = "leaf" /\ Page.size >= MinSize(LeafMax)
  BY <1>2, <1>5, <1>6, LeafFields, LeafKids
<1>8. \E x, y, e : /\ heap' = [heap EXCEPT ![Cur] = x, ![Sib] = y, ![Parent] = InnerSetEntry(par, SepIdx, e)]
                   /\ x.kind = "leaf" /\ x.size = Page.size
                   /\ y.kind = "leaf" /\ y.size = sib.size - 1
  <2>1. /\ LeafPushBack(Erased, Sep) \in LeafPages /\ LeafPushBack(Erased, Sep).size = Erased.size + 1
        /\ LeafPushFront(Erased, Sep) \in LeafPages /\ LeafPushFront(Erased, Sep).size = Erased.size + 1
        /\ LeafPopFront(sib) \in LeafPages /\ LeafPopFront(sib).size = sib.size - 1
        /\ LeafPopBack(sib) \in LeafPages /\ LeafPopBack(sib).size = sib.size - 1
    <3>1. Erased.size < LeafMax /\ sib.size >= 1
      BY <1>1, <1>2
    <3> QED BY <1>2, <1>3, <3>1, LeafPushTypes, LeafPopTypes
  <2>2. /\ LeafPushBack(Erased, Sep).kind = "leaf" /\ LeafPushFront(Erased, Sep).kind = "leaf"
        /\ LeafPopFront(sib).kind = "leaf" /\ LeafPopBack(sib).kind = "leaf"
        /\ Erased.size + 1 = Page.size
    BY <1>5, <2>1, LeafFields
  <2>3. \/ heap' = [heap EXCEPT ![Cur] = LeafPushBack(Erased, Sep),
                                ![Sib] = LeafPopFront(sib),
                                ![Parent] = InnerSetEntry(par, SepIdx, LeafFirst(sib))]
        \/ heap' = [heap EXCEPT ![Cur] = LeafPushFront(Erased, Sep),
                                ![Sib] = LeafPopBack(sib),
                                ![Parent] = InnerSetEntry(par, SepIdx, LeafLast(sib))]
    BY <1>3, <1>4 DEF LeafBorrowRight, LeafBorrowLeft
  <2> QED BY <2>1, <2>2, <2>3
<1>9. PICK x, y, e : /\ heap' = [heap EXCEPT ![Cur] = x, ![Sib] = y, ![Parent] = InnerSetEntry(par, SepIdx, e)]
                     /\ x.kind = "leaf" /\ x.size = Page.size
                     /\ y.kind = "leaf" /\ y.size = sib.size - 1
  BY <1>8
<1> DEFINE q == InnerSetEntry(par, SepIdx, e)
<1>10. /\ Kids(q) = Kids(par) /\ (OneSlotEach(par) => OneSlotEach(q)) /\ q.kind = "inner"
       /\ q.size = par.size /\ HalfOf(q) = HalfOf(par)
  <2>1. q.kind = par.kind /\ q.size = par.size
    BY <1>3 DEF InnerSetEntry, InnerOver
  <2> QED BY <1>3, <2>1, InnerSetEntryKids DEF HalfOf
<1>11. /\ Pids' = Pids /\ heap'[Cur] = x /\ heap'[Sib] = y /\ heap'[Parent] = q
       /\ \A p \in Pids \ {Cur, Sib, Parent} : heap'[p] = heap[p]
  BY <1>3, <1>9, ThreeWritten DEF Pids
<1> HIDE DEF q
<1>12. \A p \in live : /\ heap'[p].kind = heap[p].kind /\ Kids(heap'[p]) = Kids(heap[p])
                       /\ OneSlotEach(heap[p]) => OneSlotEach(heap'[p])
  <2>1. /\ Kids(x) = Kids(Page) /\ OneSlotEach(x) /\ x.kind = Page.kind
        /\ Kids(y) = Kids(sib) /\ OneSlotEach(y) /\ y.kind = sib.kind
    BY <1>7, <1>9, LeafKids
  <2> QED BY <1>3, <1>5, <1>6, <1>10, <1>11, <2>1
<1>13. \A p \in live \ {root} : heap'[p].size >= HalfOf(heap'[p])
  <2>1. x.size >= HalfOf(x) /\ y.size >= HalfOf(y)
    BY <1>1, <1>2, <1>7, <1>9, LeafKids
  <2> QED BY <1>6, <1>10, <1>11, <2>1
<1>14. Return(Done) /\ root' = root
  BY DEF LeafBorrowRight, LeafBorrowLeft
<1>15. InnerMax >= 5 => Wide(heap'[root])
  <2>1. root \in Pids /\ (InnerMax >= 5 => Wide(heap[root]))
    BY <1>2, DownShape, HeapTypes
  <2> QED BY <1>3, <1>5, <1>10, <1>11, <2>1 DEF Wide
<1> QED
  BY <1>6, <1>11, <1>12, <1>13, <1>14, <1>15, EndsSame

\* The frame below the current one gets the path's last page.
LEMMA FrontParent ==
  ASSUME IndInv, Len(path) > 1, path' = Front(path)
  PROVE  /\ path \in Seq(Pids) /\ path' \in Seq(Pids) /\ Len(path') = Len(path) - 1
         /\ \A i \in 1..Len(path') : path'[i] = path[i]
         /\ path' # <<>> /\ Last(path') = Parent
<1>1. path \in Seq(Pids) /\ path # <<>> /\ Len(path) \in Nat
  BY HeapTypes, ParentPage
<1>2. path' \in Seq(Pids) /\ Len(path') = Len(path) - 1 /\ \A i \in 1..Len(path') : path'[i] = path[i]
  BY <1>1, FrontFacts
<1>3. path' # <<>> /\ Len(path') \in 1..Len(path')
  BY <1>1, <1>2
<1> QED
  BY <1>1, <1>2, <1>3 DEF Last, Parent

\* A page is merged into its sibling: what matters of the four merge steps.
LEMMA MergedShape ==
  ASSUME IndInv, NEW live, NEW lev, TreeShape(live, lev), LeafUnderflow \/ InnerUnderflow,
         HasSibling, ReturnTo(Cur, NoSplit), Pids' = Pids,
         NEW keep, NEW gone, keep \in {Cur, Sib}, gone \in {Cur, Sib}, keep # gone,
         heap[Parent].pids[SepIdx] = gone,
         heap'[Parent] = InnerDrop(heap[Parent], SepIdx),
         \A p \in Pids \ {Cur, Sib, Parent} : heap'[p] = heap[p],
         heap'[keep].kind = heap[keep].kind, OneSlotEach(heap'[keep]),
         Kids(heap'[keep]) \subseteq Kids(heap[keep]) \cup Kids(heap[gone]),
         heap'[keep].size >= HalfOf(heap'[keep])
  PROVE  StillTree(live)
<1> DEFINE par == heap[Parent]
           q == InnerDrop(par, SepIdx)
           live2 == live \ {gone}
<1>1. /\ call.op = "Remove" /\ path' = Front(path) /\ root' = root /\ pc \in {"down", "up"}
  BY DEF ReturnTo, LeafUnderflow, InnerUnderflow, AtLeaf
<1>2. /\ Len(path) > 1 /\ Parent \in live /\ Cur \in live /\ Sib \in live
      /\ Parent # Cur /\ Sib # Cur /\ Sib # Parent /\ Cur # root /\ Sib # root
      /\ Cur \in Kids(par) /\ Sib \in Kids(par)
      /\ lev[Sib] = lev[Cur] /\ lev[Parent] = lev[Cur] + 1 /\ lev[Cur] \in Nat
      /\ SepIdx \in 1..(par.size - 1)
  BY SiblingShape
<1>3. par \in InnerOver(Pids) /\ par.kind = "inner" /\ par.size \in Nat /\ par.size >= 1
  BY <1>2, UnderflowPages, InnerFields
<1>4. /\ Forest(heap, {root}, live, lev) /\ live \in SUBSET Pids /\ root \in live
      /\ \A p \in live \ {root, Cur} : heap[p].size >= HalfOf(heap[p])
  BY <1>1, DownShape, UpRemoveShape, PathFacts DEF TreeShape
<1>5. \A p \in live : OneSlotEach(heap[p])
  BY <1>4 DEF Forest
<1>6. /\ q.kind = "inner" /\ q.size = par.size - 1 /\ Kids(q) = Kids(par) \ {gone} /\ OneSlotEach(q)
  <2>1. SepIdx \in 0..(par.size - 1) /\ SepIdx \in Nat
    BY <1>2, <1>3
  <2> QED BY <1>2, <1>3, <1>5, <2>1, InnerDropType, InnerDropKids, InnerFields
<1> HIDE DEF q
<1>7. Forest(heap', {root}, live2, lev)
  <2>1. Parent \in live /\ keep \in Kids(heap[Parent]) /\ gone \in Kids(heap[Parent])
    BY <1>2
  <2>2. \A p \in live \ {gone} : heap'[p].kind = heap[p].kind /\ OneSlotEach(heap'[p])
    BY <1>2, <1>3, <1>4, <1>5, <1>6 DEF q
  <2>3. /\ \A p \in live \ {Parent, keep, gone} : Kids(heap'[p]) = Kids(heap[p])
        /\ Kids(heap'[Parent]) = Kids(heap[Parent]) \ {gone}
        /\ Kids(heap'[keep]) \subseteq Kids(heap[keep]) \cup Kids(heap[gone])
    BY <1>2, <1>4, <1>6 DEF q
  <2>4. keep # gone /\ Forest(heap, {root}, live, lev)
    BY <1>4
  <2> QED BY ONLY <2>1, <2>2, <2>3, <2>4, ForestMerge
<1>8. /\ path \in Seq(Pids) /\ path' \in Seq(Pids) /\ Len(path') = Len(path) - 1
      /\ \A i \in 1..Len(path') : path'[i] = path[i]
      /\ path' # <<>> /\ Last(path') = Parent
  BY <1>1, <1>2, FrontParent
<1>9. PathDown(heap', path', root, live2, lev)
  <2>1. path # <<>> /\ Cur = path[Len(path)] /\ PathDown(heap, path, root, live, lev)
    BY <1>2, PathFacts DEF TreeShape
  <2>2. \A p \in live : lev[p] > lev[path[Len(path)]] => p \in live2 /\ lev[p] = lev[p]
    BY <1>2, <2>1
  <2>3. \A p \in live : lev[p] > lev[path[Len(path)]] + 1 => Kids(heap'[p]) = Kids(heap[p])
    BY <1>2, <1>4, <2>1
  <2>4. Forest(heap, {root}, live, lev) /\ root \in live
    BY <1>4
  <2> HIDE DEF live2
  <2> QED BY <1>8, <2>1, <2>2, <2>3, <2>4, PathFront
<1>10. \A p \in live2 \ {root, Parent} : heap'[p].size >= HalfOf(heap'[p])
  BY <1>2, <1>4
<1>11. Parent # root => heap'[Parent].size >= HalfOf(heap'[Parent]) - 1
  <2>1. HalfOf(par) = HalfOf(q) /\ HalfOf(par) \in Nat
    BY <1>3, <1>6, InnerHalf, ParameterAssumption, MinSizeBound
  <2>2. Parent # root => par.size >= HalfOf(par)
    BY <1>2, <1>4
  <2> QED BY <1>3, <1>6, <2>1, <2>2 DEF q
<1>12. live2 \in SUBSET Pids'
  BY <1>4
<1>13. InnerMax >= 5 /\ Parent # root => Wide(heap'[root])
  <2>1. InnerMax >= 5 => Wide(heap[root])
    BY <1>1, <1>2, DownShape, UpRemoveShape
  <2>2. Parent # root => heap'[root] = heap[root]
    BY <1>2, <1>4
  <2> QED BY <2>1, <2>2
<1> HIDE DEF live2
<1>14. live2 \subseteq live \cup (Pids' \ Pids)
  BY DEF live2
<1> QED
  BY <1>1, <1>7, <1>8, <1>9, <1>10, <1>11, <1>12, <1>13, <1>14, ReturnsMerged

\* A leaf is merged.
LEMMA LeafMergeShape ==
  ASSUME IndInv, NEW live, NEW lev, TreeShape(live, lev), LeafMergeRight \/ LeafMergeLeft
  PROVE  StillTree(live)
<1> DEFINE sib == heap[Sib]
           par == heap[Parent]
<1>1. /\ LeafUnderflow /\ HasSibling /\ sib.size <= MinSize(LeafMax) /\ ReturnTo(Cur, NoSplit)
      /\ LeafUnderflow \/ InnerUnderflow
  BY DEF LeafMergeRight, LeafMergeLeft, LeafMerges
<1>2. /\ Erased \in LeafPages /\ Erased.size \in 0..(MinSize(LeafMax) - 1)
      /\ sib \in LeafPages /\ sib.size \in 0..(LeafMax - 1) /\ LeafMax \in Nat
      /\ MinSize(LeafMax) \in Nat /\ 2 * MinSize(LeafMax) <= LeafMax - 1
      /\ pc = "down" /\ IsLeaf(Cur)
  BY <1>1, LeafUnderflowSizes
<1>3. /\ Cur \in Pids /\ Parent \in Pids /\ Sib \in Pids /\ path # <<>>
      /\ Parent # Cur /\ Sib # Cur /\ Sib # Parent /\ Sep \in Entries
  BY <1>1, UnderflowPages
<1>4. heap \in [Pids -> FitPages(Pids)] /\ heap[Cur].kind = "leaf" /\ sib.kind = "leaf"
  BY <1>2, HeapTypes, LeafFields DEF IsLeaf
<1>5. sib.size >= MinSize(LeafMax)
  <2>1. Sib \in live \ {root}
    BY <1>1, SiblingShape
  <2> QED BY <1>2, <1>4, <2>1, DownShape, LeafKids
<1>6. CASE LeafMergeRight
  <2> DEFINE l == LeafAbsorb(Erased, Sep, sib)
             g == LeafGrow(l, sib.size)
  <2>1. l \in LeafPages /\ l.size = Erased.size + 1
    BY <1>1, <1>2, <1>3, LeafAbsorbType
  <2> HIDE DEF l
  <2>2. sib.size \in Nat /\ l.size + sib.size <= LeafMax
    BY <1>1, <1>2, <2>1
  <2>3. g \in LeafPages /\ g.size = l.size + sib.size
    BY <2>1, <2>2, LeafGrowType
  <2> HIDE DEF g
  <2>4. g.kind = "leaf" /\ Kids(g) = {} /\ OneSlotEach(g) /\ g.size >= HalfOf(g)
    BY <1>2, <1>5, <2>1, <2>3, LeafFields, LeafKids
  <2>5. heap' = [heap EXCEPT ![Cur] = g, ![Parent] = InnerDrop(par, SepIdx)]
    BY <1>3, <1>4, <1>6 DEF LeafMergeRight, g, l
  <2>6. /\ Pids' = Pids /\ heap'[Cur] = g /\ heap'[Parent] = InnerDrop(par, SepIdx)
        /\ \A p \in Pids \ {Cur, Sib, Parent} : heap'[p] = heap[p]
    BY <1>3, <2>5 DEF Pids
  <2>7. par.pids[SepIdx] = Sib
    BY <1>1, <1>6, SiblingShape DEF LeafMergeRight
  <2> QED
    BY <1>1, <1>3, <1>4, <2>4, <2>6, <2>7, MergedShape
<1>7. CASE LeafMergeLeft
  <2> DEFINE g == LeafGrow(Erased, Erased.size)
             l == LeafAbsorb(sib, Sep, Erased)
  <2>1. sib.size + Erased.size + 1 <= LeafMax
    BY <1>1, <1>2
  <2>2. l \in LeafPages /\ l.size = sib.size + 1
    BY <1>2, <1>3, <2>1, LeafAbsorbType
  <2> HIDE DEF g, l
  <2>3. l.kind = "leaf" /\ Kids(l) = {} /\ OneSlotEach(l) /\ l.size >= HalfOf(l)
    BY <1>2, <1>5, <2>2, LeafFields, LeafKids
  <2>4. heap' = [heap EXCEPT ![Cur] = g, ![Sib] = l, ![Parent] = InnerDrop(par, SepIdx)]
    BY <1>3, <1>4, <1>7 DEF LeafMergeLeft, g, l
  <2>5. /\ Pids' = Pids /\ heap'[Sib] = l /\ heap'[Parent] = InnerDrop(par, SepIdx)
        /\ \A p \in Pids \ {Cur, Sib, Parent} : heap'[p] = heap[p]
    BY <1>3, <2>4, ThreeWritten DEF Pids
  <2>6. par.pids[SepIdx] = Cur
    BY <1>1, <1>7, SiblingShape DEF LeafMergeLeft
  <2> QED
    BY <1>1, <1>3, <1>4, <2>3, <2>5, <2>6, MergedShape
<1> QED
  BY <1>6, <1>7

\* An internal page is merged.  Of a left merge the tree loses the children that
\* are not counted, if there are any.
LEMMA InnerMergeShape ==
  ASSUME IndInv, NEW live, NEW lev, TreeShape(live, lev), InnerMergeRight \/ InnerMergeLeft
  PROVE  StillTree(live)
<1> DEFINE sib == heap[Sib]
           par == heap[Parent]
<1>1. /\ InnerUnderflow /\ HasSibling /\ sib.size <= MinSize(InnerMax) /\ ReturnTo(Cur, NoSplit)
      /\ LeafUnderflow \/ InnerUnderflow
  BY DEF InnerMergeRight, InnerMergeLeft, InnerMerges
<1>2. /\ Page \in InnerOver(Pids) /\ Page.size \in 1..(MinSize(InnerMax) - 1) /\ heap[Cur] = Page
      /\ sib \in InnerOver(Pids) /\ sib.size \in 1..(InnerMax - 1) /\ InnerMax \in Nat
      /\ MinSize(InnerMax) \in Nat /\ 2 * MinSize(InnerMax) <= InnerMax - 1
      /\ pc = "up" /\ call.op = "Remove"
  BY <1>1, InnerUnderflowSizes
<1>3. /\ Cur \in Pids /\ Parent \in Pids /\ Sib \in Pids
      /\ Parent # Cur /\ Sib # Cur /\ Sib # Parent /\ Sep \in Entries
  BY <1>1, UnderflowPages
<1>4. heap \in [Pids -> FitPages(Pids)] /\ Page.kind = "inner" /\ sib.kind = "inner"
  BY <1>2, HeapTypes, InnerFields
<1>5. /\ Cur \in live /\ Sib \in live /\ Sib # root /\ Sib # Cur
  BY <1>1, SiblingShape
<1>6. /\ OneSlotEach(Page) /\ OneSlotEach(sib) /\ Kids(Page) \cap Kids(sib) = {}
      /\ sib.size >= MinSize(InnerMax)
  <2>1. /\ Forest(heap, {root}, live, lev)
        /\ \A p \in live \ {root, Cur} : heap[p].size >= HalfOf(heap[p])
    BY <1>2, UpRemoveShape
  <2>2. sib.size >= HalfOf(sib)
    BY <1>5, <2>1
  <2>3. OneSlotEach(heap[Cur]) /\ OneSlotEach(sib) /\ Kids(heap[Cur]) \cap Kids(sib) = {}
    BY <1>5, <2>1 DEF Forest
  <2> QED BY <1>2, <1>4, <2>2, <2>3, InnerHalf
<1>7. CASE InnerMergeRight
  <2> DEFINE l == InnerAbsorb(Page, Sep, sib)
             g == InnerGrow(l, sib.size - 1)
  <2>1. sib.size >= 1 /\ Page.size >= 1 /\ Page.size + sib.size <= InnerMax
    BY <1>1, <1>2
  <2>2. l \in InnerOver(Pids) /\ l.size = Page.size + 1
    BY <1>2, <1>3, <2>1, InnerAbsorbType
  <2>3. Kids(g) = Kids(Page) \cup Kids(sib) /\ OneSlotEach(g)
    BY <1>2, <1>3, <1>6, <2>1, InnerAbsorbKids
  <2> HIDE DEF l
  <2>4. sib.size - 1 \in Nat /\ l.size + (sib.size - 1) <= InnerMax
    BY <1>1, <1>2, <2>2
  <2>5. g \in InnerOver(Pids) /\ g.size = l.size + (sib.size - 1)
    BY <2>2, <2>4, InnerGrowType
  <2> HIDE DEF g
  <2>6. g.kind = "inner" /\ g.size >= HalfOf(g)
    BY <1>2, <1>6, <2>2, <2>5, InnerFields, InnerHalf
  <2>7. heap' = [heap EXCEPT ![Cur] = g, ![Parent] = InnerDrop(par, SepIdx)]
    BY <1>2, <1>3, <1>4, <1>7 DEF InnerMergeRight, g, l
  <2>8. /\ Pids' = Pids /\ heap'[Cur] = g /\ heap'[Parent] = InnerDrop(par, SepIdx)
        /\ \A p \in Pids \ {Cur, Sib, Parent} : heap'[p] = heap[p]
    BY <1>3, <2>7 DEF Pids
  <2>9. par.pids[SepIdx] = Sib
    BY <1>1, <1>7, SiblingShape DEF InnerMergeRight
  <2> QED
    BY <1>1, <1>2, <1>3, <1>4, <2>3, <2>6, <2>8, <2>9, MergedShape
<1>8. CASE InnerMergeLeft
  <2> DEFINE g == InnerGrow(Page, Page.size - 1)
             l == InnerAbsorb(sib, Sep, Page)
  <2>1. sib.size >= 1 /\ Page.size >= 1 /\ sib.size + Page.size <= InnerMax
    BY <1>1, <1>2
  <2>2. l \in InnerOver(Pids) /\ l.size = sib.size + 1
    BY <1>2, <1>3, <2>1, InnerAbsorbType
  <2>3. Kids(l) \subseteq Kids(sib) \cup Kids(Page) /\ OneSlotEach(l)
    <3>1. Kids(sib) \cap Kids(Page) = {}
      BY <1>6
    <3> QED BY <1>2, <1>3, <1>6, <2>1, <3>1, InnerAbsorbKids
  <2> HIDE DEF g, l
  <2>4. l.kind = "inner" /\ l.size >= HalfOf(l)
    BY <1>2, <1>6, <2>2, InnerFields, InnerHalf
  <2>5. heap' = [heap EXCEPT ![Cur] = g, ![Sib] = l, ![Parent] = InnerDrop(par, SepIdx)]
    BY <1>2, <1>3, <1>4, <1>8 DEF InnerMergeLeft, g, l
  <2>6. /\ Pids' = Pids /\ heap'[Sib] = l /\ heap'[Parent] = InnerDrop(par, SepIdx)
        /\ \A p \in Pids \ {Cur, Sib, Parent} : heap'[p] = heap[p]
    BY <1>3, <2>5, ThreeWritten DEF Pids
  <2>7. par.pids[SepIdx] = Cur
    BY <1>1, <1>8, SiblingShape DEF InnerMergeLeft
  <2> QED
    BY <1>1, <1>2, <1>3, <1>4, <2>3, <2>4, <2>6, <2>7, MergedShape
<1> QED
  BY <1>7, <1>8

\* An internal page borrows a child.
LEMMA InnerBorrowShape ==
  ASSUME IndInv, NEW live, NEW lev, TreeShape(live, lev), InnerBorrowRight \/ InnerBorrowLeft
  PROVE  StillTree(live)
<1> DEFINE sib == heap[Sib]
           par == heap[Parent]
           first == sib.pids[0]
           last == sib.pids[sib.size - 1]
<1>1. /\ InnerUnderflow /\ HasSibling /\ sib.size > MinSize(InnerMax) /\ Return(Done) /\ root' = root
      /\ LeafUnderflow \/ InnerUnderflow
  BY DEF InnerBorrowRight, InnerBorrowLeft, InnerLends
<1>2. /\ Page \in InnerOver(Pids) /\ Page.size \in 1..(MinSize(InnerMax) - 1) /\ heap[Cur] = Page
      /\ sib \in InnerOver(Pids) /\ sib.size \in 1..(InnerMax - 1) /\ InnerMax \in Nat
      /\ MinSize(InnerMax) \in Nat /\ 2 * MinSize(InnerMax) <= InnerMax - 1
      /\ pc = "up" /\ call.op = "Remove"
  BY <1>1, InnerUnderflowSizes
<1>3. /\ Cur \in Pids /\ Parent \in Pids /\ Sib \in Pids
      /\ Parent # Cur /\ Sib # Cur /\ Sib # Parent /\ Sep \in Entries
      /\ par \in InnerOver(Pids) /\ par.kind = "inner"
  BY <1>1, UnderflowPages
<1>4. heap \in [Pids -> FitPages(Pids)] /\ Page.kind = "inner" /\ sib.kind = "inner"
  BY <1>2, HeapTypes, InnerFields
<1>5. /\ Cur \in live /\ Sib \in live /\ Parent \in live /\ Sib # root /\ Cur # root /\ lev[Sib] = lev[Cur]
  BY <1>1, SiblingShape
<1>6. /\ Forest(heap, {root}, live, lev) /\ live \in SUBSET Pids
      /\ \A p \in live \ {root, Cur} : heap[p].size >= HalfOf(heap[p])
      /\ heap[Cur].size >= HalfOf(heap[Cur]) - 1
  BY <1>2, <1>5, UpRemoveShape DEF TreeShape
<1>7. /\ OneSlotEach(Page) /\ OneSlotEach(sib) /\ Kids(Page) \cap Kids(sib) = {}
      /\ \A p \in live : OneSlotEach(heap[p])
      /\ Page.size >= MinSize(InnerMax) - 1
  <2>1. OneSlotEach(heap[Cur]) /\ OneSlotEach(sib) /\ Kids(heap[Cur]) \cap Kids(sib) = {}
    BY <1>3, <1>5, <1>6 DEF Forest
  <2>2. \A p \in live : OneSlotEach(heap[p])
    BY <1>6 DEF Forest
  <2> QED BY <1>2, <1>4, <1>6, <2>1, <2>2, InnerHalf
<1>8. sib.size >= 2 /\ Page.size >= 1 /\ Page.size < InnerMax
  BY <1>1, <1>2
<1>9. /\ first \in Kids(sib) /\ last \in Kids(sib) /\ first \in Pids /\ last \in Pids
      /\ Kids(InnerPopBack(sib)) = Kids(sib) \ {last} /\ OneSlotEach(InnerPopBack(sib))
      /\ Kids(InnerPopFront(sib)) = Kids(sib) \ {first} /\ OneSlotEach(InnerPopFront(sib))
  BY <1>2, <1>7, <1>8, InnerPopKids, InnerEnds
<1> HIDE DEF first, last
<1>10. \E x, y, c, e :
         /\ heap' = [heap EXCEPT ![Cur] = x, ![Sib] = y, ![Parent] = InnerSetEntry(par, SepIdx, e)]
         /\ c \in Kids(sib) /\ x.kind = "inner" /\ x.size = Page.size + 1
         /\ Kids(x) = Kids(Page) \cup {c} /\ OneSlotEach(x)
         /\ y.kind = "inner" /\ y.size = sib.size - 1
         /\ Kids(y) = Kids(sib) \ {c} /\ OneSlotEach(y)
  <2> DEFINE xr == InnerPushBack(Page, Sep, first)
             xl == InnerPushFront(Page, Sep, last)
             yr == InnerPopFront(sib)
             yl == InnerPopBack(sib)
  <2>1. /\ xr \in InnerOver(Pids) /\ xr.size = Page.size + 1
        /\ xl \in InnerOver(Pids) /\ xl.size = Page.size + 1
        /\ yr \in InnerOver(Pids) /\ yr.size = sib.size - 1
        /\ yl \in InnerOver(Pids) /\ yl.size = sib.size - 1
    BY <1>2, <1>3, <1>8, <1>9, InnerPushTypes, InnerPopTypes
  <2>2. /\ Kids(xr) = Kids(Page) \cup {first} /\ OneSlotEach(xr)
        /\ Kids(xl) = Kids(Page) \cup {last} /\ OneSlotEach(xl)
    <3>1. first \notin Kids(Page) /\ last \notin Kids(Page)
      BY <1>7, <1>9
    <3> QED BY <1>2, <1>3, <1>7, <1>8, <1>9, <3>1, InnerPushKids
  <2>3. xr.kind = "inner" /\ xl.kind = "inner" /\ yr.kind = "inner" /\ yl.kind = "inner"
    BY <2>1, InnerFields
  <2>4. \/ heap' = [heap EXCEPT ![Cur] = xr, ![Sib] = yr,
                                ![Parent] = InnerSetEntry(par, SepIdx, InnerFirst(sib))]
        \/ heap' = [heap EXCEPT ![Cur] = xl, ![Sib] = yl,
                                ![Parent] = InnerSetEntry(par, SepIdx, InnerLast(sib))]
    BY <1>2, <1>3, <1>4 DEF InnerBorrowRight, InnerBorrowLeft, first, last
  <2> HIDE DEF xr, xl, yr, yl
  <2>5. CASE heap' = [heap EXCEPT ![Cur] = xr, ![Sib] = yr,
                                  ![Parent] = InnerSetEntry(par, SepIdx, InnerFirst(sib))]
    BY <1>9, <2>1, <2>2, <2>3, <2>5 DEF yr
  <2>6. CASE heap' = [heap EXCEPT ![Cur] = xl, ![Sib] = yl,
                                  ![Parent] = InnerSetEntry(par, SepIdx, InnerLast(sib))]
    BY <1>9, <2>1, <2>2, <2>3, <2>6 DEF yl
  <2> QED BY <2>4, <2>5, <2>6
<1>11. PICK x, y, c, e :
         /\ heap' = [heap EXCEPT ![Cur] = x, ![Sib] = y, ![Parent] = InnerSetEntry(par, SepIdx, e)]
         /\ c \in Kids(sib) /\ x.kind = "inner" /\ x.size = Page.size + 1
         /\ Kids(x) = Kids(Page) \cup {c} /\ OneSlotEach(x)
         /\ y.kind = "inner" /\ y.size = sib.size - 1
         /\ Kids(y) = Kids(sib) \ {c} /\ OneSlotEach(y)
  BY <1>10
<1> DEFINE q == InnerSetEntry(par, SepIdx, e)
<1>12. /\ Kids(q) = Kids(par) /\ OneSlotEach(q) /\ q.kind = "inner"
       /\ q.size = par.size /\ HalfOf(q) = HalfOf(par)
  <2>1. q.kind = par.kind /\ q.size = par.size
    BY <1>3 DEF InnerSetEntry, InnerOver
  <2> QED BY <1>3, <1>5, <1>7, <2>1, InnerSetEntryKids DEF HalfOf
<1>13. /\ Pids' = Pids /\ heap'[Cur] = x /\ heap'[Sib] = y /\ heap'[Parent] = q
       /\ \A p \in Pids \ {Cur, Sib, Parent} : heap'[p] = heap[p]
  BY <1>3, <1>11, ThreeWritten DEF Pids
<1> HIDE DEF q
<1>14. Forest(heap', {root}, live, lev)
  <2>1. /\ \A p \in live : heap'[p].kind = heap[p].kind /\ OneSlotEach(heap'[p])
        /\ \A p \in live \ {Cur, Sib} : Kids(heap'[p]) = Kids(heap[p])
    BY <1>2, <1>3, <1>4, <1>6, <1>7, <1>11, <1>12, <1>13
  <2>2. /\ c \in Kids(heap[Sib]) /\ Kids(heap'[Cur]) = Kids(heap[Cur]) \cup {c}
        /\ Kids(heap'[Sib]) = Kids(heap[Sib]) \ {c}
    BY <1>2, <1>11, <1>13
  <2>3. Cur \in live /\ Sib \in live /\ Cur # Sib /\ lev[Cur] = lev[Sib] /\ Forest(heap, {root}, live, lev)
    BY <1>3, <1>5, <1>6
  <2> QED BY ONLY <2>1, <2>2, <2>3, ForestBorrow
<1>15. \A p \in live \ {root} : heap'[p].size >= HalfOf(heap'[p])
  <2>1. x.size >= HalfOf(x) /\ y.size >= HalfOf(y)
    BY <1>1, <1>2, <1>7, <1>11, InnerHalf
  <2> QED BY <1>3, <1>5, <1>6, <1>12, <1>13, <2>1
<1>16. InnerMax >= 5 => Wide(heap'[root])
  <2>1. root \in Pids /\ (InnerMax >= 5 => Wide(heap[root]))
    BY <1>2, <1>5, UpRemoveShape, HeapTypes
  <2> QED BY <1>3, <1>5, <1>12, <1>13, <2>1 DEF Wide
<1> QED
  BY <1>1, <1>6, <1>13, <1>14, <1>15, <1>16, EndsInShape

\* The page that lost a child has enough left, or is the root.
LEMMA RemoveEndsShape ==
  ASSUME IndInv, NEW live, NEW lev, TreeShape(live, lev), InnerSafe \/ RootKeeps
  PROVE  StillTree(live)
<1>1. pc = "up" /\ call.op = "Remove" /\ Len(path) > 0 /\ Return(Done) /\ UNCHANGED <<heap, root>>
  BY DEF InnerSafe, RootKeeps
<1>2. /\ Forest(heap, {root}, live, lev) /\ live \in SUBSET Pids /\ Pids' = Pids
      /\ \A p \in live \ {root, Cur} : heap[p].size >= HalfOf(heap[p])
  BY <1>1, UpRemoveShape DEF TreeShape, Pids
<1>3. Cur # root => heap[Cur].size >= HalfOf(heap[Cur])
  <2>1. /\ ~IsLeaf(Cur) /\ Page = heap[Cur] /\ Page \in InnerOver(Pids)
    BY <1>1, InnerUpFacts
  <2>2. CASE InnerSafe
    <3>1. Page.kind = "inner" /\ Page.size \in Nat /\ MinSize(InnerMax) \in Nat
      BY <2>1, InnerFields, ParameterAssumption, MinSizeBound
    <3>2. ~(Page.size < MinSize(InnerMax))
      BY <2>2 DEF InnerSafe, InnerPoor
    <3> QED BY <2>1, <3>1, <3>2, InnerHalf
  <2>3. CASE RootKeeps
    BY <2>3, PathFacts DEF RootKeeps
  <2> QED BY <2>2, <2>3
<1>4. \A p \in live \ {root} : heap'[p].size >= HalfOf(heap'[p])
  BY <1>1, <1>2, <1>3
<1>5. InnerMax >= 5 => Wide(heap'[root])
  <2>1. CASE InnerSafe
    <3>1. Cur # root
      BY <2>1, PathFacts DEF InnerSafe
    <3> QED BY <1>1, <3>1, UpRemoveShape
  <2>2. CASE RootKeeps
    <3>1. Cur = root /\ Page.size # 1
      BY <2>2, PathFacts DEF RootKeeps
    <3>2. Page = heap[Cur] /\ Page.size \in 1..(InnerMax - 1)
      BY <1>1, InnerUpFacts
    <3> QED BY <1>1, <3>1, <3>2, ParameterAssumption DEF Wide
  <2> QED BY <2>1, <2>2
<1> QED
  BY <1>1, <1>2, <1>4, <1>5, EndsSame

\* The root's only child takes its place.
LEMMA RootShrinksShape ==
  ASSUME IndInv, NEW live, NEW lev, TreeShape(live, lev), RootShrinks, ~ShrinksToDeadPage
  PROVE  StillTree(live)
<1>1. /\ pc = "up" /\ call.op = "Remove" /\ Len(path) = 1 /\ Page.size = 1
      /\ root' = child /\ Return(Done) /\ heap' = heap /\ child = Page.pids[0]
  BY DEF RootShrinks, ShrinksToDeadPage
<1>2. /\ Forest(heap, {root}, live, lev) /\ live \in SUBSET Pids /\ Pids' = Pids
      /\ \A p \in live \ {root, Cur} : heap[p].size >= HalfOf(heap[p])
  BY <1>1, UpRemoveShape DEF TreeShape, Pids
<1>3. Cur = root /\ Page = heap[root] /\ Page.kind = "inner"
  <2>1. Len(path) > 0
    BY <1>1
  <2> QED BY <1>1, <2>1, PathFacts, InnerUpFacts, InnerFields
<1>4. Kids(heap[root]) = {child}
  <2>1. 0..(Page.size - 1) = {0}
    BY <1>1
  <2> QED BY <1>1, <1>3, <2>1 DEF Kids
<1>5. Forest(heap, {child}, live \ {root}, lev)
  BY <1>2, <1>4, ForestShrink
<1> DEFINE live2 == live \ {root}
<1>6. live2 \in SUBSET Pids' /\ Forest(heap', {root'}, live2, lev)
  BY <1>1, <1>2, <1>5
<1>7. \A p \in live2 \ {root'} : heap'[p].size >= HalfOf(heap'[p])
  BY <1>1, <1>2, <1>3
<1>8. InnerMax >= 5 => Wide(heap'[root'])
  <2>1. child \in live /\ child # root
    BY <1>1, <1>6 DEF Forest
  <2>2. heap'[root'].size >= HalfOf(heap'[root']) /\ heap'[root'].size \in Int
    <3>1. heap[child].size \in Int
      BY <1>2, <2>1, HeapTypes, FitCases, LeafFields, InnerFields
    <3> QED BY <1>1, <1>2, <1>3, <2>1, <3>1
  <2> QED BY <2>2, HalfOfType DEF Wide
<1> HIDE DEF live2
<1>9. live2 \subseteq live \cup (Pids' \ Pids)
  BY DEF live2
<1> QED
  BY <1>1, <1>6, <1>7, <1>8, <1>9, EndsInShape

\* The program stops inside the call: nothing else changes.
LEMMA StopShape ==
  ASSUME IndInv, NEW live, NEW lev, TreeShape(live, lev), RemoveMissBelowInner \/ NoSibling
  PROVE  StillTree(live)
<1>1. /\ pc' \in {"aborted", "undefined"} /\ UNCHANGED <<heap, root, call, path, split>>
      /\ call.op = "Remove"
  BY DEF RemoveMissBelowInner, NoSibling, Alone, Stop, AtLeaf, LeafUnderflow, InnerUnderflow
<1>2. Pids' = Pids /\ Roots' = Roots /\ ~Splitting /\ ~Splitting' /\ Hole \subseteq Hole'
  BY <1>1 DEF Pids, Roots, Splitting, Hole, Cur
<1>3. Sizes(live)'
  <2>1. \A p : HalfOf(heap[p]) \in Int
    BY HalfOfType
  <2>2. ASSUME NEW p \in live \ {root}
        PROVE  heap[p].size >= HalfOf(heap[p]) - (IF p \in Hole' THEN 1 ELSE 0)
    <3>1. heap[p].size \in Int
      BY HeapTypes, FitCases, LeafFields, InnerFields DEF TreeShape
    <3>2. heap[p].size >= HalfOf(heap[p]) - (IF p \in Hole THEN 1 ELSE 0)
      BY DEF TreeShape, Sizes
    <3> QED BY <1>2, <2>1, <3>1, <3>2
  <2> QED BY <1>1, <2>2 DEF Sizes
<1>4. RootWide'
  BY <1>1, <1>2 DEF TreeShape, RootWide, Wide
<1>5. TreeShape(live, lev)'
  BY <1>1, <1>2, <1>3, <1>4 DEF TreeShape
<1> QED
  BY <1>5 DEF StillTree

\* Every step keeps the tree, but the one that makes a dead page the root, and
\* takes in new pages only.
LEMMA TreeStep ==
  ASSUME IndInv, NEW live, NEW lev, TreeShape(live, lev), [Next /\ ~ShrinksToDeadPage]_vars
  PROVE  StillTree(live)
<1>1. CASE UNCHANGED vars
  <2>1. TreeShape(live, lev)'
    BY <1>1 DEF vars, TreeShape, RootWide, Wide, Sizes, Hole, Splitting, Roots, Pids, Cur
  <2> QED BY <2>1 DEF StillTree
<1>2. CASE \E c \in Calls : Invoke(c)
  BY <1>2, InvokeShape
<1>3. CASE Step /\ ~ShrinksToDeadPage
  <2>1. CASE GoDown \/ RemoveAtInner
    BY <2>1, DownStepShape
  <2>2. CASE \/ GetAtInner \/ GetAtLeaf \/ UpdateAtInner \/ UpdateAtLeaf
             \/ InsertDuplicate \/ RemoveMiss
    BY <2>2, EndStepShape
  <2>3. CASE LeafInsertFits \/ LeafInsertSplits
    BY <2>3, LeafInsertShape
  <2>4. CASE InnerInsertFits \/ InnerInsertSplits
    BY <2>4, InnerInsertShape
  <2>5. CASE GrowRoot
    BY <2>5, GrowRootShape
  <2>6. CASE RemoveFromLeaf
    BY <2>6, LeafRemoveShape
  <2>7. CASE LeafBorrowRight \/ LeafBorrowLeft
    BY <2>7, LeafBorrowShape
  <2>8. CASE LeafMergeRight \/ LeafMergeLeft
    BY <2>8, LeafMergeShape
  <2>9. CASE InnerBorrowRight \/ InnerBorrowLeft
    BY <2>9, InnerBorrowShape
  <2>10. CASE InnerMergeRight \/ InnerMergeLeft
    BY <2>10, InnerMergeShape
  <2>11. CASE InnerSafe \/ RootKeeps
    BY <2>11, RemoveEndsShape
  <2>12. CASE RootShrinks
    BY <1>3, <2>12, RootShrinksShape
  <2>13. CASE RemoveMissBelowInner \/ NoSibling
    BY <2>13, StopShape
  <2> QED
    BY <1>3, <2>1, <2>2, <2>3, <2>4, <2>5, <2>6, <2>7, <2>8, <2>9, <2>10, <2>11, <2>12, <2>13
       DEF Step
<1> QED
  BY <1>1, <1>2, <1>3 DEF Next

\* So the invariant is kept, also where the program has stopped.
LEMMA TreeKeeps == IndInv /\ TreeInv /\ [Next /\ ~ShrinksToDeadPage]_vars => TreeInv'
<1> SUFFICES ASSUME IndInv, NEW live, NEW lev, TreeShape(live, lev),
                    [Next /\ ~ShrinksToDeadPage]_vars
             PROVE  TreeInv'
  BY DEF TreeInv
<1>1. StillTree(live)
  BY TreeStep
<1> QED
  BY <1>1 DEF StillTree, TreeInv

\* The empty leaf is a tree.
LEMMA InitTree == Init => TreeInv
<1> SUFFICES ASSUME Init PROVE TreeInv
  OBVIOUS
<1> DEFINE live == {0}
           lev == [p \in {0} |-> 0]
<1>1. /\ Pids = {0} /\ root = 0 /\ pc = "idle" /\ path = <<>> /\ split = NoSplit /\ Roots = {0}
      /\ heap[0].kind = "leaf"
  BY DEF Init, Pids, Roots, EmptyLeaf
<1>2. Kids(heap[0]) = {} /\ OneSlotEach(heap[0]) /\ lev[0] = 0
  BY <1>1, LeafKids
<1> HIDE DEF lev
<1>3. Forest(heap, Roots, live, lev)
  BY <1>1, <1>2 DEF Forest
<1>4. PathDown(heap, path, root, live, lev)
  BY <1>1 DEF PathDown
<1>5. Sizes(live) /\ ~Splitting
  BY <1>1 DEF Sizes, Splitting
<1>7. RootWide
  BY <1>1 DEF RootWide, Wide
<1>6. TreeShape(live, lev)
  BY <1>1, <1>3, <1>4, <1>5, <1>7 DEF TreeShape
<1> QED
  BY <1>6 DEF TreeInv

\* What every run of TreeSpec keeps.
LEMMA TreeAlways == TreeSpec => [](IndInv /\ TreeInv)
<1>1. Init => IndInv /\ TreeInv
  BY InitEstablishes, InitTree
<1>2. IndInv /\ TreeInv /\ [Next /\ ~ShrinksToDeadPage]_vars => (IndInv /\ TreeInv)'
  <2>1. [Next /\ ~ShrinksToDeadPage]_vars => [Next]_vars
    OBVIOUS
  <2> QED BY <2>1, NextKeeps, TreeKeeps
<1> QED
  BY <1>1, <1>2, PTL DEF TreeSpec

-----------------------------------------------------------------------------
\* The pages of the tree, as BTreeMap computes them.

\* There are finitely many pages.
LEMMA FinitePids == TypeOK => \A A \in SUBSET Pids : IsFiniteSet(A) /\ Cardinality(A) \in Nat
<1> SUFFICES ASSUME TypeOK, NEW A \in SUBSET Pids PROVE IsFiniteSet(A) /\ Cardinality(A) \in Nat
  OBVIOUS
<1>1. nextPid - 1 \in Int /\ A \in SUBSET (0..(nextPid - 1))
  BY DEF TypeOK
<1>2. IsFiniteSet(0..(nextPid - 1))
  BY <1>1, FS_Interval
<1>3. IsFiniteSet(A)
  BY <1>1, <1>2, FS_Subset
<1> QED
  BY <1>3, FS_CardinalityType

\* The pages reachable from S are the least set that holds S and their children.
LEMMA ReachableLeast ==
  ASSUME TypeOK, NEW S \in SUBSET Pids
  PROVE  /\ S \subseteq Reachable(S) /\ Closed(Reachable(S))
         /\ \A A : S \subseteq A /\ Closed(A) => Reachable(S) \subseteq A
<1> DEFINE More(R) == R \cup UNION {Children(pid) : pid \in R}
           Good(R) == /\ R \subseteq Reachable(R) /\ Closed(Reachable(R))
                      /\ \A A : R \subseteq A /\ Closed(A) => Reachable(R) \subseteq A
           Bad == {R \in SUBSET Pids : ~Good(R)}
           T == {Cardinality(Pids \ R) : R \in Bad}
<1>1. ASSUME NEW R \in SUBSET Pids
      PROVE  /\ More(R) \in SUBSET Pids /\ R \subseteq More(R)
             /\ Reachable(R) = IF More(R) = R THEN R ELSE Reachable(More(R))
  <2>1. More(R) \in SUBSET Pids
    BY ChildrenArePids
  <2> QED BY <2>1, ReachableDef
<1>2. ASSUME NEW R \in SUBSET Pids, More(R) = R PROVE Good(R)
  <2>1. Reachable(R) = R
    BY <1>1, <1>2
  <2>2. Closed(R)
    BY <1>1, <1>2 DEF Closed
  <2> QED BY <2>1, <2>2
<1>3. ASSUME NEW R \in SUBSET Pids, More(R) # R, Good(More(R)) PROVE Good(R)
  <2>1. Reachable(R) = Reachable(More(R))
    BY <1>1, <1>3
  <2>2. \A A : R \subseteq A /\ Closed(A) => More(R) \subseteq A
    BY DEF Closed
  <2> QED BY <1>1, <1>3, <2>1, <2>2
<1> HIDE DEF Good, More
<1>4. ASSUME Bad # {} PROVE FALSE
  <2>1. T \in SUBSET Nat /\ T # {}
    BY <1>4, FinitePids
  <2>2. PICK m \in T : \A n \in T : m <= n
    BY <2>1, LeastElement
  <2>3. PICK R \in Bad : m = Cardinality(Pids \ R)
    BY <2>2
  <2>4. R \in SUBSET Pids /\ ~Good(R) /\ More(R) # R /\ More(R) \in Bad
    BY <1>1, <1>2, <1>3, <2>3
  <2> DEFINE B == Pids \ R
             C == Pids \ More(R)
  <2>5. C \in SUBSET B /\ C # B /\ B \in SUBSET Pids /\ C \in SUBSET Pids
    BY <1>1, <2>4
  <2>6. m = Cardinality(B) /\ Cardinality(C) \in T
    BY <2>3, <2>4
  <2> HIDE DEF B, C, T
  <2>7. Cardinality(C) \in Nat /\ Cardinality(B) \in Nat /\ IsFiniteSet(B)
    BY <2>5, FinitePids
  <2>8. Cardinality(C) <= Cardinality(B) /\ Cardinality(B) # Cardinality(C)
    BY <2>5, <2>7, FS_Subset
  <2> QED BY <2>2, <2>6, <2>7, <2>8
<1> QED
  BY <1>4 DEF Good

\* The pages of the tree are live, and form the same forest.
LEMMA TreePagesShape ==
  ASSUME IndInv, NEW live, NEW lev, TreeShape(live, lev)
  PROVE  /\ TreePages \subseteq live /\ TreePages \subseteq Pids /\ Roots \subseteq TreePages
         /\ Closed(TreePages) /\ (\A A : Roots \subseteq A /\ Closed(A) => TreePages \subseteq A)
         /\ Forest(heap, Roots, TreePages, lev)
<1>1. TypeOK /\ live \in SUBSET Pids /\ Forest(heap, Roots, live, lev)
  BY DEF IndInv, TreeShape
<1>2. Roots \subseteq live /\ Roots \in SUBSET Pids
  BY <1>1 DEF Forest
<1>3. Closed(live)
  BY <1>1, KidsAreChildren DEF Closed, Forest
<1>4. /\ Roots \subseteq TreePages /\ Closed(TreePages)
      /\ \A A : Roots \subseteq A /\ Closed(A) => TreePages \subseteq A
  BY <1>1, <1>2, ReachableLeast DEF TreePages
<1>5. TreePages \subseteq live /\ TreePages \subseteq Pids
  BY <1>1, <1>2, <1>3, <1>4
<1>6. \A p \in TreePages : Kids(heap[p]) \subseteq TreePages
  BY <1>4, <1>5, KidsAreChildren DEF Closed
<1>7. Forest(heap, Roots, TreePages, lev)
  BY <1>1, <1>4, <1>5, <1>6 DEF Forest
<1> QED
  BY <1>4, <1>5, <1>7

\* Between calls, every page but the root is at least half full: no borrow or
\* merge is forgotten on the way up.
THEOREM KeepsHalfFull == TreeSpec => []HalfFull
<1>1. IndInv /\ TreeInv => HalfFull
  <2> SUFFICES ASSUME IndInv, NEW live, NEW lev, TreeShape(live, lev), pc = "idle",
                      NEW pid \in TreePages \ {root}
               PROVE  heap[pid].size >= MinSize(IF IsLeaf(pid) THEN LeafMax ELSE InnerMax)
    BY DEF TreeInv, HalfFull
  <2>1. pid \in live \ {root}
    BY TreePagesShape
  <2>2. heap[pid].size >= HalfOf(heap[pid])
    BY <2>1, DownShape
  <2> QED BY <2>2 DEF HalfOf, IsLeaf
<1> QED
  BY <1>1, TreeAlways, PTL

-----------------------------------------------------------------------------
\* Every page of the tree but its roots has exactly one parent slot.
LEMMA SlotsCountPages ==
  ASSUME IndInv, TreeInv
  PROVE  Cardinality(TreePages) = Cardinality(Roots) + Cardinality(ChildSlots(TreePages))
<1> PICK live, lev : TreeShape(live, lev)
  BY DEF TreeInv
<1> DEFINE P == TreePages
           S == ChildSlots(P)
           T == P \ Roots
           f == [s \in S |-> heap[s[1]].pids[s[2]]]
<1>1. /\ P \subseteq Pids /\ Roots \subseteq P /\ Closed(P)
      /\ \A A : Roots \subseteq A /\ Closed(A) => P \subseteq A
      /\ Forest(heap, Roots, P, lev)
  BY TreePagesShape
<1>2. \A p \in P : /\ OneSlotEach(heap[p])
                   /\ \A c \in Kids(heap[p]) : c \in P /\ c \notin Roots
  BY <1>1 DEF Forest
<1>3. \A p, q \in P : \A c : c \in Kids(heap[p]) /\ c \in Kids(heap[q]) => p = q
  BY <1>1 DEF Forest
<1>4. ASSUME NEW p \in P
      PROVE  /\ heap[p].kind # "leaf" => heap[p].size \in Nat /\ 0..(heap[p].size - 1) \subseteq InnerSlots
             /\ \A i \in InnerSlots : <<p, i>> \in S <=> heap[p].kind # "leaf" /\ i \in 0..(heap[p].size - 1)
  <2>1. heap[p].kind # "leaf" => heap[p].size \in 0..InnerMax
    BY <1>1, HeapTypes, FitCases, InnerFields
  <2>2. \A i \in InnerSlots : <<p, i>> \in S <=> heap[p].kind # "leaf" /\ i < heap[p].size
    BY DEF ChildSlots, IsLeaf
  <2> HIDE DEF S, P
  <2> QED BY <2>1, <2>2, ParameterAssumption DEF InnerSlots
<1>5. \A s \in S : s = <<s[1], s[2]>> /\ s[1] \in P /\ s[2] \in InnerSlots
  BY DEF ChildSlots
<1> HIDE DEF S, P
<1>6. ASSUME NEW s \in S
      PROVE  heap[s[1]].kind # "leaf" /\ s[2] \in 0..(heap[s[1]].size - 1) /\ f[s] \in Kids(heap[s[1]])
  <2>1. <<s[1], s[2]>> \in S /\ s[1] \in P /\ s[2] \in InnerSlots
    BY <1>5
  <2>2. heap[s[1]].kind # "leaf" /\ s[2] \in 0..(heap[s[1]].size - 1)
    BY <1>4, <2>1
  <2> QED BY <2>2 DEF Kids
<1>7. f \in [S -> T]
  <2>1. \A s \in S : f[s] \in T
    BY <1>2, <1>5, <1>6
  <2> QED BY <2>1
<1>8. ASSUME NEW s \in S, NEW t \in S, f[s] = f[t] PROVE s = t
  <2>1. s[1] = t[1]
    BY <1>3, <1>5, <1>6, <1>8
  <2>2. s[2] = t[2]
    BY <1>2, <1>5, <1>6, <1>8, <2>1 DEF OneSlotEach
  <2> QED BY <1>5, <2>1, <2>2
<1>9. ASSUME NEW c \in T PROVE \E s \in S : f[s] = c
  <2>1. \E p \in P : c \in Kids(heap[p])
    <3> SUFFICES ASSUME \A p \in P : c \notin Kids(heap[p]) PROVE FALSE
      OBVIOUS
    <3>1. Roots \subseteq P \ {c} /\ P \ {c} \in SUBSET Pids
      BY <1>1
    <3>2. Closed(P \ {c})
      BY <1>1, <3>1, KidsAreChildren DEF Closed
    <3> QED BY <1>1, <3>1, <3>2
  <2>2. PICK p \in P : c \in Kids(heap[p])
    BY <2>1
  <2>3. PICK i \in 0..(heap[p].size - 1) : c = heap[p].pids[i]
    BY <2>2 DEF Kids
  <2>4. heap[p].kind # "leaf"
    BY <2>2 DEF Kids
  <2>5. <<p, i>> \in S
    BY <1>4, <2>3, <2>4
  <2> QED BY <2>3, <2>5
<1>10. f \in Injection(S, T) /\ f \in Surjection(S, T)
  BY <1>7, <1>8, <1>9 DEF Injection, Surjection, IsInjective
<1>11. IsFiniteSet(P) /\ IsFiniteSet(Roots) /\ IsFiniteSet(T)
  <2>1. TypeOK /\ P \in SUBSET Pids /\ Roots \in SUBSET Pids /\ T \in SUBSET Pids
    BY <1>1 DEF IndInv
  <2> QED BY <2>1, FinitePids
<1>12. Cardinality(S) = Cardinality(T)
  BY <1>10, <1>11, FS_Injection
<1>13. Cardinality(P) = Cardinality(Roots) + Cardinality(T)
  <2>1. T \cup Roots = P /\ T \cap Roots = {}
    BY <1>1
  <2>2. Cardinality(P) = Cardinality(T) + Cardinality(Roots) - Cardinality(T \cap Roots)
    BY <1>11, <2>1, FS_Union
  <2>3. Cardinality(T \cap Roots) = 0 /\ Cardinality(T) \in Nat /\ Cardinality(Roots) \in Nat
    BY <1>11, <2>1, FS_EmptySet, FS_CardinalityType
  <2> HIDE DEF T
  <2> QED BY <2>2, <2>3
<1> QED
  BY <1>12, <1>13 DEF S, P

\* The layers below S, from the recursion that lists them.
LEMMA LayersDef ==
  ASSUME TypeOK, NEW S \in SUBSET Pids
  PROVE  Layers(S) = (LET Under == UNION {Children(pid) : pid \in S}
                      IN IF S = {} THEN {} ELSE {S} \cup Layers(Under))
<1> DEFINE Under(R) == UNION {Children(pid) : pid \in R}
           Chain(X, R) == R \in X /\ \A Y \in X : Under(Y) \in X
           Orbit(R) == {Q \in SUBSET Pids : /\ Q # {}
                                            /\ \A X \in SUBSET SUBSET Pids : Chain(X, R) => Q \in X}
           f == [R \in SUBSET Pids |-> Orbit(R)]
           IsBelow(g) == g = [R \in SUBSET Pids |-> IF R = {} THEN {} ELSE {R} \cup g[Under(R)]]
<1>1. \A R \in SUBSET Pids : Under(R) \in SUBSET Pids
  BY ChildrenArePids
<1>2. Orbit({}) = {}
  <2>1. Under({}) = {}
    OBVIOUS
  <2>2. Chain({{}}, {}) /\ {{}} \in SUBSET SUBSET Pids
    BY <2>1
  <2> QED BY <2>2
<1> HIDE DEF Under
<1>3. ASSUME NEW R \in SUBSET Pids, R # {} PROVE Orbit(R) = {R} \cup Orbit(Under(R))
  <2>1. \A X : Chain(X, R) => Chain(X, Under(R))
    OBVIOUS
  <2>2. R \in Orbit(R) /\ Orbit(Under(R)) \subseteq Orbit(R)
    BY <1>3, <2>1
  <2>3. ASSUME NEW Q \in Orbit(R), Q # R PROVE Q \in Orbit(Under(R))
    <3> SUFFICES ASSUME NEW X \in SUBSET SUBSET Pids, Chain(X, Under(R)) PROVE Q \in X
      OBVIOUS
    <3>1. Chain(X \cup {R}, R) /\ X \cup {R} \in SUBSET SUBSET Pids
      OBVIOUS
    <3>2. Q \in X \cup {R}
      BY <3>1
    <3> QED BY <2>3, <3>2
  <2> HIDE DEF Orbit
  <2> QED BY <2>2, <2>3
<1> HIDE DEF Orbit
<1>4. IsBelow(f)
  <2>1. \A R \in SUBSET Pids : f[R] = IF R = {} THEN {} ELSE {R} \cup f[Under(R)]
    BY <1>1, <1>2, <1>3
  <2> QED BY <2>1, Zenon
<1> DEFINE g == CHOOSE g : IsBelow(g)
<1>5. IsBelow(g)
  <2> HIDE DEF IsBelow, f
  <2> QED BY <1>4, Zenon
<1>6. \A R \in SUBSET Pids : Layers(R) = g[R]
  BY Zenon DEF Layers, Under
<1>7. g[S] = IF S = {} THEN {} ELSE {S} \cup g[Under(S)]
  <2> HIDE DEF g
  <2> QED BY <1>5, Zenon
<1> HIDE DEF g
<1> QED
  BY <1>1, <1>6, <1>7 DEF Under

\* The pages of a layer are equally far above the leaves.
LEMMA LayersAreFlat ==
  ASSUME IndInv, TreeInv
  PROVE  \A layer \in Layers({root}) : \A p1, p2 \in layer : IsLeaf(p1) = IsLeaf(p2)
<1> PICK live, lev : TreeShape(live, lev)
  BY DEF TreeInv
<1> DEFINE Flat(R, n) == R \subseteq live /\ \A p \in R : lev[p] = n
           Good(R) == \A Q \in Layers(R) : \E n \in Nat : Flat(Q, n)
           Bad == {n \in Nat : \E R : Flat(R, n) /\ ~Good(R)}
           Under(R) == UNION {Children(pid) : pid \in R}
<1>1. /\ TypeOK /\ live \in SUBSET Pids /\ root \in live
      /\ \A p \in live : /\ lev[p] \in Nat /\ (heap[p].kind = "leaf" <=> lev[p] = 0)
                         /\ \A c \in Kids(heap[p]) : c \in live /\ lev[p] = lev[c] + 1
  BY PathFacts DEF TreeShape, Forest, IndInv
<1>2. ASSUME NEW R, NEW n \in Nat, Flat(R, n), R # {}
      PROVE  /\ n = 0 => Under(R) = {}
             /\ n > 0 => n - 1 \in Nat /\ Flat(Under(R), n - 1)
  <2>1. \A p \in R : Children(p) = Kids(heap[p])
    BY <1>1, <1>2, KidsAreChildren
  <2>2. \A c \in Under(R) : \E p \in R : c \in Kids(heap[p])
    BY <2>1
  <2>3. \A c \in Under(R) : c \in live /\ lev[c] \in Nat /\ n = lev[c] + 1
    BY <1>1, <1>2, <2>2
  <2> HIDE DEF Under
  <2> QED BY <2>3
<1>3. \A R \in SUBSET Pids : Layers(R) = IF R = {} THEN {} ELSE {R} \cup Layers(Under(R))
  BY <1>1, LayersDef
<1> HIDE DEF Under
<1>4. ASSUME Bad # {} PROVE FALSE
  <2>1. PICK m \in Bad : \A n \in Bad : m <= n
    <3>1. Bad \in SUBSET Nat
      OBVIOUS
    <3> HIDE DEF Bad
    <3> QED BY <1>4, <3>1, LeastElement
  <2>2. m \in Nat /\ \E R : Flat(R, m) /\ ~Good(R)
    OBVIOUS
  <2>3. PICK R : Flat(R, m) /\ ~Good(R)
    BY <2>2
  <2>4. PICK Q \in Layers(R) : \A n \in Nat : ~Flat(Q, n)
    BY <2>3
  <2>5. R \in SUBSET Pids /\ R # {} /\ Q # R /\ Q \in Layers(Under(R))
    <3>1. R \in SUBSET Pids
      BY <1>1, <2>3
    <3>2. R # {} /\ Q \in {R} \cup Layers(Under(R))
      BY <1>3, <2>4, <3>1
    <3> QED BY <2>2, <2>3, <2>4, <3>1, <3>2
  <2>6. ~Good(Under(R))
    BY <2>4, <2>5
  <2>7. CASE m = 0
    <3>1. Under(R) = {}
      BY <1>2, <2>2, <2>3, <2>5, <2>7
    <3> QED BY <1>3, <2>5, <3>1
  <2>8. CASE m > 0
    <3>1. m - 1 \in Nat /\ Flat(Under(R), m - 1)
      BY <1>2, <2>2, <2>3, <2>5, <2>8
    <3>2. m - 1 \in Bad
      BY <2>6, <3>1
    <3> HIDE DEF Bad
    <3> QED BY <2>1, <2>2, <3>2
  <2> QED BY <2>2, <2>7, <2>8
<1>5. Flat({root}, lev[root]) /\ lev[root] \in Nat
  BY <1>1
<1>6. Good({root})
  BY <1>4, <1>5
<1>7. ASSUME NEW layer \in Layers({root}), NEW p1 \in layer, NEW p2 \in layer
      PROVE  IsLeaf(p1) = IsLeaf(p2)
  <2>1. PICK n \in Nat : Flat(layer, n)
    BY <1>6
  <2>2. IsLeaf(p1) <=> IsLeaf(p2)
    BY <1>1, <2>1 DEF IsLeaf
  <2> QED BY <2>2 DEF IsLeaf
<1> QED
  BY <1>7

\* Any calls keep the tree balanced, during each of them: each page has one parent
\* slot, and all leaves are equally deep.  The siblings LeafPage::Remove and
\* CheckOrBorrowOrMerge cast to their own class are pages of that class.
THEOREM KeepsBalanced == TreeSpec => []Balanced
<1>1. IndInv /\ TreeInv => Balanced
  BY SlotsCountPages, LayersAreFlat DEF Balanced
<1> QED
  BY <1>1, TreeAlways, PTL

-----------------------------------------------------------------------------
\* The live pages can be taken to be just those of the tree.
LEMMA TreePagesAreATree ==
  ASSUME IndInv, NEW live, NEW lev, TreeShape(live, lev)
  PROVE  TreeShape(TreePages, lev)
<1>1. /\ TreePages \subseteq live /\ TreePages \subseteq Pids /\ Roots \subseteq TreePages
      /\ Closed(TreePages) /\ Forest(heap, Roots, TreePages, lev)
  BY TreePagesShape
<1>2. Len(path) \in Nat /\ root \in TreePages
  BY <1>1, HeapTypes DEF Roots
<1>3. /\ path # <<>> => path[1] = root
      /\ \A i \in 1..Len(path) : path[i] \in live /\ lev[path[i]] + i = lev[root] + 1
      /\ \A i \in 1..(Len(path) - 1) : path[i + 1] \in Kids(heap[path[i]])
  BY DEF TreeShape, PathDown
<1>4. \A i \in 1..Len(path) : path[i] \in TreePages
  <2> DEFINE Bad == {i \in 1..Len(path) : path[i] \notin TreePages}
  <2> SUFFICES ASSUME Bad # {} PROVE FALSE
    OBVIOUS
  <2>1. Bad \in SUBSET Nat
    BY <1>2
  <2>2. PICK m \in Bad : \A n \in Bad : m <= n
    <3> HIDE DEF Bad
    <3> QED BY <2>1, LeastElement
  <2>3. m \in 1..Len(path) /\ path[m] \notin TreePages
    OBVIOUS
  <2>4. m # 1 /\ m - 1 \in 1..(Len(path) - 1) /\ m - 1 \in 1..Len(path) /\ m \in Nat
    BY <1>2, <1>3, <2>3
  <2>5. path[m - 1] \in TreePages
    BY <2>2, <2>4
  <2>6. path[m] \in Kids(heap[path[m - 1]])
    BY <1>3, <2>4
  <2>7. Kids(heap[path[m - 1]]) \subseteq TreePages
    BY <1>1, <2>5, KidsAreChildren DEF Closed
  <2> QED BY <2>3, <2>6, <2>7
<1>5. PathDown(heap, path, root, TreePages, lev)
  BY <1>3, <1>4 DEF PathDown
<1>6. Sizes(TreePages)
  BY <1>1 DEF TreeShape, Sizes
<1> QED
  BY <1>1, <1>5, <1>6 DEF TreeShape

\* A page that left the tree, merged into its sibling or replaced as the root, is
\* never part of it again: create makes new pages, and a slot gets the id of a
\* page of the tree or of a new one.
THEOREM DroppedForGood == TreeSpec => DroppedStaysDropped
<1>1. \A L, V : IndInv /\ TreeShape(L, V) => TreePages \subseteq L
  BY TreePagesShape
<1>2. (\A L, V : IndInv /\ TreeShape(L, V) => TreePages \subseteq L)'
  BY <1>1, PTL
<1>3. ASSUME IndInv, TreeInv, IndInv', [Next /\ ~ShrinksToDeadPage]_vars
      PROVE  [\A pid \in Pids \ TreePages : pid \notin TreePages']_vars
  <2>1. PICK lev : TreeShape(TreePages, lev)
    BY <1>3, TreePagesAreATree DEF TreeInv
  <2>2. StillTree(TreePages)
    BY <1>3, <2>1, TreeStep
  <2>3. PICK L, V : TreeShape(L, V)' /\ L \subseteq TreePages \cup (Pids' \ Pids)
    BY <2>2 DEF StillTree
  <2>4. TreePages' \subseteq L
    BY <1>2, <1>3, <2>3
  <2> QED BY <2>3, <2>4
<1> QED
  BY <1>3, TreeAlways, PTL DEF TreeSpec, DroppedStaysDropped

-----------------------------------------------------------------------------
\* A leaf a Remove has come to, and a page that must borrow or merge, has a sibling,
\* if half an internal page is at least two children: then no page above another
\* one has a single child.
LEMMA SiblingOf ==
  ASSUME IndInv, NEW live, NEW lev, TreeShape(live, lev), InnerMax >= 5,
         (AtLeaf("Remove") /\ Len(path) > 1) \/ InnerUnderflow
  PROVE  HasSibling
<1> DEFINE p == heap[Parent]
           n == p.size
<1>1. Len(path) > 1 /\ pc \in {"down", "up"} /\ (pc = "up" => call.op = "Remove")
  BY DEF InnerUnderflow, AtLeaf
<1>2. /\ path # <<>> /\ Parent \in live /\ Cur \in live /\ Cur \in Kids(p)
      /\ lev[Parent] = lev[Cur] + 1 /\ lev[Cur] \in Nat /\ Parent # Cur /\ Cur # root
  BY <1>1, PathFacts
<1>3. p \in InnerOver(Pids) /\ n \in 1..(InnerMax - 1)
  BY <1>1, ParentPage
<1>4. /\ Forest(heap, {root}, live, lev)
      /\ \A q \in live \ {root, Cur} : heap[q].size >= HalfOf(heap[q])
      /\ Wide(heap[root])
  BY <1>1, <1>2, DownShape, UpRemoveShape
<1>5. p.kind = "inner" /\ n >= 2 /\ n \in Nat
  <2>1. p.kind = "inner" /\ n \in Nat
    BY <1>3, InnerFields
  <2>2. CASE Parent = root
    BY <1>4, <2>1, <2>2 DEF Wide
  <2>3. CASE Parent # root
    BY <1>2, <1>4, <2>1, <2>3, HalfOfType
  <2> QED BY <2>1, <2>2, <2>3
<1>6. \E i \in 0..(n - 1) : p.pids[i] = Cur
  BY <1>2 DEF Kids
<1>7. MyIdx \in 0..(n - 1) /\ p.pids[MyIdx] = Cur
  BY <1>3, <1>6, SiblingIdxRange DEF MyIdx
<1>8. SibIdx \in 0..(n - 1) /\ SibIdx # MyIdx
  <2>1. SibIdx = IF MyIdx = n - 1 THEN MyIdx - 1 ELSE MyIdx + 1
    BY DEF SibIdx, MyIdx, SiblingIdx
  <2> QED BY <1>5, <1>7, <2>1
<1>9. Sib = p.pids[SibIdx] /\ Sib \in Kids(p)
  BY <1>5, <1>8 DEF Sib, Kids
<1>10. /\ Sib \in live /\ lev[Parent] = lev[Sib] + 1 /\ lev[Sib] \in Nat
       /\ OneSlotEach(p)
       /\ heap[Cur].kind = "leaf" <=> lev[Cur] = 0
       /\ heap[Sib].kind = "leaf" <=> lev[Sib] = 0
  <2>1. Sib \in live /\ lev[Parent] = lev[Sib] + 1 /\ OneSlotEach(p)
    BY <1>2, <1>4, <1>9 DEF Forest
  <2> QED BY <1>2, <1>4, <2>1 DEF Forest
<1>11. Sib # Cur
  BY <1>5, <1>7, <1>8, <1>9, <1>10 DEF OneSlotEach
<1>12. lev[Sib] = lev[Cur] /\ Sib # Parent
  BY <1>2, <1>10
<1>13. IsLeaf(Sib) = IsLeaf(Cur)
  BY <1>10, <1>12 DEF IsLeaf
<1> QED
  BY <1>2, <1>6, <1>8, <1>11, <1>12, <1>13 DEF HasSibling, SiblingListed

\* No frame turns to a sibling that is not there.
LEMMA SiblingThere ==
  ASSUME IndInv, NEW live, NEW lev, TreeShape(live, lev), InnerMax >= 5
  PROVE  ~Alone
<1>1. (AtLeaf("Remove") /\ Len(path) > 1) \/ InnerUnderflow => HasSibling
  BY SiblingOf
<1>2. HasSibling => SiblingListed
  BY DEF HasSibling
<1> QED
  BY <1>1, <1>2 DEF Alone, LeafUnderflow

\* Up to the first faulty step the program reaches no exit(-1) and no failed
\* assert ("should not reach here!", index.h:554), and reads no child slot and no
\* page that is not there.  With three or four slots a split leaves internal pages
\* of one child, and any Remove at its leaf reads the slot before the first one.
THEOREM KeepsRunning == InnerMax >= 5 => (SoundCalls => []NeverStops)
<1> SUFFICES ASSUME InnerMax >= 5 PROVE SoundCalls => []NeverStops
  OBVIOUS
<1>1. SoundCalls => TreeSpec
  <2>1. ~Faulty => ~ShrinksToDeadPage
    BY DEF Faulty
  <2>2. [Next /\ ~Faulty]_vars => [Next /\ ~ShrinksToDeadPage]_vars
    BY <2>1
  <2> QED BY <2>2, PTL DEF SoundCalls, TreeSpec
<1>2. Init => NeverStops
  BY DEF Init, NeverStops
<1>3. IndInv /\ TreeInv /\ NeverStops /\ [Next /\ ~Faulty]_vars => NeverStops'
  <2> SUFFICES ASSUME IndInv, NEW live, NEW lev, TreeShape(live, lev), NeverStops,
                      [Next /\ ~Faulty]_vars, ~NeverStops'
               PROVE  FALSE
    BY DEF TreeInv
  <2>1. ~RemoveMissBelowInner \/ Faulty
    BY DEF RemoveMissBelowInner, Faulty, MissBelowInner
  <2>2. ~NoSibling
    BY SiblingThere DEF NoSibling
  <2>3. pc' # pc /\ pc' \notin {"down", "up", "idle"}
    BY DEF NeverStops, Next, vars, Step, Invoke
  <2>4. Step /\ ~Faulty
    BY <2>3 DEF vars, Next, Invoke
  <2> QED
    BY <2>1, <2>2, <2>3, <2>4
       DEF Step, GoDown, GetAtInner, GetAtLeaf, UpdateAtInner, UpdateAtLeaf, InsertDuplicate,
           LeafInsertFits, LeafInsertSplits, InnerInsertFits, InnerInsertSplits, GrowRoot,
           RemoveAtInner, RemoveMiss, RemoveFromLeaf, LeafBorrowRight, LeafBorrowLeft,
           LeafMergeRight, LeafMergeLeft, InnerSafe, InnerBorrowRight, InnerBorrowLeft,
           InnerMergeRight, InnerMergeLeft, RootKeeps, RootShrinks, Return, ReturnTo
<1> QED
  BY <1>1, <1>2, <1>3, TreeAlways, PTL DEF SoundCalls
=============================================================================
