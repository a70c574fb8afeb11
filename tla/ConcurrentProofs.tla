--------------------------- MODULE ConcurrentProofs ---------------------------
(***************************************************************************)
(* rw_lock keeps the readers of an index out of a writer's work, for any    *)
(* number of threads, keys and slots, and so the calls of all threads are   *)
(* those of one map.                                                        *)
(***************************************************************************)
EXTENDS ConcurrentIndex, MapProofs

\* The two registers the argument needs.
PcOf(t) == IF t = active THEN pc ELSE parked[t].pc
CallOf(t) == IF t = active THEN call ELSE parked[t].call

\* They are those of RegistersOf.
LEMMA TwoRegisters ==
  \A t : RegistersOf(t).pc = PcOf(t) /\ RegistersOf(t).call = CallOf(t)
BY DEF RegistersOf, Registers, PcOf, CallOf

LockTypeOK ==
  /\ active \in Threads
  /\ parked = [t \in Threads |-> parked[t]]
  /\ want = [t \in Threads |-> want[t]]
  /\ drawn = [t \in Threads |-> drawn[t]]

\* rw_lock is shared by readers or held by one writer.
LockKinds ==
  /\ \A t \in readers : Shares(want[t])
  /\ writer # Nobody => writer \in Threads /\ ~Shares(want[writer]) /\ readers = {}

\* A thread t inside a call holds rw_lock, and the call is the one it wants.
InCall(t) ==
  /\ Holds(t) => want[t] # NoCall
  /\ PcOf(t) # "idle" => Holds(t)
  /\ PcOf(t) \in {"idle", "dump"} => CallOf(t) = NoCall
  /\ PcOf(t) \notin {"idle", "dump"} => CallOf(t) = want[t]

LockInv == LockTypeOK /\ LockKinds /\ \A t \in Threads : InCall(t)

\* A step of the index ends the call, or leaves it what it was, or is one of the
\* two that stop the program.
LEMMA StepKeepsCall ==
  ASSUME Step
  PROVE  /\ pc \in {"down", "up"}
         /\ \/ /\ pc' = "idle" /\ call' = NoCall
               /\ key' = 0 /\ path' = <<>> /\ child' = NoPid /\ split' = NoSplit
            \/ pc' \in {"down", "up", "aborted", "undefined"} /\ call' = call
         /\ pc' \in {"aborted", "undefined"} => RemoveMissBelowInner \/ NoSibling
<1> DEFINE Keeps == /\ pc \in {"down", "up"}
                    /\ \/ /\ pc' = "idle" /\ call' = NoCall
                          /\ key' = 0 /\ path' = <<>> /\ child' = NoPid /\ split' = NoSplit
                       \/ pc' \in {"down", "up", "aborted", "undefined"} /\ call' = call
                    /\ pc' \in {"aborted", "undefined"} => RemoveMissBelowInner \/ NoSibling
<1> USE DEF AtLeaf, AtInner, Return, ReturnTo, Stop
<1>1. ASSUME GoDown \/ GetAtInner \/ GetAtLeaf \/ UpdateAtInner \/ UpdateAtLeaf
      PROVE  Keeps
  BY <1>1 DEF GoDown, GetAtInner, GetAtLeaf, UpdateAtInner, UpdateAtLeaf
<1>2. ASSUME InsertDuplicate \/ LeafInsertFits \/ LeafInsertSplits
      PROVE  Keeps
  BY <1>2 DEF InsertDuplicate, LeafInsertFits, LeafInsertSplits
<1>3. ASSUME InnerInsertFits \/ InnerInsertSplits \/ GrowRoot
      PROVE  Keeps
  BY <1>3 DEF InnerInsertFits, InnerInsertSplits, GrowRoot
<1>4. ASSUME RemoveAtInner \/ RemoveMiss \/ RemoveMissBelowInner \/ RemoveFromLeaf \/ NoSibling
      PROVE  Keeps
  BY <1>4 DEF RemoveAtInner, RemoveMiss, RemoveMissBelowInner, RemoveFromLeaf, NoSibling, Alone,
              LeafUnderflow, InnerUnderflow
<1>5. ASSUME LeafBorrowRight \/ LeafBorrowLeft \/ LeafMergeRight \/ LeafMergeLeft
      PROVE  Keeps
  BY <1>5 DEF LeafBorrowRight, LeafBorrowLeft, LeafMergeRight, LeafMergeLeft, LeafLends,
              LeafMerges, LeafUnderflow
<1>6. ASSUME InnerSafe \/ InnerBorrowRight \/ InnerBorrowLeft \/ InnerMergeRight \/ InnerMergeLeft
      PROVE  Keeps
  BY <1>6 DEF InnerSafe, InnerBorrowRight, InnerBorrowLeft, InnerMergeRight, InnerMergeLeft,
              InnerLends, InnerMerges, InnerUnderflow
<1>7. ASSUME RootKeeps \/ RootShrinks
      PROVE  Keeps
  BY <1>7 DEF RootKeeps, RootShrinks
<1> HIDE DEF Keeps
<1>8. Keeps
  BY <1>1, <1>2, <1>3, <1>4, <1>5, <1>6, <1>7 DEF Step
<1> QED
  BY <1>8 DEF Keeps

\* No action of a thread breaks that.
LEMMA LockStep == LockInv /\ [CNext]_cvars => LockInv'
<1> USE NobodyAssumption
<1> SUFFICES ASSUME LockInv, [CNext]_cvars
             PROVE  LockInv'
  OBVIOUS
<1> USE DEF LockInv
<1> DEFINE Elsewhere == /\ UNCHANGED <<active, parked, want, writer, readers>>
                        /\ drawn' = [t \in Threads |-> drawn'[t]]
<1>1. ASSUME NEW t \in Threads, Switch(t)
      PROVE  LockInv'
  <2>1. LockTypeOK'
    BY <1>1 DEF Switch, LockTypeOK
  <2>2. LockKinds'
    BY <1>1 DEF Switch, LockKinds, locks
  <2>3. ASSUME NEW u \in Threads
        PROVE  PcOf(u)' = PcOf(u) /\ CallOf(u)' = CallOf(u)
    BY <1>1, <2>3 DEF Switch, PcOf, CallOf, LockTypeOK, Registers
  <2>4. \A u \in Threads : InCall(u)'
    BY <1>1, <2>3 DEF Switch, InCall, Holds, locks
  <2> QED BY <2>1, <2>2, <2>4
<1>2. ASSUME NEW t \in Threads, NEW r \in Requests, Ask(t, r)
      PROVE  LockInv'
  <2>1. ~Holds(t) /\ PcOf(t) = "idle"
    BY <1>2 DEF Ask, InCall
  <2>2. LockTypeOK'
    BY <1>2 DEF Ask, LockTypeOK
  <2>3. LockKinds'
    BY <1>2, <2>1 DEF Ask, LockKinds, Holds, locks, LockTypeOK
  <2>4. ASSUME NEW u \in Threads
        PROVE  PcOf(u)' = PcOf(u) /\ CallOf(u)' = CallOf(u) /\ Holds(u)' = Holds(u)
    BY <1>2 DEF Ask, PcOf, CallOf, Holds, vars, locks
  <2>5. \A u \in Threads : InCall(u)'
    BY <1>2, <2>1, <2>4 DEF Ask, InCall, LockTypeOK
  <2> QED BY <2>2, <2>3, <2>5
<1>3. ASSUME NEW t \in Threads, Begin(t), t = active, want[t] # NoCall, ~Holds(t),
             \/ Shares(want[t]) /\ writer = Nobody /\ readers' = readers \cup {t} /\ writer' = writer
             \/ ~Shares(want[t]) /\ writer = Nobody /\ readers = {} /\ writer' = t /\ readers' = readers
      PROVE  LockInv'
  <2>1. UNCHANGED <<active, parked, want>>
    BY <1>3 DEF Begin
  <2>2. PcOf(t) = "idle" /\ CallOf(t) = NoCall /\ pc = "idle" /\ call = NoCall
    BY <1>3 DEF InCall, PcOf, CallOf
  <2>3. \/ pc' = "dump" /\ call' = NoCall
        \/ pc' = "down" /\ call' = want[t]
    BY <1>3, <2>2 DEF Begin, Invoke
  <2>4. LockTypeOK' /\ LockKinds'
    <3>1. drawn' = [drawn EXCEPT ![t] = {}]
      BY <1>3 DEF Begin
    <3> QED BY <1>3, <2>1, <3>1 DEF LockTypeOK, LockKinds
  <2>5. InCall(t)'
    BY <1>3, <2>1, <2>3 DEF InCall, PcOf, CallOf, Holds
  <2>6. ASSUME NEW u \in Threads, u # t
        PROVE  InCall(u)'
    BY <1>3, <2>1, <2>6 DEF InCall, PcOf, CallOf, Holds
  <2> QED BY <2>4, <2>5, <2>6
<1>4. ASSUME NEW t \in Threads, LockShared(t) \/ LockExclusive(t)
      PROVE  LockInv'
  BY <1>3, <1>4 DEF LockShared, LockExclusive
<1>5. ASSUME NEW t \in Threads, Unlock(t)
      PROVE  LockInv'
  <2>1. PcOf(t) = "idle" /\ CallOf(t) = NoCall
    BY <1>5, TwoRegisters DEF Unlock, Answered, InCall
  <2>2. UNCHANGED <<pc, call, active, parked>>
    BY <1>5 DEF Unlock, vars
  <2>3. LockTypeOK' /\ LockKinds'
    BY <1>5 DEF Unlock, LockTypeOK, LockKinds, vars
  <2>4. InCall(t)'
    BY <1>5, <2>1, <2>2 DEF Unlock, InCall, PcOf, CallOf, Holds, LockTypeOK
  <2>5. ASSUME NEW u \in Threads, u # t
        PROVE  InCall(u)'
    BY <1>5, <2>2, <2>5 DEF Unlock, InCall, PcOf, CallOf, Holds, LockTypeOK, LockKinds
  <2> QED BY <2>3, <2>4, <2>5
<1>6. ASSUME Elsewhere, pc # "idle",
             \/ pc' = "idle" /\ call' = NoCall
             \/ pc # "dump" /\ pc' \notin {"idle", "dump"} /\ call' = call
             \/ pc = "dump" /\ pc' = "dump" /\ call' = call
      PROVE  LockInv'
  <2>1. LockTypeOK' /\ LockKinds'
    BY <1>6 DEF LockTypeOK, LockKinds
  <2>2. ASSUME NEW u \in Threads
        PROVE  InCall(u)'
    BY <1>6 DEF InCall, PcOf, CallOf, Holds
  <2> QED BY <2>1, <2>2
<1>7. ASSUME CallStep
      PROVE  LockInv'
  BY <1>6, <1>7, StepKeepsCall DEF CallStep, locks, LockTypeOK
<1>8. ASSUME DumpPage \/ DumpEnds
      PROVE  LockInv'
  <2>1. pc = "dump" /\ call = NoCall
    BY <1>8 DEF DumpPage, DumpEnds, InCall, PcOf, CallOf, LockTypeOK
  <2>2. drawn' = [t \in Threads |-> drawn'[t]]
    BY <1>8 DEF DumpPage, DumpEnds, LockTypeOK
  <2> QED
    BY <1>6, <1>8, <2>1, <2>2 DEF DumpPage, DumpEnds, locks
<1>9. CASE UNCHANGED cvars
  BY <1>9 DEF cvars, vars, locks, LockTypeOK, LockKinds, InCall, PcOf, CallOf, Holds
<1> QED
  BY <1>1, <1>2, <1>4, <1>5, <1>7, <1>8, <1>9 DEF CNext, Run

LEMMA InitLock == CInit => LockInv
BY NobodyAssumption DEF CInit, Init, LockInv, LockTypeOK, LockKinds, InCall, PcOf, CallOf, Holds, Idle

\* No thread is inside a call while another one changes pages.
THEOREM Exclusion == CSpec => []WritersAlone
<1>1. LockInv => WritersAlone
  <2> SUFFICES ASSUME LockInv,
                      NEW t \in Threads, NEW u \in Threads, t # u, PcOf(t) # "idle",
                      CallOf(t).op \in {"Insert", "Update", "Remove"}
               PROVE  PcOf(u) = "idle"
    BY TwoRegisters DEF WritersAlone
  <2>1. CallOf(t) = want[t] /\ Holds(t)
    BY DEF LockInv, InCall, NoCall
  <2>2. t = writer /\ readers = {}
    BY <2>1, NobodyAssumption DEF LockInv, LockKinds, Holds, Shares
  <2> QED
    BY <2>2 DEF LockInv, InCall, Holds
<1> QED
  BY <1>1, InitLock, LockStep, PTL DEF CSpec

-----------------------------------------------------------------------------
\* The index as the thread that holds rw_lock exclusively sees it, whichever
\* thread runs; between such threads, as a caller finds it between two calls.
\* What the call answers is left out: the lock outlives the call.
Own == IF writer = Nobody THEN Idle ELSE [RegistersOf(writer) EXCEPT !.result = Pending]

Excl == INSTANCE MapProofs WITH
  pc <- Own.pc, call <- Own.call, key <- Own.key, path <- Own.path, child <- Own.child,
  split <- Own.split, result <- Own.result

\* The running thread is the one that sees the index so.
Mine ==
  /\ Own.pc = pc /\ Own.call = call /\ Own.key = key /\ Own.path = path
  /\ Own.child = child /\ Own.split = split

\* The two views of the same definitions agree where the registers do.
LEMMA SameLeafPages ==
  /\ Excl!LeafPages = LeafPages
  /\ \A p, k : Excl!LeafSearch(p, k) = LeafSearch(p, k) /\ Excl!LeafErase(p, k) = LeafErase(p, k)
  /\ \A p, k : Excl!LeafHolds(p, k) = LeafHolds(p, k) /\ Excl!LeafValue(p, k) = LeafValue(p, k)
BY DEF Excl!LeafPages, LeafPages, Excl!LeafSlots, LeafSlots, Excl!Entries, Entries,
       Excl!LeafSearch, LeafSearch, Excl!LeafErase, LeafErase, Excl!CloseGap, CloseGap,
       Excl!LeafHolds, LeafHolds, Excl!LeafValue, LeafValue

LEMMA SameInnerPages ==
  /\ \A p, e, pid : Excl!InnerPlace(p, e, pid) = InnerPlace(p, e, pid)
  /\ \A p, k : /\ Excl!InnerHolds(p, k) = InnerHolds(p, k) /\ Excl!InnerValue(p, k) = InnerValue(p, k)
               /\ Excl!InnerChild(p, k) = InnerChild(p, k)
BY DEF Excl!OpenGap, OpenGap, Excl!InnerSearch, InnerSearch, Excl!InnerPlace, InnerPlace,
       Excl!InnerHolds, InnerHolds, Excl!InnerValue, InnerValue, Excl!InnerChild, InnerChild

LEMMA SameReach == \A S : Excl!Reachable(S) = Reachable(S)
BY DEF Excl!Reachable, Reachable, Excl!Pids, Pids, Excl!Children, Children, Excl!IsLeaf, IsLeaf

LEMMA SameKids == \A p : Excl!Kids(p) = Kids(p) /\ Excl!OneSlotEach(p) = OneSlotEach(p)
BY DEF Excl!Kids, Kids, Excl!OneSlotEach, OneSlotEach

LEMMA SameForest == \A S, T, U, V : Excl!Forest(S, T, U, V) = Forest(S, T, U, V)
BY DEF Excl!Forest, Forest, Excl!OneSlotEach, OneSlotEach, Excl!Kids, Kids

LEMMA SameDown == \A S, T, U, V, W : Excl!PathDown(S, T, U, V, W) = PathDown(S, T, U, V, W)
BY SameKids DEF Excl!PathDown, PathDown

LEMMA SameOrder == \A p, S, U : Excl!InOrder(p, S, U) = InOrder(p, S, U)
BY DEF Excl!InOrder, InOrder, Excl!AllInts, AllInts, Excl!Sorted, Sorted, Excl!Parted, Parted,
       Excl!Between, Between, Excl!Places, Places, Excl!First, First

LEMMA SameOrdered == \A S, T, U : Excl!Ordered(S, T, U) = Ordered(S, T, U)
BY SameOrder DEF Excl!Ordered, Ordered

LEMMA SameTypes ==
  /\ Excl!Pids = Pids /\ Excl!Pages = Pages /\ Excl!Calls = Calls /\ Excl!NoCall = NoCall
  /\ Excl!Entries = Entries /\ Excl!Results = Results /\ Excl!Phases = Phases
  /\ Excl!InnerSlots = InnerSlots /\ Excl!NoPid = NoPid /\ Excl!NoSplit = NoSplit
  /\ \A pid : Excl!IsLeaf(pid) = IsLeaf(pid)
BY DEF Excl!Pids, Pids, Excl!Pages, Pages, Excl!LeafPages, LeafPages, Excl!InnerPages, InnerPages,
  Excl!LeafSlots, LeafSlots, Excl!InnerSlots, InnerSlots, Excl!Entries, Entries, Excl!Calls, Calls,
  Excl!NoCall, NoCall, Excl!Results, Results, Excl!Pending, Pending, Excl!Done, Done, Excl!Throw, Throw,
  Excl!NotFound, NotFound, Excl!Failed, Failed, Excl!Found, Found, Excl!Phases, Phases, Excl!NoPid, NoPid,
  Excl!NoSplit, NoSplit, Excl!ZeroEntry, ZeroEntry, Excl!IsLeaf, IsLeaf

LEMMA SameInd == Mine /\ result \in Results => (Excl!IndInv <=> IndInv)
<1> SUFFICES ASSUME Mine, result \in Results PROVE Excl!IndInv <=> IndInv
  OBVIOUS
<1>1. Excl!TypeOK <=> TypeOK
  <2>1. Own.result \in Results
    BY DEF Own, Idle, Results
  <2> QED BY <2>1, SameTypes DEF Mine, Excl!TypeOK, TypeOK
<1>2. Excl!SlotsFit <=> SlotsFit
  BY SameTypes DEF Excl!SlotsFit, SlotsFit
<1>3. Excl!FramesInner <=> FramesInner
  BY SameTypes DEF Excl!FramesInner, FramesInner, Mine
<1>4. Excl!FrameInputs <=> FrameInputs
  BY SameTypes DEF Excl!FrameInputs, FrameInputs, Mine
<1> QED BY <1>1, <1>2, <1>3, <1>4 DEF Excl!IndInv, IndInv

LEMMA SameTree == Mine => (Excl!TreeInv <=> TreeInv)
<1> SUFFICES ASSUME Mine PROVE Excl!TreeInv <=> TreeInv
  OBVIOUS
<1>1. Excl!Roots = Roots /\ (Excl!Splitting <=> Splitting) /\ Excl!Hole = Hole
  BY SameTypes DEF Mine, Excl!Roots, Roots, Excl!Splitting, Splitting, Excl!Hole, Hole, Excl!Cur, Cur,
     Excl!Last, Last
<1>2. \A p : Excl!HalfOf(p) = HalfOf(p) /\ Excl!Wide(p) = Wide(p)
  BY DEF Excl!HalfOf, HalfOf, Excl!MinSize, MinSize, Excl!Wide, Wide
<1>3. (\A live : Excl!Sizes(live) <=> Sizes(live)) /\ (Excl!RootWide <=> RootWide)
  BY <1>1, <1>2 DEF Excl!Sizes, Sizes, Excl!RootWide, RootWide, Mine
<1>4. ASSUME NEW live, NEW lev
      PROVE  Excl!TreeShape(live, lev) <=> TreeShape(live, lev)
  BY <1>1, <1>2, <1>3, SameTypes, SameForest, SameDown DEF Excl!TreeShape, TreeShape, Mine
<1> QED BY <1>4 DEF Excl!TreeInv, TreeInv

LEMMA SameSearch == Mine => (Excl!OrderInv <=> OrderInv)
<1> SUFFICES ASSUME Mine PROVE Excl!OrderInv <=> OrderInv
  OBVIOUS
<1>1. Excl!Cur = Cur /\ Excl!Page = Page /\ Excl!Parent = Parent /\ Excl!TreePages = TreePages
      /\ (Excl!Splitting <=> Splitting) /\ (Excl!Moved <=> Moved)
  BY SameTypes, SameReach DEF Mine, Excl!Cur, Cur, Excl!Last, Last, Excl!Page, Page, Excl!Parent, Parent,
     Excl!Splitting, Splitting, Excl!Moved, Moved, Excl!TreePages, TreePages, Excl!Roots, Roots
<1>2. Excl!View = View
  BY <1>1, SameLeafPages, SameInnerPages DEF Excl!View, View, Mine
<1>3. ASSUME NEW span
      PROVE  Excl!RootSpan(span) <=> RootSpan(span)
  BY <1>1 DEF Excl!RootSpan, RootSpan, Excl!Below, Below, Excl!Above, Above, Mine
<1>4. ASSUME NEW span
      PROVE  Excl!SearchSpan(span) <=> SearchSpan(span)
  BY <1>1, SameTypes, SameLeafPages DEF Excl!SearchSpan, SearchSpan, Mine
<1>5. ASSUME NEW span
      PROVE  Excl!OrderShape(TreePages, span) <=> OrderShape(TreePages, span)
  BY <1>1, <1>2, <1>3, <1>4, SameOrdered DEF Excl!OrderShape, OrderShape, Mine
<1> QED BY <1>1, <1>5 DEF Excl!OrderInv, OrderInv, Mine

-----------------------------------------------------------------------------
\* The tree of the index, when no split is under way.
Tree == Reachable({root})

\* It is in order, between two threads that change it and while readers share it.
AtRest(lev, span) ==
  /\ Tree \subseteq Pids /\ root \in Tree
  /\ \A p \in Tree : Kids(heap[p]) \subseteq Tree
  /\ \A A : A \subseteq Tree /\ root \in A /\ (\A p \in A : Kids(heap[p]) \subseteq A) => A = Tree
  /\ Forest(heap, {root}, Tree, lev)
  /\ Ordered(heap, Tree, span) /\ span[root] = Int

\* A Get is on a page its key belongs in.
Searching(t, span) ==
  LET r == RegistersOf(t)
  IN  /\ r.pc = "down" /\ r.key = want[t].key
      /\ r.path \in Seq(Pids) /\ r.path # <<>>
      /\ Last(r.path) \in Tree /\ r.key \in span[Last(r.path)]

\* A dump has written the pages of D and has those of its path to go on from:
\* the root, and the children of what it has written.
Dumping(t) ==
  \E D \in SUBSET Tree :
    LET r == RegistersOf(t)
    IN  /\ drawn[t] = {Node(p) : p \in D}
        /\ r.path \in Seq(Pids)
        /\ D \cup Range(r.path) = {root} \cup UNION {Kids(heap[p]) : p \in D}
        /\ r.pc = "idle" => r.path = <<>> /\ r.result = <<"keys", UNION {n.keys : n \in drawn[t]}>>

Reading(t, span) ==
  IF want[t].op = "List" THEN Dumping(t)
                         ELSE PcOf(t) # "idle" => Searching(t, span)

\* The registers of a thread, as far as what it waits for goes.
IsRegisters(r) ==
  r = [pc |-> r.pc, call |-> r.call, key |-> r.key, path |-> r.path,
       child |-> r.child, split |-> r.split, result |-> r.result]
ThreadOK(t) ==
  LET r == RegistersOf(t)
  IN  /\ IsRegisters(parked[t])
      /\ want[t] \in Requests \cup {NoCall}
      /\ r.pc = "idle" => r.path = <<>>
      /\ r.pc \in {"idle", "dump"} => r.key = 0
      /\ t # writer \/ r.pc = "idle" => r.child = NoPid /\ r.split = NoSplit
      /\ r.pc = "dump" => want[t].op = "List"
      /\ r.pc \notin {"idle", "dump"} => want[t] \in Calls
      /\ Holds(t) /\ want[t].op # "List" => r.result \in Results

\* The index as its writer sees it.
Sane ==
  /\ Excl!IndInv /\ Excl!TreeInv /\ Excl!OrderInv
  /\ Own.pc \notin {"aborted", "undefined"}

ReadersOK ==
  writer = Nobody =>
    \E lev, span : AtRest(lev, span) /\ \A t \in Threads : t \in readers => Reading(t, span)

CInv == LockInv /\ Sane /\ ReadersOK /\ \A t \in Threads : ThreadOK(t)

LEMMA RestSame ==
  ASSUME writer = Nobody
  PROVE  /\ Excl!TreePages = Tree
         /\ \A lev, span : Excl!Rest(lev, span) <=> AtRest(lev, span)
<1>1. Own.split = NoSplit
  BY DEF Own, Idle
<1>2. Excl!TreePages = Tree
  BY <1>1, SameReach, SameTypes DEF Excl!TreePages, Excl!Roots, Tree
<1>3. \A lev, span : Excl!Rest(lev, span) <=> AtRest(lev, span)
  BY <1>1, <1>2, SameTypes, SameKids, SameForest, SameOrdered DEF Excl!Rest, AtRest
<1> QED BY <1>2, <1>3

LEMMA RestThere == writer = Nobody /\ Sane => \E lev, span : AtRest(lev, span)
<1>1. writer = Nobody => Own.pc = "idle"
  BY DEF Own, Idle
<1>2. writer = Nobody /\ Sane => \E lev, span : Excl!Rest(lev, span)
  BY <1>1, Excl!IdleIsRest, ParameterAssumption, LowerBoundAssumption DEF Sane
<1> QED BY <1>2, RestSame

LEMMA RestStays ==
  ASSUME NEW lev, NEW span, AtRest(lev, span), heap' = heap, root' = root
  PROVE  AtRest(lev, span)' /\ Tree' = Tree
<1>1. Tree' = Tree
  BY DEF Tree, Reachable, Pids, Children, IsLeaf
<1> QED BY <1>1 DEF AtRest, Pids

LEMMA LiveSame == \A p : Excl!Live(p) = Live(p)
BY DEF Excl!Live, Live

LEMMA ReaderTells ==
  ASSUME writer = Nobody, Sane, NEW lev, NEW span, AtRest(lev, span), NEW p \in Tree, NEW k \in span[p]
  PROVE  /\ p \in Pids /\ k \in Int /\ \A e \in Stock(heap, Tree) : e \in Entries
         /\ IsLeaf(p) /\ LeafHolds(heap[p], k) => \E e \in Stock(heap, Tree) : e[1] = k /\ e[2] = LeafValue(heap[p], k)
         /\ IsLeaf(p) /\ ~LeafHolds(heap[p], k) => \A e \in Stock(heap, Tree) : e[1] # k
         /\ ~IsLeaf(p) /\ InnerHolds(heap[p], k) => \E e \in Stock(heap, Tree) : e[1] = k /\ e[2] = InnerValue(heap[p], k)
         /\ ~IsLeaf(p) /\ ~InnerHolds(heap[p], k)
              => InnerChild(heap[p], k) \in Tree /\ k \in span[InnerChild(heap[p], k)]
<1>1. Excl!IndInv /\ Excl!Rest(lev, span) /\ Excl!TreePages = Tree /\ Own.split = NoSplit
  BY RestSame DEF Sane, Own, Idle
<1>2. Excl!Contents = Stock(heap, Tree)
  BY <1>1, LiveSame, SameTypes DEF Excl!Contents, Stock
<1> QED
  BY <1>1, <1>2, SameTypes, SameLeafPages, SameInnerPages,
     Excl!PageTells, Excl!TreeEntries, ParameterAssumption, LowerBoundAssumption

\* What an action leaves alone stays in order.
LEMMA SaneStays ==
  ASSUME Sane, LeafMax >= 3, UNCHANGED <<heap, nextPid, root>>, Own' = Own
  PROVE  Sane'
<1>1. Excl!vars' = Excl!vars
  BY DEF Excl!vars
<1>2. Excl!IndInv'
  BY <1>1, Excl!NextKeeps, ParameterAssumption, LowerBoundAssumption DEF Sane
<1>3. Excl!TreeInv'
  BY <1>1, Excl!TreeKeeps, ParameterAssumption, LowerBoundAssumption DEF Sane
<1>4. Excl!OrderInv'
  BY <1>1, <1>2, Excl!OrderKeeps, ParameterAssumption, LowerBoundAssumption DEF Sane
<1> QED BY <1>2, <1>3, <1>4 DEF Sane

LEMMA ThreadStays ==
  ASSUME NEW t \in Threads, ThreadOK(t), RegistersOf(t)' = RegistersOf(t), IsRegisters(parked[t])',
         want'[t] = want[t], writer' = writer, Holds(t)' => Holds(t)
  PROVE  ThreadOK(t)'
BY DEF ThreadOK

LEMMA ReadingStays ==
  ASSUME NEW t \in Threads, NEW lev, NEW span, AtRest(lev, span), Reading(t, span),
         heap' = heap, root' = root, RegistersOf(t)' = RegistersOf(t),
         want'[t] = want[t], drawn'[t] = drawn[t]
  PROVE  Reading(t, span)'
<1>1. Tree' = Tree /\ Pids' = Pids /\ PcOf(t)' = PcOf(t)
  <2>1. PcOf(t) = RegistersOf(t).pc /\ PcOf(t)' = RegistersOf(t).pc'
    BY DEF PcOf, RegistersOf, Registers
  <2> QED BY <2>1, RestStays DEF Pids
<1>2. CASE want[t].op = "List"
  <2>1. \A p : Node(p)' = Node(p)
    BY DEF Node, Children, IsLeaf
  <2>2. Dumping(t)'
    BY <1>1, <1>2, <2>1 DEF Reading, Dumping
  <2> QED BY <1>2, <2>2 DEF Reading
<1>3. CASE want[t].op # "List"
  BY <1>1, <1>3 DEF Reading, Searching
<1> QED BY <1>2, <1>3

\* An action that no page, no call and no dump is changed by.
LEMMA QuietKeeps ==
  ASSUME CInv, LockInv', LeafMax >= 3, UNCHANGED <<heap, nextPid, root, writer, drawn>>,
         \A u \in Threads : u \in readers' => u \in readers,
         \A u \in Threads : RegistersOf(u)' = RegistersOf(u) /\ IsRegisters(parked[u])',
         \A u \in Threads :
           \/ want'[u] = want[u]
           \/ ~Holds(u)' /\ PcOf(u) = "idle" /\ want'[u] \in Requests \cup {NoCall}
  PROVE  CInv'
<1> USE NobodyAssumption
<1>1. Own' = Own
  BY DEF Own, CInv, LockInv, LockKinds
<1>2. Sane'
  BY <1>1, SaneStays DEF CInv
<1>3. ASSUME NEW u \in Threads
      PROVE  ThreadOK(u)'
  <2>1. CASE want'[u] = want[u]
    BY <2>1, ThreadStays DEF CInv, Holds
  <2>2. CASE ~Holds(u)' /\ PcOf(u) = "idle" /\ want'[u] \in Requests \cup {NoCall}
    BY <2>2, TwoRegisters DEF CInv, ThreadOK
  <2> QED BY <2>1, <2>2
<1>4. ReadersOK'
  <2> SUFFICES ASSUME writer' = Nobody
               PROVE  (\E lev, span : AtRest(lev, span) /\ \A t \in Threads : t \in readers => Reading(t, span))'
    BY DEF ReadersOK
  <2>1. PICK lev, span : AtRest(lev, span) /\ \A t \in Threads : t \in readers => Reading(t, span)
    BY DEF CInv, ReadersOK
  <2>2. AtRest(lev, span)'
    BY <2>1, RestStays
  <2>3. ASSUME NEW t \in Threads, t \in readers'
        PROVE  Reading(t, span)'
    <3>1. want'[t] = want[t]
      BY <2>3 DEF Holds
    <3> QED BY <2>1, <2>3, <3>1, ReadingStays
  <2> QED BY <2>2, <2>3
<1> QED BY <1>2, <1>3, <1>4 DEF CInv

LEMMA SwitchMoves ==
  ASSUME CInv, NEW t \in Threads, Switch(t)
  PROVE  \A u \in Threads : RegistersOf(u)' = RegistersOf(u) /\ IsRegisters(parked[u])'
<1>1. /\ active \in Threads /\ t # active /\ active' = t
      /\ parked' = [parked EXCEPT ![active] = Registers] /\ parked = [u \in Threads |-> parked[u]]
  BY DEF Switch, CInv, LockInv, LockTypeOK
<1>2. Registers' = parked[t]
  BY DEF Switch, Registers, CInv, ThreadOK, IsRegisters
<1>3. ASSUME NEW u \in Threads
      PROVE  RegistersOf(u)' = RegistersOf(u) /\ IsRegisters(parked[u])'
  <2>1. parked'[u] = IF u = active THEN Registers ELSE parked[u]
    BY <1>1
  <2>2. IsRegisters(parked'[u])
    BY <2>1 DEF CInv, ThreadOK, IsRegisters, Registers
  <2> QED BY <1>1, <1>2, <2>1, <2>2 DEF RegistersOf, IsRegisters
<1> QED BY <1>3

LEMMA SwitchKeeps ==
  ASSUME CInv, LockInv', LeafMax >= 3, NEW t \in Threads, Switch(t)
  PROVE  CInv'
BY SwitchMoves, QuietKeeps DEF Switch, locks

LEMMA AskKeeps ==
  ASSUME CInv, LockInv', LeafMax >= 3, NEW t \in Threads, NEW r \in Requests, Ask(t, r)
  PROVE  CInv'
<1>1. UNCHANGED <<heap, nextPid, root, writer, readers, drawn, active, parked, Registers>>
  BY DEF Ask, locks, vars, Registers
<1>2. ~Holds(t) /\ PcOf(t) = "idle" /\ ~Holds(t)'
  BY <1>1 DEF Ask, CInv, LockInv, InCall, Holds
<1>3. \A u \in Threads : want'[u] = IF u = t THEN r ELSE want[u]
  BY DEF Ask, CInv, LockInv, LockTypeOK
<1>4. ASSUME NEW u \in Threads
      PROVE  RegistersOf(u)' = RegistersOf(u) /\ IsRegisters(parked[u])'
  BY <1>1 DEF RegistersOf, IsRegisters, CInv, ThreadOK
<1> QED
  BY <1>1, <1>2, <1>3, <1>4, QuietKeeps

LEMMA UnlockKeeps ==
  ASSUME CInv, LockInv', LeafMax >= 3, NEW t \in Threads, Unlock(t)
  PROVE  CInv'
<1> USE NobodyAssumption
<1>1. UNCHANGED <<heap, nextPid, root, drawn, active, parked, Registers>>
  BY DEF Unlock, locks, vars, Registers
<1>2. /\ t = active /\ PcOf(t) = "idle" /\ Holds(t)
      /\ writer' = (IF writer = t THEN Nobody ELSE writer) /\ readers' = readers \ {t}
  BY TwoRegisters DEF Unlock, Answered
<1>3. \A u \in Threads : want'[u] = IF u = t THEN NoCall ELSE want[u]
  BY DEF Unlock, CInv, LockInv, LockTypeOK
<1>4. ASSUME NEW u \in Threads
      PROVE  RegistersOf(u)' = RegistersOf(u) /\ IsRegisters(parked[u])'
  BY <1>1 DEF RegistersOf, IsRegisters, CInv, ThreadOK
<1>5. CASE writer # t
  <2>1. ~Holds(t)' /\ writer' = writer
    BY <1>2, <1>5 DEF Holds
  <2> QED BY <1>1, <1>2, <1>3, <1>4, <2>1, QuietKeeps
<1>6. CASE writer = t
  <2>1. writer' = Nobody /\ readers' = {} /\ t # Nobody
    BY <1>2, <1>6 DEF CInv, LockInv, LockKinds
  <2>2. Own' = Own
    <3>1. /\ RegistersOf(t) = Registers /\ Registers.pc = "idle" /\ Registers.call = NoCall
          /\ Registers.key = 0 /\ Registers.path = <<>> /\ Registers.child = NoPid /\ Registers.split = NoSplit
      BY <1>2, TwoRegisters DEF CInv, ThreadOK, LockInv, InCall, RegistersOf
    <3>2. Own = Idle
      BY <1>6, <2>1, <3>1 DEF Own, Idle, Registers
    <3> QED BY <2>1, <3>2 DEF Own, Idle
  <2>3. Sane'
    BY <1>1, <2>2, SaneStays DEF CInv
  <2>4. (\E lev, span : AtRest(lev, span))'
    <3>1. (writer = Nobody /\ Sane => \E lev, span : AtRest(lev, span))'
      BY RestThere, PTL
    <3> QED BY <2>1, <2>3, <3>1
  <2>5. ReadersOK'
    BY <2>1, <2>4 DEF ReadersOK
  <2>6. ASSUME NEW u \in Threads
        PROVE  ThreadOK(u)'
    BY <1>2, <1>3, <1>4, <1>6, <2>1, TwoRegisters DEF ThreadOK, CInv, Holds
  <2> QED BY <2>3, <2>5, <2>6 DEF CInv
<1> QED BY <1>5, <1>6

\* The lock is taken.
LEMMA RequestTypes ==
  \A r \in Requests \cup {NoCall} :
    /\ r \in Calls <=> r # NoCall /\ r.op # "List"
    /\ r.op = "List" => r = DumpCall
    /\ r.op # "List" /\ Shares(r) => r.op = "Get"
BY DEF Requests, Calls, NoCall, DumpCall, Shares

LEMMA BeginThread ==
  ASSUME CInv, LockInv', LeafMax >= 3, NEW t \in Threads, Begin(t), t = active, want[t] # NoCall, ~Holds(t)
  PROVE  /\ UNCHANGED <<heap, nextPid, root, active, parked, want, child, split>>
         /\ RegistersOf(t) = Registers /\ (RegistersOf(t) = Registers)'
         /\ pc = "idle" /\ call = NoCall /\ key = 0 /\ path = <<>> /\ child = NoPid /\ split = NoSplit
         /\ path' = <<root>> /\ result' = Pending
         /\ IF want[t].op = "List" THEN pc' = "dump" /\ call' = NoCall /\ key' = 0
            ELSE pc' = "down" /\ call' = want[t] /\ key' = want[t].key /\ want[t] \in Calls
         /\ drawn'[t] = {} /\ \A u \in Threads \ {t} : drawn'[u] = drawn[u]
         /\ ThreadOK(t)'
         /\ \A u \in Threads \ {t} : RegistersOf(u)' = RegistersOf(u)
<1>1. UNCHANGED <<heap, nextPid, root, active, parked, want, child, split>>
  BY DEF Begin, Invoke
<1>2. RegistersOf(t) = Registers /\ (RegistersOf(t) = Registers)'
  BY <1>1 DEF RegistersOf
<1>3. pc = "idle" /\ call = NoCall /\ key = 0 /\ path = <<>> /\ child = NoPid /\ split = NoSplit
  BY <1>2, TwoRegisters DEF CInv, LockInv, InCall, ThreadOK, PcOf, CallOf, Registers
<1>4. path' = <<root>> /\ result' = Pending
  BY DEF Begin, Invoke
<1>5. IF want[t].op = "List" THEN pc' = "dump" /\ call' = NoCall /\ key' = 0
      ELSE pc' = "down" /\ call' = want[t] /\ key' = want[t].key /\ want[t] \in Calls
  BY <1>3, RequestTypes DEF Begin, Invoke, CInv, ThreadOK
<1>6. drawn' = [drawn EXCEPT ![t] = {}] /\ drawn = [u \in Threads |-> drawn[u]]
  BY DEF Begin, CInv, LockInv, LockTypeOK
<1>7. ThreadOK(t)'
  BY <1>1, <1>2, <1>3, <1>4, <1>5 DEF ThreadOK, CInv, Registers, Results, IsRegisters
<1>8. \A u \in Threads \ {t} : RegistersOf(u)' = RegistersOf(u)
  BY <1>1 DEF RegistersOf
<1> QED BY <1>1, <1>2, <1>3, <1>4, <1>5, <1>6, <1>7, <1>8

LEMMA LockSharedKeeps ==
  ASSUME CInv, LockInv', LeafMax >= 3, NEW t \in Threads, LockShared(t)
  PROVE  CInv'
<1> USE NobodyAssumption
<1>1. /\ Begin(t) /\ t = active /\ want[t] # NoCall /\ Shares(want[t]) /\ ~Holds(t)
      /\ writer = Nobody /\ writer' = writer /\ readers' = readers \cup {t}
  BY DEF LockShared
<1>2. /\ UNCHANGED <<heap, nextPid, root, active, parked, want, child, split>>
      /\ RegistersOf(t)' = Registers' /\ path' = <<root>> /\ ThreadOK(t)'
      /\ IF want[t].op = "List" THEN pc' = "dump" /\ call' = NoCall /\ key' = 0
         ELSE pc' = "down" /\ call' = want[t] /\ key' = want[t].key /\ want[t] \in Calls
      /\ drawn'[t] = {}
      /\ \A u \in Threads \ {t} : RegistersOf(u)' = RegistersOf(u) /\ drawn'[u] = drawn[u]
  BY <1>1, BeginThread
<1>3. Sane'
  <2>1. Own' = Own
    BY <1>1 DEF Own
  <2> QED BY <1>2, <2>1, SaneStays DEF CInv
<1>4. ASSUME NEW u \in Threads, u # t
      PROVE  ThreadOK(u)'
  BY <1>1, <1>2, <1>4, ThreadStays DEF CInv, ThreadOK, IsRegisters, Holds
<1>5. PICK lev, span : AtRest(lev, span) /\ \A u \in Threads : u \in readers => Reading(u, span)
  BY <1>1 DEF CInv, ReadersOK
<1>6. AtRest(lev, span)' /\ Tree' = Tree /\ Pids' = Pids /\ root \in Tree /\ root \in Pids /\ span[root] = Int
  BY <1>2, <1>5, RestStays DEF AtRest, Pids
<1>7. ASSUME NEW u \in Threads, u # t, u \in readers'
      PROVE  Reading(u, span)'
  BY <1>1, <1>2, <1>5, <1>7, ReadingStays
<1>8. Reading(t, span)'
  <2>1. CASE want[t].op = "List"
    <3>1. <<root>> \in Seq(Pids) /\ Range(<<root>>) = {root}
      BY <1>6 DEF Range
    <3>2. /\ RegistersOf(t)'.path = <<root>> /\ RegistersOf(t)'.pc = "dump"
      BY <1>2, <2>1 DEF Registers
    <3>3. Dumping(t)'
      <4>1. {} \in SUBSET Tree' /\ drawn'[t] = {Node(p)' : p \in {}}
        BY <1>2
      <4>2. {} \cup Range(RegistersOf(t)'.path) = {root'} \cup UNION {Kids(heap'[p]) : p \in {}}
        BY <1>2, <3>1, <3>2
      <4> QED BY <1>2, <1>6, <3>1, <3>2, <4>1, <4>2 DEF Dumping
    <3> QED BY <1>2, <2>1, <3>3 DEF Reading
  <2>2. CASE want[t].op # "List"
    <3>1. <<root>> \in Seq(Pids) /\ Last(<<root>>) = root /\ <<root>> # <<>>
      BY <1>6 DEF Last
    <3>2. /\ RegistersOf(t)'.path = <<root>> /\ RegistersOf(t)'.pc = "down"
          /\ RegistersOf(t)'.key = want[t].key
      BY <1>2, <2>2 DEF Registers
    <3>3. want[t].key \in Int
      BY <1>2, <2>2, CallTypes, ParameterAssumption
    <3>4. Searching(t, span)'
      BY <1>2, <1>6, <3>1, <3>2, <3>3 DEF Searching
    <3> QED BY <1>2, <2>2, <3>4 DEF Reading
  <2> QED BY <2>1, <2>2
<1>9. ReadersOK'
  BY <1>6, <1>7, <1>8 DEF ReadersOK
<1> QED BY <1>2, <1>3, <1>4, <1>9 DEF CInv

LEMMA LockExclusiveKeeps ==
  ASSUME CInv, LockInv', LeafMax >= 3, NEW t \in Threads, LockExclusive(t)
  PROVE  CInv'
<1> USE NobodyAssumption
<1>1. /\ Begin(t) /\ t = active /\ want[t] # NoCall /\ ~Shares(want[t]) /\ ~Holds(t)
      /\ writer = Nobody /\ readers = {} /\ writer' = t /\ readers' = readers /\ t # Nobody
  BY DEF LockExclusive
<1>2. want[t].op # "List"
  BY <1>1 DEF Shares
<1>3. /\ UNCHANGED <<heap, nextPid, root, active, parked, want, child, split>>
      /\ RegistersOf(t)' = Registers' /\ path' = <<root>> /\ ThreadOK(t)'
      /\ pc = "idle" /\ child = NoPid /\ split = NoSplit
      /\ pc' = "down" /\ call' = want[t] /\ key' = want[t].key /\ want[t] \in Calls
      /\ \A u \in Threads \ {t} : RegistersOf(u)' = RegistersOf(u)
  BY <1>1, <1>2, BeginThread
<1>4. Own = Idle /\ Own' = [Registers' EXCEPT !.result = Pending]
  BY <1>1, <1>3 DEF Own
<1>5. Excl!Invoke(want[t])
  BY <1>3, <1>4 DEF Excl!Invoke, Excl!Pending, Idle, Registers, Pending
<1>6. ~Excl!Faulty
  BY <1>4 DEF Idle, Excl!Faulty, Excl!LeafMergeMiscounts, Excl!LeafMerges, Excl!LeafUnderflow,
     Excl!AtLeaf, Excl!AtInner, Excl!InnerMergeMiscounts, Excl!InnerMerges, Excl!InnerUnderflow,
     Excl!ShrinksToDeadPage, Excl!SeparatorOverInner, Excl!InsertsTwice, Excl!MissBelowInner
<1>7. Excl!Next
  BY <1>3, <1>5, SameTypes DEF Excl!Next
<1>8. Excl!IndInv'
  BY <1>7, Excl!NextKeeps, ParameterAssumption, LowerBoundAssumption DEF CInv, Sane
<1>9. Excl!TreeInv'
  <2>1. ~Excl!ShrinksToDeadPage
    BY <1>6 DEF Excl!Faulty
  <2> QED BY <1>7, <2>1, Excl!TreeKeeps, ParameterAssumption, LowerBoundAssumption DEF CInv, Sane
<1>10. Excl!OrderInv'
  BY <1>6, <1>7, <1>8, Excl!OrderKeeps, ParameterAssumption, LowerBoundAssumption DEF CInv, Sane
<1>11. Sane'
  BY <1>3, <1>4, <1>8, <1>9, <1>10 DEF Sane, Registers
<1>12. ASSUME NEW u \in Threads, u # t
      PROVE  ThreadOK(u)'
  BY <1>1, <1>3, <1>12 DEF CInv, ThreadOK, IsRegisters, Holds
<1>13. ReadersOK'
  BY <1>1 DEF ReadersOK
<1> QED BY <1>3, <1>11, <1>12, <1>13 DEF CInv

\* The writer's step is one of BTreeIndex.
LEMMA StepsOn ==
  ASSUME CInv, LeafMax >= 3, CallStep, ~Down, active = writer, writer # Nobody
  PROVE  /\ Mine /\ Mine' /\ IndInv /\ TreeInv /\ OrderInv /\ IndInv' /\ TreeInv' /\ OrderInv'
         /\ pc \notin {"aborted", "undefined"} /\ pc' \notin {"aborted", "undefined"}
         /\ MapStep
<1> USE NobodyAssumption
<1>1. /\ Step /\ UNCHANGED <<active, parked, want, writer, readers, drawn>>
      /\ ~Faulty /\ (InnerMax < 5 => ~Alone) /\ active \in Threads
  BY DEF CallStep, locks, Down, CInv, LockInv, LockTypeOK
<1>2. Mine /\ Mine'
  BY <1>1 DEF Own, Mine, RegistersOf, Registers
<1>3. result \in Results
  <2>1. ~Shares(want[writer]) /\ RegistersOf(writer).result = result
    BY <1>1 DEF CInv, LockInv, LockKinds, RegistersOf, Registers
  <2>2. Holds(writer) /\ want[writer].op # "List" /\ ThreadOK(writer)
    BY <1>1, <2>1 DEF Holds, Shares, CInv
  <2> QED BY <2>1, <2>2 DEF ThreadOK
<1>4. IndInv /\ TreeInv /\ OrderInv /\ pc \notin {"aborted", "undefined"}
  BY <1>2, <1>3, SameInd, SameTree, SameSearch DEF CInv, Sane, Mine
<1>5. Next /\ ~ShrinksToDeadPage
  BY <1>1 DEF Next, Faulty
<1>6. IndInv' /\ TreeInv'
  BY <1>4, <1>5, NextKeeps, TreeKeeps
<1>7. OrderInv'
  BY <1>1, <1>4, <1>5, <1>6, OrderKeeps
<1>8. ~NoSibling /\ ~RemoveMissBelowInner
  <2>1. ~RemoveMissBelowInner
    BY <1>1 DEF RemoveMissBelowInner, Faulty, MissBelowInner
  <2>2. CASE InnerMax >= 5
    <3>1. PICK live, lev : TreeShape(live, lev)
      BY <1>4 DEF TreeInv
    <3> QED BY <1>4, <2>1, <2>2, <3>1, SiblingThere DEF NoSibling
  <2>3. CASE InnerMax < 5
    BY <1>1, <2>1, <2>3 DEF NoSibling
  <2> QED BY <2>2, <2>3, ParameterAssumption
<1>9. pc' \notin {"aborted", "undefined"}
  BY <1>1, <1>8, StepKeepsCall
<1>10. PICK lev, span : Sound(lev, span)
  BY <1>1, <1>4, <1>5, <1>6, SoundThere
<1>11. MapStep
  BY <1>1, <1>4, <1>5, <1>8, <1>10, StepMaps
<1> QED
  BY <1>2, <1>4, <1>6, <1>7, <1>9, <1>11

LEMMA WriterKeeps ==
  ASSUME CInv, LockInv', LeafMax >= 3, CallStep, ~Down, active = writer, writer # Nobody
  PROVE  CInv'
<1> USE NobodyAssumption
<1>1. /\ Step /\ UNCHANGED <<active, parked, want, writer, readers, drawn>> /\ active \in Threads
  BY DEF CallStep, locks, CInv, LockInv, LockTypeOK
<1>2. /\ Mine' /\ IndInv' /\ TreeInv' /\ OrderInv' /\ pc' \notin {"aborted", "undefined"}
  BY StepsOn
<1>3. result' \in Results
  BY <1>2 DEF IndInv, TypeOK
<1>4. (Mine /\ result \in Results => (Excl!IndInv <=> IndInv))'
  BY SameInd, PTL
<1>5. (Mine => (Excl!TreeInv <=> TreeInv))'
  BY SameTree, PTL
<1>6. (Mine => (Excl!OrderInv <=> OrderInv))'
  BY SameSearch, PTL
<1>7. Sane'
  BY <1>2, <1>3, <1>4, <1>5, <1>6 DEF Sane, Mine
<1>8. ReadersOK'
  BY <1>1 DEF ReadersOK
<1>9. ASSUME NEW u \in Threads
      PROVE  ThreadOK(u)'
  <2>1. CASE u # active
    <3>1. RegistersOf(u)' = RegistersOf(u)
      BY <1>1, <2>1 DEF RegistersOf
    <3> QED BY <1>1, <3>1, ThreadStays DEF CInv, ThreadOK, IsRegisters, Holds
  <2>2. CASE u = active
    <3>1. RegistersOf(u) = Registers /\ RegistersOf(u)' = Registers'
      BY <1>1, <2>2 DEF RegistersOf
    <3>2. /\ pc \in {"down", "up"}
          /\ pc' = "idle" => key' = 0 /\ path' = <<>> /\ child' = NoPid /\ split' = NoSplit
          /\ pc' \in {"idle", "down", "up", "aborted", "undefined"}
      BY <1>1, StepKeepsCall
    <3>3. want[u] \in Requests \cup {NoCall} /\ want[u] \in Calls /\ IsRegisters(parked[u])
      BY <2>2, <3>1, <3>2 DEF CInv, ThreadOK, Registers
    <3> QED BY <1>1, <1>3, <2>2, <3>1, <3>2, <3>3 DEF ThreadOK, IsRegisters, Registers
  <2> QED BY <2>1, <2>2
<1> QED BY <1>7, <1>8, <1>9 DEF CInv

\* The steps of a Get.
LEMMA GetSteps ==
  ASSUME Step, call.op = "Get", pc = "down"
  PROVE  GoDown \/ GetAtInner \/ GetAtLeaf
BY DEF Step, UpdateAtInner, UpdateAtLeaf, InsertDuplicate, LeafInsertFits, LeafInsertSplits,
       InnerInsertFits, InnerInsertSplits, GrowRoot, RemoveAtInner, RemoveMiss, RemoveMissBelowInner,
       RemoveFromLeaf, NoSibling, Alone, LeafBorrowRight, LeafBorrowLeft, LeafMergeRight, LeafMergeLeft,
       LeafLends, LeafMerges, InnerSafe, InnerBorrowRight, InnerBorrowLeft, InnerMergeRight,
       InnerMergeLeft, InnerLends, InnerMerges, RootKeeps, RootShrinks, LeafUnderflow, InnerUnderflow,
       AtLeaf, AtInner

\* A step of a thread that shares the lock.
LEMMA ReaderFacts ==
  ASSUME CInv, active \in readers
  PROVE  /\ active \in Threads /\ writer = Nobody /\ ~(active = writer) /\ Shares(want[active])
         /\ RegistersOf(active) = Registers /\ ThreadOK(active) /\ want[active] # NoCall
         /\ child = NoPid /\ split = NoSplit
         /\ want[active].op = "Get" <=> want[active].op # "List"
         /\ want[active].op = "Get" => want[active] \in Calls
<1> USE NobodyAssumption
<1>1. active \in Threads /\ writer = Nobody /\ ~(active = writer) /\ Shares(want[active]) /\ want[active] # NoCall
  BY DEF CInv, LockInv, LockTypeOK, LockKinds, InCall, Holds
<1>2. RegistersOf(active) = Registers /\ ThreadOK(active)
  BY <1>1 DEF RegistersOf, CInv
<1>3. child = NoPid /\ split = NoSplit
  BY <1>1, <1>2 DEF ThreadOK, Registers
<1>4. want[active].op = "Get" <=> want[active].op # "List"
  BY <1>1 DEF Shares
<1>5. want[active].op = "Get" => want[active] \in Calls
  BY <1>1, <1>2, <1>4, RequestTypes DEF ThreadOK
<1> QED BY <1>1, <1>2, <1>3, <1>4, <1>5

\* What a Get may answer.
Told(a, k) ==
  \/ \E e \in Stock(heap, Tree) : e[1] = k /\ a = Found(e[2])
  \/ a = NotFound /\ \A e \in Stock(heap, Tree) : e[1] # k

LEMMA LooksOn ==
  ASSUME CInv, CallStep, active \in readers,
         NEW lev, NEW span, AtRest(lev, span), Reading(active, span)
  PROVE  /\ UNCHANGED <<heap, nextPid, root, active, parked, want, writer, readers, drawn>>
         /\ want[active] \in Calls /\ want[active].op = "Get" /\ pc = "down" /\ key = want[active].key
         /\ call = want[active] /\ child' = NoPid /\ split' = NoSplit
         /\ \/ /\ GoDown /\ pc' = "down" /\ UNCHANGED <<call, key, result>>
               /\ path' \in Seq(Pids) /\ path' # <<>> /\ Last(path') \in Tree /\ key \in span[Last(path')]
            \/ \E a \in Results : pc' = "idle" /\ Return(a) /\ Told(a, key)
<1>1. /\ Step /\ UNCHANGED <<active, parked, want, writer, readers, drawn>>
  BY DEF CallStep, locks
<1>2. /\ active \in Threads /\ writer = Nobody /\ RegistersOf(active) = Registers /\ ThreadOK(active)
      /\ child = NoPid /\ split = NoSplit /\ Shares(want[active])
      /\ want[active].op = "Get" <=> want[active].op # "List"
  BY ReaderFacts
<1>3. pc \in {"down", "up"}
  BY <1>1, StepKeepsCall
<1>4. want[active] \in Calls /\ call = want[active]
  BY <1>2, <1>3 DEF ThreadOK, Registers, CInv, LockInv, InCall, PcOf, CallOf
<1>5. want[active].op = "Get"
  BY <1>2, <1>4, CallTypes
<1>6. /\ pc = "down" /\ key = want[active].key /\ path \in Seq(Pids) /\ path # <<>>
      /\ Cur \in Tree /\ key \in span[Cur]
  BY <1>2, <1>3, <1>5 DEF Reading, Searching, Registers, PcOf, Cur
<1>7. GoDown \/ GetAtInner \/ GetAtLeaf
  BY <1>1, <1>4, <1>5, <1>6, GetSteps
<1>8. UNCHANGED <<heap, nextPid, root>> /\ child' = NoPid /\ split' = NoSplit
  BY <1>2, <1>7 DEF GoDown, GetAtInner, GetAtLeaf, Return
<1>9. /\ Page = heap[Cur] /\ \A e \in Stock(heap, Tree) : e \in Entries
      /\ IsLeaf(Cur) /\ LeafHolds(Page, key) => \E e \in Stock(heap, Tree) : e[1] = key /\ e[2] = LeafValue(Page, key)
      /\ IsLeaf(Cur) /\ ~LeafHolds(Page, key) => \A e \in Stock(heap, Tree) : e[1] # key
      /\ ~IsLeaf(Cur) /\ InnerHolds(Page, key) => \E e \in Stock(heap, Tree) : e[1] = key /\ e[2] = InnerValue(Page, key)
      /\ ~IsLeaf(Cur) /\ ~InnerHolds(Page, key)
           => InnerChild(Page, key) \in Tree /\ key \in span[InnerChild(Page, key)]
  BY <1>2, <1>6, ReaderTells DEF CInv, Page
<1>10. CASE GoDown
  <2>1. PICK c : c = InnerChild(Page, key)
    OBVIOUS
  <2>2. /\ path' = Append(path, c) /\ UNCHANGED <<pc, call, key, result>> /\ c \in Tree /\ key \in span[c]
    BY <1>9, <1>10, <2>1 DEF GoDown
  <2>3. path' \in Seq(Pids) /\ path' # <<>> /\ Last(path') = c
    BY <1>6, <2>2 DEF AtRest, Last
  <2> QED BY <1>1, <1>4, <1>5, <1>6, <1>8, <1>10, <2>2, <2>3
<1>11. CASE GetAtInner \/ GetAtLeaf
  <2>1. \A e \in Stock(heap, Tree) : Found(e[2]) \in Results
    BY <1>9 DEF Entries, Results
  <2>2. CASE GetAtInner
    <3>1. Return(Found(InnerValue(Page, key))) /\ ~IsLeaf(Cur) /\ InnerHolds(Page, key)
      BY <2>2 DEF GetAtInner, AtInner
    <3>2. Told(Found(InnerValue(Page, key)), key) /\ Found(InnerValue(Page, key)) \in Results
      BY <1>9, <2>1, <3>1 DEF Told
    <3>3. pc' = "idle"
      BY <3>1 DEF Return
    <3> QED BY <1>1, <1>4, <1>5, <1>6, <1>8, <3>1, <3>2, <3>3
  <2>3. CASE GetAtLeaf /\ LeafHolds(Page, key)
    <3>1. Return(Found(LeafValue(Page, key))) /\ IsLeaf(Cur)
      BY <2>3 DEF GetAtLeaf, AtLeaf
    <3>2. Told(Found(LeafValue(Page, key)), key) /\ Found(LeafValue(Page, key)) \in Results
      BY <1>9, <2>1, <2>3, <3>1 DEF Told
    <3>3. pc' = "idle"
      BY <3>1 DEF Return
    <3> QED BY <1>1, <1>4, <1>5, <1>6, <1>8, <3>1, <3>2, <3>3
  <2>4. CASE GetAtLeaf /\ ~LeafHolds(Page, key)
    <3>1. Return(NotFound) /\ IsLeaf(Cur)
      BY <2>4 DEF GetAtLeaf, AtLeaf
    <3>2. Told(NotFound, key) /\ NotFound \in Results
      BY <1>9, <2>4, <3>1, ResultTypes DEF Told
    <3>3. pc' = "idle"
      BY <3>1 DEF Return
    <3> QED BY <1>1, <1>4, <1>5, <1>6, <1>8, <3>1, <3>2, <3>3
  <2> QED BY <1>11, <2>2, <2>3, <2>4
<1> QED BY <1>7, <1>10, <1>11

\* What a step of a reader leaves to show: its own registers.
LEMMA ReaderMoves ==
  ASSUME CInv, LockInv', LeafMax >= 3, active \in readers,
         UNCHANGED <<heap, nextPid, root, active, parked, want, writer, readers>>,
         \A u \in Threads \ {active} : drawn'[u] = drawn[u],
         NEW lev, NEW span, AtRest(lev, span), \A u \in Threads : u \in readers => Reading(u, span),
         Reading(active, span)', ThreadOK(active)'
  PROVE  CInv'
<1>1. writer = Nobody /\ active \in Threads
  BY ReaderFacts
<1>2. Sane'
  <2>1. Own' = Own
    BY <1>1 DEF Own
  <2> QED BY <2>1, SaneStays DEF CInv
<1>3. ASSUME NEW u \in Threads, u # active
      PROVE  RegistersOf(u)' = RegistersOf(u)
  BY <1>3 DEF RegistersOf
<1>4. ASSUME NEW u \in Threads
      PROVE  ThreadOK(u)'
  BY <1>3, ThreadStays DEF CInv, ThreadOK, IsRegisters, Holds
<1>5. AtRest(lev, span)'
  BY RestStays
<1>6. ASSUME NEW u \in Threads, u \in readers'
      PROVE  Reading(u, span)'
  <2>1. CASE u # active
    BY <1>3, <1>6, <2>1, ReadingStays
  <2>2. CASE u = active
    BY <2>2
  <2> QED BY <2>1, <2>2
<1>7. ReadersOK'
  BY <1>5, <1>6 DEF ReadersOK
<1> QED BY <1>2, <1>4, <1>7 DEF CInv

LEMMA LookKeeps ==
  ASSUME CInv, LockInv', LeafMax >= 3, CallStep, active \in readers
  PROVE  CInv'
<1>1. PICK lev, span : AtRest(lev, span) /\ \A u \in Threads : u \in readers => Reading(u, span)
  BY ReaderFacts DEF CInv, ReadersOK
<1>2. /\ active \in Threads /\ RegistersOf(active) = Registers /\ ThreadOK(active)
      /\ Reading(active, span)
  BY <1>1, ReaderFacts
<1>3. /\ UNCHANGED <<heap, nextPid, root, active, parked, want, writer, readers, drawn>>
      /\ want[active] \in Calls /\ want[active].op = "Get" /\ pc = "down" /\ key = want[active].key
      /\ child' = NoPid /\ split' = NoSplit
      /\ \/ /\ pc' = "down" /\ UNCHANGED <<call, key, result>>
            /\ path' \in Seq(Pids) /\ path' # <<>> /\ Last(path') \in Tree /\ key \in span[Last(path')]
         \/ \E a \in Results : pc' = "idle" /\ Return(a)
  BY <1>1, <1>2, LooksOn
<1>4. Tree' = Tree /\ Pids' = Pids
  BY <1>1, <1>3, RestStays DEF Pids
<1>5. RegistersOf(active)' = Registers' /\ PcOf(active)' = pc'
  BY <1>3 DEF RegistersOf, PcOf
<1>6. Reading(active, span)'
  <2>1. pc' # "idle" => Searching(active, span)'
    BY <1>3, <1>4, <1>5 DEF Searching, Registers, Return
  <2> QED BY <1>3, <1>5, <2>1 DEF Reading
<1>7. ThreadOK(active)'
  <2>1. result \in Results
    BY <1>2, <1>3 DEF ThreadOK, Registers, Holds
  <2> QED BY <1>2, <1>3, <1>5, <2>1 DEF ThreadOK, Registers, Return, IsRegisters
<1> QED BY <1>1, <1>3, <1>6, <1>7, ReaderMoves

-----------------------------------------------------------------------------
\* The dump

LEMMA RangeOfParts ==
  ASSUME NEW S, NEW u \in Seq(S), NEW v \in Seq(S)
  PROVE  /\ u \o v \in Seq(S) /\ Range(u \o v) = Range(u) \cup Range(v)
         /\ u # <<>> => /\ Tail(u) \in Seq(S) /\ Head(u) \in S
                        /\ Range(u) = {Head(u)} \cup Range(Tail(u))
<1>1. \A s \in Seq(S) : Len(s) \in Nat /\ DOMAIN s = 1..Len(s)
  OBVIOUS
<1>2. Range(u \o v) = Range(u) \cup Range(v)
  <2>1. u \o v \in Seq(S) /\ Len(u \o v) = Len(u) + Len(v)
        /\ \A i \in 1..(Len(u) + Len(v)) : (u \o v)[i] = IF i <= Len(u) THEN u[i] ELSE v[i - Len(u)]
    OBVIOUS
  <2>2. ASSUME NEW x \in Range(u \o v) PROVE x \in Range(u) \cup Range(v)
    <3>1. PICK i \in 1..(Len(u) + Len(v)) : x = (u \o v)[i]
      BY <1>1, <2>1, <2>2 DEF Range
    <3>2. CASE i <= Len(u)
      BY <1>1, <2>1, <3>1, <3>2 DEF Range
    <3>3. CASE i > Len(u)
      <4>1. i - Len(u) \in 1..Len(v) /\ x = v[i - Len(u)]
        BY <1>1, <2>1, <3>1, <3>3
      <4> QED BY <1>1, <4>1 DEF Range
    <3> QED BY <1>1, <3>1, <3>2, <3>3
  <2>3. ASSUME NEW x \in Range(u) PROVE x \in Range(u \o v)
    <3>1. PICK i \in 1..Len(u) : x = u[i]
      BY <1>1, <2>3 DEF Range
    <3>2. i \in 1..(Len(u) + Len(v)) /\ x = (u \o v)[i]
      BY <1>1, <2>1, <3>1
    <3> QED BY <1>1, <2>1, <3>2 DEF Range
  <2>4. ASSUME NEW x \in Range(v) PROVE x \in Range(u \o v)
    <3>1. PICK i \in 1..Len(v) : x = v[i]
      BY <1>1, <2>4 DEF Range
    <3>2. i + Len(u) \in 1..(Len(u) + Len(v)) /\ x = (u \o v)[i + Len(u)]
      BY <1>1, <2>1, <3>1
    <3> QED BY <1>1, <2>1, <3>2 DEF Range
  <2> QED BY <2>2, <2>3, <2>4
<1>3. ASSUME u # <<>>
      PROVE  Tail(u) \in Seq(S) /\ Head(u) \in S /\ Range(u) = {Head(u)} \cup Range(Tail(u))
  <2>1. /\ Tail(u) \in Seq(S) /\ Len(Tail(u)) = Len(u) - 1 /\ Len(u) >= 1 /\ Head(u) = u[1] /\ Head(u) \in S
        /\ \A i \in 1..(Len(u) - 1) : Tail(u)[i] = u[i + 1]
    BY <1>3
  <2>2. ASSUME NEW x \in Range(u) PROVE x \in {Head(u)} \cup Range(Tail(u))
    <3>1. PICK i \in 1..Len(u) : x = u[i]
      BY <1>1, <2>2 DEF Range
    <3>2. i # 1 => i - 1 \in 1..(Len(u) - 1) /\ x = Tail(u)[i - 1]
      BY <1>1, <2>1, <3>1
    <3> QED BY <1>1, <2>1, <3>1, <3>2 DEF Range
  <2>3. ASSUME NEW x \in Range(Tail(u)) PROVE x \in Range(u)
    <3>1. PICK i \in 1..(Len(u) - 1) : x = Tail(u)[i]
      BY <1>1, <2>1, <2>3 DEF Range
    <3>2. i + 1 \in 1..Len(u) /\ x = u[i + 1]
      BY <1>1, <2>1, <3>1
    <3> QED BY <1>1, <3>2 DEF Range
  <2>4. Head(u) \in Range(u)
    BY <1>1, <2>1 DEF Range
  <2> QED BY <2>1, <2>2, <2>3, <2>4
<1> QED BY <1>2, <1>3

\* A page hands its children on.
LEMMA ChildSeqKids ==
  ASSUME CInv, writer = Nobody, NEW lev, NEW span, AtRest(lev, span), NEW p \in Tree
  PROVE  ChildSeq(p) \in Seq(Pids) /\ Range(ChildSeq(p)) = Kids(heap[p]) /\ Children(p) = Kids(heap[p])
<1>1. heap[p].size \in Nat
  <2>1. Excl!IndInv /\ Excl!Rest(lev, span) /\ Excl!TreePages = Tree
    BY RestSame DEF CInv, Sane
  <2> QED BY <2>1, Excl!TreePage, ParameterAssumption, LowerBoundAssumption
<1>2. Kids(heap[p]) \subseteq Pids
  BY DEF AtRest
<1>3. CASE IsLeaf(p)
  BY <1>3 DEF ChildSeq, Kids, Children, IsLeaf, Range
<1>4. CASE ~IsLeaf(p)
  <2>1. ChildSeq(p) = [i \in 1..heap[p].size |-> heap[p].pids[i - 1]]
    BY <1>4 DEF ChildSeq
  <2>2. Kids(heap[p]) = {heap[p].pids[i] : i \in 0..(heap[p].size - 1)} /\ Children(p) = Kids(heap[p])
    BY <1>4 DEF Kids, Children, IsLeaf
  <2>3. \A i \in 1..heap[p].size : heap[p].pids[i - 1] \in Kids(heap[p])
    BY <1>1, <2>2
  <2>4. ChildSeq(p) \in Seq(Pids)
    <3>1. \A i \in 1..heap[p].size : heap[p].pids[i - 1] \in Pids
      BY <1>2, <2>3
    <3>2. \A n \in Nat : [1..n -> Pids] \subseteq Seq(Pids)
      OBVIOUS
    <3>3. ChildSeq(p) \in [1..heap[p].size -> Pids]
      BY <2>1, <3>1
    <3> QED BY <1>1, <3>2, <3>3
  <2>5. ASSUME NEW c \in Kids(heap[p]) PROVE c \in Range(ChildSeq(p))
    <3>1. PICK i \in 0..(heap[p].size - 1) : c = heap[p].pids[i]
      BY <2>2, <2>5
    <3>2. i + 1 \in 1..heap[p].size /\ (i + 1) - 1 = i
      BY <1>1, <3>1
    <3> QED BY <2>1, <3>1, <3>2 DEF Range
  <2> QED BY <2>1, <2>2, <2>3, <2>4, <2>5 DEF Range
<1> QED BY <1>3, <1>4

LEMMA DumpFacts ==
  ASSUME CInv, DumpPage \/ DumpEnds
  PROVE  /\ active \in readers /\ want[active].op = "List" /\ pc = "dump"
         /\ UNCHANGED <<heap, nextPid, root, active, parked, want, writer, readers, call, key, child, split>>
         /\ \A u \in Threads \ {active} : drawn'[u] = drawn[u]
         /\ RegistersOf(active)' = Registers'
<1>1. /\ pc = "dump" /\ active \in Threads
      /\ UNCHANGED <<heap, nextPid, root, active, parked, want, writer, readers, call, key, child, split>>
  BY DEF DumpPage, DumpEnds, locks, CInv, LockInv, LockTypeOK
<1>2. RegistersOf(active).pc = "dump" /\ PcOf(active) = "dump"
  BY <1>1 DEF RegistersOf, Registers, PcOf
<1>3. want[active].op = "List" /\ Holds(active)
  BY <1>1, <1>2 DEF CInv, ThreadOK, LockInv, InCall
<1>4. active \in readers
  BY <1>1, <1>3, NobodyAssumption DEF CInv, LockInv, LockKinds, Holds, Shares
<1>5. \A u \in Threads \ {active} : drawn'[u] = drawn[u]
  BY DEF DumpPage, DumpEnds, CInv, LockInv, LockTypeOK
<1>6. RegistersOf(active)' = Registers'
  BY <1>1 DEF RegistersOf
<1> QED BY <1>1, <1>3, <1>4, <1>5, <1>6

LEMMA DumpKeeps ==
  ASSUME CInv, LockInv', LeafMax >= 3, DumpPage \/ DumpEnds
  PROVE  CInv'
<1>1. /\ active \in readers /\ want[active].op = "List" /\ pc = "dump"
      /\ UNCHANGED <<heap, nextPid, root, active, parked, want, writer, readers, call, key, child, split>>
      /\ \A u \in Threads \ {active} : drawn'[u] = drawn[u]
      /\ RegistersOf(active)' = Registers'
  BY DumpFacts
<1>2. /\ active \in Threads /\ writer = Nobody /\ RegistersOf(active) = Registers /\ ThreadOK(active)
      /\ drawn = [u \in Threads |-> drawn[u]]
  BY <1>1, ReaderFacts DEF CInv, LockInv, LockTypeOK
<1>3. PICK lev, span : AtRest(lev, span) /\ \A u \in Threads : u \in readers => Reading(u, span)
  BY <1>2 DEF CInv, ReadersOK
<1>4. Tree' = Tree /\ Pids' = Pids /\ \A p : Node(p)' = Node(p)
  BY <1>1, <1>3, RestStays DEF Pids, Node, Children, IsLeaf
<1>5. PICK D \in SUBSET Tree :
        /\ drawn[active] = {Node(p) : p \in D} /\ path \in Seq(Pids)
        /\ D \cup Range(path) = {root} \cup UNION {Kids(heap[p]) : p \in D}
  <2>1. Dumping(active)
    BY <1>1, <1>2, <1>3 DEF Reading
  <2>2. RegistersOf(active).path = path
    BY <1>2 DEF Registers
  <2> QED BY <2>1, <2>2 DEF Dumping
<1> DEFINE Goes(E) ==
      /\ E \in SUBSET Tree /\ drawn'[active] = {Node(q) : q \in E} /\ path' \in Seq(Pids)
      /\ E \cup Range(path') = {root} \cup UNION {Kids(heap[q]) : q \in E}
      /\ pc' = "idle" => path' = <<>> /\ result' = <<"keys", UNION {n.keys : n \in drawn'[active]}>>
<1>r. RegistersOf(active)'.pc = pc' /\ RegistersOf(active)'.path = path'
      /\ RegistersOf(active)'.result = result' /\ RegistersOf(active)'.key = key'
      /\ RegistersOf(active)'.child = child' /\ RegistersOf(active)'.split = split'
  BY <1>1 DEF Registers
<1>g. ASSUME NEW E, Goes(E)
      PROVE  Dumping(active)'
  <2>1. {Node(q)' : q \in E} = {Node(q) : q \in E}
    BY <1>4
  <2>2. {root'} \cup UNION {Kids(heap'[q]) : q \in E} = {root} \cup UNION {Kids(heap[q]) : q \in E}
    BY <1>1
  <2>3. /\ E \in SUBSET Tree' /\ drawn'[active'] = {Node(q)' : q \in E} /\ path' \in Seq(Pids')
        /\ E \cup Range(path') = {root'} \cup UNION {Kids(heap'[q]) : q \in E}
        /\ pc' = "idle" => path' = <<>> /\ result' = <<"keys", UNION {n.keys : n \in drawn'[active']}>>
    BY <1>1, <1>4, <1>g, <2>1, <2>2
  <2> QED BY <1>r, <2>3 DEF Dumping
<1>6. ASSUME DumpPage
      PROVE  Dumping(active)' /\ pc' = "dump"
  <2>1. PICK p : p = Head(path)
    OBVIOUS
  <2>2. /\ path # <<>> /\ drawn' = [drawn EXCEPT ![active] = @ \cup {Node(p)}] /\ pc' = "dump"
        /\ path' = ChildSeq(p) \o Tail(path)
    BY <1>6, <2>1, <1>1 DEF DumpPage
  <2>3. Tail(path) \in Seq(Pids) /\ Range(path) = {p} \cup Range(Tail(path))
    BY <1>5, <2>1, <2>2, RangeOfParts
  <2>4. p \in Tree
    BY <1>3, <1>5, <2>3 DEF AtRest
  <2>5. ChildSeq(p) \in Seq(Pids) /\ Range(ChildSeq(p)) = Kids(heap[p])
    BY <1>2, <1>3, <2>4, ChildSeqKids
  <2>6. path' \in Seq(Pids) /\ Range(path') = Kids(heap[p]) \cup Range(Tail(path))
    <3>1. PICK u, v : u = ChildSeq(p) /\ v = Tail(path)
      OBVIOUS
    <3>2. u \in Seq(Pids) /\ v \in Seq(Pids)
      BY <2>3, <2>5, <3>1
    <3>3. u \o v \in Seq(Pids) /\ Range(u \o v) = Range(u) \cup Range(v)
      BY <3>2, RangeOfParts
    <3> QED BY <2>2, <2>5, <3>1, <3>3
  <2>7. PICK E : E = D \cup {p}
    OBVIOUS
  <2>8. drawn'[active] = {Node(q) : q \in E}
    BY <1>2, <1>5, <2>2, <2>7
  <2>9. E \cup Range(path') = {root} \cup UNION {Kids(heap[q]) : q \in E}
    BY <1>5, <2>3, <2>6, <2>7
  <2>10. E \in SUBSET Tree
    BY <1>5, <2>4, <2>7
  <2>11. Goes(E)
    BY <2>2, <2>6, <2>8, <2>9, <2>10
  <2> QED BY <1>g, <2>2, <2>11
<1>7. ASSUME DumpEnds
      PROVE  Dumping(active)' /\ pc' = "idle" /\ path' = <<>>
  <2>1. /\ path = <<>> /\ path' = path /\ pc' = "idle" /\ drawn' = drawn
        /\ result' = <<"keys", UNION {n.keys : n \in drawn[active]}>>
    BY <1>7, <1>1 DEF DumpEnds
  <2>2. Goes(D)
    BY <1>5, <2>1
  <2> QED BY <1>5, <1>g, <2>1, <2>2
<1>8. Reading(active, span)'
  BY <1>1, <1>6, <1>7 DEF Reading
<1>9. ThreadOK(active)'
  <2>1. key = 0
    BY <1>1, <1>2 DEF ThreadOK, Registers
  <2>2. /\ want[active] \in Requests \cup {NoCall} /\ IsRegisters(parked[active])
        /\ child = NoPid /\ split = NoSplit
    BY <1>1, <1>2, ReaderFacts DEF ThreadOK
  <2>3. pc' \in {"idle", "dump"} /\ (pc' = "idle" => path' = <<>>)
    BY <1>6, <1>7
  <2> QED BY <1>1, <1>r, <2>1, <2>2, <2>3 DEF ThreadOK, IsRegisters
<1> QED BY <1>1, <1>3, <1>8, <1>9, ReaderMoves

-----------------------------------------------------------------------------
LEMMA SharingKeeps ==
  ASSUME CInv, LeafMax >= 3, [CNext]_cvars
  PROVE  CInv'
<1>1. LockInv'
  BY LockStep DEF CInv
<1>2. CASE CNext
  <2>1. ASSUME CallStep PROVE CInv'
    <3>1. Holds(active) /\ ~Down
      <4>1. pc \in {"down", "up"} /\ active \in Threads
        BY <2>1, StepKeepsCall DEF CallStep, CInv, LockInv, LockTypeOK
      <4> QED BY <1>2, <4>1 DEF CNext, CInv, LockInv, InCall, PcOf
    <3>2. CASE active \in readers
      BY <1>1, <2>1, <3>2, LookKeeps
    <3>3. CASE active = writer
      <4>1. writer # Nobody
        BY <3>3, NobodyAssumption DEF CInv, LockInv, LockTypeOK
      <4> QED BY <1>1, <2>1, <3>1, <3>3, <4>1, WriterKeeps
    <3> QED BY <3>1, <3>2, <3>3 DEF Holds
  <2> QED
    BY <1>1, <1>2, <2>1, SwitchKeeps, AskKeeps, UnlockKeeps, LockSharedKeeps, LockExclusiveKeeps,
       DumpKeeps DEF CNext, Run
<1>3. CASE UNCHANGED cvars
  <2>1. UNCHANGED <<heap, nextPid, root, active, parked, want, writer, readers, drawn, Registers>>
    BY <1>3 DEF cvars, vars, locks, Registers
  <2>2. \A u \in Threads : RegistersOf(u)' = RegistersOf(u) /\ IsRegisters(parked[u])'
    BY <2>1 DEF RegistersOf, IsRegisters, CInv, ThreadOK
  <2> QED BY <1>1, <2>1, <2>2, QuietKeeps
<1> QED BY <1>2, <1>3

LEMMA InitSharing == CInit => CInv
<1> SUFFICES ASSUME CInit PROVE CInv
  OBVIOUS
<1>1. /\ LockInv /\ Init /\ writer = Nobody /\ readers = {} /\ want = [t \in Threads |-> NoCall]
      /\ parked = [t \in Threads |-> Idle] /\ Registers = Idle
  BY InitLock DEF CInit, Init, Registers, Idle
<1>2. Own = Idle
  BY <1>1 DEF Own
<1>3. Excl!Init
  BY <1>1, <1>2, SameTypes DEF Idle, Excl!Init, Init, Excl!EmptyLeaf, EmptyLeaf, Excl!LeafSlots, LeafSlots,
     Excl!ZeroEntry, ZeroEntry, Excl!Pending, Pending
<1>4. Sane
  BY <1>2, <1>3, Excl!InitEstablishes, Excl!InitTree, Excl!InitOrder, ParameterAssumption, LowerBoundAssumption
     DEF Sane, Idle
<1>5. ReadersOK
  BY <1>1, <1>4, RestThere DEF ReadersOK
<1>6. ASSUME NEW t \in Threads PROVE ThreadOK(t)
  <2>1. RegistersOf(t) = Idle /\ ~Holds(t) /\ parked[t] = Idle /\ want[t] = NoCall
    BY <1>1, NobodyAssumption DEF RegistersOf, Holds
  <2> QED BY <2>1 DEF ThreadOK, Idle, IsRegisters
<1> QED BY <1>1, <1>4, <1>5, <1>6 DEF CInv


LEMMA SharingAlways == LeafMax >= 3 => (CSpec => []CInv)
<1> SUFFICES ASSUME LeafMax >= 3 PROVE CSpec => []CInv
  OBVIOUS
<1>1. CInv /\ [CNext]_cvars => CInv'
  BY SharingKeeps
<1> QED
  BY <1>1, InitSharing, PTL DEF CSpec

-----------------------------------------------------------------------------
\* What a dump has written when it has nothing left to go on to.
LEMMA WholeTree ==
  ASSUME NEW lev, NEW span, AtRest(lev, span), NEW D \in SUBSET Tree,
         D = {root} \cup UNION {Kids(heap[p]) : p \in D}
  PROVE  D = Tree
<1>1. root \in D
  OBVIOUS
<1>2. \A p \in D : Kids(heap[p]) \subseteq D
  OBVIOUS
<1> QED BY <1>1, <1>2 DEF AtRest

\* An answer that lists keys is a dump's.
LEMMA DumpOfTree ==
  ASSUME CInv, active \in Threads, Holds(active), pc = "idle", result[1] = "keys"
  PROVE  /\ writer = Nobody
         /\ \E lev, span : AtRest(lev, span) /\ drawn[active] = {Node(p) : p \in Tree}
<1>1. RegistersOf(active).pc = pc /\ RegistersOf(active).result = result /\ RegistersOf(active).path = path
      /\ ThreadOK(active)
  BY DEF RegistersOf, Registers, CInv
<1>2. want[active].op = "List"
  <2>1. \A r \in Results : r[1] # "keys"
    BY DEF Results, Pending, Done, Throw, NotFound, Failed, Found
  <2> QED BY <1>1, <2>1 DEF ThreadOK
<1>3. active \in readers /\ writer = Nobody
  BY <1>2, NobodyAssumption DEF Holds, CInv, LockInv, LockKinds, Shares
<1>4. PICK lev, span : AtRest(lev, span) /\ Reading(active, span)
  BY <1>3 DEF CInv, ReadersOK
<1>5. PICK D \in SUBSET Tree :
        drawn[active] = {Node(p) : p \in D} /\ D \cup Range(path) = {root} \cup UNION {Kids(heap[p]) : p \in D}
  BY <1>1, <1>2, <1>4 DEF Reading, Dumping
<1>6. Range(path) = {}
  BY <1>1 DEF ThreadOK, Range
<1>7. D = Tree
  <2>1. D = {root} \cup UNION {Kids(heap[p]) : p \in D}
    BY <1>5, <1>6
  <2> QED BY <1>4, <2>1, WholeTree
<1> QED BY <1>3, <1>4, <1>5, <1>7

LEMMA DrawnTree == CInv => DrawnIsATree
<1> SUFFICES ASSUME CInv, NEW t \in Threads, pc = "idle", t = active, result[1] = "keys", Holds(t)
             PROVE  /\ UNION {n.children : n \in drawn[t]} = {n.page : n \in drawn[t]} \ {root}
                    /\ \A n, m \in drawn[t] : n # m => n.page # m.page /\ n.children \cap m.children = {}
  BY DEF DrawnIsATree
<1>1. writer = Nobody
  BY DumpOfTree
<1>2. PICK lev, span : AtRest(lev, span) /\ drawn[t] = {Node(p) : p \in Tree}
  BY DumpOfTree
<1>3. \A p \in Tree : Node(p).page = p /\ Node(p).children = Kids(heap[p])
  BY <1>1, <1>2, ChildSeqKids DEF Node
<1>4. {n.page : n \in drawn[t]} = Tree
  BY <1>2, <1>3
<1>5. UNION {n.children : n \in drawn[t]} = UNION {Kids(heap[p]) : p \in Tree}
  BY <1>2, <1>3
<1>6. UNION {Kids(heap[p]) : p \in Tree} = Tree \ {root}
  <2>1. PICK E : E = {root} \cup UNION {Kids(heap[p]) : p \in Tree}
    OBVIOUS
  <2>2. E \subseteq Tree /\ root \in E /\ \A p \in E : Kids(heap[p]) \subseteq E
    BY <1>2, <2>1 DEF AtRest
  <2>3. E = Tree
    BY <1>2, <2>2 DEF AtRest
  <2>4. \A p \in Tree : root \notin Kids(heap[p])
    BY <1>2 DEF AtRest, Forest
  <2> QED BY <2>1, <2>3, <2>4
<1>7. \A n, m \in drawn[t] : n # m => n.page # m.page /\ n.children \cap m.children = {}
  <2>1. \A p, q \in Tree : p # q => Kids(heap[p]) \cap Kids(heap[q]) = {}
    BY <1>2 DEF AtRest, Forest
  <2> QED BY <1>2, <1>3, <2>1
<1> QED BY <1>4, <1>5, <1>6, <1>7

\* DumpGraphviz draws one tree, whatever the other threads do: every edge leads
\* to a node that was written, and no node has two of them (DumpNodeGraphviz,
\* inner_page.h:682, under the shared lock of index.h:563).
THEOREM DrawsATree == LeafMax >= 3 => (CSpec => []DrawnIsATree)
BY SharingAlways, DrawnTree, PTL

-----------------------------------------------------------------------------
\* The calls of all threads as the calls of one map.

Calling == [t \in Threads |-> IF Answered(t) THEN NoCall ELSE want[t]]
Took == [t \in Threads |-> TookOf(t)]
Answer == [t \in Threads |-> IF want[t] # NoCall /\ ~Holds(t) THEN Pending ELSE RegistersOf(t).result]

\* The steps of Shared, in these terms.
LEMMA SharedVars ==
  ASSUME SharedContents' = SharedContents, Calling' = Calling, Took' = Took, Answer' = Answer
  PROVE  UNCHANGED Shared!vars
BY DEF Shared!vars, Calling, Took, Answer

LEMMA SharedInvoke ==
  ASSUME NEW t \in Threads, Calling[t] = NoCall, NEW r \in Shared!Requests,
         Calling' = [Calling EXCEPT ![t] = r], Answer' = [Answer EXCEPT ![t] = Pending],
         SharedContents' = SharedContents, Took' = Took
  PROVE  Shared!Next
<1>1. Calling'[t] = r
  BY DEF Calling
<1>2. Shared!Invoke(t)
  BY <1>1 DEF Shared!Invoke, Calling, Took, Answer, Pending
<1> QED BY <1>2 DEF Shared!Next

LEMMA SharedReturn ==
  ASSUME NEW t \in Threads, Calling[t] # NoCall, ~Took[t],
         NEW a, <<SharedContents', a>> \in Shared!Outcomes(Calling[t]),
         Calling' = [Calling EXCEPT ![t] = NoCall], Took' = [Took EXCEPT ![t] = FALSE],
         Answer' = [Answer EXCEPT ![t] = a]
  PROVE  Shared!Next
<1>1. Shared!Return(t, a)
  BY DEF Shared!Return, Calling, Took, Answer
<1>2. Shared!Perform(t)
  BY <1>1 DEF Shared!Perform, Calling, Took
<1> QED BY <1>2 DEF Shared!Next

LEMMA SharedEffect ==
  ASSUME NEW t \in Threads, Calling[t] # NoCall, ~Took[t],
         <<SharedContents', Done>> \in Shared!Outcomes(Calling[t]),
         Calling' = Calling, Took' = [Took EXCEPT ![t] = TRUE], Answer' = Answer
  PROVE  Shared!Next
<1>1. Shared!Perform(t)
  BY DEF Shared!Perform, Calling, Took, Answer, Done
<1> QED BY <1>1 DEF Shared!Next

LEMMA SharedFinish ==
  ASSUME NEW t \in Threads, Took[t], SharedContents' = SharedContents,
         Calling' = [Calling EXCEPT ![t] = NoCall], Took' = [Took EXCEPT ![t] = FALSE],
         Answer' = [Answer EXCEPT ![t] = Done]
  PROVE  Shared!Next
<1>1. Shared!Return(t, <<"ok">>)
  BY DEF Shared!Return, Calling, Took, Answer, Done
<1>2. Shared!Finish(t)
  BY <1>1 DEF Shared!Finish, Took
<1> QED BY <1>2 DEF Shared!Next

\* The only split that is not over is that of the writer.
LEMMA OneSplit ==
  ASSUME CInv
  PROVE  {SplitOf(t) : t \in Threads} \ {NoSplit} = {Own.split} \ {NoSplit}
<1>1. ASSUME NEW t \in Threads, t # writer PROVE SplitOf(t) = NoSplit
  BY <1>1 DEF CInv, ThreadOK, SplitOf
<1>2. CASE writer = Nobody
  <2>1. Own.split = NoSplit
    BY <1>2 DEF Own, Idle
  <2> QED BY <1>1, <1>2, <2>1, NobodyAssumption
<1>3. CASE writer # Nobody
  <2>1. writer \in Threads /\ SplitOf(writer) = Own.split
    BY <1>3 DEF CInv, LockInv, LockKinds, SplitOf, Own
  <2> QED BY <1>1, <2>1
<1> QED BY <1>2, <1>3

OwnRoots == IF Own.split = NoSplit THEN {root} ELSE {root, Own.split.pid}
OwnSplits == IF Own.split = NoSplit THEN {} ELSE {Own.split.elem}
OwnEntries == Stock(heap, Reachable(OwnRoots)) \cup OwnSplits

LEMMA SharedParts == CInv => SharedContents = OwnEntries
<1> SUFFICES ASSUME CInv PROVE SharedContents = OwnEntries
  OBVIOUS
<1> DEFINE S == {SplitOf(t) : t \in Threads} \ {NoSplit}
<1>1. S = IF Own.split = NoSplit THEN {} ELSE {Own.split}
  BY OneSplit
<1> HIDE DEF S
<1>2. {root} \cup {s.pid : s \in S} = OwnRoots
  BY <1>1 DEF OwnRoots
<1>3. {s.elem : s \in S} = OwnSplits
  BY <1>1 DEF OwnSplits
<1>4. SharedContents = Stock(heap, Reachable({root} \cup {s.pid : s \in S})) \cup {s.elem : s \in S}
  BY Zenon DEF SharedContents, Stock, S
<1> QED BY <1>2, <1>3, <1>4 DEF OwnEntries

\* The map is that of the writer's tree, or of the tree at rest.
LEMMA SharedIs ==
  /\ CInv /\ Mine => SharedContents = Contents
  /\ CInv /\ writer = Nobody => SharedContents = Stock(heap, Tree)
<1>1. ASSUME CInv, Mine PROVE SharedContents = Contents
  <2>1. Roots = OwnRoots /\ OwnSplits = (IF split = NoSplit THEN {} ELSE {split.elem})
    BY <1>1 DEF Mine, Roots, OwnRoots, OwnSplits
  <2> QED BY <1>1, <2>1, SharedParts DEF Contents, TreePages, OwnEntries, Stock
<1>2. ASSUME CInv, writer = Nobody PROVE SharedContents = Stock(heap, Tree)
  <2>1. Own.split = NoSplit
    BY <1>2 DEF Own, Idle
  <2> QED BY <1>2, <2>1, SharedParts DEF OwnEntries, OwnRoots, OwnSplits, Tree
<1> QED BY <1>1, <1>2

LEMMA SharedStays ==
  ASSUME CInv, CInv', heap' = heap, root' = root, Own'.split = Own.split
  PROVE  SharedContents' = SharedContents
<1>1. Reachable(OwnRoots)' = Reachable(OwnRoots)
  BY DEF Reachable, Pids, Children, IsLeaf, OwnRoots
<1>2. OwnEntries' = OwnEntries
  BY <1>1 DEF OwnEntries, OwnSplits, Stock
<1>3. (CInv => SharedContents = OwnEntries)'
  BY SharedParts, PTL
<1> QED BY <1>2, <1>3, SharedParts


\* What one map may do and answer, so may the other.
LEMMA SharedOutcomes ==
  ASSUME SharedContents = Contents, NEW r \in Calls, NEW o \in Map!Outcomes(r)
  PROVE  o \in Shared!Outcomes(r)
<1>1. Shared!Has(r.key) <=> Map!Has(r.key)
  BY DEF Shared!Has, Map!Has
<1>2. Shared!Without(r.key) = Map!Without(r.key)
  BY DEF Shared!Without, Map!Without
<1>3. CASE r.op = "Insert"
  BY <1>1, <1>3 DEF Shared!Outcomes, Map!Outcomes
<1>4. CASE r.op = "Update"
  BY <1>1, <1>2, <1>4 DEF Shared!Outcomes, Map!Outcomes
<1>5. CASE r.op = "Remove"
  BY <1>2, <1>5 DEF Shared!Outcomes, Map!Outcomes
<1>6. CASE r.op = "Get"
  BY <1>1, <1>2, <1>6 DEF Shared!Outcomes, Map!Outcomes
<1> QED BY <1>3, <1>4, <1>5, <1>6, CallTypes

LEMMA ReadOutcomes ==
  ASSUME SharedContents = Stock(heap, Tree)
  PROVE  /\ \A r \in Calls : \A a :
              r.op = "Get" /\ Told(a, r.key) => <<SharedContents, a>> \in Shared!Outcomes(r)
         /\ <<SharedContents, <<"keys", {e[1] : e \in SharedContents}>>>> \in Shared!Outcomes(DumpCall)
<1>1. ASSUME NEW r \in Calls, NEW a, r.op = "Get", Told(a, r.key)
      PROVE  <<SharedContents, a>> \in Shared!Outcomes(r)
  <2>1. Shared!Has(r.key) <=> \E e \in SharedContents : e[1] = r.key
    BY DEF Shared!Has
  <2>2. \A e \in SharedContents : e[1] = r.key => e \in SharedContents \ Shared!Without(r.key)
    BY DEF Shared!Without
  <2>3. Shared!Outcomes(r) = IF Shared!Has(r.key)
          THEN {<<SharedContents, <<"found", e[2]>>>> : e \in SharedContents \ Shared!Without(r.key)}
          ELSE {<<SharedContents, <<"none">>>>}
    BY <1>1 DEF Shared!Outcomes
  <2> QED BY <1>1, <2>1, <2>2, <2>3 DEF Told, Found, NotFound
<1>2. <<SharedContents, <<"keys", {e[1] : e \in SharedContents}>>>> \in Shared!Outcomes(DumpCall)
  BY DEF Shared!Outcomes, DumpCall
<1> QED BY <1>1, <1>2

\* A step of the thread that runs, inside its call, is its own.
LEMMA CallMoves ==
  ASSUME CInv, Holds(active), pc # "idle", UNCHANGED <<active, parked, want, writer, readers>>
  PROVE  /\ active \in Threads /\ Calling[active] = want[active] /\ want[active] # NoCall
         /\ pc' = "idle" => Calling' = [Calling EXCEPT ![active] = NoCall]
         /\ pc' # "idle" => Calling' = Calling
         /\ Answer' = [Answer EXCEPT ![active] = result']
         /\ result' = result => Answer' = Answer
         /\ Took[active] <=> TookOf(active)
         /\ \A b \in BOOLEAN : (TookOf(active)' <=> b) => Took' = [Took EXCEPT ![active] = b]
         /\ (TookOf(active)' <=> TookOf(active)) => Took' = Took
<1>1. active \in Threads /\ want[active] # NoCall
  BY DEF CInv, LockInv, LockTypeOK, InCall
<1>2. \A u \in Threads : u # active => RegistersOf(u)' = RegistersOf(u)
  BY DEF RegistersOf
<1>3. /\ RegistersOf(active).pc = pc /\ RegistersOf(active)'.pc = pc'
      /\ RegistersOf(active).result = result /\ RegistersOf(active)'.result = result'
  BY DEF RegistersOf, Registers
<1>4. \A u \in Threads : Holds(u)' <=> Holds(u)
  BY DEF Holds
<1>5. /\ ~Answered(active) /\ (Answered(active)' <=> pc' = "idle")
      /\ \A u \in Threads : u # active => (Answered(u)' <=> Answered(u))
  BY <1>1, <1>2, <1>3, <1>4 DEF Answered
<1>6. /\ Calling[active] = want[active]
      /\ pc' = "idle" => Calling' = [Calling EXCEPT ![active] = NoCall]
      /\ pc' # "idle" => Calling' = Calling
  BY <1>1, <1>5 DEF Calling
<1>7. /\ Answer' = [Answer EXCEPT ![active] = result']
      /\ result' = result => Answer' = Answer
  BY <1>1, <1>2, <1>3, <1>4 DEF Answer
<1>8. \A u \in Threads : /\ TookOf(u) \in BOOLEAN /\ TookOf(u)' \in BOOLEAN
                         /\ u # active => TookOf(u)' = TookOf(u)
  BY <1>2 DEF TookOf
<1>9. /\ Took[active] <=> TookOf(active)
      /\ \A b \in BOOLEAN : (TookOf(active)' <=> b) => Took' = [Took EXCEPT ![active] = b]
      /\ (TookOf(active)' <=> TookOf(active)) => Took' = Took
  BY <1>1, <1>8 DEF Took
<1> QED BY <1>1, <1>6, <1>7, <1>9

\* The step of a writer is a step of the map, or none ...
LEMMA WriterShares ==
  ASSUME CInv, CInv', LeafMax >= 3, CallStep, ~Down, active = writer, writer # Nobody
  PROVE  [Shared!Next]_Shared!vars
<1>1. /\ Mine /\ Mine' /\ IndInv /\ IndInv' /\ MapStep
      /\ pc \notin {"aborted", "undefined"} /\ pc' \notin {"aborted", "undefined"}
  BY StepsOn
<1>2. /\ Step /\ UNCHANGED <<active, parked, want, writer, readers, drawn>> /\ active \in Threads
      /\ Holds(active) /\ pc \in {"down", "up"} /\ pc' \in {"idle", "down", "up"}
  BY <1>1, StepKeepsCall DEF CallStep, locks, CInv, LockInv, LockTypeOK, Holds
<1>3. call = want[active] /\ call \in Calls
  BY <1>2, TwoRegisters, RequestTypes
     DEF CInv, LockInv, InCall, PcOf, CallOf, ThreadOK, Registers, RegistersOf
<1>4. SharedContents = Contents /\ SharedContents' = Contents'
  <2>1. (CInv /\ Mine => SharedContents = Contents)'
    BY SharedIs, PTL
  <2> QED BY <1>1, <2>1, SharedIs
<1>5. (TookOf(active) <=> TookEffect) /\ (TookOf(active)' <=> TookEffect')
  <2>1. RegistersOf(active) = Registers /\ RegistersOf(active)' = Registers'
    BY <1>2 DEF RegistersOf
  <2> QED BY <1>2, <2>1 DEF TookOf, TookEffect, Registers
<1>6. \A a : <<Contents', a>> \in Map!Outcomes(call) => <<SharedContents', a>> \in Shared!Outcomes(call)
  BY <1>3, <1>4, SharedOutcomes
<1>7. /\ Calling[active] = call /\ call # NoCall
      /\ pc' = "idle" => Calling' = [Calling EXCEPT ![active] = NoCall]
      /\ pc' # "idle" => Calling' = Calling
      /\ Answer' = [Answer EXCEPT ![active] = result']
      /\ result' = result => Answer' = Answer
      /\ Took[active] <=> TookEffect
      /\ \A b \in BOOLEAN : (TookEffect' <=> b) => Took' = [Took EXCEPT ![active] = b]
      /\ (TookEffect' <=> TookEffect) => Took' = Took
  BY <1>2, <1>3, <1>5, CallMoves
<1>8. CASE Starts
  BY <1>2, <1>8 DEF Starts, Invoke
<1>9. CASE Answers
  <2>1. PICK a : Acts(a) /\ Return(a)
    BY <1>9 DEF Answers
  <2>2. pc' = "idle" /\ result' = a /\ (TookEffect' <=> FALSE)
    BY <2>1 DEF Return, TookEffect
  <2>3. <<SharedContents', a>> \in Shared!Outcomes(Calling[active]) /\ ~Took[active]
    BY <1>6, <1>7, <2>1 DEF Acts
  <2> QED BY <1>2, <1>7, <2>2, <2>3, SharedReturn
<1>10. CASE TakesEffect
  <2>1. /\ Acts(Done) /\ pc' # "idle" /\ (TookEffect' <=> TRUE) /\ result' = result
    BY <1>10 DEF TakesEffect
  <2>2. <<SharedContents', Done>> \in Shared!Outcomes(Calling[active]) /\ ~Took[active]
    BY <1>6, <1>7, <2>1 DEF Acts
  <2> QED BY <1>2, <1>7, <2>1, <2>2, SharedEffect
<1>11. CASE Ends
  <2>1. pc' = "idle" /\ result' = Done /\ (TookEffect' <=> FALSE) /\ TookEffect /\ Contents' = Contents
    BY <1>11 DEF Ends, Return, TookEffect
  <2> QED BY <1>2, <1>4, <1>7, <2>1, SharedFinish
<1>12. CASE Within
  <2>1. pc' # "idle" /\ result' = result /\ (TookEffect' <=> TookEffect) /\ Contents' = Contents
    BY <1>12 DEF Within
  <2> QED BY <1>4, <1>7, <2>1, SharedVars
<1> QED BY <1>1, <1>8, <1>9, <1>10, <1>11, <1>12 DEF MapStep

\* ... that of a Get answers what the map holds ...
LEMMA LookShares ==
  ASSUME CInv, CInv', CallStep, active \in readers
  PROVE  [Shared!Next]_Shared!vars
<1>1. /\ active \in Threads /\ writer = Nobody /\ Holds(active) /\ RegistersOf(active) = Registers
  BY ReaderFacts DEF Holds
<1>2. PICK lev, span : AtRest(lev, span) /\ Reading(active, span)
  BY <1>1 DEF CInv, ReadersOK
<1>3. /\ UNCHANGED <<heap, nextPid, root, active, parked, want, writer, readers, drawn>>
      /\ want[active] \in Calls /\ want[active].op = "Get" /\ pc = "down" /\ key = want[active].key
      /\ call = want[active]
      /\ \/ pc' = "down" /\ UNCHANGED <<call, key, result>>
         \/ \E a \in Results : pc' = "idle" /\ Return(a) /\ Told(a, key)
  BY <1>2, LooksOn
<1>4. SharedContents = Stock(heap, Tree)
  BY <1>1, SharedIs
<1>5. SharedContents' = SharedContents
  BY <1>1, <1>3, SharedStays DEF Own, Idle
<1>6. ~TookOf(active) /\ ~TookOf(active)'
  <2>1. RegistersOf(active)' = Registers'
    BY <1>3 DEF RegistersOf
  <2> QED BY <1>1, <1>3, <2>1 DEF TookOf, Registers, Return
<1>7. /\ Calling[active] = want[active] /\ want[active] # NoCall
      /\ pc' = "idle" => Calling' = [Calling EXCEPT ![active] = NoCall]
      /\ pc' # "idle" => Calling' = Calling
      /\ Answer' = [Answer EXCEPT ![active] = result']
      /\ result' = result => Answer' = Answer
      /\ ~Took[active] /\ Took' = [Took EXCEPT ![active] = FALSE] /\ Took' = Took
  BY <1>1, <1>3, <1>6, CallMoves
<1>8. CASE pc' = "down" /\ UNCHANGED <<call, key, result>>
  BY <1>5, <1>7, <1>8, SharedVars
<1>9. CASE \E a \in Results : pc' = "idle" /\ Return(a) /\ Told(a, key)
  <2>1. PICK a \in Results : pc' = "idle" /\ Return(a) /\ Told(a, key)
    BY <1>9
  <2>2. <<SharedContents', a>> \in Shared!Outcomes(Calling[active])
    BY <1>3, <1>4, <1>5, <1>7, <2>1, ReadOutcomes
  <2>3. result' = a
    BY <2>1 DEF Return
  <2>4. /\ Calling[active] # NoCall /\ Calling' = [Calling EXCEPT ![active] = NoCall]
        /\ Answer' = [Answer EXCEPT ![active] = a]
    BY <1>7, <2>1, <2>3
  <2> QED BY <1>1, <1>7, <2>2, <2>4, SharedReturn
<1> QED BY <1>3, <1>8, <1>9

\* ... and that of a dump draws a page, or answers with the keys of the map.
LEMMA DumpShares ==
  ASSUME CInv, CInv', DumpPage \/ DumpEnds
  PROVE  [Shared!Next]_Shared!vars
<1>1. /\ active \in readers /\ want[active].op = "List" /\ pc = "dump"
      /\ UNCHANGED <<heap, nextPid, root, active, parked, want, writer, readers, call, key, child, split>>
      /\ RegistersOf(active)' = Registers'
  BY DumpFacts
<1>2. /\ active \in Threads /\ writer = Nobody /\ Holds(active) /\ RegistersOf(active) = Registers
      /\ ThreadOK(active)
  BY <1>1, ReaderFacts DEF Holds
<1>3. SharedContents = Stock(heap, Tree)
  BY <1>2, SharedIs
<1>4. SharedContents' = SharedContents
  BY <1>1, <1>2, SharedStays DEF Own, Idle
<1>5. want[active] = DumpCall
  BY <1>1, <1>2, RequestTypes DEF ThreadOK
<1>6. ~TookOf(active) /\ ~TookOf(active)'
  <2>1. pc' # "up" /\ pc' # "down"
    BY <1>1 DEF DumpPage, DumpEnds
  <2> QED BY <1>1, <1>2, <2>1 DEF TookOf, Registers
<1>7. /\ Calling[active] = want[active] /\ want[active] # NoCall
      /\ pc' = "idle" => Calling' = [Calling EXCEPT ![active] = NoCall]
      /\ pc' # "idle" => Calling' = Calling
      /\ Answer' = [Answer EXCEPT ![active] = result']
      /\ result' = result => Answer' = Answer
      /\ ~Took[active] /\ Took' = [Took EXCEPT ![active] = FALSE] /\ Took' = Took
  BY <1>1, <1>2, <1>6, CallMoves
<1>8. CASE DumpPage
  BY <1>1, <1>4, <1>7, <1>8, SharedVars DEF DumpPage
<1>9. CASE DumpEnds
  <2>1. path = <<>> /\ pc' = "idle" /\ result' = <<"keys", UNION {n.keys : n \in drawn[active]}>>
    BY <1>9 DEF DumpEnds
  <2>2. PICK lev, span : AtRest(lev, span) /\ Dumping(active)
    BY <1>1, <1>2 DEF CInv, ReadersOK, Reading
  <2>3. PICK D \in SUBSET Tree :
          drawn[active] = {Node(p) : p \in D} /\ D \cup Range(path) = {root} \cup UNION {Kids(heap[p]) : p \in D}
    BY <1>2, <2>2 DEF Dumping, Registers
  <2>4. Range(path) = {}
    BY <2>1 DEF Range
  <2>5. D = Tree
    <3>1. D = {root} \cup UNION {Kids(heap[p]) : p \in D}
      BY <2>3, <2>4
    <3> QED BY <2>2, <3>1, WholeTree
  <2>6. UNION {n.keys : n \in drawn[active]} = {e[1] : e \in Stock(heap, Tree)}
    <3> DEFINE drawnKeys == UNION {n.keys : n \in drawn[active]}
               treeKeys == {e[1] : e \in Stock(heap, Tree)}
    <3>1. \A p, k : k \in Node(p).keys <=> \E e \in Live(heap[p]) : k = e[1]
      BY DEF Node
    <3>2. \A k : k \in drawnKeys <=> \E p \in Tree : k \in Node(p).keys
      BY <2>3, <2>5
    <3>3. \A k : k \in treeKeys <=> \E p \in Tree : \E e \in Live(heap[p]) : k = e[1]
      BY DEF Stock
    <3> HIDE DEF drawnKeys, treeKeys
    <3>4. \A k : k \in drawnKeys <=> k \in treeKeys
      BY <3>1, <3>2, <3>3
    <3>5. drawnKeys = treeKeys
      BY <3>4
    <3> QED BY <3>5 DEF drawnKeys, treeKeys
  <2>7. <<SharedContents', result'>> \in Shared!Outcomes(Calling[active])
    BY <1>3, <1>4, <1>5, <1>7, <2>1, <2>6, ReadOutcomes
  <2> QED BY <1>2, <1>7, <2>1, <2>7, SharedReturn
<1> QED BY <1>8, <1>9

\* The lock and the scheduler are none of the map's business ...
LEMMA QuietShares ==
  ASSUME CInv, CInv', UNCHANGED <<heap, root, want>>, Own'.split = Own.split,
         \A u \in Threads : RegistersOf(u)' = RegistersOf(u) /\ (Holds(u)' <=> Holds(u))
  PROVE  UNCHANGED Shared!vars
<1>1. \A u \in Threads : Answered(u)' <=> Answered(u)
  BY DEF Answered
<1>2. Calling' = Calling
  BY <1>1 DEF Calling
<1>3. Answer' = Answer
  BY DEF Answer
<1>4. Took' = Took
  <2>1. \A u \in Threads : TookOf(u)' = TookOf(u)
    BY DEF TookOf
  <2> QED BY <2>1 DEF Took
<1>5. SharedContents' = SharedContents
  BY SharedStays
<1> QED BY <1>2, <1>3, <1>4, <1>5, SharedVars

LEMMA SwitchShares ==
  ASSUME CInv, CInv', NEW t \in Threads, Switch(t)
  PROVE  UNCHANGED Shared!vars
<1>1. UNCHANGED <<heap, root, want, writer, readers>>
  BY DEF Switch, locks
<1>2. \A u \in Threads : RegistersOf(u)' = RegistersOf(u)
  BY SwitchMoves
<1>3. Own'.split = Own.split
  <2>1. writer # Nobody => writer \in Threads
    BY DEF CInv, LockInv, LockKinds
  <2> QED BY <1>1, <1>2, <2>1 DEF Own
<1> QED BY <1>1, <1>2, <1>3, QuietShares DEF Holds

LEMMA AskShares ==
  ASSUME CInv, CInv', NEW t \in Threads, NEW r \in Requests, Ask(t, r)
  PROVE  Shared!Next
<1>1. /\ UNCHANGED <<heap, root, writer, readers, active, parked, Registers>>
      /\ want[t] = NoCall /\ ~Holds(t) /\ r # NoCall
  BY DEF Ask, locks, vars, Registers, CInv, LockInv, InCall, Requests, Calls, NoCall, DumpCall
<1>2. \A u \in Threads : want'[u] = IF u = t THEN r ELSE want[u]
  BY DEF Ask, CInv, LockInv, LockTypeOK
<1>3. \A u \in Threads : RegistersOf(u)' = RegistersOf(u) /\ (Holds(u)' <=> Holds(u))
  BY <1>1 DEF RegistersOf, Holds
<1>4. ~Answered(t) /\ \A u \in Threads : Answered(u)' <=> Answered(u)
  BY <1>1, <1>3 DEF Answered
<1>5. Calling[t] = NoCall /\ Calling' = [Calling EXCEPT ![t] = r]
  <2>1. Calling[t] = NoCall
    BY <1>1, <1>4 DEF Calling
  <2>2. \A u \in Threads : Calling'[u] = IF u = t THEN r ELSE Calling[u]
    BY <1>2, <1>4 DEF Calling
  <2>3. DOMAIN Calling' = Threads /\ DOMAIN Calling = Threads
    BY DEF Calling
  <2>4. Calling' = [u \in Threads |-> Calling'[u]]
    BY DEF Calling
  <2> QED BY <2>1, <2>2, <2>3, <2>4
<1>6. Answer' = [Answer EXCEPT ![t] = Pending]
  BY <1>1, <1>2, <1>3 DEF Answer
<1>7. Took' = Took
  <2>1. \A u \in Threads : TookOf(u)' = TookOf(u)
    BY <1>3 DEF TookOf
  <2> QED BY <2>1 DEF Took
<1>8. SharedContents' = SharedContents
  BY <1>1, SharedStays DEF Own, RegistersOf
<1>9. r \in Shared!Requests
  BY ParameterAssumption DEF Requests, Calls, DumpCall, Shared!Requests
<1> QED BY <1>5, <1>6, <1>7, <1>8, <1>9, SharedInvoke

LEMMA LockShares ==
  ASSUME CInv, CInv', LeafMax >= 3, NEW t \in Threads, LockShared(t) \/ LockExclusive(t)
  PROVE  UNCHANGED Shared!vars
<1>1. /\ t = active /\ want[t] # NoCall /\ ~Holds(t) /\ Begin(t) /\ writer = Nobody
      /\ \A u \in Threads : Holds(u)' <=> (u = t \/ Holds(u))
      /\ writer' \in {Nobody, t}
  BY NobodyAssumption DEF LockShared, LockExclusive, Holds
<1>2. /\ UNCHANGED <<heap, nextPid, root, active, parked, want, child, split>>
      /\ RegistersOf(t) = Registers /\ (RegistersOf(t) = Registers)'
      /\ pc = "idle" /\ split = NoSplit /\ result' = Pending
      /\ \/ pc' = "dump"
         \/ pc' = "down" /\ call' = want[t] /\ key' = want[t].key
      /\ \A u \in Threads \ {t} : RegistersOf(u)' = RegistersOf(u)
  <2>1. LockInv'
    BY DEF CInv
  <2> QED BY <1>1, <2>1, BeginThread
<1>3. \A u \in Threads : TookOf(u)' = TookOf(u)
  <2>1. ~TookOf(t) /\ ~TookOf(t)'
    BY <1>2 DEF TookOf, Registers
  <2> QED BY <1>2, <2>1 DEF TookOf
<1>4. \A u \in Threads : Answered(u)' <=> Answered(u)
  BY <1>1, <1>2 DEF Answered, Registers
<1>5. Calling' = Calling
  BY <1>2, <1>4 DEF Calling
<1>6. Answer' = Answer
  BY <1>1, <1>2 DEF Answer, Registers
<1>7. Took' = Took
  BY <1>3 DEF Took
<1>8. SharedContents' = SharedContents
  <2>1. Own.split = NoSplit /\ Own'.split = NoSplit
    BY <1>1, <1>2, NobodyAssumption DEF Own, Idle, Registers
  <2> QED BY <1>2, <2>1, SharedStays
<1> QED BY <1>5, <1>6, <1>7, <1>8, SharedVars

LEMMA UnlockShares ==
  ASSUME CInv, CInv', NEW t \in Threads, Unlock(t)
  PROVE  UNCHANGED Shared!vars
<1>1. /\ UNCHANGED <<heap, root, active, parked, Registers>>
      /\ t = active /\ Answered(t)
      /\ writer' = (IF writer = t THEN Nobody ELSE writer) /\ readers' = readers \ {t}
  BY DEF Unlock, locks, vars, Registers
<1>2. \A u \in Threads : want'[u] = IF u = t THEN NoCall ELSE want[u]
  BY DEF Unlock, CInv, LockInv, LockTypeOK
<1>3. \A u \in Threads : /\ RegistersOf(u)' = RegistersOf(u)
                         /\ Holds(u)' <=> u # t /\ Holds(u)
  BY <1>1, NobodyAssumption DEF RegistersOf, Holds
<1>4. Calling' = Calling
  BY <1>1, <1>2, <1>3 DEF Calling, Answered
<1>5. Answer' = Answer
  BY <1>1, <1>2, <1>3 DEF Answer, Answered
<1>6. Took' = Took
  <2>1. \A u \in Threads : TookOf(u)' = TookOf(u)
    BY <1>3 DEF TookOf
  <2> QED BY <2>1 DEF Took
<1>7. SharedContents' = SharedContents
  <2>1. RegistersOf(t).split = NoSplit
    BY <1>1 DEF CInv, ThreadOK, Answered
  <2>2. writer # Nobody => writer \in Threads
    BY DEF CInv, LockInv, LockKinds
  <2>3. Own'.split = Own.split
    BY <1>1, <1>3, <2>1, <2>2, NobodyAssumption DEF Own, Idle
  <2> QED BY <1>1, <2>3, SharedStays
<1> QED BY <1>4, <1>5, <1>6, <1>7, SharedVars

LEMMA InitShares == CInit => Shared!Init
<1> SUFFICES ASSUME CInit PROVE Shared!Init
  OBVIOUS
<1>1. /\ CInv /\ Init /\ writer = Nobody /\ readers = {} /\ want = [t \in Threads |-> NoCall]
      /\ parked = [t \in Threads |-> Idle] /\ Registers = Idle
  BY InitSharing DEF CInit, Init, Registers, Idle
<1>2. \A t \in Threads : RegistersOf(t) = Idle /\ ~Holds(t) /\ want[t] = NoCall
  BY <1>1, NobodyAssumption DEF RegistersOf, Holds
<1>3. Calling = [t \in Threads |-> NoCall]
  BY <1>2 DEF Calling
<1>4. Took = [t \in Threads |-> FALSE]
  <2>1. \A t \in Threads : TookOf(t) = FALSE
    BY <1>2 DEF TookOf, Idle
  <2> QED BY <2>1, Zenon DEF Took
<1>5. Answer = [t \in Threads |-> <<"pending">>]
  BY <1>2 DEF Answer, Idle, Pending
<1>6. SharedContents = {}
  <2>1. SharedContents = Stock(heap, Tree)
    BY <1>1, SharedIs
  <2>2. Tree \subseteq Pids
    BY <1>1 DEF CInv, ReadersOK, AtRest
  <2>3. \A p \in Pids : Live(heap[p]) = {}
    BY <1>1 DEF Init, Pids, Live, EmptyLeaf
  <2> QED BY <2>1, <2>2, <2>3 DEF Stock
<1> QED BY <1>3, <1>4, <1>5, <1>6 DEF Shared!Init, Calling, Took, Answer

LEMMA NextShares ==
  ASSUME CInv, CInv', LeafMax >= 3, [CNext]_cvars
  PROVE  [Shared!Next]_Shared!vars
<1>1. CASE CNext
  <2>1. ASSUME CallStep PROVE [Shared!Next]_Shared!vars
    <3>1. Holds(active) /\ ~Down
      <4>1. pc \in {"down", "up"} /\ active \in Threads
        BY <2>1, StepKeepsCall DEF CallStep, CInv, LockInv, LockTypeOK
      <4> QED BY <1>1, <4>1 DEF CNext, CInv, LockInv, InCall, PcOf
    <3>2. CASE active \in readers
      BY <2>1, <3>2, LookShares
    <3>3. CASE active = writer
      <4>1. writer # Nobody
        BY <3>3, NobodyAssumption DEF CInv, LockInv, LockTypeOK
      <4> QED BY <2>1, <3>1, <3>3, <4>1, WriterShares
    <3> QED BY <3>1, <3>2, <3>3 DEF Holds
  <2> QED
    BY <1>1, <2>1, SwitchShares, AskShares, UnlockShares, LockShares, DumpShares DEF CNext, Run
<1>2. CASE UNCHANGED cvars
  <2>1. UNCHANGED <<heap, root, active, parked, want, writer, readers, Registers>>
    BY <1>2 DEF cvars, vars, locks, Registers
  <2>2. /\ Own'.split = Own.split
        /\ \A u \in Threads : RegistersOf(u)' = RegistersOf(u) /\ (Holds(u)' <=> Holds(u))
    BY <2>1 DEF RegistersOf, Own, Holds
  <2> QED BY <2>1, <2>2, QuietShares
<1> QED BY <1>1, <1>2

\* The calls of all threads do and answer what those of one map do and answer, each
\* at one moment between its being made and its return, whatever the scheduler
\* does: no reader sees the half of a writer's work (index.h:312), a dump lists the
\* keys of one moment (index.h:563), and writers follow each other (index.h:74,
\* 217, 401).
THEOREM IsLinearizable == LeafMax >= 3 => (CSpec => Linearizable)
<1> SUFFICES ASSUME LeafMax >= 3 PROVE CSpec => Linearizable
  OBVIOUS
<1>1. CInv /\ CInv' /\ [CNext]_cvars => [Shared!Next]_Shared!vars
  BY NextShares
<1> QED
  BY <1>1, InitShares, SharingAlways, PTL DEF CSpec, Linearizable, Shared!Spec
=============================================================================
