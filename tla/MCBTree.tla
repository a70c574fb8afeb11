------------------------------ MODULE MCBTree --------------------------------
(***************************************************************************)
(* BTreeIndex for TLC: a client that first fills the index in one of two    *)
(* orders and then makes a bounded number of calls.                         *)
(***************************************************************************)
EXTENDS BTreeFailure, StdSearch

CONSTANTS
  Preloads,  \* how many keys the client may insert first: the odd ones, so
             \* that later calls can insert between them
  Orders,    \* in which orders: "up", "down"
  MaxCalls,  \* how many calls it makes after that
  CallKeys,  \* with which keys
  Ops,       \* and which operations
  Drains,    \* how many keys it may insert first when it only removes then
  MaxRemovals, RemovedKeys  \* how many calls it makes in that case, with which keys

VARIABLES
  preload,  \* the number and the order the client chose
  order,
  drains,   \* whether it only removes after that
  calls     \* the calls made

client == <<preload, order, drains, calls>>
mcvars == <<vars, client>>

MCInit ==
  /\ Init
  /\ drains \in BOOLEAN /\ preload \in (IF drains THEN Drains ELSE Preloads)
  /\ order \in Orders /\ calls = 0

Planned == preload + (IF drains THEN MaxRemovals ELSE MaxCalls)

Load ==
  /\ calls < preload
  /\ LET i == IF order = "up" THEN calls ELSE preload - 1 - calls
     IN  Invoke([op |-> "Insert", key |-> 2 * i + 1, val |-> ZeroVal])

Request(c) ==
  /\ calls \in preload..(Planned - 1)
  /\ IF drains THEN c.op = "Remove" /\ c.key \in RemovedKeys
               ELSE c.op \in Ops /\ c.key \in CallKeys
  /\ Invoke(c)

OneMoreCall == calls' = calls + 1 /\ UNCHANGED <<preload, order, drains>>

\* Step, one disjunct per action so that TLC counts each.
CallEnds ==
  \/ (GoDown /\ UNCHANGED client)               \/ (GetAtInner /\ UNCHANGED client)
  \/ (GetAtLeaf /\ UNCHANGED client)            \/ (UpdateAtInner /\ UNCHANGED client)
  \/ (UpdateAtLeaf /\ UNCHANGED client)         \/ (InsertDuplicate /\ UNCHANGED client)
  \/ (LeafInsertFits /\ UNCHANGED client)       \/ (LeafInsertSplits /\ UNCHANGED client)
  \/ (InnerInsertFits /\ UNCHANGED client)      \/ (InnerInsertSplits /\ UNCHANGED client)
  \/ (GrowRoot /\ UNCHANGED client)             \/ (RemoveAtInner /\ UNCHANGED client)
  \/ (RemoveMiss /\ UNCHANGED client)           \/ (RemoveMissBelowInner /\ UNCHANGED client)
  \/ (RemoveFromLeaf /\ UNCHANGED client)       \/ (NoSibling /\ UNCHANGED client)
  \/ (LeafBorrowRight /\ UNCHANGED client)      \/ (LeafBorrowLeft /\ UNCHANGED client)
  \/ (LeafMergeRight /\ UNCHANGED client)       \/ (LeafMergeLeft /\ UNCHANGED client)
  \/ (InnerSafe /\ UNCHANGED client)            \/ (InnerBorrowRight /\ UNCHANGED client)
  \/ (InnerBorrowLeft /\ UNCHANGED client)      \/ (InnerMergeRight /\ UNCHANGED client)
  \/ (InnerMergeLeft /\ UNCHANGED client)       \/ (RootKeeps /\ UNCHANGED client)
  \/ (RootShrinks /\ UNCHANGED client)

\* The client has made its calls, or the program has stopped.
Finished ==
  /\ \/ pc = "idle" /\ calls = Planned
     \/ pc \in {"aborted", "undefined"}
  /\ UNCHANGED mcvars

\* Any calls.
AnyInvoke == (Load \/ \E c \in Calls : Request(c)) /\ OneMoreCall
AnyNext == AnyInvoke \/ CallEnds \/ Finished
AnySpec == MCInit /\ [][AnyNext]_mcvars
FairAnySpec == AnySpec /\ WF_mcvars(CallEnds)

\* Every call ends, by a return or by stopping the program: no chain of borrows,
\* merges and replaced separators goes round for ever (the recursions of index.h).
EveryCallEnds == pc = "down" ~> pc \notin {"down", "up"}

\* Any calls and failed allocations, up to the first faulty step.
Broken == Faulty \/ FullPageInserts
SoundNext ==
  \/ AnyInvoke
  \/ ~Broken /\ (CallEnds \/ (Fails /\ calls > preload /\ UNCHANGED client))
  \/ (Broken \/ Finished) /\ UNCHANGED mcvars
SoundSpec == MCInit /\ [][SoundNext]_mcvars

=============================================================================
