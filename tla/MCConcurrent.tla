----------------------------- MODULE MCConcurrent -----------------------------
(***************************************************************************)
(* ConcurrentIndex for TLC: one thread fills the index, and then every      *)
(* thread makes calls, a bounded number of them in all.                     *)
(***************************************************************************)
EXTENDS ConcurrentIndex, StdSearch

CONSTANTS
  First,       \* the thread that fills the index
  MaxAsks,     \* how many calls the threads make after that
  AskedOps,    \* with which operations
  AskedKeys    \* and, for each number of keys it may insert, with which keys

VARIABLES
  preload,  \* how many keys the thread inserts, the odd ones
  asked     \* how many calls were made

counts == <<preload, asked>>
mccvars == <<cvars, counts>>

\* Three keys are two leaves: without the least the leaves merge, and the leaf is
\* the root.  Eight are a tree of height 3, where 14 splits the last leaf, and 7 is
\* in the page above it: the leaf that gives the entry for it then has to borrow.
TwoTrees == [n \in {3, 8} |-> IF n = 3 THEN {1, 4} ELSE {7, 14}]

MCCInit == CInit /\ active = First /\ preload \in DOMAIN AskedKeys /\ asked = 0

Fill ==
  /\ asked < preload /\ UNCHANGED preload
  /\ Ask(First, [op |-> "Insert", key |-> 2 * asked + 1, val |-> ZeroVal])
  /\ asked' = asked + 1

AskAny ==
  /\ asked \in preload..(preload + MaxAsks - 1) /\ UNCHANGED preload
  /\ \E t \in Threads, r \in Requests :
       /\ r.op \in AskedOps /\ (r.op = "List" \/ r.key \in AskedKeys[preload])
       /\ r.op \in {"Insert", "Update"} => r.val # ZeroVal
       /\ want[First] = NoCall \/ asked > preload
       /\ Ask(t, r)
  /\ asked' = asked + 1

AnySwitch == UNCHANGED counts /\ \E t \in Threads : Switch(t)

Finished ==
  /\ Down \/ (asked = preload + MaxAsks /\ \A t \in Threads : want[t] = NoCall)
  /\ UNCHANGED mccvars

MCCNext ==
  \/ ~Down /\ (Fill \/ AskAny \/ AnySwitch)
  \/ ~Down /\ CallStep /\ UNCHANGED counts
  \/ ~Down /\ DumpPage /\ UNCHANGED counts
  \/ ~Down /\ DumpEnds /\ UNCHANGED counts
  \/ ~Down /\ UNCHANGED counts /\ \E t \in Threads : LockShared(t)
  \/ ~Down /\ UNCHANGED counts /\ \E t \in Threads : LockExclusive(t)
  \/ ~Down /\ UNCHANGED counts /\ \E t \in Threads : Unlock(t)
  \/ Finished

\* CFairness.
MCCFairness ==
  \A t \in Threads :
    /\ WF_mccvars(~Down /\ Switch(t) /\ UNCHANGED counts)
    /\ SF_mccvars(RunOf(t) /\ UNCHANGED counts)

MCCSpec == MCCInit /\ [][MCCNext]_mccvars /\ MCCFairness

-----------------------------------------------------------------------------
\* Every call is answered, or the index breaks: no thread waits for rw_lock for
\* ever, whichever way the calls before it ended.
EveryThreadIsAnswered ==
  \A t \in Threads : want[t] # NoCall ~> (want[t] = NoCall \/ Down)

=============================================================================
