--------------------------- MODULE ConcurrentIndex ----------------------------
(***************************************************************************)
(* Threads that share one Index.  Insert, Update and Remove hold rw_lock    *)
(* exclusively (index.h:74, 217, 401), Get and DumpGraphviz share it        *)
(* (index.h:312, 563), and std::unique_lock and std::shared_lock let it go  *)
(* however the call ends.                                                   *)
(*                                                                          *)
(* The registers of BTreeIndex (pc, call, path, ...) are those of the       *)
(* thread that runs, active; the other threads' are in parked until the     *)
(* scheduler switches to them, which it may do between any two steps.       *)
(***************************************************************************)
EXTENDS Graphviz

CONSTANTS Threads, Nobody

ASSUME NobodyAssumption == Nobody \notin Threads

VARIABLES
  active,   \* the thread that runs
  parked,   \* the registers of each thread when it last stopped running
  want,     \* the request each thread waits for an answer to
  writer,   \* rw_lock: who holds it exclusively, Nobody if no one
  readers,  \* ... and who shares it
  drawn     \* the nodes each thread's DumpGraphviz has written

locks == <<writer, readers>>
cvars == <<vars, active, parked, want, locks, drawn>>

DumpCall == [op |-> "List", key |-> 0, val |-> ZeroVal]
Requests == Calls \cup {DumpCall}
Registers == [pc |-> pc, call |-> call, key |-> key, path |-> path,
              child |-> child, split |-> split, result |-> result]
Idle == [pc |-> "idle", call |-> NoCall, key |-> 0, path |-> <<>>,
         child |-> NoPid, split |-> NoSplit, result |-> Pending]
RegistersOf(t) == IF t = active THEN Registers ELSE parked[t]

Shares(r) == r.op \in {"Get", "List"}
Holds(t) == t = writer \/ t \in readers
Answered(t) == Holds(t) /\ RegistersOf(t).pc = "idle"

CInit ==
  /\ Init
  /\ active \in Threads /\ parked = [t \in Threads |-> Idle]
  /\ want = [t \in Threads |-> NoCall]
  /\ writer = Nobody /\ readers = {}
  /\ drawn = [t \in Threads |-> {}]

-----------------------------------------------------------------------------
\* The scheduler, for the threads that are inside a call.
Switch(t) ==
  /\ t # active /\ want[t] # NoCall
  /\ active' = t
  /\ parked' = [parked EXCEPT ![active] = Registers]
  /\ LET r == parked[t]
     IN  /\ pc' = r.pc /\ call' = r.call /\ key' = r.key /\ path' = r.path
         /\ child' = r.child /\ split' = r.split /\ result' = r.result
  /\ UNCHANGED <<heap, nextPid, root, want, locks, drawn>>

Ask(t, r) ==
  /\ want[t] = NoCall
  /\ want' = [want EXCEPT ![t] = r]
  /\ UNCHANGED <<vars, active, parked, locks, drawn>>

\* The lock, and the call up to the root page, which is read under it.
Begin(t) ==
  /\ IF want[t].op = "List"
     THEN /\ pc' = "dump" /\ path' = <<root>> /\ result' = Pending
          /\ UNCHANGED <<heap, nextPid, root, call, key, child, split>>
     ELSE Invoke(want[t])
  /\ drawn' = [drawn EXCEPT ![t] = {}]
  /\ UNCHANGED <<active, parked, want>>

\* Mutant: Get and DumpGraphviz take no lock.
LockSharedNoLock(t) ==
  /\ t = active /\ want[t] # NoCall /\ Shares(want[t]) /\ ~Holds(t)
  /\ readers' = readers \cup {t} /\ UNCHANGED writer
  /\ Begin(t)

LockShared(t) ==
  /\ t = active /\ want[t] # NoCall /\ Shares(want[t]) /\ ~Holds(t)
  /\ writer = Nobody
  /\ readers' = readers \cup {t} /\ UNCHANGED writer
  /\ Begin(t)

\* Mutant: a writer does not wait for the readers.
LockBesideReaders(t) ==
  /\ t = active /\ want[t] # NoCall /\ ~Shares(want[t]) /\ ~Holds(t)
  /\ writer = Nobody
  /\ writer' = t /\ UNCHANGED readers
  /\ Begin(t)

LockExclusive(t) ==
  /\ t = active /\ want[t] # NoCall /\ ~Shares(want[t]) /\ ~Holds(t)
  /\ writer = Nobody /\ readers = {}
  /\ writer' = t /\ UNCHANGED readers
  /\ Begin(t)

\* Mutant: the lock is not let go when the call throws.
UnlockUnlessThrown(t) ==
  /\ t = active /\ Answered(t)
  /\ IF result = Throw THEN UNCHANGED locks
     ELSE writer' = (IF writer = t THEN Nobody ELSE writer) /\ readers' = readers \ {t}
  /\ want' = [want EXCEPT ![t] = NoCall]
  /\ UNCHANGED <<vars, active, parked, drawn>>

\* The guard's destructor, and the answer is with the caller.
Unlock(t) ==
  /\ t = active /\ Answered(t)
  /\ writer' = (IF writer = t THEN Nobody ELSE writer)
  /\ readers' = readers \ {t}
  /\ want' = [want EXCEPT ![t] = NoCall]
  /\ UNCHANGED <<vars, active, parked, drawn>>

\* A step of the call the thread that runs is in.
CallStep == Step /\ UNCHANGED <<active, parked, want, locks, drawn>>

-----------------------------------------------------------------------------
\* DumpGraphviz

\* One page is written, and its children come next, in the order of their slots.
DumpPage ==
  /\ pc = "dump" /\ path # <<>>
  /\ drawn' = [drawn EXCEPT ![active] = @ \cup {Node(Head(path))}]
  /\ path' = ChildSeq(Head(path)) \o Tail(path)
  /\ UNCHANGED <<heap, nextPid, root, pc, call, key, child, split, result, active, parked, want, locks>>

\* Mutant: the last page is not written.
DumpEndsEarly ==
  /\ pc = "dump" /\ Len(path) = 1 /\ drawn[active] # {}
  /\ pc' = "idle" /\ path' = <<>>
  /\ result' = <<"keys", UNION {n.keys : n \in drawn[active]}>>
  /\ UNCHANGED <<heap, nextPid, root, call, key, child, split, active, parked, want, locks, drawn>>

DumpEnds ==
  /\ pc = "dump" /\ path = <<>>
  /\ pc' = "idle"
  /\ result' = <<"keys", UNION {n.keys : n \in drawn[active]}>>
  /\ UNCHANGED <<heap, nextPid, root, call, key, path, child, split, active, parked, want, locks, drawn>>

-----------------------------------------------------------------------------
\* The program as a whole stops at exit(-1) and is not described past a faulty
\* step.  Pages of fewer than 5 slots add one: an only child that looks its
\* sibling up (common.h:11).
Down == Faulty \/ (InnerMax < 5 /\ Alone)

Run ==
  \/ CallStep \/ DumpPage \/ DumpEnds
  \/ \E t \in Threads : LockShared(t) \/ LockExclusive(t) \/ Unlock(t)

CNext == ~Down /\ (Run \/ \E t \in Threads : Switch(t) \/ \E r \in Requests : Ask(t, r))

\* The scheduler gives every thread its turn again and again, and a thread that
\* can go on during its turns does.
RunOf(t) ==
  /\ active = t /\ ~Down
  /\ CallStep \/ DumpPage \/ DumpEnds \/ LockShared(t) \/ LockExclusive(t) \/ Unlock(t)
CFairness == \A t \in Threads : WF_cvars(~Down /\ Switch(t)) /\ SF_cvars(RunOf(t))

CSpec == CInit /\ [][CNext]_cvars /\ CFairness

-----------------------------------------------------------------------------
\* While one thread is in the middle of a call that changes pages, no other one
\* is in the middle of any call (index.h:74, 133, 217, 312, 401, 563).
WritersAlone ==
  \A t, u \in Threads :
    t # u /\ RegistersOf(t).pc # "idle" /\ RegistersOf(t).call.op \in {"Insert", "Update", "Remove"}
      => RegistersOf(u).pc = "idle"

-----------------------------------------------------------------------------
\* The map the threads see.

\* The entries, with the one a split has lifted out of its page and the page
\* above it does not hold yet.
SplitOf(t) == RegistersOf(t).split
TookOf(t) ==
  LET r == RegistersOf(t)
  IN  \/ r.pc = "up"
      \/ r.pc = "down" /\ r.call.op = "Remove" /\ r.key # r.call.key

SharedContents ==
  LET splits == {SplitOf(t) : t \in Threads} \ {NoSplit}
      pages == Reachable({root} \cup {s.pid : s \in splits})
  IN  (UNION {Live(heap[pid]) : pid \in pages}) \cup {s.elem : s \in splits}

Shared == INSTANCE KVMap WITH
  Clients <- Threads,
  store <- SharedContents,
  call <- [t \in Threads |-> IF Answered(t) THEN NoCall ELSE want[t]],
  took <- [t \in Threads |-> TookOf(t)],
  resp <- [t \in Threads |-> IF want[t] # NoCall /\ ~Holds(t) THEN Pending
                             ELSE RegistersOf(t).result]

\* The calls of all threads, one after the other in some order that agrees with
\* when they were made and answered, are those of one map: what a reader follows
\* from page to page is never the half of a writer's work (index.h:312), and a
\* dump is the tree of one moment (index.h:563).
Linearizable == Shared!Spec

\* A dump is a tree: every edge leads to a node that was written, and no node
\* has two of them (DumpNodeGraphviz, inner_page.h:682).
DrawnIsATree ==
  \A t \in Threads :
    LET nodes == drawn[t]
        pids == {n.page : n \in nodes}
    IN  pc = "idle" /\ t = active /\ result[1] = "keys" /\ Holds(t) =>
          /\ UNION {n.children : n \in nodes} = pids \ {root}
          /\ \A n, m \in nodes : n # m => n.page # m.page /\ n.children \cap m.children = {}

=============================================================================
