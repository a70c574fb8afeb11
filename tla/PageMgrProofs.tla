----------------------------- MODULE PageMgrProofs -----------------------------
(***************************************************************************)
(* A program with one index uses RawPageMgr without a race, however many    *)
(* threads it has: the rw_lock of the index is then a lock of RawPageMgr.   *)
(***************************************************************************)
EXTENDS PageMgr, TLAPS

PmTypeOK ==
  /\ nextPid \in Nat
  /\ owner \in [DOMAIN owner -> Indexes]
  /\ writer \in [Indexes -> Threads \cup {Nobody}]
  /\ readers \in [Indexes -> SUBSET Threads]
  /\ at \in [Threads -> Places]
  /\ idx \in [Threads -> Indexes]
  /\ tmp \in [Threads -> Nat]
  /\ linked \in [Indexes -> SUBSET DOMAIN owner]

\* Who is in a call holds the lock of its index, and alone to make a page.
Writing(t) == at[t] \in {"counting", "counted", "inserting"}
Locked ==
  /\ \A t \in Threads : at[t] # "out" => writer[idx[t]] = t \/ t \in readers[idx[t]]
  /\ \A t \in Threads : Writing(t) => writer[idx[t]] = t
  /\ \A i \in Indexes : writer[i] # Nobody => readers[i] = {}
  /\ \A i \in Indexes : i \notin created => readers[i] = {}

\* next_page_id is above the ids in use, the one just taken among them.
Counted ==
  /\ \A pid \in DOMAIN owner : pid \in Nat /\ pid < nextPid
  /\ \A t \in Threads : at[t] = "counting" => tmp[t] = nextPid
  /\ \A t \in Threads :
       at[t] \in {"counted", "inserting"} => tmp[t] < nextPid /\ tmp[t] \notin DOMAIN owner

PmInv == PmTypeOK /\ Locked /\ Counted

\* With one index two threads are in a call that makes a page only if they are
\* one thread.
LEMMA OneWriter ==
  ASSUME NEW i, Indexes = {i}, Nobody \notin Threads, PmTypeOK, Locked,
         NEW t \in Threads, NEW u \in Threads, Writing(t), at[u] # "out"
  PROVE  t = u
<1>1. idx[t] = i /\ idx[u] = i
  BY DEF PmTypeOK
<1>2. writer[i] = t /\ writer[i] # Nobody
  BY <1>1 DEF Locked
<1>3. readers[i] = {}
  BY <1>2 DEF Locked
<1> QED
  BY <1>1, <1>2, <1>3 DEF Locked

\* Every page has an id of its own and no thread meets another in RawPageMgr
\* (btree_page.cpp:6-24), as long as the program has one index.
THEOREM OneIndexIsSafe ==
  ASSUME NEW i, Indexes = {i}, Nobody \notin Threads
  PROVE  PmSpec => [](NoRace /\ FreshIds /\ OwnPages)
<1>1. PmInit => PmInv
  BY DEF PmInit, PmInv, PmTypeOK, Locked, Counted, Places, Writing
<1>2. PmInv /\ [PmNext]_pmvars => PmInv'
  <2> SUFFICES ASSUME PmInv, [PmNext]_pmvars
               PROVE  PmInv'
    OBVIOUS
  <2> USE DEF PmInv
  <2>1. ASSUME NEW t \in Threads, NEW j \in Indexes, BeginCreate(t, j)
        PROVE  PmInv'
    <3>1. j = i /\ readers[i] = {} /\ writer' = [writer EXCEPT ![i] = t]
      BY <2>1 DEF BeginCreate, Locked
    <3>2. PmTypeOK'
      BY <2>1, <3>1 DEF BeginCreate, Goes, PmTypeOK, Places
    <3>3. Locked'
      BY <2>1, <3>1 DEF BeginCreate, Goes, PmTypeOK, Locked, Writing
    <3>4. Counted'
      BY <2>1 DEF BeginCreate, Goes, PmTypeOK, Counted
    <3> QED BY <3>2, <3>3, <3>4
  <2>2. ASSUME NEW t \in Threads, NEW j \in Indexes, BeginWrite(t, j)
        PROVE  PmInv'
    <3>1. PmTypeOK'
      BY <2>2 DEF BeginWrite, Goes, PmTypeOK, Places
    <3>2. Locked'
      BY <2>2 DEF BeginWrite, Goes, PmTypeOK, Locked, Writing
    <3>3. Counted'
      BY <2>2 DEF BeginWrite, Goes, PmTypeOK, Counted
    <3> QED BY <3>1, <3>2, <3>3
  <2>3. ASSUME NEW t \in Threads, NEW j \in Indexes, BeginRead(t, j)
        PROVE  PmInv'
    <3>1. PmTypeOK'
      BY <2>3 DEF BeginRead, Goes, PmTypeOK, Places
    <3>2. Locked'
      BY <2>3 DEF BeginRead, Goes, PmTypeOK, Locked, Writing
    <3>3. Counted'
      BY <2>3 DEF BeginRead, Goes, PmTypeOK, Counted
    <3> QED BY <3>1, <3>2, <3>3
  <2>4. ASSUME NEW t \in Threads, End(t)
        PROVE  PmInv'
    <3>1. PmTypeOK'
      BY <2>4 DEF End, Goes, PmTypeOK, Places
    <3>2. Locked'
      BY <2>4 DEF End, Goes, PmTypeOK, Locked, Writing
    <3>3. Counted'
      BY <2>4 DEF End, Goes, PmTypeOK, Counted
    <3> QED BY <3>1, <3>2, <3>3
  <2>5. ASSUME NEW t \in Threads, ReadNextId(t)
        PROVE  PmInv'
    <3>1. PmTypeOK'
      BY <2>5 DEF ReadNextId, Goes, PmTypeOK, Places
    <3>2. Locked'
      BY <2>5 DEF ReadNextId, Goes, PmTypeOK, Locked, Writing
    <3>3. Counted'
      BY <2>5 DEF ReadNextId, Goes, PmTypeOK, Counted
    <3> QED BY <3>1, <3>2, <3>3
  <2>6. ASSUME NEW t \in Threads, WriteNextId(t)
        PROVE  PmInv'
    <3>1. PmTypeOK'
      BY <2>6 DEF WriteNextId, Goes, PmTypeOK, Places
    <3>2. Locked'
      BY <2>6 DEF WriteNextId, Goes, PmTypeOK, Locked, Writing
    <3>3. \A u \in Threads : at[u] # "out" => u = t
      BY <2>6, OneWriter DEF WriteNextId, Writing
    <3>4. tmp[t] = nextPid /\ nextPid' = nextPid + 1 /\ nextPid \in Nat /\ at[t] = "counting"
      BY <2>6 DEF WriteNextId, Counted, PmTypeOK
    <3>5. Counted'
      BY <2>6, <3>3, <3>4 DEF WriteNextId, Goes, PmTypeOK, Counted
    <3> QED BY <3>1, <3>2, <3>5
  <2>7. ASSUME NEW t \in Threads, BeginInsert(t)
        PROVE  PmInv'
    <3>1. PmTypeOK'
      BY <2>7 DEF BeginInsert, Goes, PmTypeOK, Places
    <3>2. Locked'
      BY <2>7 DEF BeginInsert, Goes, PmTypeOK, Locked, Writing
    <3>3. Counted'
      BY <2>7 DEF BeginInsert, Goes, PmTypeOK, Counted
    <3> QED BY <3>1, <3>2, <3>3
  <2>8. ASSUME NEW t \in Threads, EndInsert(t)
        PROVE  PmInv'
    <3>1. DOMAIN owner' = DOMAIN owner \cup {tmp[t]} /\ owner' \in [DOMAIN owner' -> Indexes]
      BY <2>8 DEF EndInsert, PmTypeOK
    <3>2. PmTypeOK'
      BY <2>8, <3>1 DEF EndInsert, Goes, PmTypeOK, Places
    <3>3. Locked'
      BY <2>8 DEF EndInsert, Goes, PmTypeOK, Locked, Writing
    <3>4. \A u \in Threads : at[u] # "out" => u = t
      BY <2>8, OneWriter DEF EndInsert, Writing
    <3>5. Counted'
      BY <2>8, <3>1, <3>4 DEF EndInsert, Goes, PmTypeOK, Counted
    <3> QED BY <3>2, <3>3, <3>5
  <2>9. ASSUME NEW t \in Threads, BeginFind(t) \/ EndFind(t)
        PROVE  PmInv'
    <3>1. PmTypeOK'
      BY <2>9 DEF BeginFind, EndFind, Goes, PmTypeOK, Places
    <3>2. Locked'
      BY <2>9 DEF BeginFind, EndFind, Goes, PmTypeOK, Locked, Writing
    <3>3. Counted'
      BY <2>9 DEF BeginFind, EndFind, Goes, PmTypeOK, Counted
    <3> QED BY <3>1, <3>2, <3>3
  <2>10. CASE UNCHANGED pmvars
    BY <2>10 DEF pmvars, PmTypeOK, Locked, Counted, Writing
  <2> QED
    BY <2>1, <2>2, <2>3, <2>4, <2>5, <2>6, <2>7, <2>8, <2>9, <2>10 DEF PmNext
<1>3. PmInv => NoRace /\ FreshIds /\ OwnPages
  <2> SUFFICES ASSUME PmInv
               PROVE  NoRace /\ FreshIds /\ OwnPages
    OBVIOUS
  <2>1. NoRace
    BY OneWriter DEF PmInv, NoRace, Writing
  <2>2. FreshIds
    BY DEF PmInv, FreshIds, Counted
  <2>3. OwnPages
    BY DEF PmInv, PmTypeOK, OwnPages
  <2> QED
    BY <2>1, <2>2, <2>3
<1> QED
  BY <1>1, <1>2, <1>3, PTL DEF PmSpec

===============================================================================
