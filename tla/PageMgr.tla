-------------------------------- MODULE PageMgr --------------------------------
(***************************************************************************)
(* RawPageMgr (btree_page.cpp) under threads: next_page_id and pages_map    *)
(* are static, shared by every index of the program, and have no lock of    *)
(* their own; a thread comes to them holding the rw_lock of its index, or,  *)
(* in Index::create, none.                                                  *)
(***************************************************************************)
EXTENDS Integers

CONSTANTS Threads, Indexes, Nobody, MaxPid

VARIABLES
  nextPid,  \* next_page_id
  owner,    \* pages_map: the id of a page -> the index the page was made for
  writer,   \* rw_lock of each index: who holds it exclusively
  readers,  \* ... and who shares it
  created,  \* the indexes Index::create has returned
  at,       \* where each thread is, see Places
  idx,      \* the index it works on
  tmp,      \* the page id it has read from next_page_id
  linked    \* the ids in each index's pages

pmvars == <<nextPid, owner, writer, readers, created, at, idx, tmp, linked>>

\* Outside any call; in a call; inside next_page_id++; having taken an id;
\* inside pages_map.insert; inside pages_map.find.
Places == {"out", "in", "counting", "counted", "inserting", "finding"}

PmInit ==
  /\ nextPid = 0 /\ owner = [pid \in {} |-> Nobody]
  /\ writer = [i \in Indexes |-> Nobody] /\ readers = [i \in Indexes |-> {}]
  /\ created = {}
  /\ at = [t \in Threads |-> "out"] /\ idx \in [Threads -> Indexes]
  /\ tmp = [t \in Threads |-> 0]
  /\ linked = [i \in Indexes |-> {}]

Goes(t, place) == at' = [at EXCEPT ![t] = place]

\* Index::create: the index is not known to other threads yet, so it is as if
\* this one held its lock.
BeginCreate(t, i) ==
  /\ at[t] = "out" /\ i \notin created /\ writer[i] = Nobody
  /\ writer' = [writer EXCEPT ![i] = t]
  /\ idx' = [idx EXCEPT ![t] = i] /\ Goes(t, "in")
  /\ UNCHANGED <<nextPid, owner, readers, created, tmp, linked>>

BeginWrite(t, i) ==
  /\ at[t] = "out" /\ i \in created /\ writer[i] = Nobody /\ readers[i] = {}
  /\ writer' = [writer EXCEPT ![i] = t]
  /\ idx' = [idx EXCEPT ![t] = i] /\ Goes(t, "in")
  /\ UNCHANGED <<nextPid, owner, readers, created, tmp, linked>>

BeginRead(t, i) ==
  /\ at[t] = "out" /\ i \in created /\ writer[i] = Nobody
  /\ readers' = [readers EXCEPT ![i] = @ \cup {t}]
  /\ idx' = [idx EXCEPT ![t] = i] /\ Goes(t, "in")
  /\ UNCHANGED <<nextPid, owner, writer, created, tmp, linked>>

\* A call ends, Index::create once it has its root.
End(t) ==
  /\ at[t] = "in"
  /\ linked[idx[t]] # {}
  /\ writer' = [writer EXCEPT ![idx[t]] = IF @ = t THEN Nobody ELSE @]
  /\ readers' = [readers EXCEPT ![idx[t]] = @ \ {t}]
  /\ created' = created \cup {idx[t]} /\ Goes(t, "out")
  /\ UNCHANGED <<nextPid, owner, idx, tmp, linked>>

-----------------------------------------------------------------------------
\* RawPageMgr::create: next_page_id++ reads and then writes, and insert leaves
\* an id alone that is there already.
ReadNextId(t) ==
  /\ at[t] = "in" /\ writer[idx[t]] = t /\ nextPid < MaxPid
  /\ tmp' = [tmp EXCEPT ![t] = nextPid] /\ Goes(t, "counting")
  /\ UNCHANGED <<nextPid, owner, writer, readers, created, idx, linked>>

WriteNextId(t) ==
  /\ at[t] = "counting"
  /\ nextPid' = tmp[t] + 1 /\ Goes(t, "counted")
  /\ UNCHANGED <<owner, writer, readers, created, idx, tmp, linked>>

BeginInsert(t) ==
  /\ at[t] = "counted" /\ Goes(t, "inserting")
  /\ UNCHANGED <<nextPid, owner, writer, readers, created, idx, tmp, linked>>

EndInsert(t) ==
  /\ at[t] = "inserting" /\ Goes(t, "in")
  /\ owner' = [pid \in DOMAIN owner \cup {tmp[t]} |->
                 IF pid \in DOMAIN owner THEN owner[pid] ELSE idx[t]]
  /\ linked' = [linked EXCEPT ![idx[t]] = @ \cup {tmp[t]}]
  /\ UNCHANGED <<nextPid, writer, readers, created, idx, tmp>>

\* RawPageMgr::get_page, for the ids in the pages of the index.
BeginFind(t) ==
  /\ at[t] = "in" /\ linked[idx[t]] # {} /\ Goes(t, "finding")
  /\ UNCHANGED <<nextPid, owner, writer, readers, created, idx, tmp, linked>>

EndFind(t) ==
  /\ at[t] = "finding" /\ Goes(t, "in")
  /\ UNCHANGED <<nextPid, owner, writer, readers, created, idx, tmp, linked>>

PmNext ==
  \E t \in Threads :
    \/ \E i \in Indexes : BeginCreate(t, i) \/ BeginWrite(t, i) \/ BeginRead(t, i)
    \/ End(t) \/ ReadNextId(t) \/ WriteNextId(t) \/ BeginInsert(t) \/ EndInsert(t)
    \/ BeginFind(t) \/ EndFind(t)

PmSpec == PmInit /\ [][PmNext]_pmvars

-----------------------------------------------------------------------------
\* Nobody writes next_page_id or pages_map while another thread is at it
\* (btree_page.cpp:7, :13, :19).
NoRace ==
  \A t, u \in Threads :
    t # u => /\ at[t] = "counting" => at[u] # "counting"
             /\ at[t] = "inserting" => at[u] \notin {"inserting", "finding"}

\* A page that is put into pages_map has an id of its own (insert does nothing
\* otherwise, and the page is lost).
FreshIds == \A t \in Threads : at[t] = "inserting" => tmp[t] \notin DOMAIN owner

\* The id in a page of an index is that of a page that was made for this index.
OwnPages == \A i \in Indexes : \A pid \in linked[i] : owner[pid] = i

=============================================================================
