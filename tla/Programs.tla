------------------------------- MODULE Programs -------------------------------
(***************************************************************************)
(* The programs that use an index: engine.cpp, which goes through           *)
(* IndexOpFactory, unittest.cpp, which checks the answers with assert, and  *)
(* a priority queue, which inserts absent keys, removes the least one and   *)
(* reads and updates any.                                                   *)
(***************************************************************************)
EXTENDS OpFactory, Graphviz, StdSearch

CONSTANTS
  Names,     \* which of them: "engine", "unittest", "queue"
  TestNum,   \* TEST_NUM
  Preloads,  \* how many keys the queue holds first
  Orders,    \* and the orders it inserts them in: "up", "down"
  MaxCalls,  \* how many calls it makes then
  CallKeys   \* and with which keys

\* TEST_NUM is not 0, and the keys of every round are keys.
ASSUME ProgramAssumption ==
  /\ Names \subseteq {"engine", "unittest", "queue"}
  /\ TestNum \in Nat \ {0} /\ 0..(TestNum - 1) \subseteq Keys
  /\ Preloads \subseteq Nat \ {0}
  /\ \A size \in Preloads : \A n \in 0..(size - 1) : 2 * n + 1 \in Keys
  /\ \E v \in Vals : v # ZeroVal

VARIABLES
  program,  \* the program, the number of keys it inserts and their order
  stage,    \* which of its loops it is in
  i,        \* the loop's variable
  busy,     \* whether the call of this round has been made
  dots      \* the file GenerateDot writes

pvars == <<vars, fvars, program, stage, i, busy, dots>>

Stages ==
  [engine |-> <<"insert", "update", "get", "dump", "remove", "end">>,
   unittest |-> <<"insert", "update", "get", "dump", "remove", "absent", "end">>,
   queue |-> <<"insert", "calls", "end">>]

PInit ==
  /\ Init /\ FInit
  /\ program \in [name : Names \ {"queue"}, size : {TestNum}, order : {"up"}]
                   \cup [name : Names \cap {"queue"}, size : Preloads, order : Orders]
  /\ stage = "insert" /\ i = 0 /\ busy = FALSE /\ dots = {}

Rounds == CASE stage = "calls" -> MaxCalls [] stage = "dump" -> 1 [] OTHER -> program.size

\* The next round, or the next loop.
Advance ==
  /\ busy' = FALSE /\ UNCHANGED program
  /\ IF i + 1 < Rounds THEN i' = i + 1 /\ UNCHANGED stage
     ELSE /\ i' = 0
          /\ stage' = LET all == Stages[program.name]
                      IN  all[1 + CHOOSE n \in 1..(Len(all) - 1) : all[n] = stage]

\* An assert fails, or an exception leaves main.
Fail == stage' = "failed" /\ UNCHANGED <<program, i, busy>>

\* The update loops write another value than TestStructA{}.
NewVal == CHOOSE v \in Vals : v # ZeroVal

\* The queue's keys leave room between them.
RoundKey ==
  LET n == IF program.order = "up" THEN i ELSE program.size - 1 - i
  IN  IF program.name = "queue" THEN 2 * n + 1 ELSE n

-----------------------------------------------------------------------------
\* engine.cpp

EngineMakes ==
  /\ program.name = "engine" /\ pc = "idle"
  /\ \/ stage = "insert" /\ MakeOp("Insert", i, "temporary")
     \/ stage = "get" /\ MakeOp("Get", i, "new_val")
     \/ stage = "remove" /\ MakeOp("Remove", i, "new_val")
     \/ /\ stage = "update" /\ cells["new_val"] = NewVal
        /\ MakeOp("Update", i, "new_val")
  /\ UNCHANGED <<vars, program, stage, i, busy, dots>>

EngineSetsVal ==
  /\ program.name = "engine" /\ stage = "update" /\ op = NoOp /\ cells["new_val"] # NewVal
  /\ cells' = [cells EXCEPT !["new_val"] = NewVal]
  /\ UNCHANGED <<vars, res, op, program, stage, i, busy, dots>>

EngineRuns == RunOp /\ UNCHANGED <<program, stage, i, busy, dots>>

\* Unwrap throws the exception of a failed call, and res.value() that of an
\* empty optional.
EngineGoesOn ==
  /\ OpEnds
  /\ IF result = Throw \/ (op.op = "Get" /\ res' = NotFound) THEN Fail ELSE Advance
  /\ UNCHANGED dots

Dump ==
  /\ stage = "dump" /\ pc = "idle"
  /\ dots' \in Written(dots, Drawing)
  /\ Advance
  /\ UNCHANGED <<vars, fvars>>

-----------------------------------------------------------------------------
\* unittest.cpp, and the queue

RoundCall ==
  CASE stage = "insert" -> [op |-> "Insert", key |-> RoundKey, val |-> ZeroVal]
    [] stage = "update" -> [op |-> "Update", key |-> RoundKey, val |-> NewVal]
    [] stage \in {"get", "absent"} -> [op |-> "Get", key |-> RoundKey, val |-> ZeroVal]
    [] stage = "remove" -> [op |-> "Remove", key |-> RoundKey, val |-> ZeroVal]

InQueueOrder(c) ==
  CASE c.op = "Insert" -> \A e \in Contents : e[1] # c.key
    [] c.op = "Remove" -> \E e \in Contents : e[1] = c.key /\ \A f \in Contents : c.key <= f[1]
    [] OTHER -> TRUE

CallsDirectly ==
  /\ program.name \in {"unittest", "queue"} /\ ~busy
  /\ stage \notin {"dump", "calls", "end", "failed"}
  /\ Invoke(RoundCall)
  /\ busy' = TRUE /\ UNCHANGED <<fvars, program, stage, i, dots>>

QueueCalls ==
  /\ stage = "calls" /\ ~busy
  /\ \E c \in Calls : c.key \in CallKeys /\ InQueueOrder(c) /\ Invoke(c)
  /\ busy' = TRUE /\ UNCHANGED <<fvars, program, stage, i, dots>>

\* The asserts of unittest.cpp.
Expected ==
  CASE stage \in {"insert", "update", "remove"} -> result = Done
    [] stage = "get" -> result = Found(NewVal)
    [] stage = "absent" -> result = NotFound
    [] OTHER -> TRUE

GoesOn ==
  /\ busy /\ pc = "idle"
  /\ IF program.name = "unittest" /\ ~Expected THEN Fail ELSE Advance
  /\ UNCHANGED <<vars, fvars, dots>>

-----------------------------------------------------------------------------
InCall == Step /\ UNCHANGED <<fvars, program, stage, i, busy, dots>>

Ended == stage \in {"end", "failed"} /\ UNCHANGED pvars

PNext ==
  \/ EngineMakes \/ EngineSetsVal \/ EngineRuns \/ EngineGoesOn
  \/ Dump \/ CallsDirectly \/ QueueCalls \/ GoesOn \/ InCall \/ Ended

PSpec == PInit /\ [][PNext]_pvars /\ WF_pvars(InCall)

-----------------------------------------------------------------------------
\* The steps that break the index (leaf_page.h:298, index.h:467, index.h:554,
\* inner_page.h:439) are never reached.
NotFaulty == ~Faulty

\* The index is a map for these programs, and every call takes effect.
FairMapSpec == Map!FairSpec

\* The asserts of unittest.cpp hold, and no exception leaves main in engine.cpp
\* (unittest.cpp:15-63, engine.cpp:16-43).
AssertsHold == stage # "failed"

\* After the first loop of engine.cpp every key has the value that was given to
\* make_op with it, TestStructA{} (engine.cpp:16-19).
DefaultsInserted ==
  program.name = "engine" /\ stage = "update" /\ i = 0 /\ op = NoOp =>
    \A e \in Contents : e[2] = ZeroVal

=============================================================================
