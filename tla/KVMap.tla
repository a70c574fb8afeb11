-------------------------------- MODULE KVMap --------------------------------
(***************************************************************************)
(* What an index promises to its callers (index.h, and what unittest.cpp    *)
(* relies on): a map from keys to values in which each call takes effect    *)
(* at one point between its invocation and its return, whatever the other   *)
(* clients do meanwhile.                                                    *)
(***************************************************************************)
EXTENDS Integers

CONSTANTS Clients, Keys, Vals, NoCall

VARIABLES
  store,  \* the entries, as a set of pairs with distinct keys
  call,   \* the call each client is waiting for
  took,   \* whether that call has taken effect
  resp    \* what the last call of each client answered

vars == <<store, call, took, resp>>

Init ==
  /\ store = {}
  /\ call = [c \in Clients |-> NoCall]
  /\ took = [c \in Clients |-> FALSE]
  /\ resp = [c \in Clients |-> <<"pending">>]

Has(k) == \E e \in store : e[1] = k
Without(k) == {e \in store : e[1] # k}

Requests == [op : {"Insert", "Update", "Get", "Remove", "List"}, key : Keys, val : Vals]

Invoke(c) ==
  /\ call[c] = NoCall
  /\ call'[c] \in Requests /\ call' = [call EXCEPT ![c] = call'[c]]
  /\ resp' = [resp EXCEPT ![c] = <<"pending">>]
  /\ UNCHANGED <<store, took>>

\* What a call may do to the store and answer.  A key is inserted once;
\* inserting it again leaves the map alone and may or may not be reported
\* (index.h:110-127 and :180 disagree).
Outcomes(r) ==
  CASE r.op = "Insert" /\ Has(r.key) -> {<<store, <<"ok">>>>, <<store, <<"throw">>>>}
    [] r.op = "Insert" /\ ~Has(r.key) -> {<<store \cup {<<r.key, r.val>>}, <<"ok">>>>}
    [] r.op = "Update" ->
         {<<IF Has(r.key) THEN Without(r.key) \cup {<<r.key, r.val>>} ELSE store, <<"ok">>>>}
    [] r.op = "Remove" -> {<<Without(r.key), <<"ok">>>>}
    [] r.op = "Get" ->
         IF Has(r.key) THEN {<<store, <<"found", e[2]>>>> : e \in store \ Without(r.key)}
                       ELSE {<<store, <<"none">>>>}
    [] r.op = "List" -> {<<store, <<"keys", {e[1] : e \in store}>>>>}

Return(c, answer) ==
  /\ call' = [call EXCEPT ![c] = NoCall]
  /\ took' = [took EXCEPT ![c] = FALSE]
  /\ resp' = [resp EXCEPT ![c] = answer]

\* The call takes effect, and returns or has still to return.
Perform(c) ==
  /\ call[c] # NoCall /\ ~took[c]
  /\ \E o \in Outcomes(call[c]) :
       /\ store' = o[1]
       /\ \/ Return(c, o[2])
          \/ o[2] = <<"ok">> /\ took' = [took EXCEPT ![c] = TRUE] /\ UNCHANGED <<call, resp>>

Finish(c) == took[c] /\ Return(c, <<"ok">>) /\ UNCHANGED store

Next ==
  \E c \in Clients : Invoke(c) \/ Perform(c) \/ Finish(c)

Spec == Init /\ [][Next]_vars
FairSpec == Spec /\ \A c \in Clients : WF_vars(Perform(c) \/ Finish(c))

-----------------------------------------------------------------------------
\* What is left of the promise when memory runs out: a call that answers
\* bad_alloc has done nothing ...
GiveUp(c) ==
  /\ call[c] # NoCall /\ ~took[c]
  /\ call[c].op \in {"Insert", "Update"}
  /\ Return(c, <<"bad_alloc">>) /\ UNCHANGED store

\* ... or was an Insert that has put its entry in ...
FailAfterEffect(c) ==
  /\ call[c] # NoCall /\ ~took[c] /\ call[c].op = "Insert"
  /\ \E o \in Outcomes(call[c]) : store' = o[1]
  /\ Return(c, <<"bad_alloc">>)

\* ... and may have lost the entries of an interval of keys, its own perhaps
\* among them.
FailAndLose(c) ==
  /\ took[c] /\ call[c].op = "Insert"
  /\ \E lo, hi \in Keys : store' = {e \in store : e[1] < lo \/ e[1] > hi}
  /\ Return(c, <<"bad_alloc">>)

NextOrFail == Next \/ \E c \in Clients : GiveUp(c) \/ FailAfterEffect(c) \/ FailAndLose(c)

SpecOrFail == Init /\ [][NextOrFail]_vars

=============================================================================
