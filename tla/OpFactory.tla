------------------------------ MODULE OpFactory -------------------------------
(***************************************************************************)
(* IndexOpFactory (op_factory.h): a call on an index as a std::function     *)
(* that is run later.  The lambda copies the index and the key and keeps a  *)
(* reference to its other argument, the value to store or the optional a    *)
(* GET assigns.                                                             *)
(***************************************************************************)
EXTENDS BTreeMap

CONSTANT Dead  \* what is left of an object after its lifetime

VARIABLES
  cells,  \* the objects the lambdas refer to: the values ...
  res,    \* ... and the optional
  op      \* the std::function the program holds

fvars == <<cells, res, op>>

Cells == {"temporary", "new_val"}
NoOp == [op |-> "None", key |-> 0, cell |-> "new_val", ran |-> FALSE]

FInit ==
  /\ cells = [c \in Cells |-> ZeroVal] /\ res = NotFound /\ op = NoOp

\* make_op as one statement: an argument that is a temporary of the statement
\* is gone at its end.  The optional of a GET is a fresh one.
MakeOp(kind, k, cell) ==
  /\ op = NoOp
  /\ op' = [op |-> kind, key |-> k, cell |-> cell, ran |-> FALSE]
  /\ cells' = IF cell = "temporary" THEN [cells EXCEPT ![cell] = Dead] ELSE cells
  /\ res' = IF kind = "Get" THEN NotFound ELSE res

\* What a read through the reference gives: the object's value now, or anything
\* when its memory may be in use for something else.
ReadCell(cell) == IF cells[cell] = Dead THEN Vals ELSE {cells[cell]}

RunOp ==
  /\ op # NoOp /\ ~op.ran
  /\ \E v \in ReadCell(op.cell) :
       Invoke([op |-> op.op, key |-> op.key,
               val |-> IF op.op \in {"Insert", "Update"} THEN v ELSE ZeroVal])
  /\ op' = [op EXCEPT !.ran = TRUE]
  /\ UNCHANGED <<cells, res>>

\* Mutant: the lambda keeps a copy of the optional.
OpEndsOnACopy ==
  /\ op.ran /\ pc = "idle"
  /\ op' = NoOp
  /\ UNCHANGED <<vars, cells, res>>

\* The call has returned: a GET assigns its optional, after rw_lock is free.
OpEnds ==
  /\ op.ran /\ pc = "idle"
  /\ res' = IF op.op = "Get" THEN result ELSE res
  /\ op' = NoOp
  /\ UNCHANGED <<vars, cells>>

=============================================================================
