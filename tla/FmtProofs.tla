------------------------------ MODULE FmtProofs -------------------------------
(***************************************************************************)
(* The parser of format strings stays inside of its string, whatever the    *)
(* string, the arguments and the sizes of the types; and the buffers of the *)
(* calls that run inside each other are in step and lose nothing.           *)
(*                                                                          *)
(* A call is a frame of the stack, and every frame has its position in its  *)
(* own string; what a part of the specifications may read next is said by   *)
(* where the frame is (FrameOK).  The buffers are in order when the memory  *)
(* buffer owns its block and all others are as large as what was written    *)
(* (MemOK), and there is one for each call.                                 *)
(***************************************************************************)
EXTENDS FmtFormat, WellFoundedInduction, SequenceTheorems, TLAPS

\* Where the code asserts that there is a character.
Reading == {"id", "align", "sign", "hash", "zero", "width", "precision", "type"}

\* A record with the fields of a frame.
IsFrame(fr) ==
  fr = [by |-> fr.by, str |-> fr.str, given |-> fr.given, args |-> fr.args, next |-> fr.next,
        pos |-> fr.pos, at |-> fr.at, arg |-> fr.arg, specs |-> fr.specs, checked |-> fr.checked]

\* A frame stands in its string, on a character where one is read, and on the '}'
\* of a field that has no specifications.
Inside(fr) ==
  /\ Len(fr.str) \in Nat
  /\ fr.pos \in 1..(Len(fr.str) + 1)
  /\ fr.at \in Reading => fr.pos <= Len(fr.str)
  /\ fr.at = "field" /\ fr.arg.type # "custom" => fr.pos <= Len(fr.str)

FrameOK(fr) == IsFrame(fr) /\ Inside(fr)

\* A check is not inside of a call, and no call inside of a check.
ByWhom(calls) ==
  \A i \in 1..Len(calls) :
    calls[i].by \in {"checker", "handler"} /\ (calls[i].by = "checker" => Len(calls) = 1)

\* Every call that runs, and there is one.
StackOK ==
  /\ \E F : stack \in Seq(F) /\ stack # <<>> /\ \A fr \in F : FrameOK(fr)
  /\ ByWhom(stack)

-----------------------------------------------------------------------------
\* The least-number principle, for a set.
LEMMA LeastElement ==
  ASSUME NEW T \in SUBSET Nat, T # {}
  PROVE  \E m \in T : \A n \in T : m <= n
<1> DEFINE less == OpToRel(<, Nat)
<1>1. IsWellFoundedOn(less, Nat)
  BY NatLessThanWellFounded
<1>2. \A x, y \in Nat : y < x => <<y, x>> \in less
  BY DEF OpToRel
<1> HIDE DEF less
<1>3. PICK m \in T : \A n \in T : ~ (<<n, m>> \in less)
  BY <1>1, WFMin
<1>4. ASSUME NEW n \in T PROVE m <= n
  <2>1. m \in Nat /\ n \in Nat
    OBVIOUS
  <2>2. ~ (n < m)
    BY <2>1, <1>2, <1>3, Zenon
  <2> QED
    BY <2>1, <2>2
<1> QED
  BY <1>4

\* Min of a set of positions is one of them.
LEMMA MinIsThere ==
  ASSUME NEW T \in SUBSET Nat, T # {}
  PROVE  Min(T) \in T
BY LeastElement DEF Min

\* The innermost call is a frame inside of its string.
LEMMA InnermostOK ==
  ASSUME StackOK
  PROVE  /\ FrameOK(f) /\ Len(stack) \in Nat \ {0}
         /\ f.by \in {"checker", "handler"} /\ (f.by = "checker" => Len(stack) = 1)
<1>1. PICK F : stack \in Seq(F) /\ stack # <<>> /\ \A fr \in F : FrameOK(fr)
  BY DEF StackOK
<1>2. Len(stack) \in Nat \ {0}
  BY <1>1
<1>3. stack[Len(stack)] \in F
  BY <1>1, <1>2
<1>4. Len(stack) \in 1..Len(stack)
  BY <1>2
<1> QED
  BY <1>1, <1>2, <1>3, <1>4 DEF f, Last, StackOK, ByWhom

\* The calls around the innermost one stay as they are.
LEMMA GoesOn ==
  ASSUME StackOK, NEW frame, FrameOK(frame), frame.by = f.by, stack' = Append(Front(stack), frame)
  PROVE  StackOK' /\ Len(stack') = Len(stack)
<1>1. PICK F : stack \in Seq(F) /\ stack # <<>> /\ \A fr \in F : FrameOK(fr)
  BY DEF StackOK
<1>2. PICK n : n = Len(stack)
  OBVIOUS
<1>3. n \in Nat \ {0}
  BY <1>1, <1>2
<1> DEFINE G == F \cup {frame}
<1>4. /\ Front(stack) \in Seq(F) /\ Len(Front(stack)) = n - 1
      /\ \A i \in 1..(n - 1) : Front(stack)[i] = stack[i]
  <2>1. /\ SubSeq(stack, 1, n - 1) \in Seq(F) /\ Len(SubSeq(stack, 1, n - 1)) = n - 1
        /\ \A i \in 1..(n - 1) : SubSeq(stack, 1, n - 1)[i] = stack[i]
    BY <1>1, <1>2, <1>3
  <2> QED
    BY <1>2, <2>1 DEF Front
<1>5. Front(stack) \in Seq(G)
  BY <1>4
<1>6. /\ stack' \in Seq(G) /\ stack' # <<>> /\ Len(stack') = n
      /\ stack'[n] = frame
      /\ \A i \in 1..(n - 1) : stack'[i] = stack[i]
  <2>1. PICK s : s = Front(stack)
    OBVIOUS
  <2>2. s \in Seq(G) /\ Len(s) = n - 1 /\ frame \in G
    BY <1>4, <1>5, <2>1
  <2> HIDE DEF G
  <2>3. /\ Append(s, frame) \in Seq(G) /\ Append(s, frame) # <<>> /\ Len(Append(s, frame)) = n
        /\ Append(s, frame)[n] = frame
        /\ \A i \in 1..(n - 1) : Append(s, frame)[i] = s[i]
    BY <1>3, <2>2
  <2> QED
    BY <1>4, <2>1, <2>3
<1>7. \A fr \in G : FrameOK(fr)
  BY <1>1
<1>8. ByWhom(stack')
  <2>1. ASSUME NEW i \in 1..n
        PROVE  stack'[i].by = stack[i].by
    <3>1. CASE i = n
      BY <1>2, <1>6, <3>1 DEF f, Last
    <3>2. CASE i # n
      <4>1. i \in 1..(n - 1)
        BY <1>3, <3>2
      <4> QED
        BY <1>6, <4>1
    <3> QED
      BY <3>1, <3>2
  <2> QED
    BY <1>2, <1>6, <2>1 DEF StackOK, ByWhom
<1> HIDE DEF G
<1> QED
  BY <1>2, <1>6, <1>7, <1>8 DEF StackOK

\* A stack of one call.
LEMMA AloneOK ==
  ASSUME NEW frame, FrameOK(frame), frame.by \in {"checker", "handler"}
  PROVE  /\ stack = <<frame>> => StackOK /\ Len(stack) = 1
         /\ stack' = <<frame>> => StackOK' /\ Len(stack') = 1
<1>1. PICK s : s = <<frame>>
  OBVIOUS
<1>2. s \in Seq({frame}) /\ s # <<>> /\ Len(s) = 1 /\ s[1] = frame
  BY <1>1
<1>3. ByWhom(s)
  BY <1>2 DEF ByWhom
<1>4. \E F : s \in Seq(F) /\ s # <<>> /\ \A fr \in F : FrameOK(fr)
  BY <1>2
<1>5. ASSUME stack = <<frame>> PROVE StackOK /\ Len(stack) = 1
  <2>1. stack = s
    BY <1>1, <1>5
  <2> QED
    BY <1>2, <1>3, <1>4, <2>1 DEF StackOK
<1>6. ASSUME stack' = <<frame>> PROVE StackOK' /\ Len(stack') = 1
  <2>1. stack' = s
    BY <1>1, <1>6
  <2> QED
    BY <1>2, <1>3, <1>4, <2>1 DEF StackOK
<1> QED
  BY <1>5, <1>6

\* A frame that is moved in its string, and one that begins another part as well.
LEMMA MovedFrame ==
  ASSUME NEW fr, FrameOK(fr), NEW p \in 1..(Len(fr.str) + 1),
         fr.at \in Reading \cup {"field"} => p <= Len(fr.str)
  PROVE  FrameOK([fr EXCEPT !.pos = p]) /\ [fr EXCEPT !.pos = p].by = fr.by
<1> DEFINE g == [fr EXCEPT !.pos = p]
<1>1. IsFrame(g) /\ g.by = fr.by /\ g.str = fr.str /\ g.pos = p /\ g.at = fr.at /\ g.arg = fr.arg
  BY DEF FrameOK, IsFrame
<1>2. Len(fr.str) \in Nat
  BY DEF FrameOK, Inside
<1> HIDE DEF g
<1>3. Inside(g)
  BY <1>1, <1>2 DEF Inside
<1> QED
  BY <1>1, <1>3 DEF FrameOK, g

LEMMA TurnedFrame ==
  ASSUME NEW fr, IsFrame(fr), Len(fr.str) \in Nat, NEW p \in 1..(Len(fr.str) + 1), NEW at,
         at \in Reading => p <= Len(fr.str),
         at = "field" /\ fr.arg.type # "custom" => p <= Len(fr.str)
  PROVE  FrameOK([fr EXCEPT !.pos = p, !.at = at]) /\ [fr EXCEPT !.pos = p, !.at = at].by = fr.by
<1> DEFINE g == [fr EXCEPT !.pos = p, !.at = at]
           h == [fr EXCEPT !.pos = p]
<1>1. IsFrame(h) /\ h.by = fr.by /\ h.str = fr.str /\ h.pos = p /\ h.arg = fr.arg
  BY DEF IsFrame
<1>2. g = [h EXCEPT !.at = at]
  BY DEF IsFrame
<1> HIDE DEF g, h
<1>3. IsFrame(g) /\ g.by = fr.by /\ g.str = fr.str /\ g.pos = p /\ g.at = at /\ g.arg = fr.arg
  BY <1>1, <1>2 DEF IsFrame
<1>4. Inside(g)
  BY <1>3 DEF Inside
<1> QED
  BY <1>3, <1>4 DEF FrameOK, g

\* The same calls run on, and nothing is written or some text with its room.
SameCalls ==
  /\ StackOK' /\ Len(stack') = Len(stack)
  /\ ReservesWhatItWrites => mem' = mem \/ \E w : w.room \in Nat /\ mem' = Put(mem, w)

LEMMA GoKeeps ==
  ASSUME StackOK, NEW frame, FrameOK(frame), frame.by = f.by, Go(frame)
  PROVE  SameCalls
BY GoesOn DEF Go, SameCalls

LEMMA WritesKeeps ==
  ASSUME StackOK, NEW frame, FrameOK(frame), frame.by = f.by,
         NEW w, ReservesWhatItWrites /\ f.by = "handler" => w.room \in Nat, Writes(w, frame)
  PROVE  SameCalls
<1>1. StackOK' /\ Len(stack') = Len(stack)
  BY GoesOn DEF Writes
<1>2. mem' = mem \/ (f.by = "handler" /\ mem' = Put(mem, w))
  BY InnermostOK DEF Writes
<1> QED
  BY <1>1, <1>2 DEF SameCalls

\* The call that begins anew after the check of its string.
LEMMA CalledOK ==
  ASSUME NEW string, Len(string) \in Nat, NEW args, NEW checked
  PROVE  /\ FrameOK(Called(string, args, checked)) /\ Called(string, args, checked).by = "handler"
         /\ FrameOK(Check(string, args)) /\ Check(string, args).by = "checker"
<1>1. FrameOK(Called(string, args, checked)) /\ Called(string, args, checked).by = "handler"
  BY DEF FrameOK, IsFrame, Inside, Called, Reading
<1>2. Check(string, args) = [by |-> "checker", str |-> string, given |-> args, args |-> ArgStore(args),
         next |-> 0, pos |-> 1, at |-> "text", arg |-> NoArg, specs |-> DefaultSpecs, checked |-> "not"]
  BY DEF Check, Called
<1>3. FrameOK(Check(string, args)) /\ Check(string, args).by = "checker"
  BY <1>2 DEF FrameOK, IsFrame, Inside, Reading
<1> QED
  BY <1>1, <1>3

-----------------------------------------------------------------------------
\* A character that is there is at a position of the string.
LEMMA CharThere ==
  ASSUME NEW p, Char(p) # "end"
  PROVE  p <= Len(f.str)
BY DEF Char

\* A scan stops in the string or at its end.
LEMMA ScanEnds ==
  ASSUME FrameOK(f), NEW p \in 1..Past, NEW chars, "end" \notin chars
  PROVE  EndOf(p, chars) \in p..Past
<1> DEFINE T == {e \in p..Past : Char(e) \notin chars}
<1>1. Len(f.str) \in Nat
  BY DEF FrameOK, Inside
<1>2. Past \in T
  BY <1>1 DEF Past, Char
<1>3. T \in SUBSET Nat
  BY <1>1 DEF Past
<1>4. PICK m \in T : \A n \in T : m <= n
  BY <1>2, <1>3, LeastElement
<1>5. m \in p..Past /\ Char(m) \notin chars /\ \A i \in p..(m - 1) : Char(i) \in chars
  <2>1. m \in p..Past /\ m \in Nat /\ Past \in Nat
    BY <1>1, <1>3, <1>4 DEF Past
  <2>2. ASSUME NEW i \in p..(m - 1) PROVE Char(i) \in chars
    <3>1. i \in p..Past /\ ~(m <= i)
      BY <2>1
    <3> QED
      BY <3>1, <1>4
  <2> QED
    BY <2>1, <2>2, <1>4
<1> HIDE DEF T
<1> QED
  BY <1>5 DEF EndOf

\* An id names an argument and ends in the string or at its end, or it is bad.
LEMMA IdEnds ==
  ASSUME FrameOK(f), NEW p \in 1..Len(f.str)
  PROVE  \/ ParseArgId(p) = BadId
         \/ ParseArgId(p).end \in p..Past /\ ParseArgId(p).kind \in {"auto", "index", "name"}
<1>1. Len(f.str) \in Nat /\ p \in 1..Past /\ Past \in Nat /\ p + 1 \in p..Past /\ p \in p..Past
  BY DEF FrameOK, Inside, Past
<1>2. EndOf(p, DecDigits) \in p..Past
  BY <1>1, ScanEnds DEF DecDigits
<1>3. EndOf(p, NameStart \cup DecDigits) \in p..Past
  BY <1>1, ScanEnds DEF DecDigits, NameStart
<1> DEFINE auto  == [kind |-> "auto", end |-> p]
           first == IF Char(p) = "0" THEN p + 1 ELSE EndOf(p, DecDigits)
           index == [kind |-> "index", index |-> Number(p), end |-> first]
           name  == [kind |-> "name", name |-> SubSeq(f.str, p, EndOf(p, NameStart \cup DecDigits) - 1),
                     end |-> EndOf(p, NameStart \cup DecDigits)]
<1>4. ParseArgId(p) \in {auto, index, name, BadId}
  BY DEF ParseArgId, DecDigits, NameStart
<1>5. first \in p..Past
  BY <1>1, <1>2
<1> QED
  BY <1>1, <1>3, <1>4, <1>5

\* What is not an id leads to no argument, and to no number.
LEMMA BadIdFinds ==
  Found(BadId).arg = NoArg /\ Count(BadId).n = -1
<1>1. Found(BadId).arg = NoArg
  BY DEF Found, BadId
<1>2. BadId.kind # "name" /\ ~IsSpec(NoArg)
  BY DEF BadId, IsSpec, NoArg
<1> QED
  BY <1>1, <1>2 DEF Count

\* A frame that goes on to the next part of the specifications, or to their end.
LEMMA ThenKeeps ==
  ASSUME StackOK, NEW frame, IsFrame(frame), frame.by = f.by, frame.str = f.str,
         frame.pos \in 1..Past, NEW at \in Reading, Then(at, frame)
  PROVE  SameCalls
<1> DEFINE next == [frame EXCEPT !.at = IF frame.pos > Len(f.str) THEN "close" ELSE at]
<1>1. FrameOK(f) /\ Len(f.str) \in Nat
  BY InnermostOK DEF FrameOK, Inside
<1>2. IsFrame(next) /\ next.by = f.by /\ next.str = f.str /\ next.pos = frame.pos
      /\ next.at = IF frame.pos > Len(f.str) THEN "close" ELSE at
  BY DEF IsFrame
<1>3. Inside(next)
  <2>1. frame.pos \in 1..(Len(f.str) + 1)
    BY DEF Past
  <2>2. at # "field" /\ "close" \notin Reading
    BY DEF Reading
  <2> QED
    BY <1>1, <1>2, <2>1, <2>2 DEF Inside
<1>4. Go(next)
  BY DEF Then
<1> QED
  BY <1>2, <1>3, <1>4, GoKeeps DEF FrameOK

\* An error throws, or is what the check of the string finds.
LEMMA ThrowKeeps ==
  ASSUME StackOK, Throw
  PROVE  SameCalls
<1>1. CASE f.by # "checker"
  <2>1. UNCHANGED <<stack, mem>>
    BY <1>1 DEF Throw
  <2> QED
    BY <2>1 DEF StackOK, SameCalls
<1>2. CASE f.by = "checker"
  <2> DEFINE again == Called(f.str, f.given, "rejected")
  <2>1. FrameOK(again) /\ again.by = "handler"
    BY InnermostOK, CalledOK DEF FrameOK, Inside
  <2>2. stack' = <<again>> /\ mem' = mem
    BY <1>2 DEF Throw, Verdict
  <2> HIDE DEF again
  <2> QED
    BY <1>2, <2>1, <2>2, AloneOK, InnermostOK DEF SameCalls
<1> QED
  BY <1>1, <1>2

-----------------------------------------------------------------------------
\* write: up to the next '{', which is the first one from the position on.
LEMMA OpenEnds ==
  ASSUME FrameOK(f)
  PROVE  Open \in f.pos..Past
<1> DEFINE T == {i \in f.pos..Len(f.str) : f.str[i] = "{"}
<1>1. Len(f.str) \in Nat /\ f.pos \in 1..Past
  BY DEF FrameOK, Inside, Past
<1>2. CASE T = {}
  <2>1. Open = Past
    BY <1>2 DEF Open
  <2> QED
    BY <1>1, <2>1 DEF Past
<1>3. CASE T # {}
  <2>1. \A x \in f.pos..Len(f.str) : x \in Nat
    BY <1>1
  <2>2. T \in SUBSET Nat
    BY <2>1
  <2>3. Min(T) \in T
    <3> HIDE DEF T
    <3> QED BY <1>3, <2>2, MinIsThere
  <2>4. Open = Min(T)
    BY <1>3 DEF Open
  <2>5. Open \in f.pos..Len(f.str)
    BY <2>3, <2>4
  <2> QED
    BY <1>1, <2>5 DEF Past
<1> QED
  BY <1>2, <1>3

LEMMA TextKeeps == ASSUME StackOK, Text PROVE SameCalls
<1>1. FrameOK(f) /\ Len(f.str) \in Nat /\ f.pos \in 1..Past /\ Past = Len(f.str) + 1
  BY InnermostOK DEF FrameOK, Inside, Past
<1>2. Open \in f.pos..Past /\ f.at = "text"
  BY <1>1, OpenEnds DEF Text
<1>3. \A p \in 1..Past : FrameOK([f EXCEPT !.pos = p]) /\ [f EXCEPT !.pos = p].by = f.by
  BY <1>1, <1>2, MovedFrame DEF Reading
<1>4. CASE Writes(TextOf(f.pos, Open - 1), [f EXCEPT !.pos = Open])
  <2>1. Open \in 1..Past /\ (Open - 1) - f.pos + 1 \in Nat
    BY <1>1, <1>2
  <2>2. TextOf(f.pos, Open - 1).room \in Nat
    BY <2>1 DEF TextOf
  <2> QED
    BY <1>3, <1>4, <2>1, <2>2, WritesKeeps
<1>5. CASE /\ Closed # {} /\ Min(Closed) + 1 < Open
           /\ Writes(TextOf(f.pos, Min(Closed)), [f EXCEPT !.pos = Min(Closed) + 2])
  <2>1. \A x \in f.pos..(Open - 1) : x \in Nat \ {0}
    BY <1>1, <1>2
  <2>2. Closed \in SUBSET (Nat \ {0})
    BY <2>1 DEF Closed
  <2>3. Min(Closed) \in Closed
    BY <1>5, <2>2, MinIsThere
  <2>4. Min(Closed) \in f.pos..(Open - 1)
    BY <2>3 DEF Closed
  <2>5. Min(Closed) + 2 \in 1..Past /\ Min(Closed) - f.pos + 1 \in Nat
    BY <1>1, <1>2, <1>5, <2>4
  <2>6. TextOf(f.pos, Min(Closed)).room \in Nat
    BY <2>5 DEF TextOf
  <2> QED
    BY <1>3, <1>5, <2>5, <2>6, WritesKeeps
<1> QED
  BY <1>4, <1>5, ThrowKeeps DEF Text

LEMMA BraceKeeps == ASSUME StackOK, Brace PROVE SameCalls
<1>1. FrameOK(f) /\ Len(f.str) \in Nat /\ f.pos \in 1..Past /\ Past = Len(f.str) + 1
  BY InnermostOK DEF FrameOK, Inside, Past
<1>2. f.at = "text"
  BY DEF Brace
<1>3. CASE Char(f.pos + 1) = "{" /\ Writes(TextOf(f.pos, f.pos), [f EXCEPT !.pos = @ + 2])
  <2>1. f.pos + 1 <= Len(f.str)
    BY <1>3, CharThere
  <2>2. FrameOK([f EXCEPT !.pos = @ + 2]) /\ [f EXCEPT !.pos = @ + 2].by = f.by
    <3>1. f.pos + 2 \in 1..(Len(f.str) + 1) /\ f.at \notin Reading \cup {"field"}
      BY <1>1, <1>2, <2>1 DEF Reading
    <3> QED
      BY <1>1, <3>1, MovedFrame
  <2>3. TextOf(f.pos, f.pos).room \in Nat
    BY <1>1 DEF TextOf
  <2> QED
    BY <1>3, <2>2, <2>3, WritesKeeps
<1>4. CASE Char(f.pos + 1) # "end" /\ Go([f EXCEPT !.pos = @ + 1, !.at = "id"])
  <2>1. f.pos + 1 <= Len(f.str)
    BY <1>4, CharThere
  <2>2. FrameOK([f EXCEPT !.pos = @ + 1, !.at = "id"]) /\ [f EXCEPT !.pos = @ + 1, !.at = "id"].by = f.by
    <3>1. f.pos + 1 \in 1..(Len(f.str) + 1)
      BY <1>1, <2>1
    <3> QED
      BY <1>1, <2>1, <3>1, TurnedFrame DEF FrameOK
  <2> QED
    BY <1>4, <2>2, GoKeeps
<1> QED
  BY <1>3, <1>4, ThrowKeeps DEF Brace

LEMMA FieldIdKeeps == ASSUME StackOK, FieldId PROVE SameCalls
<1>1. FrameOK(f) /\ Len(f.str) \in Nat /\ Past = Len(f.str) + 1 /\ f.pos \in 1..Len(f.str)
  <2>1. f.at \in Reading
    BY DEF FieldId, Reading
  <2> QED
    BY <2>1, InnermostOK DEF FrameOK, Inside, Past
<1>2. PICK id : id = ParseArgId(f.pos)
  OBVIOUS
<1>3. PICK found : found = Found(id)
  OBVIOUS
<1>4. PICK next : next = [f EXCEPT !.arg = found.arg, !.next = found.next, !.pos = id.end]
  OBVIOUS
<1>5. \/ Throw
      \/ /\ found.arg # NoArg
         /\ \/ Char(id.end) = "}" /\ Go([next EXCEPT !.at = "field"])
            \/ /\ Char(id.end) = ":"
               /\ Go([next EXCEPT !.pos = @ + 1, !.specs = DefaultSpecs,
                                  !.at = IF found.arg.type = "custom" THEN "field"
                                         ELSE IF Char(id.end + 1) \in {"end", "}"} THEN "close"
                                         ELSE "align"])
  BY <1>2, <1>3, <1>4 DEF FieldId
<1>6. ASSUME found.arg # NoArg
      PROVE  id.end \in 1..Past
  BY <1>1, <1>2, <1>3, <1>6, IdEnds, BadIdFinds
<1>7. IsFrame(next) /\ next.by = f.by /\ next.str = f.str /\ next.pos = id.end /\ next.arg = found.arg
  BY <1>1, <1>4 DEF FrameOK, IsFrame
<1>8. CASE /\ found.arg # NoArg /\ Char(id.end) = "}"
           /\ Go([next EXCEPT !.at = "field"])
  <2>1. id.end <= Len(f.str)
    BY <1>8, CharThere
  <2> DEFINE frame == [next EXCEPT !.at = "field"]
  <2>2. IsFrame(frame) /\ frame.by = f.by /\ frame.str = f.str /\ frame.pos = id.end /\ frame.at = "field"
    BY <1>7 DEF IsFrame
  <2> HIDE DEF frame
  <2>3. Inside(frame)
    BY <1>1, <1>6, <1>8, <2>1, <2>2 DEF Inside, Reading
  <2>4. Go(frame)
    BY <1>8 DEF frame
  <2> QED
    BY <2>4, <2>2, <2>3, GoKeeps DEF FrameOK
<1>9. CASE /\ found.arg # NoArg /\ Char(id.end) = ":"
           /\ Go([next EXCEPT !.pos = @ + 1, !.specs = DefaultSpecs,
                              !.at = IF found.arg.type = "custom" THEN "field"
                                     ELSE IF Char(id.end + 1) \in {"end", "}"} THEN "close"
                                     ELSE "align"])
  <2> DEFINE at == IF found.arg.type = "custom" THEN "field"
                   ELSE IF Char(id.end + 1) \in {"end", "}"} THEN "close" ELSE "align"
             frame == [next EXCEPT !.pos = @ + 1, !.specs = DefaultSpecs, !.at = at]
  <2>1. id.end <= Len(f.str)
    BY <1>9, CharThere
  <2>2. at = "align" => id.end + 1 <= Len(f.str)
    BY CharThere
  <2>3. at \in {"align", "close", "field"} /\ (at = "field" => found.arg.type = "custom")
    OBVIOUS
  <2> HIDE DEF at
  <2>4. IsFrame(frame) /\ frame.by = f.by /\ frame.str = f.str /\ frame.pos = id.end + 1 /\ frame.arg = found.arg
        /\ frame.at = at
    <3> DEFINE h == [next EXCEPT !.pos = @ + 1]
               g == [h EXCEPT !.specs = DefaultSpecs]
    <3>1. IsFrame(h) /\ h.by = f.by /\ h.str = f.str /\ h.pos = id.end + 1 /\ h.arg = found.arg
      BY <1>7 DEF IsFrame
    <3>2. frame = [g EXCEPT !.at = at]
      OBVIOUS
    <3> HIDE DEF h, frame
    <3>3. IsFrame(g) /\ g.by = f.by /\ g.str = f.str /\ g.pos = id.end + 1 /\ g.arg = found.arg
      BY <3>1 DEF IsFrame
    <3> HIDE DEF g
    <3> QED
      BY <3>2, <3>3 DEF IsFrame
  <2>5. FrameOK(frame)
    BY <1>1, <1>6, <1>9, <2>1, <2>2, <2>3, <2>4 DEF FrameOK, Inside, Reading
  <2>6. Go(frame)
    BY <1>9 DEF at
  <2> HIDE DEF frame
  <2> QED
    BY <2>4, <2>5, <2>6, GoKeeps
<1> QED
  BY <1>5, <1>8, <1>9, ThrowKeeps

LEMMA FieldKeeps == ASSUME StackOK, Field PROVE SameCalls
<1> DEFINE next == [f EXCEPT !.pos = @ + 1, !.at = "text"]
           written == WriteArg(f.arg, NoSpecs)
<1>1. FrameOK(next) /\ next.by = f.by
  <2>1. f.at = "field" /\ f.arg.type # "custom"
    BY DEF Field
  <2>2. IsFrame(f) /\ Len(f.str) \in Nat /\ f.pos + 1 \in 1..(Len(f.str) + 1)
    BY <2>1, InnermostOK DEF FrameOK, Inside
  <2>3. "text" \notin Reading
    BY DEF Reading
  <2> QED
    BY <2>2, <2>3, TurnedFrame
<1>2. Throw \/ Go(next) \/ (written # Thrown /\ Writes(written, next))
  BY DEF Field
<1>3. ReservesWhatItWrites /\ f.by = "handler" => written = Thrown \/ written.room \in Nat
  BY DEF Field, ReservesWhatItWrites
<1> HIDE DEF next, written
<1>4. CASE written # Thrown /\ Writes(written, next)
  BY <1>1, <1>3, <1>4, WritesKeeps
<1> QED
  BY <1>1, <1>2, <1>4, ThrowKeeps, GoKeeps

LEMMA CustomFieldKeeps ==
  ASSUME StackOK, CustomField
  PROVE  SameCalls \/ (StackOK' /\ Len(stack') = Len(stack) + 1 /\ mem' = Above(mem))
<1> DEFINE behind == [f EXCEPT !.at = "custom"]
           inner == Called(TestStructFormat, <<Arg("std::string", f.arg.val, NoName)>>, "not")
<1>1. FrameOK(behind) /\ behind.by = f.by
  BY InnermostOK DEF FrameOK, IsFrame, Inside, Reading
<1>2. FrameOK(inner) /\ inner.by = "handler"
  BY CalledOK DEF TestStructFormat
<1>3. CASE Go(behind)
  BY <1>1, <1>3, GoKeeps
<1>4. CASE /\ f.by # "checker" /\ stack' = Append(Front(stack), behind) \o <<inner>>
           /\ mem' = Above(mem)
  <2>1. PICK F : stack \in Seq(F) /\ stack # <<>> /\ \A fr \in F : FrameOK(fr)
    BY DEF StackOK
  <2>2. PICK n : n = Len(stack)
    OBVIOUS
  <2>3. n \in Nat \ {0} /\ f = stack[n] /\ f.by = "handler"
    BY <1>4, <2>1, <2>2, InnermostOK DEF f, Last
  <2>4. /\ Front(stack) \in Seq(F) /\ Len(Front(stack)) = n - 1
        /\ \A i \in 1..(n - 1) : Front(stack)[i] = stack[i]
    <3>1. /\ SubSeq(stack, 1, n - 1) \in Seq(F) /\ Len(SubSeq(stack, 1, n - 1)) = n - 1
          /\ \A i \in 1..(n - 1) : SubSeq(stack, 1, n - 1)[i] = stack[i]
      BY <2>1, <2>2, <2>3
    <3> QED
      BY <2>2, <3>1 DEF Front
  <2> DEFINE G == F \cup {behind, inner}
  <2>5. PICK s : s = Front(stack)
    OBVIOUS
  <2>6. s \in Seq(G) /\ behind \in G /\ inner \in G /\ Len(s) = n - 1
    BY <2>4, <2>5
  <2>7. \A fr \in G : FrameOK(fr)
    BY <1>1, <1>2, <2>1
  <2> HIDE DEF behind, inner, G
  <2>8. /\ stack' \in Seq(G) /\ stack' # <<>> /\ Len(stack') = n + 1
        /\ stack'[n] = behind /\ stack'[n + 1] = inner
        /\ \A i \in 1..(n - 1) : stack'[i] = s[i]
    <3>1. stack' = Append(s, behind) \o <<inner>>
      BY <1>4, <2>5
    <3>2. /\ Append(s, behind) \in Seq(G) /\ Len(Append(s, behind)) = n
          /\ Append(s, behind)[n] = behind
          /\ \A i \in 1..(n - 1) : Append(s, behind)[i] = s[i]
      BY <2>3, <2>6
    <3>3. \A q \in Seq(G) : Len(q) = n =>
            /\ q \o <<inner>> \in Seq(G) /\ Len(q \o <<inner>>) = n + 1
            /\ (q \o <<inner>>)[n + 1] = inner
            /\ \A i \in 1..n : (q \o <<inner>>)[i] = q[i]
      BY <2>3, <2>6
    <3>4. n \in 1..n /\ \A i \in 1..(n - 1) : i \in 1..n
      BY <2>3
    <3>5. stack' # <<>>
      BY <3>1, <3>2, <3>3, <2>3
    <3> QED
      BY <3>1, <3>2, <3>3, <3>4, <3>5
  <2>9. ByWhom(stack')
    <3>1. ASSUME NEW i \in 1..(n + 1)
          PROVE  stack'[i].by = "handler"
      <4>1. i \in 1..(n - 1) \/ i = n \/ i = n + 1
        BY <2>3
      <4>2. ASSUME NEW j \in 1..(n - 1) PROVE stack[j].by = "handler"
        <5>1. j \in 1..Len(stack) /\ Len(stack) # 1
          BY <2>2, <2>3
        <5> QED
          BY <5>1 DEF StackOK, ByWhom
      <4> QED
        BY <1>1, <1>2, <2>3, <2>4, <2>5, <2>8, <4>1, <4>2
    <3> QED
      BY <2>8, <3>1 DEF ByWhom
  <2> QED
    BY <1>4, <2>2, <2>7, <2>8, <2>9 DEF StackOK
<1> QED
  BY <1>3, <1>4 DEF CustomField

LEMMA CustomDoneKeeps == ASSUME StackOK, CustomDone PROVE SameCalls
<1> DEFINE next == [f EXCEPT !.pos = @ + 1, !.at = "text"]
<1>1. CASE Char(f.pos) = "}" /\ Go(next)
  <2>1. f.pos <= Len(f.str)
    BY <1>1, CharThere
  <2>2. IsFrame(f) /\ Len(f.str) \in Nat /\ f.pos + 1 \in 1..(Len(f.str) + 1)
    BY <2>1, InnermostOK DEF FrameOK, Inside
  <2>3. "text" \notin Reading
    BY DEF Reading
  <2>4. FrameOK(next) /\ next.by = f.by
    BY <2>2, <2>3, TurnedFrame
  <2> QED
    BY <1>1, <2>4, GoKeeps
<1> QED
  BY <1>1, ThrowKeeps DEF CustomDone

LEMMA ReturnKeeps ==
  ASSUME StackOK, Return
  PROVE  SameCalls \/ (StackOK' /\ Len(stack) > 1 /\ Len(stack') = Len(stack) - 1 /\ mem' = Below(mem))
<1>1. PICK F : stack \in Seq(F) /\ stack # <<>> /\ \A fr \in F : FrameOK(fr)
  BY DEF StackOK
<1>2. CASE f.by = "checker"
  <2> DEFINE again == Called(f.str, f.given, "accepted")
  <2>1. FrameOK(again) /\ again.by = "handler"
    BY InnermostOK, CalledOK DEF FrameOK, Inside
  <2>2. stack' = <<again>> /\ mem' = mem
    BY <1>2 DEF Return, Verdict
  <2> HIDE DEF again
  <2> QED
    BY <1>2, <2>1, <2>2, AloneOK, InnermostOK DEF SameCalls
<1>3. CASE f.by # "checker" /\ Len(stack) # 1
  <2>1. PICK n : n = Len(stack)
    OBVIOUS
  <2>2. n \in Nat /\ n > 1
    BY <1>1, <1>3, <2>1
  <2>3. /\ SubSeq(stack, 1, n - 1) \in Seq(F) /\ Len(SubSeq(stack, 1, n - 1)) = n - 1
        /\ \A i \in 1..(n - 1) : SubSeq(stack, 1, n - 1)[i] = stack[i]
    BY <1>1, <2>1, <2>2
  <2>4. stack' = SubSeq(stack, 1, n - 1) /\ mem' = Below(mem)
    BY <1>3, <2>1 DEF Return, Front
  <2>5. /\ stack' \in Seq(F) /\ Len(stack') = n - 1
        /\ \A i \in 1..(n - 1) : stack'[i] = stack[i]
    BY <2>3, <2>4
  <2>6. stack' # <<>>
    BY <2>2, <2>5
  <2>7. ByWhom(stack')
    <3>1. ASSUME NEW i \in 1..(n - 1) PROVE stack[i].by = "handler"
      <4>1. i \in 1..Len(stack) /\ Len(stack) # 1
        BY <2>1, <2>2
      <4> QED
        BY <4>1 DEF StackOK, ByWhom
    <3> QED
      BY <2>5, <3>1 DEF ByWhom
  <2> QED
    BY <1>1, <2>1, <2>2, <2>4, <2>5, <2>6, <2>7 DEF StackOK
<1>4. CASE f.by # "checker" /\ Len(stack) = 1
  <2>1. UNCHANGED <<stack, mem>>
    BY <1>4 DEF Return
  <2> QED
    BY <2>1 DEF StackOK, SameCalls
<1> QED
  BY <1>2, <1>3, <1>4

-----------------------------------------------------------------------------
\* A frame with one field changed is a frame in the same string.
LEMMA SetPos ==
  ASSUME NEW fr, IsFrame(fr), NEW v
  PROVE  /\ IsFrame([fr EXCEPT !.pos = v]) /\ [fr EXCEPT !.pos = v].pos = v
         /\ [fr EXCEPT !.pos = v].by = fr.by /\ [fr EXCEPT !.pos = v].str = fr.str
         /\ [fr EXCEPT !.pos = v].specs = fr.specs
BY DEF IsFrame

LEMMA SetNext ==
  ASSUME NEW fr, IsFrame(fr), NEW v
  PROVE  /\ IsFrame([fr EXCEPT !.next = v]) /\ [fr EXCEPT !.next = v].pos = fr.pos
         /\ [fr EXCEPT !.next = v].by = fr.by /\ [fr EXCEPT !.next = v].str = fr.str
         /\ [fr EXCEPT !.next = v].specs = fr.specs
BY DEF IsFrame

LEMMA SetSpecs ==
  ASSUME NEW fr, IsFrame(fr), NEW v
  PROVE  /\ IsFrame([fr EXCEPT !.specs = v]) /\ [fr EXCEPT !.specs = v].pos = fr.pos
         /\ [fr EXCEPT !.specs = v].by = fr.by /\ [fr EXCEPT !.specs = v].str = fr.str
         /\ [fr EXCEPT !.specs = v].specs = v
BY DEF IsFrame

\* Where the specifications are read there is a character.
LEMMA AtSpecs ==
  ASSUME StackOK, f.at \in Reading
  PROVE  /\ FrameOK(f) /\ IsFrame(f) /\ Len(f.str) \in Nat /\ Past = Len(f.str) + 1
         /\ f.pos \in 1..Len(f.str) /\ f.pos \in 1..Past /\ f.pos + 1 \in 1..Past
BY InnermostOK DEF FrameOK, Inside, Past

\* The next part, at the same place or behind one character.
LEMMA SameFrame ==
  ASSUME StackOK, f.at \in Reading, NEW at \in Reading, Then(at, f)
  PROVE  SameCalls
BY AtSpecs, ThenKeeps

LEMMA AlignmentKeeps == ASSUME StackOK, Alignment PROVE SameCalls
<1>1. f.at \in Reading /\ "sign" \in Reading
  BY DEF Alignment, Reading
<1>2. PICK at : at = IF Aligns(f.pos + 1) THEN f.pos + 1 ELSE f.pos
  OBVIOUS
<1>3. PICK by : by = AlignOf[Char(at)]
  OBVIOUS
<1>4. PICK fill : fill = IF at > f.pos THEN Char(f.pos) ELSE f.specs.fill
  OBVIOUS
<1> DEFINE frame == [f EXCEPT !.pos = at + 1, !.specs.align = by,
                              !.specs.fill = IF at > f.pos THEN Char(f.pos) ELSE @]
<1>5. Then("sign", f) \/ Throw \/ (Aligns(at) /\ Then("sign", frame))
  BY <1>2, <1>3 DEF Alignment
<1>6. CASE Aligns(at) /\ Then("sign", frame)
  <2>1. Char(at) # "end"
    BY <1>6 DEF Aligns, AlignOf
  <2>2. at + 1 \in 1..Past
    BY <1>1, <1>2, <2>1, CharThere, AtSpecs
  <2> DEFINE h == [f EXCEPT !.pos = at + 1]
             g == [h EXCEPT !.specs = [h.specs EXCEPT !.align = by]]
             k == [g EXCEPT !.specs = [g.specs EXCEPT !.fill = IF at > f.pos THEN Char(f.pos) ELSE @]]
  <2>3. frame = k
    OBVIOUS
  <2>4. IsFrame(h) /\ h.by = f.by /\ h.str = f.str /\ h.pos = at + 1
    BY <1>1, AtSpecs, SetPos
  <2> HIDE DEF frame, h
  <2>5. IsFrame(g) /\ g.by = f.by /\ g.str = f.str /\ g.pos = at + 1
    BY <2>4, SetSpecs
  <2> HIDE DEF g
  <2>6. IsFrame(k) /\ k.by = f.by /\ k.str = f.str /\ k.pos = at + 1
    BY <2>5, SetSpecs
  <2> HIDE DEF k
  <2> QED
    BY <1>1, <1>6, <2>2, <2>6, <2>3, ThenKeeps
<1> QED
  BY <1>1, <1>5, <1>6, SameFrame, ThrowKeeps

LEMMA SignKeeps == ASSUME StackOK, Sign PROVE SameCalls
<1>1. f.at \in Reading /\ "hash" \in Reading
  BY DEF Sign, Reading
<1> DEFINE frame == [f EXCEPT !.pos = @ + 1, !.specs.sign = SignOf[Char(f.pos)]]
           h == [f EXCEPT !.pos = @ + 1]
           g == [h EXCEPT !.specs = [h.specs EXCEPT !.sign = SignOf[Char(f.pos)]]]
<1>2. Then("hash", f) \/ Throw \/ Then("hash", frame)
  BY DEF Sign
<1>3. frame = g
  OBVIOUS
<1>4. IsFrame(h) /\ h.by = f.by /\ h.str = f.str /\ h.pos = f.pos + 1
  BY <1>1, AtSpecs, SetPos
<1> HIDE DEF frame, h
<1>5. IsFrame(g) /\ g.by = f.by /\ g.str = f.str /\ g.pos = f.pos + 1
  BY <1>4, SetSpecs
<1> HIDE DEF g
<1>6. CASE Then("hash", frame)
  BY <1>1, <1>5, <1>3, <1>6, AtSpecs, ThenKeeps
<1> QED
  BY <1>1, <1>2, <1>6, SameFrame, ThrowKeeps

LEMMA HashKeeps == ASSUME StackOK, Hash PROVE SameCalls
<1>1. f.at \in Reading /\ "zero" \in Reading
  BY DEF Hash, Reading
<1> DEFINE frame == [f EXCEPT !.pos = @ + 1, !.specs.alt = TRUE]
           h == [f EXCEPT !.pos = @ + 1]
           g == [h EXCEPT !.specs = [h.specs EXCEPT !.alt = TRUE]]
<1>2. Then("zero", f) \/ Throw \/ Then("zero", frame)
  BY DEF Hash
<1>3. frame = g
  OBVIOUS
<1>4. IsFrame(h) /\ h.by = f.by /\ h.str = f.str /\ h.pos = f.pos + 1
  BY <1>1, AtSpecs, SetPos
<1> HIDE DEF frame, h
<1>5. IsFrame(g) /\ g.by = f.by /\ g.str = f.str /\ g.pos = f.pos + 1
  BY <1>4, SetSpecs
<1> HIDE DEF g
<1>6. CASE Then("zero", frame)
  BY <1>1, <1>5, <1>3, <1>6, AtSpecs, ThenKeeps
<1> QED
  BY <1>1, <1>2, <1>6, SameFrame, ThrowKeeps

LEMMA ZeroKeeps == ASSUME StackOK, Zero PROVE SameCalls
<1>1. f.at \in Reading /\ "width" \in Reading
  BY DEF Zero, Reading
<1> DEFINE frame == [f EXCEPT !.pos = @ + 1, !.specs.align = "numeric", !.specs.fill = "0"]
           h == [f EXCEPT !.pos = @ + 1]
           g == [h EXCEPT !.specs = [h.specs EXCEPT !.align = "numeric"]]
           k == [g EXCEPT !.specs = [g.specs EXCEPT !.fill = "0"]]
<1>2. Then("width", f) \/ Throw \/ Then("width", frame)
  BY DEF Zero
<1>3. frame = k
  OBVIOUS
<1>4. IsFrame(h) /\ h.by = f.by /\ h.str = f.str /\ h.pos = f.pos + 1
  BY <1>1, AtSpecs, SetPos
<1> HIDE DEF frame, h
<1>5. IsFrame(g) /\ g.by = f.by /\ g.str = f.str /\ g.pos = f.pos + 1
  BY <1>4, SetSpecs
<1> HIDE DEF g
<1>6. IsFrame(k) /\ k.by = f.by /\ k.str = f.str /\ k.pos = f.pos + 1
  BY <1>5, SetSpecs
<1> HIDE DEF k
<1>7. CASE Then("width", frame)
  BY <1>1, <1>6, <1>3, <1>7, AtSpecs, ThenKeeps
<1> QED
  BY <1>1, <1>2, <1>7, SameFrame, ThrowKeeps

\* A number that an id gives leads into the string or to its end.
LEMMA CountedId ==
  ASSUME StackOK, NEW p \in 1..Len(f.str), Count(ParseArgId(p)).n # -1
  PROVE  ParseArgId(p).end \in 1..Past
<1>1. FrameOK(f)
  BY InnermostOK
<1>2. ParseArgId(p).end \in p..Past
  BY <1>1, IdEnds, BadIdFinds
<1>3. Len(f.str) \in Nat
  BY <1>1 DEF FrameOK, Inside
<1> QED
  BY <1>2, <1>3 DEF Past

LEMMA WidthKeeps == ASSUME StackOK, Width PROVE SameCalls
<1>1. f.at \in Reading /\ "precision" \in Reading
  BY DEF Width, Reading
<1>2. PICK id : id = ParseArgId(f.pos + 1)
  OBVIOUS
<1>3. PICK count : count = Count(id)
  OBVIOUS
<1> DEFINE digits == [f EXCEPT !.pos = EndOf(f.pos, DecDigits), !.specs.width = Number(f.pos)]
           asked == [f EXCEPT !.pos = id.end + 1, !.next = count.next, !.specs.width = count.n]
<1>4. \/ Then("precision", f) \/ Throw \/ Then("precision", digits)
      \/ /\ f.pos + 1 # Past /\ count.n # -1 /\ Char(id.end) = "}"
         /\ Then("precision", asked)
  BY <1>2, <1>3 DEF Width
<1>5. CASE Then("precision", digits)
  <2> DEFINE h == [f EXCEPT !.pos = EndOf(f.pos, DecDigits)]
             g == [h EXCEPT !.specs = [h.specs EXCEPT !.width = Number(f.pos)]]
  <2>1. digits = g
    OBVIOUS
  <2>2. IsFrame(h) /\ h.by = f.by /\ h.str = f.str /\ h.pos = EndOf(f.pos, DecDigits)
    BY <1>1, AtSpecs, SetPos
  <2> HIDE DEF digits, h
  <2>3. IsFrame(g) /\ g.by = f.by /\ g.str = f.str /\ g.pos = EndOf(f.pos, DecDigits)
    BY <2>2, SetSpecs
  <2> HIDE DEF g
  <2>4. EndOf(f.pos, DecDigits) \in f.pos..Past
    BY <1>1, AtSpecs, ScanEnds DEF DecDigits
  <2>5. EndOf(f.pos, DecDigits) \in 1..Past
    BY <1>1, <2>4, AtSpecs
  <2> QED
    BY <1>1, <1>5, <2>1, <2>3, <2>5, ThenKeeps
<1>6. CASE /\ f.pos + 1 # Past /\ count.n # -1 /\ Char(id.end) = "}"
           /\ Then("precision", asked)
  <2> DEFINE h == [f EXCEPT !.pos = id.end + 1]
             g == [h EXCEPT !.next = count.next]
             k == [g EXCEPT !.specs = [g.specs EXCEPT !.width = count.n]]
  <2>1. asked = k
    OBVIOUS
  <2>2. IsFrame(h) /\ h.by = f.by /\ h.str = f.str /\ h.pos = id.end + 1
    BY <1>1, AtSpecs, SetPos
  <2> HIDE DEF asked, h
  <2>3. IsFrame(g) /\ g.by = f.by /\ g.str = f.str /\ g.pos = id.end + 1
    BY <2>2, SetNext
  <2> HIDE DEF g
  <2>4. IsFrame(k) /\ k.by = f.by /\ k.str = f.str /\ k.pos = id.end + 1
    BY <2>3, SetSpecs
  <2> HIDE DEF k
  <2>5. f.pos + 1 \in 1..Len(f.str)
    <3>1. f.pos \in 1..Len(f.str) /\ Len(f.str) \in Nat /\ Past = Len(f.str) + 1
      BY <1>1, AtSpecs
    <3>2. f.pos + 1 # Past
      BY <1>6
    <3> QED
      BY <3>1, <3>2
  <2>6. id.end \in 1..Past /\ id.end <= Len(f.str)
    BY <1>2, <1>3, <1>6, <2>5, CountedId, CharThere
  <2>7. id.end + 1 \in 1..Past
    BY <1>1, <2>6, AtSpecs
  <2> QED
    BY <1>1, <1>6, <2>1, <2>4, <2>7, ThenKeeps
<1> QED
  BY <1>1, <1>4, <1>5, <1>6, SameFrame, ThrowKeeps

LEMMA PrecisionKeeps == ASSUME StackOK, Precision PROVE SameCalls
<1>1. f.at \in Reading /\ "type" \in Reading
  BY DEF Precision, Reading
<1>2. PICK id : id = ParseArgId(f.pos + 2)
  OBVIOUS
<1>3. PICK count : count = Count(id)
  OBVIOUS
<1> DEFINE digits == [f EXCEPT !.pos = EndOf(f.pos + 1, DecDigits), !.specs.precision = Number(f.pos + 1)]
           asked == [f EXCEPT !.pos = id.end + 1, !.next = count.next, !.specs.precision = count.n]
<1>4. \/ Then("type", f) \/ Throw \/ Then("type", digits)
      \/ /\ Char(f.pos + 1) = "{" /\ f.pos + 2 # Past /\ count.n # -1 /\ Char(id.end) = "}"
         /\ Then("type", asked)
  BY <1>2, <1>3 DEF Precision
<1>5. CASE Then("type", digits)
  <2> DEFINE h == [f EXCEPT !.pos = EndOf(f.pos + 1, DecDigits)]
             g == [h EXCEPT !.specs = [h.specs EXCEPT !.precision = Number(f.pos + 1)]]
  <2>1. digits = g
    OBVIOUS
  <2>2. IsFrame(h) /\ h.by = f.by /\ h.str = f.str /\ h.pos = EndOf(f.pos + 1, DecDigits)
    BY <1>1, AtSpecs, SetPos
  <2> HIDE DEF digits, h
  <2>3. IsFrame(g) /\ g.by = f.by /\ g.str = f.str /\ g.pos = EndOf(f.pos + 1, DecDigits)
    BY <2>2, SetSpecs
  <2> HIDE DEF g
  <2>4. EndOf(f.pos + 1, DecDigits) \in (f.pos + 1)..Past
    BY <1>1, AtSpecs, ScanEnds DEF DecDigits
  <2>5. EndOf(f.pos + 1, DecDigits) \in 1..Past
    BY <1>1, <2>4, AtSpecs
  <2> QED
    BY <1>1, <1>5, <2>1, <2>3, <2>5, ThenKeeps
<1>6. CASE /\ Char(f.pos + 1) = "{" /\ f.pos + 2 # Past /\ count.n # -1 /\ Char(id.end) = "}"
           /\ Then("type", asked)
  <2> DEFINE h == [f EXCEPT !.pos = id.end + 1]
             g == [h EXCEPT !.next = count.next]
             k == [g EXCEPT !.specs = [g.specs EXCEPT !.precision = count.n]]
  <2>1. asked = k
    OBVIOUS
  <2>2. IsFrame(h) /\ h.by = f.by /\ h.str = f.str /\ h.pos = id.end + 1
    BY <1>1, AtSpecs, SetPos
  <2> HIDE DEF asked, h
  <2>3. IsFrame(g) /\ g.by = f.by /\ g.str = f.str /\ g.pos = id.end + 1
    BY <2>2, SetNext
  <2> HIDE DEF g
  <2>4. IsFrame(k) /\ k.by = f.by /\ k.str = f.str /\ k.pos = id.end + 1
    BY <2>3, SetSpecs
  <2> HIDE DEF k
  <2>5. f.pos + 1 <= Len(f.str)
    BY <1>6, CharThere
  <2>6. f.pos + 2 \in 1..Len(f.str)
    <3>1. f.pos \in 1..Len(f.str) /\ Len(f.str) \in Nat /\ Past = Len(f.str) + 1
      BY <1>1, AtSpecs
    <3>2. f.pos + 2 # Past
      BY <1>6
    <3> QED
      BY <2>5, <3>1, <3>2
  <2>7. id.end \in 1..Past /\ id.end <= Len(f.str)
    BY <1>2, <1>3, <1>6, <2>6, CountedId, CharThere
  <2>8. id.end + 1 \in 1..Past
    BY <1>1, <2>7, AtSpecs
  <2> QED
    BY <1>1, <1>6, <2>1, <2>4, <2>8, ThenKeeps
<1> QED
  BY <1>1, <1>4, <1>5, <1>6, SameFrame, ThrowKeeps

\* Behind the type nothing is asserted of the next character.
LEMMA TypeKeeps == ASSUME StackOK, Type PROVE SameCalls
<1>1. f.at \in Reading /\ Past \in Int
  <2>1. f.at \in Reading
    BY DEF Type, Reading
  <2> QED
    BY <2>1, AtSpecs
<1> DEFINE frame == [f EXCEPT !.pos = @ + 1, !.specs.type = Char(f.pos)]
           h == [f EXCEPT !.pos = @ + 1]
           g == [h EXCEPT !.specs = [h.specs EXCEPT !.type = Char(f.pos)]]
<1>2. Then("close", f) \/ Then("close", frame)
  BY DEF Type
<1>3. frame = g
  OBVIOUS
<1>4. IsFrame(h) /\ h.by = f.by /\ h.str = f.str /\ h.pos = f.pos + 1
  BY <1>1, AtSpecs, SetPos
<1> HIDE DEF frame, h
<1>5. IsFrame(g) /\ g.by = f.by /\ g.str = f.str /\ g.pos = f.pos + 1
  BY <1>4, SetSpecs
<1> HIDE DEF g
<1>6. ASSUME NEW k, IsFrame(k), k.by = f.by, k.str = f.str, k.pos \in 1..Past, Then("close", k)
      PROVE  SameCalls
  <2> DEFINE next == [k EXCEPT !.at = "close"]
  <2>1. IsFrame(next) /\ next.by = f.by /\ next.str = f.str /\ next.pos = k.pos /\ next.at = "close"
    BY <1>6 DEF IsFrame
  <2>2. Go(next)
    BY <1>6 DEF Then
  <2> HIDE DEF next
  <2>3. FrameOK(next)
    BY <1>1, <1>6, <2>1, AtSpecs DEF FrameOK, Inside, Reading
  <2> QED
    BY <2>1, <2>2, <2>3, GoKeeps
<1>7. CASE Then("close", f)
  BY <1>1, <1>6, <1>7, AtSpecs
<1>8. CASE Then("close", frame)
  BY <1>1, <1>3, <1>5, <1>6, <1>8, AtSpecs
<1> QED
  BY <1>2, <1>7, <1>8

LEMMA CloseKeeps == ASSUME StackOK, Close PROVE SameCalls
<1> DEFINE next == [f EXCEPT !.pos = @ + 1, !.at = "text"]
           written == WriteArg(f.arg, f.specs)
<1>1. \/ Throw
      \/ Char(f.pos) = "}" /\ (Go(next) \/ (written # Thrown /\ Writes(written, next)))
  BY DEF Close
<1>2. ReservesWhatItWrites /\ f.by = "handler" => written = Thrown \/ written.room \in Nat
  BY DEF Close, ReservesWhatItWrites
<1>3. CASE Char(f.pos) = "}" /\ (Go(next) \/ (written # Thrown /\ Writes(written, next)))
  <2>1. f.pos <= Len(f.str)
    BY <1>3, CharThere
  <2>2. IsFrame(f) /\ Len(f.str) \in Nat /\ f.pos + 1 \in 1..(Len(f.str) + 1)
    BY <2>1, InnermostOK DEF FrameOK, Inside
  <2>3. "text" \notin Reading
    BY DEF Reading
  <2>4. FrameOK(next) /\ next.by = f.by
    BY <2>2, <2>3, TurnedFrame
  <2> HIDE DEF next, written
  <2> QED
    BY <1>2, <1>3, <2>4, GoKeeps, WritesKeeps
<1> QED
  BY <1>1, <1>3, ThrowKeeps

-----------------------------------------------------------------------------
\* A step of the innermost call, the beginning of another call in it, or its return.
Steps ==
  \/ SameCalls
  \/ StackOK' /\ Len(stack') = Len(stack) + 1 /\ mem' = Above(mem)
  \/ StackOK' /\ Len(stack) > 1 /\ Len(stack') = Len(stack) - 1 /\ mem' = Below(mem)

LEMMA StepKeeps == StackOK /\ [FNext]_fvars => Steps
<1> SUFFICES ASSUME StackOK, [FNext]_fvars PROVE Steps
  OBVIOUS
<1>1. CASE UNCHANGED fvars
  BY <1>1 DEF fvars, StackOK, Steps, SameCalls
<1>2. CASE FNext
  <2>1. CASE CustomField
    BY <2>1, CustomFieldKeeps DEF Steps
  <2>2. CASE Return
    BY <2>2, ReturnKeeps DEF Steps
  <2> QED
    BY <1>2, <2>1, <2>2, TextKeeps, BraceKeeps, FieldIdKeeps, FieldKeeps, CustomDoneKeeps,
       AlignmentKeeps, SignKeeps, HashKeeps, ZeroKeeps, WidthKeeps, PrecisionKeeps,
       TypeKeeps, CloseKeeps DEF FNext, Steps
<1> QED
  BY <1>1, <1>2

LEMMA FirstCall ==
  ASSUME NEW Chars, NEW string \in Seq(Chars), NEW args, NEW checks \in BOOLEAN,
         Format(string, args, checks)
  PROVE  StackOK /\ Len(stack) = 1
<1>1. PICK frame : frame = IF checks THEN Check(string, args) ELSE Called(string, args, "not")
  OBVIOUS
<1>2. FrameOK(frame) /\ frame.by \in {"checker", "handler"}
  BY <1>1, CalledOK
<1>3. stack = <<frame>>
  BY <1>1 DEF Format
<1> QED
  BY <1>2, <1>3, AloneOK

\* Whatever the format string, the arguments and whether the string is checked
\* first, fmt's parser and its check never read a character behind the end of the
\* string they are in (format.h:2262, 2339, 2382), in any of the calls that run.
THEOREM ParserStaysInside ==
  ASSUME NEW Chars, NEW string \in Seq(Chars), NEW args, NEW checks \in BOOLEAN
  PROVE  Format(string, args, checks) /\ [][FNext]_fvars => []NeverReadsPastTheEnd
<1>1. Format(string, args, checks) => StackOK
  BY FirstCall
<1>2. StackOK => NeverReadsPastTheEnd
  <2> SUFFICES ASSUME StackOK PROVE NeverReadsPastTheEnd
    OBVIOUS
  <2>1. f.pos <= Past
    BY InnermostOK DEF FrameOK, Inside, Past
  <2>2. ASSUME f.at \in Reading PROVE f.pos < Past
    BY <2>2, AtSpecs
  <2> QED
    BY <2>1, <2>2 DEF NeverReadsPastTheEnd, Reading
<1>3. StackOK /\ [FNext]_fvars => StackOK'
  BY StepKeeps DEF Steps, SameCalls
<1> QED
  BY <1>1, <1>2, <1>3, PTL

-----------------------------------------------------------------------------
(***************************************************************************)
(* The buffers.  Only the sizes and the characters below them matter: what a *)
(* buffer has reserved is overwritten by what is written next.               *)
(***************************************************************************)
\* The fields of a buffer: an address or NullPtr, and what it says of the data there.
Buffers == [ptr : Int, size : Nat, cap : Nat]

\* The characters of the memory buffer, and the room there is for them.
Data(m) == m.blocks[m.bufs[1].ptr]

\* The memory buffer owns its block, and each buffer above it is as large as what
\* was written, with no room to spare, and points to that block or to nothing.
MemOK(m) ==
  /\ m = [blocks |-> m.blocks, bufs |-> m.bufs]
  /\ m.bufs \in Seq(Buffers) /\ Len(m.bufs) >= 1
  /\ m.blocks = [b \in DOMAIN m.blocks |-> m.blocks[b]]
  /\ DOMAIN m.blocks \in SUBSET Nat
  /\ m.bufs[1].ptr \in DOMAIN m.blocks
  /\ Data(m) = [i \in 1..m.bufs[1].cap |-> Data(m)[i]]
  /\ m.bufs[1].size <= m.bufs[1].cap
  /\ \A i \in 2..Len(m.bufs) :
       /\ m.bufs[i].size = m.bufs[1].size /\ m.bufs[i].cap = m.bufs[1].size
       /\ m.bufs[i].ptr \in {NullPtr, m.bufs[1].ptr}

\* vformat starts with the memory buffer alone.
LEMMA EmptyOK == MemOK(EmptyMemory) /\ Len(EmptyMemory.bufs) = 1
<1> DEFINE first == [ptr |-> Store, size |-> 0, cap |-> InlineSize]
<1>1. first \in Buffers
  BY InlineAssumption DEF Buffers, Store
<1>2. EmptyMemory.bufs = <<first>> /\ EmptyMemory.bufs \in Seq(Buffers) /\ Len(EmptyMemory.bufs) = 1
  BY <1>1 DEF EmptyMemory
<1>3. EmptyMemory.blocks = [b \in {Store} |-> [i \in 1..InlineSize |-> Garbage]]
  BY DEF EmptyMemory
<1>4. EmptyMemory = [blocks |-> EmptyMemory.blocks, bufs |-> EmptyMemory.bufs]
  BY DEF EmptyMemory
<1>5. EmptyMemory.bufs[1] = first
  BY <1>2
<1>6. Data(EmptyMemory) = [i \in 1..InlineSize |-> Garbage]
  BY <1>3, <1>5 DEF Data
<1>7. Store \in Nat
  BY DEF Store
<1> QED
  BY <1>2, <1>3, <1>4, <1>5, <1>6, <1>7, InlineAssumption DEF MemOK

\* A buffer of the memory.
LEMMA BufferFields ==
  ASSUME NEW m, MemOK(m), NEW i \in 1..Len(m.bufs)
  PROVE  /\ m.bufs[i] \in Buffers /\ m.bufs[i].ptr \in Int
         /\ m.bufs[i].size \in Nat /\ m.bufs[i].cap \in Nat
         /\ m.bufs[i] = [ptr |-> m.bufs[i].ptr, size |-> m.bufs[i].size, cap |-> m.bufs[i].cap]
         /\ Len(m.bufs) \in Nat \ {0}
<1>1. m.bufs[i] \in Buffers
  BY DEF MemOK
<1>2. Len(m.bufs) \in Nat \ {0}
  BY DEF MemOK
<1> QED
  BY <1>1, <1>2 DEF Buffers

\* buffer::set.
LEMMA Redirected ==
  ASSUME NEW b, b = [ptr |-> b.ptr, size |-> b.size, cap |-> b.cap], NEW p, NEW c
  PROVE  [b EXCEPT !.ptr = p, !.cap = c] = [ptr |-> p, size |-> b.size, cap |-> c]
<1> DEFINE d == [b EXCEPT !.ptr = p]
<1>1. d = [ptr |-> p, size |-> b.size, cap |-> b.cap]
  OBVIOUS
<1>2. [b EXCEPT !.ptr = p, !.cap = c] = [d EXCEPT !.cap = c]
  OBVIOUS
<1> HIDE DEF d
<1>3. [d EXCEPT !.cap = c] = [ptr |-> p, size |-> b.size, cap |-> c]
  BY <1>1
<1> QED
  BY <1>2, <1>3

\* basic_memory_buffer::grow: more room than asked for, and the characters are kept.
LEMMA MemoryGrows ==
  ASSUME NEW m, MemOK(m), NEW n \in Nat, n > m.bufs[1].cap
  PROVE  LET g == MemoryGrow(m, n)
         IN  /\ g = [blocks |-> g.blocks, bufs |-> g.bufs]
             /\ g.blocks = [b \in DOMAIN g.blocks |-> g.blocks[b]] /\ DOMAIN g.blocks \in SUBSET Nat
             /\ g.bufs \in Seq(Buffers) /\ Len(g.bufs) = Len(m.bufs)
             /\ \A k \in 2..Len(m.bufs) : g.bufs[k] = m.bufs[k]
             /\ g.bufs[1].ptr \in DOMAIN g.blocks /\ g.bufs[1].size = m.bufs[1].size
             /\ n <= g.bufs[1].cap
             /\ Data(g) = [i \in 1..g.bufs[1].cap |-> Data(g)[i]]
             /\ \A i \in 1..m.bufs[1].size : Data(g)[i] = Data(m)[i]
<1> DEFINE old  == m.bufs[1]
           half == old.cap + old.cap \div 2
           cap  == IF n > half THEN n ELSE half
           new  == old.ptr + 1
           Copy == [i \in 1..cap |-> IF i <= old.size THEN m.blocks[old.ptr][i] ELSE Garbage]
           kept == DOMAIN m.blocks \ (IF old.ptr # Store THEN {old.ptr} ELSE {})
           g == MemoryGrow(m, n)
<1>1. g = [blocks |-> [b \in kept \cup {new} |-> IF b = new THEN Copy ELSE m.blocks[b]],
           bufs |-> [m.bufs EXCEPT ![1].ptr = new, ![1].cap = cap]]
  BY DEF MemoryGrow
<1> HIDE DEF g
<1>2. g = [blocks |-> g.blocks, bufs |-> g.bufs]
      /\ g.blocks = [b \in kept \cup {new} |-> IF b = new THEN Copy ELSE m.blocks[b]]
      /\ g.bufs = [m.bufs EXCEPT ![1].ptr = new, ![1].cap = cap]
  BY <1>1
<1>3. old \in Buffers /\ old.ptr \in Nat /\ old.size \in Nat /\ old.cap \in Nat /\ old.size <= old.cap
      /\ Len(m.bufs) \in Nat \ {0} /\ DOMAIN m.blocks \in SUBSET Nat /\ m.bufs \in Seq(Buffers)
      /\ old = [ptr |-> old.ptr, size |-> old.size, cap |-> old.cap]
  <2>1. 1 \in 1..Len(m.bufs)
    BY DEF MemOK
  <2>2. DOMAIN m.blocks \in SUBSET Nat /\ m.bufs \in Seq(Buffers) /\ old.ptr \in DOMAIN m.blocks
        /\ old.size <= old.cap
    BY DEF MemOK
  <2>3. /\ old \in Buffers /\ old.size \in Nat /\ old.cap \in Nat /\ Len(m.bufs) \in Nat \ {0}
        /\ old = [ptr |-> old.ptr, size |-> old.size, cap |-> old.cap]
    BY <2>1, BufferFields
  <2> QED
    BY <2>2, <2>3
<1>4. cap \in Nat /\ n <= cap /\ new \in Nat
  BY <1>3
<1> HIDE DEF half, cap
<1>5. g.blocks = [b \in DOMAIN g.blocks |-> g.blocks[b]] /\ DOMAIN g.blocks \in SUBSET Nat
      /\ new \in DOMAIN g.blocks /\ g.blocks[new] = Copy
  BY <1>2, <1>3, <1>4
<1>6. [old EXCEPT !.ptr = new, !.cap = cap] = [ptr |-> new, size |-> old.size, cap |-> cap]
  BY <1>3, Redirected
<1>7. [ptr |-> new, size |-> old.size, cap |-> cap] \in Buffers
  BY <1>3, <1>4 DEF Buffers
<1>8. g.bufs = [m.bufs EXCEPT ![1] = [ptr |-> new, size |-> old.size, cap |-> cap]]
  BY <1>2, <1>3, <1>6
<1>9. g.bufs \in Seq(Buffers) /\ Len(g.bufs) = Len(m.bufs)
      /\ g.bufs[1] = [ptr |-> new, size |-> old.size, cap |-> cap]
      /\ \A k \in 2..Len(m.bufs) : g.bufs[k] = m.bufs[k]
  BY <1>3, <1>7, <1>8
<1>10. g.bufs[1].ptr = new /\ g.bufs[1].size = old.size /\ g.bufs[1].cap = cap
  BY <1>9
<1>11. Data(g) = Copy
  BY <1>5, <1>10 DEF Data
<1>12. Data(g) = [i \in 1..cap |-> Data(g)[i]]
  BY <1>11
<1>13. ASSUME NEW i \in 1..m.bufs[1].size PROVE Data(g)[i] = Data(m)[i]
  <2>1. i \in 1..cap /\ i <= old.size
    BY <1>3, <1>4
  <2> QED
    BY <1>11, <2>1 DEF Data
<1> HIDE DEF old, new, Copy, kept
<1> QED
  BY <1>2, <1>4, <1>5, <1>9, <1>10, <1>12, <1>13 DEF g, old


\* A buffer whose size is set.
LEMMA Extended ==
  ASSUME NEW b, b = [ptr |-> b.ptr, size |-> b.size, cap |-> b.cap], NEW n
  PROVE  [b EXCEPT !.size = n] = [ptr |-> b.ptr, size |-> n, cap |-> b.cap]
OBVIOUS

\* ... in the memory.
SetSize(m, i, n) == [m EXCEPT !.bufs[i].size = n]

LEMMA Sized ==
  ASSUME NEW m, m = [blocks |-> m.blocks, bufs |-> m.bufs], m.bufs \in Seq(Buffers),
         NEW i \in 1..Len(m.bufs), NEW n \in Nat, NEW r, r = SetSize(m, i, n)
  PROVE  /\ r = [blocks |-> m.blocks, bufs |-> r.bufs]
         /\ r.bufs \in Seq(Buffers) /\ Len(r.bufs) = Len(m.bufs)
         /\ r.bufs[i] = [ptr |-> m.bufs[i].ptr, size |-> n, cap |-> m.bufs[i].cap]
         /\ \A k \in 1..Len(m.bufs) : k # i => r.bufs[k] = m.bufs[k]
<1> DEFINE b == [m.bufs[i] EXCEPT !.size = n]
           s == [m.bufs EXCEPT ![i] = b]
<1>1. m.bufs[i] \in Buffers
  OBVIOUS
<1>2. b = [ptr |-> m.bufs[i].ptr, size |-> n, cap |-> m.bufs[i].cap] /\ b \in Buffers
  <2>1. m.bufs[i] = [ptr |-> m.bufs[i].ptr, size |-> m.bufs[i].size, cap |-> m.bufs[i].cap]
        /\ m.bufs[i].ptr \in Int /\ m.bufs[i].cap \in Nat
    BY <1>1 DEF Buffers
  <2>2. b = [ptr |-> m.bufs[i].ptr, size |-> n, cap |-> m.bufs[i].cap]
    BY <2>1, Extended
  <2> QED
    BY <2>1, <2>2 DEF Buffers
<1>3. r = [m EXCEPT !.bufs = s]
  BY DEF SetSize
<1> HIDE DEF b
<1>4. s \in Seq(Buffers) /\ Len(s) = Len(m.bufs) /\ s[i] = b
      /\ \A k \in 1..Len(m.bufs) : k # i => s[k] = m.bufs[k]
  BY <1>2
<1> HIDE DEF s
<1>5. [m EXCEPT !.bufs = s] = [blocks |-> m.blocks, bufs |-> s]
  OBVIOUS
<1> QED
  BY <1>2, <1>3, <1>4, <1>5

\* What buffer::resize makes of the memory buffer m: n characters, of which those
\* that were there are kept.
Wider(m, n, r) ==
  /\ r = [blocks |-> r.blocks, bufs |-> r.bufs]
  /\ r.bufs \in Seq(Buffers) /\ Len(r.bufs) = Len(m.bufs)
  /\ r.blocks = [b \in DOMAIN r.blocks |-> r.blocks[b]] /\ DOMAIN r.blocks \in SUBSET Nat
  /\ r.bufs[1].ptr \in DOMAIN r.blocks
  /\ r.bufs[1].size = n /\ n <= r.bufs[1].cap
  /\ Data(r) = [i \in 1..r.bufs[1].cap |-> Data(r)[i]]
  /\ \A i \in 1..m.bufs[1].size : Data(r)[i] = Data(m)[i]

LEMMA FirstResized ==
  ASSUME NEW m, MemOK(m), NEW n \in Nat, NEW below
  PROVE  /\ Wider(m, n, ResizeOne(m, below, 1, n))
         /\ \A k \in 2..Len(m.bufs) : ResizeOne(m, below, 1, n).bufs[k] = m.bufs[k]
<1>1. 1 \in 1..Len(m.bufs) /\ m.bufs[1].cap \in Nat /\ m.bufs[1].size \in Nat
      /\ \A k \in 2..Len(m.bufs) : k \in 1..Len(m.bufs) /\ k # 1
  <2>1. 1 \in 1..Len(m.bufs)
    BY DEF MemOK
  <2>2. m.bufs[1].cap \in Nat /\ m.bufs[1].size \in Nat /\ Len(m.bufs) \in Nat
    BY <2>1, BufferFields
  <2> QED
    BY <2>1, <2>2
<1>2. PICK g : g = IF n <= m.bufs[1].cap THEN m ELSE MemoryGrow(m, n)
  OBVIOUS
<1>3. PICK r : r = SetSize(g, 1, n)
  OBVIOUS
<1>4. ResizeOne(m, below, 1, n) = r
  BY <1>2, <1>3 DEF ResizeOne, SetSize
<1>5. /\ g = [blocks |-> g.blocks, bufs |-> g.bufs]
      /\ g.blocks = [b \in DOMAIN g.blocks |-> g.blocks[b]] /\ DOMAIN g.blocks \in SUBSET Nat
      /\ g.bufs \in Seq(Buffers) /\ Len(g.bufs) = Len(m.bufs)
      /\ \A k \in 2..Len(m.bufs) : g.bufs[k] = m.bufs[k]
      /\ g.bufs[1].ptr \in DOMAIN g.blocks
      /\ n <= g.bufs[1].cap
      /\ Data(g) = [i \in 1..g.bufs[1].cap |-> Data(g)[i]]
      /\ \A i \in 1..m.bufs[1].size : Data(g)[i] = Data(m)[i]
  <2>1. CASE n <= m.bufs[1].cap
    <3>1. g = m
      BY <1>2, <2>1
    <3> QED
      BY <2>1, <3>1 DEF MemOK
  <2>2. CASE ~(n <= m.bufs[1].cap)
    <3>1. n > m.bufs[1].cap
      BY <1>1, <2>2
    <3>2. g = MemoryGrow(m, n)
      BY <1>2, <2>2
    <3> QED
      BY <3>1, <3>2, MemoryGrows
  <2> QED
    BY <2>1, <2>2
<1>6. 1 \in 1..Len(g.bufs)
  BY <1>1, <1>5
<1>7. /\ r = [blocks |-> g.blocks, bufs |-> r.bufs]
      /\ r.bufs \in Seq(Buffers) /\ Len(r.bufs) = Len(g.bufs)
      /\ r.bufs[1] = [ptr |-> g.bufs[1].ptr, size |-> n, cap |-> g.bufs[1].cap]
      /\ \A k \in 1..Len(g.bufs) : k # 1 => r.bufs[k] = g.bufs[k]
  <2>1. g = [blocks |-> g.blocks, bufs |-> g.bufs] /\ g.bufs \in Seq(Buffers)
    BY <1>5
  <2> HIDE <1>5
  <2> QED
    BY <1>3, <1>6, <2>1, Sized
<1>8. r.blocks = g.blocks /\ r.bufs[1].ptr = g.bufs[1].ptr /\ r.bufs[1].size = n
      /\ r.bufs[1].cap = g.bufs[1].cap
  BY <1>7
<1>9. Data(r) = Data(g)
  BY <1>8 DEF Data
<1>10. Wider(m, n, r)
  BY <1>5, <1>7, <1>8, <1>9 DEF Wider
<1>11. \A k \in 2..Len(m.bufs) : r.bufs[k] = m.bufs[k]
  BY <1>1, <1>5, <1>7
<1> QED
  BY <1>4, <1>10, <1>11

\* A memory in which the first j buffers are resized.
UpTo(m, r, j, n) ==
  [blocks |-> r.blocks,
   bufs   |-> [k \in 1..Len(m.bufs) |->
                 IF k = 1 THEN r.bufs[1]
                 ELSE IF k <= j THEN [ptr |-> r.bufs[1].ptr, size |-> n, cap |-> n] ELSE m.bufs[k]]]

\* container_buffer::grow, with the buffer below resized: it points where that does.
LEMMA ContainerGrows ==
  ASSUME NEW m, MemOK(m), NEW n \in Nat, n > m.bufs[1].size, NEW r, Wider(m, n, r),
         NEW j \in 2..Len(m.bufs)
  PROVE  ResizeOne(m, UpTo(m, r, j - 1, n), j, n) = UpTo(m, r, j, n)
<1>1. Len(m.bufs) \in Nat /\ j \in 1..Len(m.bufs) /\ 1 \in 1..Len(m.bufs) /\ j - 1 \in 1..Len(m.bufs)
      /\ m.bufs \in Seq(Buffers) /\ j \in Int /\ j # 1
  BY DEF MemOK
<1>2. ~(n <= m.bufs[j].cap)
  <2>1. m.bufs[j].cap = m.bufs[1].size
    BY DEF MemOK
  <2>2. m.bufs[1].size \in Nat
    BY <1>1, BufferFields
  <2> QED
    BY <2>1, <2>2
<1>3. PICK p : p = r.bufs[1].ptr
  OBVIOUS
<1>4. PICK b : b = UpTo(m, r, j - 1, n)
  OBVIOUS
<1>5. b = [blocks |-> r.blocks, bufs |-> b.bufs] /\ DOMAIN b.bufs = 1..Len(m.bufs)
      /\ b.bufs = [k \in 1..Len(m.bufs) |-> b.bufs[k]]
  BY <1>4 DEF UpTo
<1>6. /\ b.bufs[j] = m.bufs[j] /\ b.bufs[1] = r.bufs[1]
      /\ \A k \in 2..(j - 1) : b.bufs[k] = [ptr |-> p, size |-> n, cap |-> n]
      /\ \A k \in (j + 1)..Len(m.bufs) : b.bufs[k] = m.bufs[k]
  BY <1>1, <1>3, <1>4 DEF UpTo
<1>7. b.bufs[j - 1].ptr = p
  <2>1. CASE j - 1 = 1
    BY <1>3, <1>6, <2>1
  <2>2. CASE j - 1 # 1
    <3>1. j - 1 \in 2..(j - 1)
      BY <1>1, <2>2
    <3> QED
      BY <1>6, <3>1
  <2> QED
    BY <2>1, <2>2
<1>8. m.bufs[j] = [ptr |-> m.bufs[j].ptr, size |-> m.bufs[j].size, cap |-> m.bufs[j].cap]
  BY <1>1, BufferFields
<1> DEFINE c == [m.bufs[j] EXCEPT !.ptr = p, !.cap = n]
           d == [c EXCEPT !.size = n]
<1>9. c = [ptr |-> p, size |-> m.bufs[j].size, cap |-> n]
  BY <1>8, Redirected
<1>10. PICK g : g = ContainerGrow(b, j, n)
  OBVIOUS
<1>11. g = [blocks |-> r.blocks, bufs |-> [b.bufs EXCEPT ![j] = c]]
  <2> DEFINE e == [b EXCEPT !.bufs = [b.bufs EXCEPT ![j] = [b.bufs[j] EXCEPT !.ptr = p]]]
  <2>1. e.bufs = [b.bufs EXCEPT ![j] = [b.bufs[j] EXCEPT !.ptr = p]]
        /\ e = [blocks |-> r.blocks, bufs |-> e.bufs]
    <3>1. PICK s : s = [b.bufs EXCEPT ![j] = [b.bufs[j] EXCEPT !.ptr = p]]
      OBVIOUS
    <3>2. b = [blocks |-> r.blocks, bufs |-> b.bufs]
      BY <1>5
    <3>3. [b EXCEPT !.bufs = s] = [blocks |-> r.blocks, bufs |-> s]
      BY <3>2
    <3> QED
      BY <3>1, <3>3
  <2>2. g = [e EXCEPT !.bufs = [e.bufs EXCEPT ![j] = [e.bufs[j] EXCEPT !.cap = n]]]
    BY <1>7, <1>10 DEF ContainerGrow
  <2> HIDE DEF e
  <2>3. e.bufs[j] = [m.bufs[j] EXCEPT !.ptr = p]
    BY <1>1, <1>5, <1>6, <2>1
  <2>4. [e.bufs[j] EXCEPT !.cap = n] = c
    BY <2>3
  <2> HIDE DEF c
  <2>5. [e.bufs EXCEPT ![j] = c] = [b.bufs EXCEPT ![j] = c]
    BY <1>5, <2>1
  <2> QED
    BY <2>1, <2>2, <2>4, <2>5
<1>12. ResizeOne(m, b, j, n) = [g EXCEPT !.bufs[j].size = n]
  BY <1>1, <1>2, <1>10 DEF ResizeOne
<1>13. d = [ptr |-> p, size |-> n, cap |-> n]
  <2> HIDE DEF c
  <2>1. c.ptr = p /\ c.cap = n /\ c = [ptr |-> c.ptr, size |-> c.size, cap |-> c.cap]
    BY <1>9
  <2> QED
    BY <2>1, Extended
<1> HIDE DEF c, d
<1>14. g.bufs[j] = c /\ g.bufs = [b.bufs EXCEPT ![j] = c] /\ g.blocks = r.blocks
  BY <1>1, <1>5, <1>11
<1>15. [g EXCEPT !.bufs[j].size = n] = [blocks |-> r.blocks, bufs |-> [b.bufs EXCEPT ![j] = d]]
  <2>1. [g EXCEPT !.bufs[j].size = n] = [blocks |-> r.blocks, bufs |-> [g.bufs EXCEPT ![j] = d]]
    BY <1>11, <1>14 DEF d
  <2>2. [g.bufs EXCEPT ![j] = d] = [b.bufs EXCEPT ![j] = d]
    BY <1>5, <1>14
  <2> QED
    BY <2>1, <2>2
<1>16. [b.bufs EXCEPT ![j] = d] = UpTo(m, r, j, n).bufs
  <2> DEFINE u == UpTo(m, r, j, n).bufs
  <2>1. u = [k \in 1..Len(m.bufs) |-> u[k]]
    BY DEF UpTo
  <2>2. /\ u[j] = d /\ u[1] = r.bufs[1]
        /\ \A k \in 2..(j - 1) : u[k] = [ptr |-> p, size |-> n, cap |-> n]
        /\ \A k \in (j + 1)..Len(m.bufs) : u[k] = m.bufs[k]
    BY <1>1, <1>3, <1>13 DEF UpTo
  <2> HIDE DEF u
  <2>3. \A k \in 1..Len(m.bufs) : k # j => u[k] = b.bufs[k]
    <3> SUFFICES ASSUME NEW k \in 1..Len(m.bufs), k # j PROVE u[k] = b.bufs[k]
      OBVIOUS
    <3>1. k = 1 \/ k \in 2..(j - 1) \/ k \in (j + 1)..Len(m.bufs)
      BY <1>1
    <3>2. CASE k = 1
      BY <1>6, <2>2, <3>2
    <3>3. CASE k \in 2..(j - 1)
      BY <1>6, <2>2, <3>3, Zenon
    <3>4. CASE k \in (j + 1)..Len(m.bufs)
      BY <1>6, <2>2, <3>4, Zenon
    <3> QED
      BY <3>1, <3>2, <3>3, <3>4
  <2>4. u = [b.bufs EXCEPT ![j] = d]
    BY <1>1, <1>5, <2>1, <2>2, <2>3
  <2> QED
    BY <2>4 DEF u
<1> QED
  BY <1>4, <1>12, <1>15, <1>16 DEF UpTo

\* The recursion from each buffer to the one below ends at the memory buffer, and
\* leaves all of them resized.
LEMMA ResizeAll ==
  ASSUME NEW m, MemOK(m), NEW n \in Nat, n > m.bufs[1].size
  PROVE  Resize(m, Len(m.bufs), n) = UpTo(m, ResizeOne(m, m, 1, n), Len(m.bufs), n)
<1>1. PICK r : r = ResizeOne(m, m, 1, n)
  OBVIOUS
<1>2. PICK top : top = Len(m.bufs)
  OBVIOUS
<1>3. top \in Nat \ {0} /\ 1 \in 1..top /\ top \in 1..top
  BY <1>2 DEF MemOK
<1>4. Wider(m, n, r) /\ \A k \in 2..Len(m.bufs) : r.bufs[k] = m.bufs[k]
  BY <1>1, FirstResized
<1>5. \A below : ResizeOne(m, below, 1, n) = r
  BY <1>1 DEF ResizeOne
<1>6. UpTo(m, r, 1, n) = r
  <2>1. r = [blocks |-> r.blocks, bufs |-> r.bufs] /\ r.bufs \in Seq(Buffers) /\ Len(r.bufs) = Len(m.bufs)
    BY <1>4 DEF Wider
  <2>2. r.bufs = [k \in 1..Len(m.bufs) |-> r.bufs[k]]
    BY <2>1
  <2>3. ASSUME NEW k \in 1..Len(m.bufs)
        PROVE  (IF k = 1 THEN r.bufs[1]
                ELSE IF k <= 1 THEN [ptr |-> r.bufs[1].ptr, size |-> n, cap |-> n] ELSE m.bufs[k]) = r.bufs[k]
    <3>1. CASE k = 1
      BY <3>1
    <3>2. CASE k # 1
      <4>1. ~(k <= 1) /\ k \in 2..Len(m.bufs)
        BY <1>2, <1>3, <3>2
      <4> QED
        BY <1>4, <3>2, <4>1
    <3> QED
      BY <3>1, <3>2
  <2> QED
    BY <2>1, <2>2, <2>3 DEF UpTo
<1> DEFINE G == [j \in 1..top |-> UpTo(m, r, j, n)]
           Solves(h) == h = [j \in 1..top |-> ResizeOne(m, h[j - 1], j, n)]
<1>7. Solves(G)
  <2>1. ASSUME NEW j \in 1..top PROVE ResizeOne(m, G[j - 1], j, n) = UpTo(m, r, j, n)
    <3>1. CASE j = 1
      BY <1>5, <1>6, <3>1, Zenon
    <3>2. CASE j # 1
      <4>1. j \in 2..Len(m.bufs) /\ j - 1 \in 1..top
        BY <1>2, <1>3, <3>2
      <4>2. G[j - 1] = UpTo(m, r, j - 1, n)
        BY <4>1
      <4>3. ResizeOne(m, UpTo(m, r, j - 1, n), j, n) = UpTo(m, r, j, n)
        BY <1>4, <4>1, ContainerGrows
      <4> QED
        BY <4>2, <4>3
    <3> QED
      BY <3>1, <3>2
  <2> QED
    BY <2>1
<1>8. PICK F : F = CHOOSE h : Solves(h)
  OBVIOUS
<1>9. Resize(m, top, n) = F[top]
  BY <1>8 DEF Resize
<1> HIDE DEF G
<1>10. F = [j \in 1..top |-> ResizeOne(m, F[j - 1], j, n)]
  BY <1>7, <1>8
<1>11. \A j \in 1..top : F[j] = UpTo(m, r, j, n)
  <2> DEFINE T == {j \in 1..top : F[j] # UpTo(m, r, j, n)}
  <2> SUFFICES ASSUME T # {} PROVE FALSE
    OBVIOUS
  <2>1. \A j \in 1..top : j \in Nat
    BY <1>3
  <2>2. T \in SUBSET Nat
    BY <2>1
  <2>3. PICK j \in T : \A k \in T : j <= k
    <3> HIDE DEF T
    <3> QED BY <2>2, LeastElement
  <2>4. j \in 1..top /\ F[j] # UpTo(m, r, j, n) /\ F[j] = ResizeOne(m, F[j - 1], j, n)
    BY <1>10
  <2>5. j # 1
    BY <1>5, <1>6, <2>4
  <2>6. j \in 2..Len(m.bufs) /\ j - 1 \in 1..top /\ ~(j <= j - 1)
    BY <1>2, <1>3, <2>4, <2>5
  <2>7. F[j - 1] = UpTo(m, r, j - 1, n)
    BY <2>3, <2>6
  <2>8. ResizeOne(m, UpTo(m, r, j - 1, n), j, n) = UpTo(m, r, j, n)
    BY <1>4, <2>6, ContainerGrows
  <2> QED
    BY <2>4, <2>7, <2>8
<1> QED
  BY <1>1, <1>2, <1>3, <1>9, <1>11

\* When nothing is to be added, every buffer stays as it is.
LEMMA ResizeNone ==
  ASSUME NEW m, MemOK(m)
  PROVE  Resize(m, Len(m.bufs), m.bufs[1].size) = m
<1>1. PICK top : top = Len(m.bufs)
  OBVIOUS
<1>2. PICK n : n = m.bufs[1].size
  OBVIOUS
<1>3. top \in 1..top /\ top \in Nat
  BY <1>1 DEF MemOK
<1> DEFINE G == [j \in 1..top |-> m]
           Solves(h) == h = [j \in 1..top |-> ResizeOne(m, h[j - 1], j, n)]
<1>4. ASSUME NEW j \in 1..top, NEW below PROVE ResizeOne(m, below, j, n) = m
  <2>1. m.bufs[j].size = n /\ n <= m.bufs[j].cap /\ n \in Nat
    <3>1. 1 \in 1..Len(m.bufs) /\ n \in Nat
      <4>1. 1 \in 1..Len(m.bufs)
        BY DEF MemOK
      <4> QED
        BY <1>2, <4>1, BufferFields
    <3>2. CASE j = 1
      BY <1>2, <3>1, <3>2 DEF MemOK
    <3>3. CASE j # 1
      <4>1. j \in 2..Len(m.bufs)
        BY <1>1, <1>3, <3>3
      <4> QED
        BY <1>2, <3>1, <4>1 DEF MemOK
    <3> QED
      BY <3>2, <3>3
  <2>2. ResizeOne(m, below, j, n) = SetSize(m, j, n)
    BY <2>1 DEF ResizeOne, SetSize
  <2>3. m = [blocks |-> m.blocks, bufs |-> m.bufs] /\ m.bufs \in Seq(Buffers) /\ j \in 1..Len(m.bufs)
    BY <1>1 DEF MemOK
  <2>4. PICK r : r = SetSize(m, j, n)
    OBVIOUS
  <2>5. /\ r = [blocks |-> m.blocks, bufs |-> r.bufs]
        /\ r.bufs \in Seq(Buffers) /\ Len(r.bufs) = Len(m.bufs)
        /\ r.bufs[j] = [ptr |-> m.bufs[j].ptr, size |-> n, cap |-> m.bufs[j].cap]
        /\ \A k \in 1..Len(m.bufs) : k # j => r.bufs[k] = m.bufs[k]
    BY <2>1, <2>3, <2>4, Sized
  <2>6. r.bufs[j] = m.bufs[j]
    BY <2>1, <2>3, <2>5, BufferFields
  <2>7. r.bufs = m.bufs
    BY <2>3, <2>5, <2>6
  <2> QED
    BY <2>2, <2>3, <2>4, <2>5, <2>7
<1>5. Solves(G)
  BY <1>4
<1>6. PICK F : F = CHOOSE h : Solves(h)
  OBVIOUS
<1>7. Resize(m, top, n) = F[top]
  BY <1>6 DEF Resize
<1> HIDE DEF G
<1>8. F = [j \in 1..top |-> ResizeOne(m, F[j - 1], j, n)]
  BY <1>5, <1>6
<1> QED
  BY <1>1, <1>2, <1>3, <1>4, <1>7, <1>8

\* The parts of a memory.
LEMMA SetParts ==
  ASSUME NEW m, m = [blocks |-> m.blocks, bufs |-> m.bufs], NEW v
  PROVE  /\ [m EXCEPT !.bufs = v] = [blocks |-> m.blocks, bufs |-> v]
         /\ [m EXCEPT !.blocks = v] = [blocks |-> v, bufs |-> m.bufs]
OBVIOUS

\* Nothing that was written in a is lost in b.
Keeps(a, b) ==
  /\ Len(b.bufs) = Len(a.bufs) /\ a.bufs[1].size <= b.bufs[1].size
  /\ \A i \in 1..a.bufs[1].size : Data(b)[i] = Data(a)[i]

\* All buffers are resized, and what they hold is kept.
LEMMA ResizeKeeps ==
  ASSUME NEW m, MemOK(m), NEW n \in Nat, m.bufs[1].size <= n,
         NEW r, r = Resize(m, Len(m.bufs), n)
  PROVE  MemOK(r) /\ Keeps(m, r) /\ r.bufs[1].size = n
<1>1. m.bufs[1].size \in Nat /\ Len(m.bufs) \in Nat \ {0} /\ 1 \in 1..Len(m.bufs) /\ m.bufs \in Seq(Buffers)
  <2>1. 1 \in 1..Len(m.bufs)
    BY DEF MemOK
  <2> QED
    BY <2>1, BufferFields DEF MemOK
<1>2. CASE n = m.bufs[1].size
  <2>1. r = m
    BY <1>2, ResizeNone
  <2> QED
    BY <1>1, <1>2, <2>1 DEF Keeps
<1>3. CASE n > m.bufs[1].size
  <2>1. PICK s : s = ResizeOne(m, m, 1, n)
    OBVIOUS
  <2>2. r = UpTo(m, s, Len(m.bufs), n)
    BY <1>3, <2>1, ResizeAll
  <2>3. Wider(m, n, s)
    BY <2>1, FirstResized
  <2>4. /\ s.bufs \in Seq(Buffers) /\ Len(s.bufs) = Len(m.bufs)
        /\ s.blocks = [b \in DOMAIN s.blocks |-> s.blocks[b]] /\ DOMAIN s.blocks \in SUBSET Nat
        /\ s.bufs[1].ptr \in DOMAIN s.blocks
        /\ s.bufs[1].size = n /\ n <= s.bufs[1].cap
        /\ Data(s) = [i \in 1..s.bufs[1].cap |-> Data(s)[i]]
        /\ \A i \in 1..m.bufs[1].size : Data(s)[i] = Data(m)[i]
    BY <2>3 DEF Wider
  <2>5. s.bufs[1] \in Buffers /\ s.bufs[1].ptr \in Int
    <3>1. s.bufs[1] \in Buffers
      BY <1>1, <2>4
    <3> QED
      BY <3>1 DEF Buffers
  <2> DEFINE low == [ptr |-> s.bufs[1].ptr, size |-> n, cap |-> n]
  <2>6. low \in Buffers
    BY <2>5 DEF Buffers
  <2>7. /\ r = [blocks |-> s.blocks, bufs |-> r.bufs]
        /\ r.bufs = [k \in 1..Len(m.bufs) |-> IF k = 1 THEN s.bufs[1]
                                              ELSE IF k <= Len(m.bufs) THEN low ELSE m.bufs[k]]
    BY <2>2 DEF UpTo
  <2>8. \A k \in 1..Len(m.bufs) : k <= Len(m.bufs)
    BY <1>1
  <2> HIDE DEF low
  <2>9. /\ r.bufs = [k \in 1..Len(m.bufs) |-> IF k = 1 THEN s.bufs[1] ELSE low]
        /\ r.bufs[1] = s.bufs[1]
    BY <1>1, <2>7, <2>8
  <2>10. r.bufs \in Seq(Buffers) /\ Len(r.bufs) = Len(m.bufs)
         /\ \A k \in 2..Len(m.bufs) : r.bufs[k] = low
    BY <1>1, <2>5, <2>6, <2>9
  <2>11. Data(r) = Data(s) /\ r.blocks = s.blocks
    BY <2>7, <2>9 DEF Data
  <2>12. r = [blocks |-> r.blocks, bufs |-> r.bufs]
    BY <2>7, <2>11
  <2>13. low.ptr = s.bufs[1].ptr /\ low.size = n /\ low.cap = n
    BY DEF low
  <2>14. \A k \in 2..Len(r.bufs) :
           /\ r.bufs[k].size = r.bufs[1].size /\ r.bufs[k].cap = r.bufs[1].size
           /\ r.bufs[k].ptr \in {NullPtr, r.bufs[1].ptr}
    BY <2>4, <2>9, <2>10, <2>13
  <2>15. MemOK(r)
    <3>1. Len(r.bufs) >= 1
      BY <1>1, <2>10
    <3>2. r.bufs[1].ptr \in DOMAIN r.blocks /\ r.bufs[1].size <= r.bufs[1].cap
          /\ Data(r) = [i \in 1..r.bufs[1].cap |-> Data(r)[i]]
      BY <2>4, <2>9, <2>11
    <3>3. r.blocks = [b \in DOMAIN r.blocks |-> r.blocks[b]] /\ DOMAIN r.blocks \in SUBSET Nat
      BY <2>4, <2>11
    <3> QED
      BY <2>10, <2>12, <2>14, <3>1, <3>2, <3>3 DEF MemOK
  <2>16. Keeps(m, r)
    BY <2>4, <2>9, <2>10, <2>11 DEF Keeps
  <2> QED
    BY <2>4, <2>9, <2>15, <2>16
<1> QED
  BY <1>1, <1>2, <1>3

\* reserve and copy: what is written comes after what was.
LEMMA PutKeeps ==
  ASSUME NEW m, MemOK(m), NEW w, w.room \in Nat
  PROVE  MemOK(Put(m, w)) /\ Keeps(m, Put(m, w))
<1>1. PICK top : top = Len(m.bufs)
  OBVIOUS
<1>2. PICK start : start = m.bufs[1].size
  OBVIOUS
<1>3. /\ m.bufs[top].size = start /\ start \in Nat /\ top \in Nat \ {0}
      /\ top = 1 \/ top \in 2..Len(m.bufs)
  <2>1. 1 \in 1..Len(m.bufs)
    BY DEF MemOK
  <2>2. start \in Nat /\ top \in Nat \ {0}
    BY <1>1, <1>2, <2>1, BufferFields
  <2>3. top = 1 \/ top \in 2..Len(m.bufs)
    <3>1. top = 1 \/ top \in 2..top
      BY <2>2
    <3> QED
      BY <1>1, <3>1
  <2>4. m.bufs[top].size = start
    BY <1>2, <2>3 DEF MemOK
  <2> QED
    BY <2>2, <2>3, <2>4
<1>4. PICK made : made = Resize(m, top, start + w.room)
  OBVIOUS
<1>5. MemOK(made) /\ Keeps(m, made) /\ made.bufs[1].size = start + w.room /\ start + w.room \in Nat
  <2>1. start + w.room \in Nat /\ start <= start + w.room
    BY <1>3
  <2> QED
    BY <1>1, <1>2, <1>4, <2>1, ResizeKeeps
<1>6. PICK ptr : ptr = made.bufs[top].ptr
  OBVIOUS
<1>7. CASE ptr \notin DOMAIN made.blocks
  <2>1. Put(m, w) = made
    BY <1>1, <1>3, <1>4, <1>6, <1>7 DEF Put
  <2> QED
    BY <1>5, <2>1
<1>8. CASE ptr \in DOMAIN made.blocks
  <2>1. ptr = made.bufs[1].ptr
    <3>1. NullPtr \notin DOMAIN made.blocks
      BY <1>5 DEF MemOK, NullPtr
    <3>2. ptr \in {NullPtr, made.bufs[1].ptr}
      <4>1. Len(made.bufs) = Len(m.bufs)
        BY <1>5 DEF Keeps
      <4>2. CASE top = 1
        BY <1>6, <4>2
      <4>3. CASE top \in 2..Len(m.bufs)
        BY <1>5, <1>6, <4>1, <4>3 DEF MemOK
      <4> QED
        BY <1>3, <4>2, <4>3
    <3> QED
      BY <1>8, <3>1, <3>2
  <2> DEFINE Cell(i) == IF i \in (start + 1)..(start + Len(w.text))
                        THEN w.text[i - start] ELSE made.blocks[ptr][i]
             B == [i \in DOMAIN made.blocks[ptr] |-> Cell(i)]
             p == [made EXCEPT !.blocks[ptr] = B]
  <2>2. Put(m, w) = p
    BY <1>1, <1>3, <1>4, <1>6, <1>8 DEF Put
  <2>3. PICK cap : cap = made.bufs[1].cap
    OBVIOUS
  <2>4. /\ made = [blocks |-> made.blocks, bufs |-> made.bufs]
        /\ made.blocks = [b \in DOMAIN made.blocks |-> made.blocks[b]]
        /\ DOMAIN made.blocks \in SUBSET Nat
        /\ made.blocks[ptr] = [i \in 1..cap |-> made.blocks[ptr][i]]
    BY <1>5, <2>1, <2>3 DEF MemOK, Data
  <2>5. DOMAIN made.blocks[ptr] = 1..cap
    BY <2>4
  <2>6. B = [i \in 1..cap |-> B[i]]
    BY <2>5
  <2>7. ASSUME NEW i \in 1..start PROVE B[i] = made.blocks[ptr][i]
    <3>1. start <= cap /\ cap \in Nat
      <4>1. start <= start + w.room /\ start + w.room <= cap
        BY <1>3, <1>5, <2>3 DEF MemOK
      <4>2. 1 \in 1..Len(made.bufs)
        BY <1>5 DEF MemOK
      <4>3. cap \in Nat
        BY <1>5, <2>3, <4>2, BufferFields
      <4> QED
        BY <1>3, <4>1, <4>3
    <3>2. i \in 1..cap /\ i \notin (start + 1)..(start + Len(w.text))
      BY <1>3, <3>1
    <3> QED
      BY <2>5, <3>2
  <2> HIDE DEF B
  <2>8. p = [blocks |-> [made.blocks EXCEPT ![ptr] = B], bufs |-> made.bufs]
    <3>1. PICK v : v = [made.blocks EXCEPT ![ptr] = B]
      OBVIOUS
    <3>2. made = [blocks |-> made.blocks, bufs |-> made.bufs]
      BY <2>4
    <3>3. p = [made EXCEPT !.blocks = v]
      BY <3>1
    <3>4. [made EXCEPT !.blocks = v] = [blocks |-> v, bufs |-> made.bufs]
      BY <3>2, SetParts
    <3> QED
      BY <3>1, <3>3, <3>4
  <2> HIDE DEF p
  <2>9. /\ p = [blocks |-> p.blocks, bufs |-> p.bufs] /\ p.bufs = made.bufs
        /\ p.blocks = [made.blocks EXCEPT ![ptr] = B]
    BY <2>8
  <2>10. /\ p.blocks = [b \in DOMAIN p.blocks |-> p.blocks[b]]
         /\ DOMAIN p.blocks = DOMAIN made.blocks /\ p.blocks[ptr] = B
    BY <1>8, <2>4, <2>9
  <2>11. Data(p) = B /\ Data(made) = made.blocks[ptr]
    BY <2>1, <2>9, <2>10 DEF Data
  <2>12. MemOK(p)
    BY <1>5, <2>3, <2>6, <2>9, <2>10, <2>11 DEF MemOK
  <2>13. Keeps(m, p)
    BY <1>2, <1>5, <2>7, <2>9, <2>11 DEF Keeps
  <2> QED
    BY <2>2, <2>12, <2>13
<1> QED
  BY <1>7, <1>8

\* What was written is a prefix of what is written then.
LEMMA KeepsContents ==
  ASSUME NEW a, NEW b, MemOK(a), MemOK(b), Keeps(a, b)
  PROVE  IsPrefix(Contents(a), Contents(b))
<1>1. ASSUME NEW m, MemOK(m)
      PROVE  /\ Contents(m) = [i \in 1..m.bufs[1].size |-> Data(m)[i]]
             /\ Len(Contents(m)) = m.bufs[1].size
             /\ m.bufs[1].size \in Nat
             /\ \E S : Contents(m) \in Seq(S)
  <2>1. 1 \in 1..Len(m.bufs)
    BY <1>1 DEF MemOK
  <2>2. m.bufs[1].size \in Nat /\ m.bufs[1].cap \in Nat
    BY <1>1, <2>1, BufferFields
  <2>3. Data(m) = [i \in 1..m.bufs[1].cap |-> Data(m)[i]] /\ m.bufs[1].size <= m.bufs[1].cap
    BY <1>1 DEF MemOK
  <2> DEFINE S == {Data(m)[i] : i \in 1..m.bufs[1].cap}
  <2>4. Data(m) \in Seq(S) /\ Len(Data(m)) = m.bufs[1].cap
    <3>1. PICK c : c = m.bufs[1].cap
      OBVIOUS
    <3>2. PICK d : d = Data(m)
      OBVIOUS
    <3>3. d = [i \in 1..c |-> d[i]] /\ c \in Nat
      BY <2>2, <2>3, <3>1, <3>2
    <3>4. \A i \in 1..c : d[i] \in S
      BY <3>1, <3>2
    <3> HIDE DEF S
    <3>5. d \in [1..c -> S]
      BY <3>3, <3>4
    <3>6. d \in Seq(S) /\ Len(d) = c
      BY <3>3, <3>5
    <3> QED
      BY <3>1, <3>2, <3>6
  <2>5. Contents(m) = SubSeq(Data(m), 1, m.bufs[1].size)
    BY DEF Contents, Data
  <2> HIDE DEF S
  <2>6. /\ Contents(m) \in Seq(S) /\ Len(Contents(m)) = m.bufs[1].size
        /\ \A i \in 1..m.bufs[1].size : Contents(m)[i] = Data(m)[i]
    <3>1. PICK d : d = Data(m)
      OBVIOUS
    <3>2. PICK k : k = m.bufs[1].size
      OBVIOUS
    <3>3. d \in Seq(S) /\ k \in Nat /\ k <= Len(d)
      BY <2>2, <2>3, <2>4, <3>1, <3>2
    <3>4. /\ SubSeq(d, 1, k) \in Seq(S) /\ Len(SubSeq(d, 1, k)) = k
          /\ \A i \in 1..k : SubSeq(d, 1, k)[i] = d[i]
      BY <3>3
    <3> QED
      BY <2>5, <3>1, <3>2, <3>4
  <2> QED
    <3>1. Contents(m) = [i \in 1..m.bufs[1].size |-> Contents(m)[i]]
      BY <2>6
    <3>2. [i \in 1..m.bufs[1].size |-> Contents(m)[i]] = [i \in 1..m.bufs[1].size |-> Data(m)[i]]
      BY <2>6
    <3> QED
      BY <2>2, <2>6, <3>1, <3>2
<1>2. PICK S : Contents(a) \in Seq(S)
  BY <1>1
<1>3. PICK U : Contents(b) \in Seq(U)
  BY <1>1
<1>4. PICK n : n = a.bufs[1].size
  OBVIOUS
<1>5. n \in Nat /\ Len(Contents(a)) = n /\ Len(Contents(b)) \in Nat /\ n <= Len(Contents(b))
  BY <1>1, <1>4 DEF Keeps
<1>6. \A i \in 1..n : Contents(a)[i] = Contents(b)[i]
  <2> SUFFICES ASSUME NEW i \in 1..n PROVE Contents(a)[i] = Contents(b)[i]
    OBVIOUS
  <2>1. Data(a)[i] = Data(b)[i]
    BY <1>4 DEF Keeps
  <2>2. Contents(a)[i] = Data(a)[i]
    BY <1>1, <1>4
  <2>3. Contents(b)[i] = Data(b)[i]
    <3>1. i \in 1..b.bufs[1].size
      BY <1>1, <1>5
    <3>2. Contents(b) = [k \in 1..b.bufs[1].size |-> Data(b)[k]]
      BY <1>1
    <3> QED
      BY <3>1, <3>2
  <2> QED
    BY <2>1, <2>2, <2>3
<1>7. SubSeq(Contents(a), 1, n) = SubSeq(Contents(b), 1, n)
  <2>1. SubSeq(Contents(a), 1, n) \in Seq(S) /\ Len(SubSeq(Contents(a), 1, n)) = n
        /\ \A i \in 1..n : SubSeq(Contents(a), 1, n)[i] = Contents(a)[i]
    BY <1>2, <1>5
  <2>2. SubSeq(Contents(b), 1, n) \in Seq(U) /\ Len(SubSeq(Contents(b), 1, n)) = n
        /\ \A i \in 1..n : SubSeq(Contents(b), 1, n)[i] = Contents(b)[i]
    BY <1>3, <1>5
  <2> QED
    BY <1>6, <2>1, <2>2
<1> QED
  BY <1>5, <1>7 DEF IsPrefix

\* A call inside another has a buffer of its own, as large as what was written.
LEMMA AboveKeeps ==
  ASSUME NEW m, MemOK(m)
  PROVE  /\ MemOK(Above(m)) /\ Len(Above(m).bufs) = Len(m.bufs) + 1
         /\ Contents(Above(m)) = Contents(m)
<1>1. 1 \in 1..Len(m.bufs) /\ Len(m.bufs) \in Nat \ {0} /\ m.bufs \in Seq(Buffers)
      /\ m = [blocks |-> m.blocks, bufs |-> m.bufs]
  BY DEF MemOK
<1>2. m.bufs[1].size \in Nat
  BY <1>1, BufferFields
<1>3. Last(m.bufs).size = m.bufs[1].size
  <2>1. CASE Len(m.bufs) = 1
    BY <2>1 DEF Last
  <2>2. CASE Len(m.bufs) # 1
    <3>1. PICK top : top = Len(m.bufs)
      OBVIOUS
    <3>2. top \in Nat \ {0} /\ top # 1
      BY <1>1, <2>2, <3>1
    <3>3. top \in 2..top
      BY <3>2
    <3>4. m.bufs[top].size = m.bufs[1].size
      BY <3>1, <3>3 DEF MemOK
    <3> QED
      BY <3>1, <3>4 DEF Last
  <2> QED
    BY <2>1, <2>2
<1> DEFINE new == [ptr |-> NullPtr, size |-> m.bufs[1].size, cap |-> m.bufs[1].size]
           a == [blocks |-> m.blocks, bufs |-> Append(m.bufs, new)]
<1>4. Above(m) = a
  <2>1. PICK v : v = Append(m.bufs, new)
    OBVIOUS
  <2>2. Above(m) = [m EXCEPT !.bufs = v]
    BY <1>3, <2>1 DEF Above
  <2>3. [m EXCEPT !.bufs = v] = [blocks |-> m.blocks, bufs |-> v]
    BY <1>1, SetParts
  <2> QED
    BY <2>1, <2>2, <2>3
<1>5. new \in Buffers
  BY <1>2 DEF Buffers, NullPtr
<1> HIDE DEF new
<1>6. /\ a.bufs \in Seq(Buffers) /\ Len(a.bufs) = Len(m.bufs) + 1
      /\ \A k \in 1..Len(m.bufs) : a.bufs[k] = m.bufs[k]
      /\ a.bufs[Len(m.bufs) + 1] = new
  BY <1>1, <1>5
<1>7. a.blocks = m.blocks /\ a.bufs[1] = m.bufs[1] /\ a = [blocks |-> a.blocks, bufs |-> a.bufs]
  BY <1>1, <1>6
<1> HIDE DEF a
<1>8. Data(a) = Data(m) /\ Contents(a) = Contents(m)
  BY <1>7 DEF Data, Contents
<1>9. ASSUME NEW i \in 2..Len(a.bufs)
      PROVE  /\ a.bufs[i].size = a.bufs[1].size /\ a.bufs[i].cap = a.bufs[1].size
             /\ a.bufs[i].ptr \in {NullPtr, a.bufs[1].ptr}
  <2>1. CASE i = Len(m.bufs) + 1
    BY <1>6, <1>7, <2>1 DEF new
  <2>2. CASE i # Len(m.bufs) + 1
    <3>1. i \in 2..Len(m.bufs) /\ i \in 1..Len(m.bufs)
      BY <1>1, <1>6, <2>2
    <3> QED
      BY <1>6, <1>7, <3>1 DEF MemOK
  <2> QED
    BY <2>1, <2>2
<1>10. Len(a.bufs) >= 1
  BY <1>1, <1>6
<1>11. MemOK(a)
  <2>1. /\ a.blocks = [b \in DOMAIN a.blocks |-> a.blocks[b]] /\ DOMAIN a.blocks \in SUBSET Nat
        /\ a.bufs[1].ptr \in DOMAIN a.blocks
        /\ Data(a) = [i \in 1..a.bufs[1].cap |-> Data(a)[i]]
        /\ a.bufs[1].size <= a.bufs[1].cap
    BY <1>7, <1>8 DEF MemOK
  <2> QED
    BY <1>6, <1>7, <1>9, <1>10, <2>1 DEF MemOK
<1> QED
  BY <1>4, <1>6, <1>8, <1>11

\* ... and leaves what it has written.
LEMMA BelowKeeps ==
  ASSUME NEW m, MemOK(m), Len(m.bufs) > 1
  PROVE  /\ MemOK(Below(m)) /\ Len(Below(m).bufs) = Len(m.bufs) - 1
         /\ Contents(Below(m)) = Contents(m)
<1>1. Len(m.bufs) \in Nat /\ m.bufs \in Seq(Buffers) /\ m = [blocks |-> m.blocks, bufs |-> m.bufs]
  BY DEF MemOK
<1>2. PICK s : s = SubSeq(m.bufs, 1, Len(m.bufs) - 1)
  OBVIOUS
<1>3. /\ s \in Seq(Buffers) /\ Len(s) = Len(m.bufs) - 1
      /\ \A k \in 1..(Len(m.bufs) - 1) : s[k] = m.bufs[k]
  BY <1>1, <1>2
<1>4. PICK a : a = [blocks |-> m.blocks, bufs |-> s]
  OBVIOUS
<1>5. Below(m) = a
  <2>1. Below(m) = [m EXCEPT !.bufs = s]
    BY <1>2 DEF Below, Front
  <2>2. [m EXCEPT !.bufs = s] = a
    BY <1>1, <1>4, SetParts
  <2> QED
    BY <2>1, <2>2
<1>6. 1 \in 1..(Len(m.bufs) - 1)
  BY <1>1
<1>7. /\ a.blocks = m.blocks /\ a.bufs = s /\ a = [blocks |-> a.blocks, bufs |-> a.bufs]
      /\ a.bufs[1] = m.bufs[1]
  BY <1>3, <1>4, <1>6
<1>8. Data(a) = Data(m) /\ Contents(a) = Contents(m)
  BY <1>7 DEF Data, Contents
<1>9. ASSUME NEW i \in 2..Len(a.bufs)
      PROVE  /\ a.bufs[i].size = a.bufs[1].size /\ a.bufs[i].cap = a.bufs[1].size
             /\ a.bufs[i].ptr \in {NullPtr, a.bufs[1].ptr}
  <2>1. i \in 2..Len(m.bufs) /\ i \in 1..(Len(m.bufs) - 1)
    BY <1>1, <1>3, <1>7
  <2> QED
    BY <1>3, <1>7, <2>1 DEF MemOK
<1>10. /\ a.blocks = [b \in DOMAIN a.blocks |-> a.blocks[b]] /\ DOMAIN a.blocks \in SUBSET Nat
       /\ a.bufs[1].ptr \in DOMAIN a.blocks
       /\ Data(a) = [i \in 1..a.bufs[1].cap |-> Data(a)[i]]
       /\ a.bufs[1].size <= a.bufs[1].cap
  BY <1>7, <1>8 DEF MemOK
<1>11. Len(a.bufs) >= 1 /\ a.bufs \in Seq(Buffers)
  BY <1>1, <1>3, <1>7
<1> QED
  BY <1>3, <1>5, <1>7, <1>8, <1>9, <1>10, <1>11 DEF MemOK

-----------------------------------------------------------------------------
\* One buffer for each call, as it must be.
MemInv == MemOK(mem) /\ Len(mem.bufs) = Len(stack)

\* What a step does to the buffers: they stay in order and nothing written is lost.
LEMMA StepKeepsMemory ==
  ASSUME StackOK, MemInv, ReservesWhatItWrites, [FNext]_fvars
  PROVE  MemInv' /\ IsPrefix(Contents(mem), Contents(mem'))
<1>1. Steps
  BY StepKeeps
<1>2. IsPrefix(Contents(mem), Contents(mem))
  <2>1. mem.bufs[1].size <= mem.bufs[1].size
    <3>1. 1 \in 1..Len(mem.bufs) /\ MemOK(mem)
      BY DEF MemInv, MemOK
    <3>2. mem.bufs[1].size \in Nat
      BY <3>1, BufferFields
    <3> QED
      BY <3>2
  <2>2. Keeps(mem, mem)
    BY <2>1 DEF Keeps
  <2> QED
    BY <2>2, KeepsContents DEF MemInv
<1>3. CASE SameCalls
  <2>1. CASE mem' = mem
    BY <1>2, <1>3, <2>1 DEF MemInv, SameCalls
  <2>2. CASE mem' # mem
    <3>1. PICK w : w.room \in Nat /\ mem' = Put(mem, w)
      BY <1>3, <2>2 DEF SameCalls
    <3>2. MemOK(Put(mem, w)) /\ Keeps(mem, Put(mem, w))
      BY <3>1, PutKeeps DEF MemInv
    <3>3. IsPrefix(Contents(mem), Contents(Put(mem, w)))
      BY <3>2, KeepsContents DEF MemInv
    <3>4. Len(mem.bufs) = Len(Put(mem, w).bufs)
      BY <3>2 DEF Keeps
    <3> QED
      BY <1>3, <3>1, <3>2, <3>3, <3>4 DEF MemInv, SameCalls
  <2> QED
    BY <2>1, <2>2
<1>4. CASE Len(stack') = Len(stack) + 1 /\ mem' = Above(mem)
  BY <1>2, <1>4, AboveKeeps DEF MemInv
<1>5. CASE Len(stack) > 1 /\ Len(stack') = Len(stack) - 1 /\ mem' = Below(mem)
  BY <1>2, <1>5, BelowKeeps DEF MemInv
<1> QED
  BY <1>1, <1>3, <1>4, <1>5 DEF Steps

\* The calls and the buffers of a behaviour of which every text fits into its room.
LEMMA MemorySound ==
  ASSUME NEW Chars, NEW string \in Seq(Chars), NEW args, NEW checks \in BOOLEAN
  PROVE  Format(string, args, checks) /\ [][FNext]_fvars /\ []ReservesWhatItWrites
           => [](StackOK /\ MemInv)
<1>1. Format(string, args, checks) => StackOK /\ MemInv
  BY FirstCall, EmptyOK DEF Format, MemInv
<1>2. StackOK /\ MemInv /\ ReservesWhatItWrites /\ [FNext]_fvars => (StackOK /\ MemInv)'
  BY StepKeeps, StepKeepsMemory DEF Steps, SameCalls
<1> QED
  BY <1>1, <1>2, PTL

\* While what is reserved for a text is a size, the buffers of the calls that run
\* inside each other are in step, whatever they write and however deep they are:
\* each knows the data the memory buffer has now, and is as large as what was
\* written (container_buffer::grow, core.h:718; basic_memory_buffer::grow,
\* format.h:709).
THEOREM BuffersStayInStep ==
  ASSUME NEW Chars, NEW string \in Seq(Chars), NEW args, NEW checks \in BOOLEAN
  PROVE  Format(string, args, checks) /\ [][FNext]_fvars /\ []ReservesWhatItWrites
           => []BuffersInStep
<1>1. MemInv => BuffersInStep
  <2> SUFFICES ASSUME MemInv, NEW i \in 1..Len(mem.bufs)
               PROVE  /\ mem.bufs[i].size <= mem.bufs[i].cap
                      /\ i > 1 => /\ mem.bufs[i].size = mem.bufs[i - 1].size
                                  /\ mem.bufs[i].ptr \in {NullPtr, mem.bufs[1].ptr}
                                  /\ mem.bufs[i].ptr = NullPtr => mem.bufs[i].cap = mem.bufs[i].size
    BY DEF BuffersInStep
  <2>1. MemOK(mem) /\ Len(mem.bufs) \in Nat
    BY DEF MemInv, MemOK
  <2>2. CASE i = 1
    BY <2>1, <2>2 DEF MemOK
  <2>3. CASE i > 1
    <3>1. i \in 2..Len(mem.bufs) /\ (i - 1 = 1 \/ i - 1 \in 2..Len(mem.bufs))
      BY <2>1, <2>3
    <3>2. /\ mem.bufs[i].size = mem.bufs[1].size /\ mem.bufs[i].cap = mem.bufs[1].size
          /\ mem.bufs[i].ptr \in {NullPtr, mem.bufs[1].ptr}
      BY <2>1, <3>1 DEF MemOK
    <3>3. mem.bufs[i - 1].size = mem.bufs[1].size
      BY <2>1, <3>1 DEF MemOK
    <3>4. mem.bufs[i].size \in Nat
      BY <2>1, BufferFields
    <3> QED
      BY <3>2, <3>3, <3>4
  <2> QED
    BY <2>1, <2>2, <2>3
<1> QED
  BY <1>1, MemorySound, PTL

\* Under the same condition what was written stays: no growth of any buffer, and no
\* call inside another, changes a character that is in the output already
\* (basic_memory_buffer::grow, format.h:709; buffer::resize, core.h:684).
THEOREM OutputOnlyGrows ==
  ASSUME NEW Chars, NEW string \in Seq(Chars), NEW args, NEW checks \in BOOLEAN
  PROVE  Format(string, args, checks) /\ [][FNext]_fvars /\ []ReservesWhatItWrites
           => OnlyAppends
<1>1. StackOK /\ MemInv /\ ReservesWhatItWrites /\ [FNext]_fvars
        => [IsPrefix(Contents(mem), Contents(mem'))]_mem
  BY StepKeepsMemory
<1> QED
  BY <1>1, MemorySound, PTL DEF OnlyAppends
=============================================================================
