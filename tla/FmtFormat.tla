------------------------------ MODULE FmtFormat -------------------------------
(***************************************************************************)
(* fmt::format (src/format/fmt/format.h): parse_format_string reads a       *)
(* format string, format_handler finds the arguments it names and writes    *)
(* them.  The argument of a custom type is TestStructA of                   *)
(* src/format/custom_struct.h, whose formatter calls format_to for the same *)
(* output while the first call is not finished: stack holds the calls that  *)
(* are running, the innermost last.  A string that is an FMT_STRING goes    *)
(* through the same parser twice, first with format_string_checker, which   *)
(* knows the arguments' types and writes nothing.                           *)
(***************************************************************************)
EXTENDS FmtWrite, FmtBuffer

VARIABLES
  stack,    \* the format calls that are running, with their parse contexts
  mem,      \* the buffers they write to
  outcome   \* "running", "done" or "thrown"

fvars == <<stack, mem, outcome>>

\* A call before its first character: format_handler with a parse context, and
\* what the check of its string has found.
Called(string, args, checked) ==
  [by |-> "handler", str |-> string, given |-> args, args |-> ArgStore(args), next |-> 0,
   pos |-> 1, at |-> "text", arg |-> NoArg, specs |-> DefaultSpecs, checked |-> checked]

\* The check of a string: format_string_checker, which has the arguments' types.
Check(string, args) == [Called(string, args, "not") EXCEPT !.by = "checker"]

\* vformat: a buffer of its own, and the call that writes to it, after the check
\* of a string that is an FMT_STRING (make_args_checked).
Format(string, args, checks) ==
  /\ stack = <<IF checks THEN Check(string, args) ELSE Called(string, args, "not")>>
  /\ mem = EmptyMemory
  /\ outcome = "running"

f == Last(stack)

Char(pos) == IF pos <= Len(f.str) THEN f.str[pos] ELSE "end"

Past == Len(f.str) + 1

\* The innermost call goes on as a frame says.
Go(frame) ==
  /\ outcome = "running"
  /\ stack' = Append(Front(stack), frame)
  /\ UNCHANGED <<mem, outcome>>

\* The check is over: the string does not compile as an FMT_STRING, or it does.
\* The call goes on either way, for what it does with the same string.
Verdict(v) ==
  /\ stack' = <<Called(f.str, f.given, v)>>
  /\ UNCHANGED <<mem, outcome>>

\* on_error: format_error is thrown through every call.
Throw ==
  /\ outcome = "running"
  /\ IF f.by = "checker" THEN Verdict("rejected")
     ELSE outcome' = "thrown" /\ UNCHANGED <<stack, mem>>

\* The checker's on_text and on_replacement_field do nothing.
Writes(written, frame) ==
  /\ outcome = "running"
  /\ mem' = IF f.by = "checker" THEN mem ELSE Put(mem, written)
  /\ stack' = Append(Front(stack), frame)
  /\ UNCHANGED outcome

-----------------------------------------------------------------------------
DecDigits == {"0", "1", "2", "3", "4", "5", "6", "7", "8", "9"}

NameStart == {"a", "b", "d", "x", "_"}

ValueOf(digit) == CHOOSE d \in 0..9 : Digit(d) = digit

\* The first position from pos on whose character is not in chars.
EndOf(pos, chars) ==
  CHOOSE e \in pos..Past : Char(e) \notin chars /\ \A i \in pos..(e - 1) : Char(i) \in chars

\* Mutant: a number is compared with the limit before its last digit only.
NumberNotChecked(pos) ==
  FoldLeft(LAMBDA value, digit : IF value > MaxInt \div 10 THEN MaxInt + 1
                                 ELSE (value * 10 + ValueOf(digit)) % (MaxInt + 1),
           0, SubSeq(f.str, pos, EndOf(pos, DecDigits) - 1))

\* parse_nonnegative_int: a value above MaxInt stands for "number is too big".
Number(pos) ==
  FoldLeft(LAMBDA value, digit : IF value > MaxInt \div 10 THEN MaxInt + 1
                                 ELSE value * 10 + ValueOf(digit),
           0, SubSeq(f.str, pos, EndOf(pos, DecDigits) - 1))

BadId == [kind |-> "bad"]

\* parse_arg_id: what the text at pos names, and where it ends.
ParseArgId(pos) ==
  LET c   == Char(pos)
      end == IF c = "0" THEN pos + 1 ELSE EndOf(pos, DecDigits)
      stop == EndOf(pos, NameStart \cup DecDigits)
  IN  CASE c \in {"}", ":"}   -> [kind |-> "auto", end |-> pos]
        [] c \in DecDigits    -> IF Char(end) \notin {"}", ":"} \/ Number(pos) > MaxInt THEN BadId
                                 ELSE [kind |-> "index", index |-> Number(pos), end |-> end]
        [] c \in NameStart    -> [kind |-> "name", name |-> SubSeq(f.str, pos, stop - 1),
                                  end |-> stop]
        [] OTHER              -> BadId

\* Mutant: the checker takes the number of arguments for one of them.
CheckedArgLate(n) ==
  IF n <= Len(f.given) THEN [type |-> CoreType(f.given[IF n < Len(f.given) THEN n + 1 ELSE n].ctype)]
  ELSE NoArg

\* compile_parse_context: the arguments are counted and have types only.
CheckedArg(n) == IF n < Len(f.given) THEN [type |-> CoreType(f.given[n + 1].ctype)] ELSE NoArg

\* get_arg.
ArgAt(n) == IF f.by = "checker" THEN CheckedArg(n) ELSE Get(f.args, n)

\* next_arg_id, check_arg_id and get_arg: the argument an id leads to and the
\* parse context after it.  No argument is what they throw for; the checker
\* accepts no names.
Found(id) ==
  CASE id.kind = "auto"  -> IF f.next >= 0 THEN [arg |-> ArgAt(f.next), next |-> f.next + 1]
                            ELSE [arg |-> NoArg, next |-> f.next]
    [] id.kind = "index" -> IF f.next > 0 THEN [arg |-> NoArg, next |-> f.next]
                            ELSE [arg |-> ArgAt(id.index), next |-> -1]
    [] id.kind = "name"  -> [arg |-> IF f.by = "checker" THEN NoArg ELSE GetNamed(f.args, id.name),
                             next |-> f.next]
    [] OTHER             -> [arg |-> NoArg, next |-> f.next]

-----------------------------------------------------------------------------
(***************************************************************************)
(* parse_format_string.                                                     *)
(***************************************************************************)
Open == IF \E i \in f.pos..Len(f.str) : f.str[i] = "{"
        THEN Min({i \in f.pos..Len(f.str) : f.str[i] = "{"}) ELSE Past

Closed == {i \in f.pos..(Open - 1) : f.str[i] = "}"}

TextOf(first, last) == [room |-> last - first + 1, text |-> SubSeq(f.str, first, last)]

\* write: text up to the next '{', with "}}" for a '}'.
Text ==
  /\ f.at = "text" /\ f.pos < Open
  /\ \/ Closed = {} /\ Writes(TextOf(f.pos, Open - 1), [f EXCEPT !.pos = Open])
     \/ /\ Closed # {} /\ Min(Closed) + 1 < Open /\ Char(Min(Closed) + 1) = "}"
        /\ Writes(TextOf(f.pos, Min(Closed)), [f EXCEPT !.pos = Min(Closed) + 2])
     \/ /\ Closed # {} /\ ~(Min(Closed) + 1 < Open /\ Char(Min(Closed) + 1) = "}")
        /\ Throw

\* A '{' that is doubled, one that ends the string, and one that begins a field.
Brace ==
  /\ f.at = "text" /\ f.pos = Open /\ f.pos < Past
  /\ \/ Char(f.pos + 1) = "{" /\ Writes(TextOf(f.pos, f.pos), [f EXCEPT !.pos = @ + 2])
     \/ f.pos + 1 = Past /\ Throw
     \/ Char(f.pos + 1) \notin {"{", "end"} /\ Go([f EXCEPT !.pos = @ + 1, !.at = "id"])

\* on_arg_id, and then a field without specifications, with a custom argument or
\* with specifications.
FieldId ==
  /\ f.at = "id"
  /\ LET id    == ParseArgId(f.pos)
         found == Found(id)
         next  == [f EXCEPT !.arg = found.arg, !.next = found.next, !.pos = id.end]
     IN  IF found.arg = NoArg THEN Throw
         ELSE \/ Char(id.end) = "}" /\ Go([next EXCEPT !.at = "field"])
              \/ /\ Char(id.end) = ":"
                 /\ Go([next EXCEPT !.pos = @ + 1, !.specs = DefaultSpecs,
                                    !.at = IF found.arg.type = "custom" THEN "field"
                                           ELSE IF Char(id.end + 1) \in {"end", "}"} THEN "close"
                                           ELSE "align"])
              \/ Char(id.end) \notin {"}", ":"} /\ Throw

\* on_replacement_field.
Field ==
  /\ f.at = "field" /\ f.arg.type # "custom"
  /\ LET next    == [f EXCEPT !.pos = @ + 1, !.at = "text"]
         written == WriteArg(f.arg, NoSpecs)
     IN  IF f.by = "checker" THEN Go(next)
         ELSE IF written = Thrown THEN Throw ELSE Writes(written, next)

\* format_custom_arg with formatter<TestStructA>: its parse reads nothing, and its
\* format calls format_to with a buffer above that of this call.
TestStructFormat == <<"T", "(", "{", "}", ")">>

CustomField ==
  /\ outcome = "running"
  /\ f.at = "field" /\ f.arg.type = "custom"
  /\ LET behind == [f EXCEPT !.at = "custom"]
     IN  IF f.by = "checker" THEN Go(behind)
         ELSE /\ stack' = Append(Front(stack), behind)
                            \o <<Called(TestStructFormat, <<Arg("std::string", f.arg.val, NoName)>>, "not")>>
              /\ mem' = Above(mem)
              /\ UNCHANGED outcome

\* Back in the call that has the custom argument, behind its field.
CustomDone ==
  /\ f.at = "custom"
  /\ IF Char(f.pos) = "}" THEN Go([f EXCEPT !.pos = @ + 1, !.at = "text"]) ELSE Throw

\* The format string is read: the check has found nothing wrong with it, vformat
\* returns what was written, or format_to returns to the formatter.
Return ==
  /\ outcome = "running"
  /\ f.at = "text" /\ f.pos = Past
  /\ IF f.by = "checker" THEN Verdict("accepted")
     ELSE IF Len(stack) = 1 THEN outcome' = "done" /\ UNCHANGED <<stack, mem>>
     ELSE stack' = Front(stack) /\ mem' = Below(mem) /\ UNCHANGED outcome

-----------------------------------------------------------------------------
(***************************************************************************)
(* parse_format_specs with specs_checker and specs_handler.                 *)
(***************************************************************************)
\* The next part of the specifications, unless the string is at its end.
Then(at, frame) ==
  Go([frame EXCEPT !.at = IF frame.pos > Len(f.str) THEN "close" ELSE at])

Numeric == IsArithmetic(f.arg.type)

Signed == Numeric /\ (IsIntegral(f.arg.type) => f.arg.type \in {"int", "long long", "char"})

AlignOf == [c \in {"<", ">", "=", "^"} |->
              CASE c = "<" -> "left" [] c = ">" -> "right" [] c = "=" -> "numeric" [] c = "^" -> "center"]

Aligns(pos) == Char(pos) \in DOMAIN AlignOf

\* parse_align: an alignment behind a fill character, or at once.
Alignment ==
  /\ f.at = "align"
  /\ LET at == IF Aligns(f.pos + 1) THEN f.pos + 1 ELSE f.pos
         by == AlignOf[Char(at)]
     IN  \/ ~Aligns(at) /\ Then("sign", f)
         \/ /\ Aligns(at)
            /\ IF (at > f.pos /\ Char(f.pos) = "{") \/ (by = "numeric" /\ ~Numeric) THEN Throw
               ELSE Then("sign", [f EXCEPT !.pos = at + 1, !.specs.align = by,
                                           !.specs.fill = IF at > f.pos THEN Char(f.pos) ELSE @])

SignOf == [c \in {"+", "-", " "} |->
             CASE c = "+" -> "plus" [] c = "-" -> "minus" [] c = " " -> "space"]

\* Mutant: the end of the string is not looked for behind a sign.
SignAtTheEnd ==
  /\ f.at = "sign"
  /\ \/ Char(f.pos) \notin DOMAIN SignOf /\ Then("hash", f)
     \/ Char(f.pos) \in DOMAIN SignOf /\ ~Signed /\ Throw
     \/ /\ Char(f.pos) \in DOMAIN SignOf /\ Signed
        /\ Go([f EXCEPT !.pos = @ + 1, !.specs.sign = SignOf[Char(f.pos)], !.at = "hash"])

Sign ==
  /\ f.at = "sign"
  /\ \/ Char(f.pos) \notin DOMAIN SignOf /\ Then("hash", f)
     \/ Char(f.pos) \in DOMAIN SignOf /\ ~Signed /\ Throw
     \/ /\ Char(f.pos) \in DOMAIN SignOf /\ Signed
        /\ Then("hash", [f EXCEPT !.pos = @ + 1, !.specs.sign = SignOf[Char(f.pos)]])

Hash ==
  /\ f.at = "hash"
  /\ \/ Char(f.pos) # "#" /\ Then("zero", f)
     \/ Char(f.pos) = "#" /\ ~Numeric /\ Throw
     \/ Char(f.pos) = "#" /\ Numeric /\ Then("zero", [f EXCEPT !.pos = @ + 1, !.specs.alt = TRUE])

\* Mutant: a '0' is the beginning of the width as well.
ZeroAndWidth ==
  /\ f.at = "zero"
  /\ \/ Char(f.pos) # "0" /\ Then("width", f)
     \/ Char(f.pos) = "0" /\ ~Numeric /\ Throw
     \/ Char(f.pos) = "0" /\ Numeric
        /\ Then("zero", [f EXCEPT !.specs.align = "numeric", !.specs.fill = "0"])

Zero ==
  /\ f.at = "zero"
  /\ \/ Char(f.pos) # "0" /\ Then("width", f)
     \/ Char(f.pos) = "0" /\ ~Numeric /\ Throw
     \/ /\ Char(f.pos) = "0" /\ Numeric
        /\ Then("width", [f EXCEPT !.pos = @ + 1, !.specs.align = "numeric", !.specs.fill = "0"])

\* get_dynamic_spec: the value of an argument that is an integer, not negative
\* and not too big.
IsSpec(arg) ==
  /\ arg.type \in {"int", "uint", "long long", "ulong long", "int128", "uint128"}
  /\ arg.val \in 0..MaxInt

\* on_dynamic_width and on_dynamic_precision: the number an id gives, -1 when it
\* gives none, and the parse context after it.  The checker, and formatter::parse
\* with its dynamic_specs_handler, only note which argument it is.
Count(id) ==
  LET found == Found(id)
  IN  [next |-> found.next,
       n |-> IF f.by = "checker" THEN IF id.kind = "name" \/ found.arg # NoArg THEN 0 ELSE -1
             ELSE IF IsSpec(found.arg) THEN found.arg.val ELSE -1]

\* parse_width: digits, or an argument in braces.
Width ==
  /\ f.at = "width"
  /\ LET id    == ParseArgId(f.pos + 1)
         count == Count(id)
     IN  \/ Char(f.pos) \notin DecDigits \cup {"{"} /\ Then("precision", f)
         \/ /\ Char(f.pos) \in DecDigits
            /\ IF Number(f.pos) > MaxInt THEN Throw
               ELSE Then("precision", [f EXCEPT !.pos = EndOf(f.pos, DecDigits),
                                                !.specs.width = Number(f.pos)])
         \/ /\ Char(f.pos) = "{"
            /\ IF f.pos + 1 = Past THEN Throw
               ELSE IF count.n = -1 THEN Throw
               ELSE IF Char(id.end) # "}" THEN Throw
               ELSE Then("precision", [f EXCEPT !.pos = id.end + 1, !.next = count.next,
                                                !.specs.width = count.n])

\* check_precision.
PrecisionAllowed == ~IsIntegral(f.arg.type) /\ f.arg.type # "pointer"

\* parse_precision: the same behind a '.', and only for what has a precision.
Precision ==
  /\ f.at = "precision"
  /\ LET id    == ParseArgId(f.pos + 2)
         count == Count(id)
         c     == Char(f.pos + 1)
     IN  \/ Char(f.pos) # "." /\ Then("type", f)
         \/ /\ Char(f.pos) = "." /\ c \in DecDigits
            /\ IF Number(f.pos + 1) > MaxInt \/ ~PrecisionAllowed THEN Throw
               ELSE Then("type", [f EXCEPT !.pos = EndOf(f.pos + 1, DecDigits),
                                           !.specs.precision = Number(f.pos + 1)])
         \/ /\ Char(f.pos) = "." /\ c = "{"
            /\ IF f.pos + 2 = Past THEN Throw
               ELSE IF count.n = -1 THEN Throw
               ELSE IF Char(id.end) # "}" \/ ~PrecisionAllowed THEN Throw
               ELSE Then("type", [f EXCEPT !.pos = id.end + 1, !.next = count.next,
                                           !.specs.precision = count.n])
         \/ Char(f.pos) = "." /\ c \notin DecDigits \cup {"{"} /\ Throw

Type ==
  /\ f.at = "type"
  /\ IF Char(f.pos) = "}" THEN Then("close", f)
     ELSE Then("close", [f EXCEPT !.pos = @ + 1, !.specs.type = Char(f.pos)])

\* on_format_specs: the field must end here, and is written.
Close ==
  /\ f.at = "close"
  /\ LET next    == [f EXCEPT !.pos = @ + 1, !.at = "text"]
         written == WriteArg(f.arg, f.specs)
     IN  IF Char(f.pos) # "}" THEN Throw
         ELSE IF f.by = "checker" THEN IF CheckType(f.arg.type, f.specs) THEN Go(next) ELSE Throw
         ELSE IF written = Thrown THEN Throw ELSE Writes(written, next)

FNext ==
  \/ Text \/ Brace \/ FieldId \/ Field \/ CustomField \/ CustomDone \/ Return
  \/ Alignment \/ Sign \/ Hash \/ Zero \/ Width \/ Precision \/ Type \/ Close

-----------------------------------------------------------------------------
\* No character is read behind the end of the string: where the code asserts
\* begin != end there is a character (parse_arg_id, format.h:2262; parse_align,
\* 2339; parse_width, 2382).
NeverReadsPastTheEnd ==
  /\ f.pos <= Past
  /\ f.at \in {"id", "align", "sign", "hash", "zero", "width", "precision", "type"} => f.pos < Past

\* Where a field is written, the room that is reserved, by the digits and bytes that
\* are counted first, is that of the text (write_int, format.h:1441; write_padded,
\* 1381): one more would leave a character as it was, one less would write outside.
ReservesWhatItWrites ==
  LET Fits(written) == written = Thrown \/ (written.room \in Nat /\ written.room = Len(written.text))
  IN  f.by = "handler" =>
        /\ f.at = "field" /\ f.arg.type # "custom" => Fits(WriteArg(f.arg, NoSpecs))
        /\ f.at = "close" => Fits(WriteArg(f.arg, f.specs))

\* A call inside another writes where the other one will go on: each buffer has
\* grown as far as the one it stands on, and knows where its data is now, also
\* after it moved (container_buffer::grow, core.h:718).
BuffersInStep ==
  \A i \in 1..Len(mem.bufs) :
    /\ mem.bufs[i].size <= mem.bufs[i].cap
    /\ i > 1 => /\ mem.bufs[i].size = mem.bufs[i - 1].size
                /\ mem.bufs[i].ptr \in {NullPtr, mem.bufs[1].ptr}
                /\ mem.bufs[i].ptr = NullPtr => mem.bufs[i].cap = mem.bufs[i].size

\* What was written stays: a buffer that grows keeps it, and nothing is written
\* over it (basic_memory_buffer::grow, format.h:709).
OnlyAppends == [][IsPrefix(Contents(mem), Contents(mem'))]_mem

\* A string that the compile-time check accepts is formatted, unless it is the
\* value of an argument that stands in the way, a width or precision that is not
\* one or a null pointer to characters; one that it rejects is not, unless a field
\* names its argument, which the check does not support (format.h:2612).
CheckAndCallAgree ==
  LET call == stack[1]
  IN  /\ outcome = "thrown" /\ call.checked = "accepted" =>
           \/ call.at = "width" /\ Char(call.pos) = "{"
           \/ call.at = "precision" /\ Char(call.pos + 1) = "{"
           \/ call.arg.type = "cstring" /\ call.arg.val.address = 0
      /\ outcome = "done" /\ call.checked = "rejected" =>
           \E i \in 1..(Len(call.str) - 1) : call.str[i] = "{" /\ call.str[i + 1] \in NameStart

=============================================================================
