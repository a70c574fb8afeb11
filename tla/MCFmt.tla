-------------------------------- MODULE MCFmt ---------------------------------
(***************************************************************************)
(* FmtFormat for TLC.  A format string is given by its parts, written down  *)
(* by Rendered; what it means is defined by the parts, without parsing, and *)
(* compared with what the code writes.  Other strings have no such meaning  *)
(* and only show that the code stays inside of them.                        *)
(***************************************************************************)
EXTENDS FmtFormat

VARIABLE meant  \* what the call should write, or Error, or Open when not said

mcfvars == <<fvars, meant>>

MCCharCode == [c \in {"0", "9", "A", "a", "x"} |->
                 CASE c = "0" -> 48 [] c = "9" -> 57 [] c = "A" -> 65 [] c = "a" -> 97 [] c = "x" -> 120]

Error == <<"error">>

NotSaid == <<"not said">>

Nobody == [ctype |-> "none"]

-----------------------------------------------------------------------------
(***************************************************************************)
(* The parts of a format string.                                            *)
(***************************************************************************)
Plain(c) == [part |-> "plain", c |-> c]

Doubled(c) == [part |-> "doubled", c |-> c]

FieldOf(id, specs) == [part |-> "field", id |-> id, specs |-> specs]

Auto == [kind |-> "auto"]

Index(n) == [kind |-> "index", index |-> n]

Name(name) == [kind |-> "name", name |-> name]

Digits(n) == [kind |-> "count", n |-> n]

None == [kind |-> "none"]

Bare == [fill |-> "", align |-> "", sign |-> "", alt |-> FALSE, zero |-> FALSE,
         width |-> None, precision |-> None, type |-> ""]

IsId(spec) == spec.kind \in {"auto", "index", "name"}

Decimal(n, base) ==
  LET k == CHOOSE k \in 1..(IntBits + 1) : base^k > n /\ (k = 1 \/ base^(k - 1) <= n)
  IN  [i \in 1..k |-> Digit((n \div base^(k - i)) % base)]

Text1(c) == IF c = "" THEN <<>> ELSE <<c>>

IdText(id) ==
  CASE id.kind = "auto" -> <<>> [] id.kind = "index" -> Decimal(id.index, 10) [] id.kind = "name" -> id.name

CountText(spec) ==
  CASE spec.kind = "none"  -> <<>>
    [] spec.kind = "count" -> Decimal(spec.n, 10)
    [] OTHER               -> <<"{">> \o IdText(spec) \o <<"}">>

Rendered(p) ==
  CASE p.part = "plain"   -> <<p.c>>
    [] p.part = "doubled" -> <<p.c, p.c>>
    [] p.part = "field"   ->
         <<"{">> \o IdText(p.id)
         \o (IF p.specs = Bare THEN <<>> ELSE
               <<":">> \o Text1(p.specs.fill) \o Text1(p.specs.align) \o Text1(p.specs.sign)
               \o (IF p.specs.alt THEN <<"#">> ELSE <<>>) \o (IF p.specs.zero THEN <<"0">> ELSE <<>>)
               \o CountText(p.specs.width)
               \o (IF p.specs.precision = None THEN <<>> ELSE <<".">> \o CountText(p.specs.precision))
               \o Text1(p.specs.type))
         \o <<"}">>

Flat(seqs) == FlattenSeq(seqs)

-----------------------------------------------------------------------------
(***************************************************************************)
(* What the parts mean.                                                     *)
(***************************************************************************)
\* The arguments a part asks for, in their order.
Ids(p) == IF p.part # "field" THEN <<>>
          ELSE <<p.id>> \o SelectSeq(<<p.specs.width, p.specs.precision>>, IsId)

Kinds(ids) == {ids[i].kind : i \in 1..Len(ids)}

\* The argument the last of ids leads to: the next one, or the one it says.
Meant(ids, args) ==
  LET id   == Last(ids)
      auto == Len(SelectSeq(ids, LAMBDA x : x.kind = "auto"))
      at   == CASE id.kind = "auto"  -> {auto}
                [] id.kind = "index" -> {id.index + 1}
                [] id.kind = "name"  -> {i \in 1..Len(args) : args[i].name = id.name}
      here == at \cap 1..Len(args)
  IN  IF here = {} THEN Nobody ELSE args[Min(here)]

\* A width or a precision as a number, -1 for none, -2 for one that cannot be.
CountMeant(spec, ids, args) ==
  LET arg == Meant(ids, args)
  IN  CASE spec.kind = "none"  -> -1
        [] spec.kind = "count" -> IF spec.n > MaxInt THEN -2 ELSE spec.n
        [] OTHER -> IF arg.ctype \in {"int", "unsigned"} /\ arg.val \in 0..MaxInt THEN arg.val ELSE -2

\* Text in a field of some width: what is missing goes left or right of it.
InField(text, specs, width, default) ==
  LET missing == IF width > Len(text) THEN width - Len(text) ELSE 0
      align   == IF specs.zero THEN "=" ELSE IF specs.align = "" THEN default ELSE specs.align
      left    == CASE align = "<" -> 0 [] align \in {">", "="} -> missing [] align = "^" -> missing \div 2
      fill    == IF specs.zero THEN "0" ELSE IF specs.fill = "" THEN " " ELSE specs.fill
  IN  [i \in 1..(Len(text) + missing) |->
         IF i \in (left + 1)..(left + Len(text)) THEN text[i - left] ELSE fill]

\* A number: <left-padding><prefix><numeric-padding><digits><right-padding>
\* (format.h:1438).
NumberIn(n, specs, width) ==
  LET abs    == IF n < 0 THEN -n ELSE n
      type   == specs.type
      base   == CASE type \in {"x", "X"} -> 16 [] type \in {"b", "B"} -> 2 [] type = "o" -> 8 [] OTHER -> 10
      lower  == Decimal(abs, base)
      digits == IF type # "X" THEN lower
                ELSE [i \in 1..Len(lower) |->
                        IF \E d \in 10..15 : lower[i] = Digit(d)
                        THEN UpperDigits[1 + CHOOSE d \in 10..15 : lower[i] = Digit(d)] ELSE lower[i]]
      sign   == IF n < 0 THEN <<"-">> ELSE IF specs.sign \in {"+", " "} THEN <<specs.sign>> ELSE <<>>
      alt    == IF ~specs.alt THEN <<>>
                ELSE IF base \in {2, 16} THEN <<"0", type>>
                ELSE IF base = 8 /\ n # 0 THEN <<"0">> ELSE <<>>
      prefix == sign \o alt
      zeros  == IF (specs.zero \/ specs.align = "=") /\ width > Len(prefix) + Len(digits)
                THEN width - Len(prefix) - Len(digits) ELSE 0
  IN  IF type = "c" THEN <<CharOf(abs)>>
      ELSE InField(prefix \o [i \in 1..zeros |-> "0"] \o digits, specs, width, ">")

FieldText(arg, specs, width, precision) ==
  LET type    == specs.type
      number  == type \in {"d", "x", "X", "b", "B", "o", "n", "L", "c"}
      numeric == specs.alt \/ specs.zero \/ specs.align = "="
      signed  == specs.sign # ""
      Cut(text) == IF precision = -1 \/ precision >= Len(text) THEN text ELSE SubSeq(text, 1, precision)
  IN  CASE arg.ctype \in {"int", "unsigned"} ->
             IF (signed /\ arg.ctype # "int") \/ precision # -1 \/ ~(number \/ type = "") THEN Error
             ELSE NumberIn(arg.val, specs, width)
        [] arg.ctype = "bool" ->
             IF signed \/ precision # -1 \/ ~(number \/ type = "") THEN Error
             ELSE IF number THEN NumberIn(IF arg.val THEN 1 ELSE 0, specs, width)
             ELSE InField(IF arg.val THEN <<"t", "r", "u", "e">> ELSE <<"f", "a", "l", "s", "e">>,
                          specs, width, "<")
        [] arg.ctype = "char" ->
             IF precision # -1 \/ ~(number \/ type = "") THEN Error
             ELSE IF type \notin {"", "c"} THEN NumberIn(CharCode[arg.val], specs, width)
             ELSE IF numeric \/ signed THEN Error ELSE InField(<<arg.val>>, specs, width, "<")
        [] arg.ctype = "std::string" ->
             IF numeric \/ signed \/ type \notin {"", "s"} THEN Error
             ELSE InField(Cut(arg.val), specs, width, "<")
        [] arg.ctype = "char const*" ->
             IF numeric \/ signed \/ type \notin {"", "s", "p"} THEN Error
             ELSE IF type = "p" THEN InField(<<"0", "x">> \o Decimal(arg.val.address, 16), specs, width, ">")
             ELSE IF arg.val.address = 0 THEN Error
             ELSE InField(Cut(arg.val.text), specs, width, "<")
        [] arg.ctype = "void*" ->
             IF numeric \/ signed \/ precision # -1 \/ type \notin {"", "p"} THEN Error
             ELSE InField(<<"0", "x">> \o Decimal(arg.val, 16), specs, width, ">")
        [] arg.ctype = "TestStructA" ->
             IF specs # Bare THEN Error ELSE <<"T", "(">> \o arg.val \o <<")">>

\* The text of the n-th part, whose ids are those of the parts before it and its own.
PartText(parts, n, args) ==
  LET p      == parts[n]
      before == Flat([i \in 1..(n - 1) |-> Ids(parts[i])])
      own    == before \o <<p.id>>
      wide   == IF IsId(p.specs.width) THEN Append(own, p.specs.width) ELSE own
      width  == CountMeant(p.specs.width, wide, args)
      precise == CountMeant(p.specs.precision,
                            IF IsId(p.specs.precision) THEN Append(wide, p.specs.precision) ELSE wide, args)
  IN  IF p.part # "field" THEN <<p.c>>
      ELSE IF Meant(own, args) = Nobody THEN Error
      ELSE IF -2 \in {width, precise} \/ (p.id.kind = "index" /\ p.id.index > MaxInt) THEN Error
      ELSE FieldText(Meant(own, args), p.specs, width, precise)

\* All of it, or Error when a part has none or the arguments are numbered in both
\* ways.
Meaning(parts, args) ==
  LET texts == [n \in 1..Len(parts) |-> PartText(parts, n, args)]
      kinds == Kinds(Flat([n \in 1..Len(parts) |-> Ids(parts[n])]))
  IN  IF {"auto", "index"} \subseteq kinds \/ \E n \in 1..Len(parts) : texts[n] = Error THEN Error
      ELSE Flat(texts)

-----------------------------------------------------------------------------
(***************************************************************************)
(* The calls.                                                               *)
(***************************************************************************)
IntArg(n) == Arg("int", n, NoName)

Ints == {IntArg(-128), IntArg(0), IntArg(100)}

EachType ==
  {IntArg(65), Arg("unsigned", 255, NoName), Arg("bool", TRUE, NoName), Arg("char", "x", NoName),
   Arg("std::string", <<"a", "b", "c">>, NoName), Arg("void*", 26, NoName),
   Arg("char const*", [address |-> 31, text |-> <<"x", "y">>], NoName),
   Arg("char const*", [address |-> 0, text |-> <<>>], NoName),
   Arg("TestStructA", <<"s">>, NoName)}

Counts == {None, Digits(6)}

\* Every way to write an integer.
IntCalls ==
  {<<<<FieldOf(Auto, [Bare EXCEPT !.fill = a[1], !.align = a[2], !.sign = s, !.alt = alt,
                                  !.zero = zero, !.width = w, !.type = t])>>, <<arg>>>> :
     a \in ({"", "*"} \X {"<", ">", "^", "="}) \cup {<<"", "">>}, s \in {"", "+", "-", " "},
     alt \in BOOLEAN, zero \in BOOLEAN, w \in {None, Digits(8)}, t \in {"", "o", "X"}, arg \in Ints}

\* Every type of argument with every presentation type.
TypeCalls ==
  {<<<<FieldOf(Auto, [Bare EXCEPT !.align = a, !.alt = alt, !.width = w, !.precision = p, !.type = t])>>,
     <<arg>>>> :
     a \in {"", "=", "^"}, alt \in BOOLEAN, w \in Counts, p \in {None, Digits(2)},
     t \in {"", "d", "x", "b", "B", "c", "s", "p", "n", "z"}, arg \in EachType}

\* A number that is too big before its last digit, and 0 in an unsigned.
Overflowing == 10 * (MaxInt + 1)

\* Numbers at the limit of an int and beyond, and numbers that arguments give.
CountCalls ==
  {<<<<FieldOf(Auto, [Bare EXCEPT !.width = w, !.precision = p])>>,
     <<Arg("std::string", <<"a", "b", "c">>, NoName), arg>>>> :
     w \in {None, Digits(9), Digits(MaxInt), Digits(MaxInt + 1), Digits(Overflowing), Auto,
           Index(1), Name(<<"x">>)},
     p \in {None, Digits(0), Digits(MaxInt), Digits(MaxInt + 2), Digits(Overflowing), Auto,
           Index(1), Name(<<"x">>)},
     arg \in {IntArg(2), IntArg(-1), Arg("unsigned", 200, NoName), Arg("bool", TRUE, NoName),
              Arg("int", 5, <<"x">>), Arg("unsigned", MaxInt, <<"x">>)}}

Parts ==
  {Plain("q"), Doubled("{"), Doubled("}"), FieldOf(Auto, Bare), FieldOf(Index(0), Bare), FieldOf(Index(1), Bare),
   FieldOf(Index(2), Bare), FieldOf(Index(3), Bare), FieldOf(Index(Overflowing), Bare), FieldOf(Name(<<"a">>), Bare),
   FieldOf(Auto, [Bare EXCEPT !.width = Auto])}

\* Strings of up to three parts, with as many arguments as the descriptor has room
\* for the types of, with fewer and with more.
PartCalls ==
  {<<parts, args>> :
     parts \in UNION {[1..n -> Parts] : n \in 0..3},
     args \in {<<Arg("TestStructA", <<"s", "t", "u">>, NoName)>>,
               <<Arg("TestStructA", <<"s">>, NoName), Arg("short", 5, <<"a">>)>>,
               <<IntArg(-10), Arg("int", 2, <<"a">>), Arg("TestStructA", <<>>, NoName)>>}}

\* Strings of any characters, alone or where specifications are expected.
Strings(chars, n) == UNION {[1..k -> chars] : k \in 0..n}

AnyStrings ==
  Strings({"{", "}", ":", "0", "a"}, 4)
  \cup {<<"{", ":">> \o s : s \in Strings({"{", "}", "<", "+", "#", "0", "1", "."}, 3)}

\* The string of a call is an FMT_STRING, except where every way to write an
\* integer is tried.
SaidInit ==
  \E c \in IntCalls \cup TypeCalls \cup CountCalls \cup PartCalls :
    /\ Format(Flat([n \in 1..Len(c[1]) |-> Rendered(c[1][n])]), c[2], c \notin IntCalls)
    /\ meant = LET m == [n \in 1..Len(c[2]) |->
                           IF c[2][n].ctype = "short" THEN [c[2][n] EXCEPT !.ctype = "int"] ELSE c[2][n]]
               IN  Meaning(c[1], m)

AnyInit == \E s \in AnyStrings : Format(s, <<IntArg(3), IntArg(5)>>, TRUE) /\ meant = NotSaid

MCFInit == SaidInit \/ AnyInit

Ended == outcome # "running" /\ UNCHANGED fvars

MCFNext == (FNext \/ Ended) /\ UNCHANGED meant

MCFSpec == MCFInit /\ [][MCFNext]_mcfvars /\ WF_mcfvars(FNext /\ UNCHANGED meant)

-----------------------------------------------------------------------------
\* A call writes what its format string and its arguments mean, or it throws when
\* they mean nothing: fields find their arguments, by number or by name and on
\* both sides of max_packed_args, numbers have their digits, their sign and their
\* padding, and no wrong combination is let through.
WritesWhatIsMeant ==
  /\ outcome = "done" /\ meant # NotSaid => meant # Error /\ Contents(mem) = meant
  /\ outcome = "thrown" => meant \in {Error, NotSaid}

\* Every call returns or throws, whatever the string.
EveryFormatEnds == <>(outcome # "running")

=============================================================================
