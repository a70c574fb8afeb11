------------------------------- MODULE FmtWrite -------------------------------
(***************************************************************************)
(* How one argument becomes text: arg_formatter_base and what it calls      *)
(* (src/format/fmt/format.h).  What an operator writes is a record: the     *)
(* room it reserves in the buffer and the text it then puts there; an       *)
(* exception is the text it writes nothing of.  Integers have IntBits bits. *)
(***************************************************************************)
EXTENDS FmtArgs

CONSTANTS
  IntBits,   \* bits of an int
  CharCode   \* the code of each character that is formatted as a number

ASSUME IntAssumption == IntBits \in Nat \ {0}

MaxInt == 2^(IntBits - 1) - 1

\* static_cast<unsigned>(value).
Unsigned(value) == value % 2^IntBits

\* The presentation types of an integer (handle_int_type_spec), of a char const*
\* (handle_cstring_type_spec), of a string and of a pointer.
IntTypes == {"", "d", "x", "X", "b", "B", "o", "n", "L", "c"}

CStringTypes == {"", "s", "p"}

StringTypes == {"", "s"}

PointerTypes == {"", "p"}

\* handle_char_specs: a char is written as a number, or as a char, for which not
\* all specifications have a meaning.
CharAsInt(specs) == specs.type \notin {"", "c"}

CharAsChar(specs) == specs.align # "numeric" /\ specs.sign = "none" /\ ~specs.alt

\* formatter::parse, what it checks of the specifications it has read.
CheckType(type, specs) ==
  CASE type \in {"int", "uint", "long long", "ulong long", "int128", "uint128", "bool"} ->
         specs.type \in IntTypes
    [] type = "char"    -> IF CharAsInt(specs) THEN specs.type \in IntTypes ELSE CharAsChar(specs)
    [] type = "cstring" -> specs.type \in CStringTypes
    [] type = "string"  -> specs.type \in StringTypes
    [] type = "pointer" -> specs.type \in PointerTypes

Thrown == [room |-> 0, text |-> <<"thrown">>]

\* basic_format_specs(); a call without format specifications has none.
DefaultSpecs == [width |-> 0, precision |-> -1, type |-> "", align |-> "none",
                 sign |-> "none", alt |-> FALSE, fill |-> " "]

NoSpecs == [align |-> "no specs"]

\* data::hex_digits, and the digits of an 'X'.
HexDigits == <<"0", "1", "2", "3", "4", "5", "6", "7", "8", "9",
               "a", "b", "c", "d", "e", "f">>

UpperDigits == SubSeq(HexDigits, 1, 10) \o <<"A", "B", "C", "D", "E", "F">>

Digit(d) == HexDigits[d + 1]

\* static_cast<char>: "other" stands for every character without a code here.
CharOf(code) ==
  IF \E c \in DOMAIN CharCode : CharCode[c] = code
  THEN CHOOSE c \in DOMAIN CharCode : CharCode[c] = code ELSE "other"

Times(char, n) == [i \in 1..n |-> char]

\* The digits of n as they are written from the last to the first, base at a time.
DigitsOf(n, base, digits) ==
  LET From[m \in 0..n] ==
        (IF m \div base = 0 THEN <<>> ELSE From[m \div base]) \o <<digits[(m % base) + 1]>>
  IN  From[n]

-----------------------------------------------------------------------------
\* Mutant: a power of ten is counted with one digit less.
CountDigitsShort(n) ==
  LET odd  == IF n % 2 = 0 THEN n + 1 ELSE n
      bits == CHOOSE b \in 1..IntBits : odd \in 2^(b - 1)..(2^b - 1)
      t    == (bits * 1233) \div 2^12
      zeroOrPowerOf10 == IF t = 0 THEN 0 ELSE 10^t
  IN  t - (IF t > 0 /\ n <= zeroOrPowerOf10 THEN 1 ELSE 0) + 1

\* count_digits(uint32_t): the bits of n | 1 times log10(2), and a table.
CountDigits(n) ==
  LET odd  == IF n % 2 = 0 THEN n + 1 ELSE n
      bits == CHOOSE b \in 1..IntBits : odd \in 2^(b - 1)..(2^b - 1)
      t    == (bits * 1233) \div 2^12
      zeroOrPowerOf10 == IF t = 0 THEN 0 ELSE 10^t
  IN  t - (IF n < zeroOrPowerOf10 THEN 1 ELSE 0) + 1

\* count_digits<BITS>.
CountBaseDigits(n, bits) ==
  CHOOSE k \in 1..(IntBits + 1) : n \div 2^(bits * k) = 0 /\ (k > 1 => n \div 2^(bits * (k - 1)) # 0)

\* format_decimal: two digits at a time while there are more than two.
FormatDecimal(n) ==
  LET Two(m) == <<Digit(m \div 10), Digit(m % 10)>>
      From[m \in 0..n] ==
        IF m >= 100 THEN From[m \div 100] \o Two(m % 100)
        ELSE IF m < 10 THEN <<Digit(m)>> ELSE Two(m)
  IN  From[n]

\* write_padded<side>: the shifts of data::left_padding_shifts and
\* data::right_padding_shifts.
WritePadded(side, specs, size, width, text) ==
  LET padding == IF specs.width > width THEN specs.width - width ELSE 0
      shift   == CASE specs.align = "none"   -> IF side = "left" THEN IntBits - 1 ELSE 0
                   [] specs.align = "left"   -> IntBits - 1
                   [] specs.align = "center" -> 1
                   [] OTHER                  -> 0
      left    == padding \div 2^shift
  IN  [room |-> size + padding,
       text |-> Times(specs.fill, left) \o text \o Times(specs.fill, padding - left)]

\* write_int with its write_int_data; no precision passes the checks of an integer.
WriteInt(specs, prefix, numDigits, digits) ==
  LET length  == Len(prefix) + numDigits
      padding == IF specs.align = "numeric" /\ specs.width > length
                 THEN specs.width - length ELSE 0
      size    == length + padding
  IN  WritePadded("right", specs, size, size, prefix \o Times("0", padding) \o digits)

\* int_writer with the handlers handle_int_type_spec calls.  The number grouped
\* for a locale is that of the "C" locale, which groups nothing.
WriteNumber(value, specs) ==
  LET abs    == Unsigned(IF value < 0 THEN 0 - Unsigned(value) ELSE value)
      sign   == IF value < 0 THEN <<"-">>
                ELSE CASE specs.sign = "plus"  -> <<"+">>
                       [] specs.sign = "space" -> <<" ">>
                       [] OTHER                -> <<>>
      Based(bits, prefix, digits) ==
        WriteInt(specs, sign \o prefix, CountBaseDigits(abs, bits), DigitsOf(abs, 2^bits, digits))
      alt    == IF specs.alt THEN <<"0", specs.type>> ELSE <<>>
  IN  CASE specs.type \in {"", "d", "n", "L"} ->
             WriteInt(specs, sign, CountDigits(abs), FormatDecimal(abs))
        [] specs.type = "x"        -> Based(4, alt, HexDigits)
        [] specs.type = "X"        -> Based(4, alt, UpperDigits)
        [] specs.type \in {"b", "B"} -> Based(1, alt, HexDigits)
        [] specs.type = "o"        ->
             Based(3, IF specs.alt /\ abs # 0 /\ specs.precision <= CountBaseDigits(abs, 3)
                      THEN <<"0">> ELSE <<>>, HexDigits)
        [] specs.type = "c"        ->
             [room |-> 1, text |-> <<CharOf(abs)>>]
        [] OTHER                   -> Thrown

\* write_decimal.
WriteDecimal(value) ==
  LET abs == Unsigned(IF value < 0 THEN 0 - Unsigned(value) ELSE value)
  IN  [room |-> CountDigits(abs) + (IF value < 0 THEN 1 ELSE 0),
       text |-> (IF value < 0 THEN <<"-">> ELSE <<>>) \o FormatDecimal(abs)]

\* write(string_view, specs): cut to the precision and padded.
WriteString(text, specs) ==
  LET size == IF specs.precision >= 0 /\ specs.precision < Len(text)
              THEN specs.precision ELSE Len(text)
  IN  IF specs = NoSpecs THEN [room |-> Len(text), text |-> text]
      ELSE WritePadded("left", specs, size, IF specs.width # 0 THEN size ELSE 0,
                       SubSeq(text, 1, size))

\* write_ptr.
WritePointer(address, specs) ==
  LET numDigits == CountBaseDigits(address, 4)
      text      == <<"0", "x">> \o DigitsOf(address, 16, HexDigits)
  IN  IF specs = NoSpecs THEN [room |-> numDigits + 2, text |-> text]
      ELSE WritePadded("right", specs, numDigits + 2, numDigits + 2, text)

\* handle_char_specs and char_spec_handler.
WriteChar(char, specs) ==
  CASE specs = NoSpecs                -> [room |-> 1, text |-> <<char>>]
    [] specs # NoSpecs /\ CharAsInt(specs) -> WriteNumber(CharCode[char], specs)
    [] OTHER -> IF CharAsChar(specs) THEN WritePadded("left", specs, 1, 1, <<char>>) ELSE Thrown

\* arg_formatter_base::operator() for a bool.
WriteBool(value, specs) ==
  IF specs # NoSpecs /\ specs.type # "" THEN WriteNumber(IF value THEN 1 ELSE 0, specs)
  ELSE WriteString(IF value THEN <<"t", "r", "u", "e">> ELSE <<"f", "a", "l", "s", "e">>, specs)

\* handle_cstring_type_spec: characters are the text at an address, none at 0.
WriteCString(value, specs) ==
  IF specs # NoSpecs /\ specs.type = "p" THEN WritePointer(value.address, specs)
  ELSE IF (specs # NoSpecs /\ specs.type \notin StringTypes) \/ value.address = 0 THEN Thrown
  ELSE WriteString(value.text, specs)

\* arg_formatter_base::operator(), by the type visit_format_arg finds.
WriteArg(arg, specs) ==
  LET HasType(types) == specs # NoSpecs /\ specs.type \notin types
  IN  CASE arg.type \in {"int", "uint", "long long", "ulong long"} ->
             IF specs = NoSpecs THEN WriteDecimal(arg.val) ELSE WriteNumber(arg.val, specs)
        [] arg.type = "bool"    -> WriteBool(arg.val, specs)
        [] arg.type = "char"    -> WriteChar(arg.val, specs)
        [] arg.type = "cstring" -> WriteCString(arg.val, specs)
        [] arg.type = "string"  -> IF HasType(StringTypes) THEN Thrown
                                   ELSE WriteString(arg.val, specs)
        [] arg.type = "pointer" -> IF HasType(PointerTypes) THEN Thrown
                                   ELSE WritePointer(arg.val, specs)

=============================================================================
