------------------------------- MODULE FmtArgs --------------------------------
(***************************************************************************)
(* The arguments of one call of fmt::format: their C++ types mapped to core *)
(* types, the store make_format_args builds of them, and how                *)
(* basic_format_args finds one again by number or by name                   *)
(* (src/format/fmt/core.h).                                                 *)
(***************************************************************************)
EXTENDS Integers, Sequences, SequencesExt, FiniteSetsExt

CONSTANTS
  DescBits    \* bits of desc_: 64 in the program, 4 of them for each type

ASSUME DescAssumption == DescBits \in {d \in Nat : d >= 8 /\ d % 2 = 0}

(***************************************************************************)
(* An argument as it is passed: a C++ type, a value and perhaps a name.     *)
(***************************************************************************)
NoName == <<>>

Arg(ctype, val, name) == [ctype |-> ctype, val |-> val, name |-> name]

\* enum class type, in its order, which the descriptor stores as a number.
CoreTypes == <<"none", "int", "uint", "long long", "ulong long", "int128", "uint128",
               "bool", "char", "float", "double", "long double",
               "cstring", "string", "pointer", "custom">>

Code(type) == CHOOSE n \in 0..15 : CoreTypes[n + 1] = type

IsIntegral(type) == Code(type) \in 1..Code("char")

IsArithmetic(type) == Code(type) \in 1..Code("long double")

\* arg_mapper: the core type of a C++ type (long has 64 bits).
CoreType(ctype) ==
  CASE ctype \in {"signed char", "short", "int"}            -> "int"
    [] ctype \in {"unsigned char", "unsigned short", "unsigned"} -> "uint"
    [] ctype \in {"long", "long long"}                      -> "long long"
    [] ctype \in {"unsigned long", "unsigned long long"}    -> "ulong long"
    [] ctype \in {"char const*", "char*"}                   -> "cstring"
    [] ctype \in {"std::string", "string_view"}             -> "string"
    [] ctype \in {"void*", "nullptr_t"}                     -> "pointer"
    [] ctype = "TestStructA"                                -> "custom"
    [] OTHER                                                -> ctype

PackedArgBits == 4

MaxPackedArgs == (DescBits - 2) \div PackedArgBits

IsUnpackedBit == 2^(DescBits - 1)

HasNamedArgsBit == 2^(DescBits - 2)

\* The word has the bit, a power of two.
HasBit(word, bit) == (word \div bit) % 2 = 1

\* encode_types: the first argument in the lowest bits.
EncodeTypes(args) ==
  FoldRight(LAMBDA a, rest : Code(CoreType(a.ctype)) + rest * 2^PackedArgBits, args, 0)

\* init_named_args: the names, and the number of the argument of each.
NamedArgs(args) ==
  SelectSeq([i \in 1..Len(args) |-> <<args[i].name, i - 1>>], LAMBDA n : n[1] # NoName)

\* format_arg_store: the values alone when their types fit into the descriptor,
\* and otherwise values with types.
ArgStore(args) ==
  LET packed == Len(args) <= MaxPackedArgs
      named  == NamedArgs(args)
  IN  [desc  |-> (IF packed THEN EncodeTypes(args) ELSE IsUnpackedBit + Len(args))
                 + (IF named # <<>> THEN HasNamedArgsBit ELSE 0),
       vals  |-> [i \in 1..Len(args) |->
                    IF packed THEN [val |-> args[i].val]
                    ELSE [type |-> CoreType(args[i].ctype), val |-> args[i].val]],
       named |-> named]

-----------------------------------------------------------------------------
IsPacked(store) == ~HasBit(store.desc, IsUnpackedBit)

TypeAt(store, id) == CoreTypes[((store.desc \div 2^(id * PackedArgBits)) % 2^PackedArgBits) + 1]

\* desc_ & ~is_unpacked_bit as an int, which has half the bits of desc_: the bit
\* for the names is cut off.
MaxSize(store) ==
  IF IsPacked(store) THEN MaxPackedArgs
  ELSE (store.desc % IsUnpackedBit) % 2^(DescBits \div 2)

NoArg == [type |-> "none"]

\* basic_format_args::get(int).
Get(store, id) ==
  IF ~IsPacked(store) THEN IF id < MaxSize(store) THEN store.vals[id + 1] ELSE NoArg
  ELSE IF id >= MaxPackedArgs \/ TypeAt(store, id) = "none" THEN NoArg
  ELSE [type |-> TypeAt(store, id), val |-> store.vals[id + 1].val]

\* basic_format_args::get(name): the first argument of that name.
GetNamed(store, name) ==
  LET At == {i \in 1..Len(store.named) : store.named[i][1] = name}
  IN  IF ~HasBit(store.desc, HasNamedArgsBit) \/ At = {} THEN NoArg
      ELSE Get(store, store.named[Min(At)][2])

=============================================================================
