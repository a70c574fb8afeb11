SPECIFICATION MCFSpec
CONSTANTS
 DescBits = 12
 IntBits = 8
 CharCode <- MCCharCode
 InlineSize = 4
 Garbage = "?"
INVARIANTS WritesWhatIsMeant NeverReadsPastTheEnd ReservesWhatItWrites BuffersInStep CheckAndCallAgree
PROPERTIES OnlyAppends EveryFormatEnds
