------------------------------ MODULE BTreePage ------------------------------
(***************************************************************************)
(* What every page of the index has in common: the parameters of the       *)
(* Index<KeyT, ValueT, KeyComparatorT> template, the slot counts computed   *)
(* in common.h, the BTreePage header of btree_page.h, and the three ways    *)
(* in which the page classes move slots (std::copy, std::copy_backward)     *)
(* and search them (std::lower_bound).                                      *)
(*                                                                          *)
(* A slot array is a function on 0..max-1 and keeps all its slots, the      *)
(* ones at and beyond the live size included: the code never clears a slot, *)
(* and a size that grows without a write exposes what was there before.     *)
(***************************************************************************)
EXTENDS Integers, FiniteSets

CONSTANTS
  Keys,               \* the values of KeyT, ordered as integers are
  Vals,               \* the values of ValueT
  ZeroVal,            \* the ValueT read from zero-filled memory
  LeafMax,            \* SLOT_CNT of a leaf page
  InnerMax,           \* SLOT_CNT of an internal page
  LowerBound(_, _, _) \* std::lower_bound, see LowerBoundAssumption

\* The template accepts every KeyT, ValueT whose leaf page fits in 4096 bytes,
\* so LeafMax >= 1.  Nothing in the code bounds InnerMax from below, but
\* SetInitialState writes pairs[1] and a split must leave a child on each side,
\* which needs three slots (see README, "Bounds").
ASSUME ParameterAssumption ==
  /\ Keys \subseteq Int
  /\ 0 \in Keys
  /\ ZeroVal \in Vals
  /\ LeafMax \in Nat /\ LeafMax >= 1
  /\ InnerMax \in Nat /\ InnerMax >= 3

\* LowerBound(lo, hi, less) is the position std::lower_bound returns on the
\* range [lo, hi) when the comparator answers TRUE exactly for the positions in
\* less.  The position is inside the range, and on a partitioned range it is
\* the partition point; the standard promises nothing else.
ASSUME LowerBoundAssumption ==
  \A hi \in (0..LeafMax) \cup (0..InnerMax) : \A lo \in 0..hi :
    \A less \in SUBSET (lo..(hi - 1)) :
      /\ LowerBound(lo, hi, less) \in lo..hi
      /\ \A m \in lo..hi : less = lo..(m - 1) => LowerBound(lo, hi, less) = m

-----------------------------------------------------------------------------
\* Page ids: RawPageMgr numbers pages from 0; NoPid is "no page".
NoPid == -1

\* BTreePage::GetMinSize, the same for both page types.
MinSize(max) == (max - 1) \div 2

\* A key and its value always move together.
Entries == Keys \X Vals
ZeroEntry == <<0, ZeroVal>>

LeafSlots == 0..(LeafMax - 1)
InnerSlots == 0..(InnerMax - 1)

\* std::copy_backward(a + i, a + n, a + n + 1): make room at i.  A slot it writes
\* past the end of a is part of the result, which is then no slot array: see TypeOK.
OpenGap(a, i, n) ==
  [j \in DOMAIN a \cup (i + 1)..n |-> IF j \in (i + 1)..n THEN a[j - 1] ELSE a[j]]

\* std::copy(a + i + 1, a + n, a + i): close the slot i; slot n - 1 keeps its content.
CloseGap(a, i, n) ==
  [j \in DOMAIN a |-> IF j \in i..(n - 2) THEN a[j + 1] ELSE a[j]]

\* std::copy(src + from, src + from + n, dst + at), which may go past the end of
\* dst as well.
CopyRange(dst, at, src, from, n) ==
  [j \in DOMAIN dst \cup at..(at + n - 1) |->
     IF j \in at..(at + n - 1) THEN src[from + j - at] ELSE dst[j]]

=============================================================================
