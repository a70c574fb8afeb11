------------------------------ MODULE StdSearch -------------------------------
(***************************************************************************)
(* The C++ standard library's search, which the pages call.                 *)
(***************************************************************************)
EXTENDS Integers

\* std::lower_bound as libstdc++ implements it (__lower_bound in
\* bits/stl_algobase.h): halve the length of what is left.
BinarySearch(lo, hi, less) ==
  LET Search[a \in lo..hi, n \in 0..(hi - lo)] ==
        IF n = 0 THEN a
        ELSE LET half == n \div 2
             IN  IF a + half \in less THEN Search[a + half + 1, n - half - 1]
                                      ELSE Search[a, half]
  IN  Search[lo, hi - lo]

=============================================================================
