------------------------------ MODULE PageOffset ------------------------------
(***************************************************************************)
(* Which rows a page leaves out: the argument of Offset in the             *)
(* repositories is a product of two ints, and an int wraps round.          *)
(***************************************************************************)
EXTENDS Integers

CONSTANT MaxInt  \* the largest int

ASSUME IntAssumption == MaxInt \in Nat \ {0}

\* The int that is left of n: two's complement.
ToInt(n) == ((n + MaxInt + 1) % (2 * (MaxInt + 1))) - (MaxInt + 1)

\* Mutant: the first page starts after itself.
MutSkipped(page, size) == page * size

\* Offset((page - 1) * pageSize): only a positive one becomes part of the
\* statement.
Skipped(page, size) ==
    LET offset == ToInt((page - 1) * size) IN IF offset > 0 THEN offset ELSE 0
===============================================================================
