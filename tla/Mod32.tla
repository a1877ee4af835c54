------------------------------- MODULE Mod32 -------------------------------
(***************************************************************************)
(* Values that wrap around: the code's uint32_t milliseconds, with any     *)
(* even range.                                                             *)
(***************************************************************************)
EXTENDS Integers

CONSTANT Half   \* half the range of a value: 2^31 for uint32_t

ASSUME HalfAssumption == Half \in Nat /\ Half >= 2

Values == 0..(2 * Half - 1)

\* a - b, wrapped around.
Minus(a, b) == IF a >= b THEN a - b ELSE a - b + 2 * Half

\* a + d for a d below the range, wrapped around.
Plus(a, d) == IF a + d < 2 * Half THEN a + d ELSE a + d - 2 * Half

\* Fault: an unsigned comparison, wrong once values wrap around.
LessUnwrapped(a, b) == a < b

\* (int32_t)(a - b) < 0.
Less(a, b) == Minus(a, b) >= Half

\* (int32_t)x.
Signed(x) == IF x < Half THEN x ELSE x - 2 * Half

=============================================================================
