----------------------------- MODULE CompatDiv -----------------------------
(***************************************************************************)
(* DIV_ROUND_CLOSEST_ULL(x, divisor) of src/drm_compat.h:                 *)
(*   _tmp = (x) + (__d) / 2;  do_div(_tmp, __d);  _tmp                     *)
(* _tmp is an unsigned long long, so the addition wraps at its width, and *)
(* do_div divides a 64-bit dividend by a 32-bit divisor.  The model keeps *)
(* both widths scaled down: UllBits for unsigned long long and            *)
(* UllBits \div 2 for the divisor.                                         *)
(***************************************************************************)
EXTENDS Integers

CONSTANT UllBits    \* width of unsigned long long

ASSUME UllBits \in Nat /\ UllBits >= 2 /\ UllBits % 2 = 0

Dividends == 0..(2^UllBits - 1)
Divisors == 1..(2^(UllBits \div 2) - 1)     \* the 32-bit divisors of do_div

NoResult == -1

VARIABLES
    x, d,       \* the arguments
    q           \* the result, once computed

vars == <<x, d, q>>

Init ==
    /\ x = 0 /\ d = 1
    /\ q = NoResult

(* Mutant: the half divisor left out, so the quotient is truncated. *)
DivRoundClosestTrunc(a, b) == a \div b

(* The macro: the sum wraps modulo 2^UllBits before the division. *)
DivRoundClosestUll(a, b) == ((a + b \div 2) % 2^UllBits) \div b

Call ==
    /\ q = NoResult
    /\ \E a \in Dividends, b \in Divisors :
          /\ x' = a /\ d' = b
          /\ q' = DivRoundClosestUll(a, b)

Next == Call

Spec == Init /\ [][Next]_vars

-----------------------------------------------------------------------------
(* DIV_ROUND_CLOSEST_ULL rounds x / divisor to the nearest integer, a      *)
(* half rounded up, for every dividend whose sum x + divisor / 2 does not *)
(* wrap: (2q - 1) * d <= 2x < (2q + 1) * d.                                *)
DivRoundClosestNearest ==
    q # NoResult /\ x + d \div 2 < 2^UllBits =>
        (2 * q - 1) * d <= 2 * x /\ 2 * x < (2 * q + 1) * d
=============================================================================
