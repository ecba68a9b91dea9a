----------------------------- MODULE FixedPoint -----------------------------
(***************************************************************************)
(* float_to_fixed_with of src/core/fixed.rs: how a gradient coordinate     *)
(* becomes a signed fixed-point number.                                    *)
(*                                                                         *)
(* The fixed type has FracBits fractional bits and one integer bit (15 and *)
(* 31 in the code), so that n = FracBits + 1 and Scale = 2^(n-1).  A float *)
(* x is an integer count of 1 / (Scale * Grain): multiplying by a power of *)
(* two is exact in floating point, and Grain bounds how much finer than    *)
(* the fixed type the floats are.                                          *)
(***************************************************************************)
EXTENDS Integers

CONSTANTS FracBits, Grain, Error, Pending

ASSUME FormatAssumption == FracBits \in Nat \ {0} /\ Grain \in Nat \ {0}

ASSUME MarkAssumption == Error \notin Int /\ Pending \notin Int /\ Error # Pending

VARIABLES
    call,       \* the argument x and the rounding function
    result      \* Pending, then the bits of the number, or Error

vars == <<call, result>>

Scale == 2 ^ FracBits

Bits == -Scale .. Scale - 1

\* x beyond [-1, 1] by at most two units of the fixed type.
Float == -(Scale + 2) * Grain .. (Scale + 2) * Grain

Floor(x) == x \div Grain

Ceil(x) == -((-x) \div Grain)

\* Bug: the integer is cut to the width of the type.
CastWraps(i) == ((i + Scale) % (2 * Scale)) - Scale

\* Bug: the range is taken for symmetric.
CastSymmetric(i) == IF i \in -(Scale - 1) .. Scale - 1 THEN i ELSE Error

\* NumCast: an integer that the type cannot hold is an error.
Cast(i) == IF i \in Bits THEN i ELSE Error

FloatToFixed(x, rounding) ==
    Cast(IF rounding = "floor" THEN Floor(x) ELSE Ceil(x))

Init ==
    /\ call \in [x : Float, rounding : {"floor", "ceil"}]
    /\ result = Pending

Convert ==
    /\ result' = FloatToFixed(call.x, call.rounding)
    /\ UNCHANGED call

Next == Convert

Spec == Init /\ [][Next]_vars

-----------------------------------------------------------------------------
(* Properties                                                              *)

\* A result of floor is the greatest fixed-point number that is not above x,
\* and a result of ceil the least that is not below, at both ends of the
\* range too: no coordinate wraps around or changes its sign.
RoundsToNeighbour ==
    result \notin {Pending, Error} =>
        /\ result \in Bits
        /\ call.rounding = "floor" =>
              /\ result * Grain <= call.x
              /\ \A b \in Bits : b * Grain <= call.x => b <= result
        /\ call.rounding = "ceil" =>
              /\ result * Grain >= call.x
              /\ \A b \in Bits : b * Grain >= call.x => b >= result

One == Scale * Grain

\* Where no number of the type is left on the side asked for: floor reaches
\* down to -1 and ceil up to the greatest number, one unit below 1; rounding
\* inwards, each takes also what lies less than a unit beyond its other end.
OutOfRange(x, rounding) ==
    \/ rounding = "floor" /\ (x < -One \/ x >= One)
    \/ rounding = "ceil" /\ (x <= -One - Grain \/ x > One - Grain)

\* The cast to the bits of the type fails there and nowhere else: -1 itself and
\* the numbers between the greatest one and 1 are converted by floor, those
\* just below -1 by ceil, and 1 by neither.
FailsExactlyOutside ==
    result # Pending => (result = Error <=> OutOfRange(call.x, call.rounding))

=============================================================================
