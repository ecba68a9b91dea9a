-------------------------- MODULE FixedPointProofs --------------------------
(***************************************************************************)
(* Proofs about FixedPoint, for every number of bits and every Grain.      *)
(***************************************************************************)
EXTENDS FixedPoint, IntegerDivision

LEMMA ScaleType == Scale \in Int
BY FormatAssumption DEF Scale

\* Floor gives the greatest number on the grid that is not above x.
LEMMA FloorIsGreatest ==
    ASSUME NEW x \in Int
    PROVE  /\ Floor(x) \in Int
           /\ Floor(x) * Grain <= x
           /\ \A b \in Int : b * Grain <= x => b <= Floor(x)
<1>1. /\ Floor(x) \in Int
      /\ Floor(x) * Grain <= x
      /\ x < Floor(x) * Grain + Grain
  BY DivisionRoundsDown, FormatAssumption DEF Floor
<1>2. ASSUME NEW b \in Int, b * Grain <= x, Floor(x) < b PROVE FALSE
  <2>1. Floor(x) * Grain + Grain <= b * Grain
    BY <1>1, <1>2, GridSteps, FormatAssumption
  <2>2. b * Grain \in Int /\ Floor(x) * Grain \in Int /\ Grain \in Int
    BY <1>1, FormatAssumption
  <2>3. QED
    BY <1>1, <1>2, <2>1, <2>2
<1>3. QED
  BY <1>1, <1>2

\* Ceil gives the least number on the grid that is not below x.
LEMMA CeilIsLeast ==
    ASSUME NEW x \in Int
    PROVE  /\ Ceil(x) \in Int
           /\ Ceil(x) * Grain >= x
           /\ \A b \in Int : b * Grain >= x => b >= Ceil(x)
<1> DEFINE f == Floor(-x)
<1>1. Ceil(x) = -f
  BY DEF Ceil, Floor
<1>2. /\ f \in Int
      /\ f * Grain <= -x
      /\ \A b \in Int : b * Grain <= -x => b <= f
  BY FloorIsGreatest
<1> HIDE DEF f
<1>3. \A b \in Int : (-b) * Grain = -(b * Grain) /\ b * Grain \in Int
  BY FormatAssumption, SMTT(30)
<1>4. (-f) * Grain = -(f * Grain) /\ f * Grain \in Int
  BY <1>2, <1>3
<1>5. Ceil(x) * Grain >= x
  BY <1>1, <1>2, <1>4
<1>6. ASSUME NEW b \in Int, b * Grain >= x PROVE b >= Ceil(x)
  <2>1. (-b) * Grain <= -x
    BY <1>3, <1>6
  <2>2. -b <= f
    BY <1>2, <2>1
  <2>3. QED
    BY <1>1, <1>2, <2>2
<1>7. QED
  BY <1>1, <1>2, <1>5, <1>6

\* The result, once there is one, is that of the call.
Inv ==
    /\ call \in [x : Float, rounding : {"floor", "ceil"}]
    /\ result # Pending => result = FloatToFixed(call.x, call.rounding)

LEMMA Invariance == Spec => []Inv
<1>1. Init => Inv
  BY DEF Init, Inv
<1>2. Inv /\ [Next]_vars => Inv'
  BY DEF Inv, Next, Convert, vars
<1>3. QED
  BY <1>1, <1>2, PTL DEF Spec

\* Whatever the width of the fixed type and the resolution of the floats, a
\* conversion that succeeds gives the neighbour on the side asked for.
THEOREM ConversionRounds == Spec => []RoundsToNeighbour
<1>1. ASSUME Inv PROVE RoundsToNeighbour
  <2> SUFFICES ASSUME result \notin {Pending, Error}
               PROVE  /\ result \in Bits
                      /\ call.rounding = "floor" =>
                            /\ result * Grain <= call.x
                            /\ \A b \in Bits : b * Grain <= call.x => b <= result
                      /\ call.rounding = "ceil" =>
                            /\ result * Grain >= call.x
                            /\ \A b \in Bits : b * Grain >= call.x => b >= result
    BY DEF RoundsToNeighbour
  <2>1. call.x \in Int
    BY <1>1, ScaleType, FormatAssumption DEF Inv, Float
  <2>2. Bits \subseteq Int
    BY ScaleType DEF Bits
  <2>3. result = FloatToFixed(call.x, call.rounding)
    BY <1>1 DEF Inv
  <2>4. result \in Bits
    BY <2>3 DEF FloatToFixed, Cast
  <2>5. result = IF call.rounding = "floor" THEN Floor(call.x) ELSE Ceil(call.x)
    BY <2>3 DEF FloatToFixed, Cast
  <2>6. CASE call.rounding = "floor"
    BY <2>1, <2>2, <2>4, <2>5, <2>6, FloorIsGreatest
  <2>7. CASE call.rounding = "ceil"
    BY <2>1, <2>2, <2>4, <2>5, <2>7, CeilIsLeast
  <2>8. QED
    BY <2>4, <2>6, <2>7
<1>2. QED
  BY <1>1, Invariance, PTL

\* Floor(x) reaches the number b of the grid when x does.
LEMMA FloorReaches ==
    ASSUME NEW x \in Int, NEW b \in Int
    PROVE  b <= Floor(x) <=> b * Grain <= x
<1>1. /\ Floor(x) \in Int
      /\ Floor(x) * Grain <= x
      /\ b * Grain <= x => b <= Floor(x)
  BY FloorIsGreatest
<1>2. Grain \in Int /\ b * Grain \in Int /\ Floor(x) * Grain \in Int
  BY <1>1, FormatAssumption
<1>3. ASSUME b < Floor(x) PROVE b * Grain <= Floor(x) * Grain
  <2>1. b * Grain + Grain <= Floor(x) * Grain
    BY <1>1, <1>3, GridSteps, FormatAssumption
  <2>2. QED
    BY <1>2, <2>1, FormatAssumption
<1>4. b <= Floor(x) => b < Floor(x) \/ b = Floor(x)
  BY <1>1
<1>5. QED
  BY <1>1, <1>2, <1>3, <1>4

\* Ceil(x) stays below the number b of the grid when x does.
LEMMA CeilStays ==
    ASSUME NEW x \in Int, NEW b \in Int
    PROVE  Ceil(x) <= b <=> x <= b * Grain
<1> DEFINE f == Floor(-x)
<1>1. Ceil(x) = -f
  BY DEF Ceil, Floor
<1>2. f \in Int
  BY FloorIsGreatest
<1>3. -b <= f <=> (-b) * Grain <= -x
  BY FloorReaches
<1> HIDE DEF f
<1>4. (-b) * Grain = -(b * Grain) /\ b * Grain \in Int
  BY FormatAssumption, SMTT(30)
<1>5. QED
  BY <1>1, <1>2, <1>3, <1>4

\* Rounding leaves the type exactly for the numbers that are out of range.
LEMMA RoundedInRange ==
    ASSUME NEW x \in Int, NEW rounding \in {"floor", "ceil"}
    PROVE  (IF rounding = "floor" THEN Floor(x) ELSE Ceil(x)) \in Bits
              <=> ~OutOfRange(x, rounding)
<1>1. /\ Scale \in Int
      /\ Grain \in Int
      /\ One \in Int
      /\ Floor(x) \in Int
      /\ Ceil(x) \in Int
  BY ScaleType, FormatAssumption, FloorIsGreatest, CeilIsLeast DEF One
<1>2. /\ (-Scale) * Grain = -One
      /\ (Scale - 1) * Grain = One - Grain
      /\ (-Scale - 1) * Grain = -One - Grain
  BY <1>1, SMTT(30) DEF One
<1>3. /\ -Scale <= Floor(x) <=> -One <= x
      /\ Scale <= Floor(x) <=> One <= x
  BY <1>1, <1>2, FloorReaches DEF One
<1>4. /\ Ceil(x) <= Scale - 1 <=> x <= One - Grain
      /\ Ceil(x) <= -Scale - 1 <=> x <= -One - Grain
  <2>1. Scale - 1 \in Int /\ -Scale - 1 \in Int
    BY <1>1
  <2>2. QED
    BY <1>2, <2>1, CeilStays
<1>5. \A i \in Int : i \in Bits <=> -Scale <= i /\ i <= Scale - 1
  BY <1>1 DEF Bits
<1>6. CASE rounding = "floor"
  <2>1. OutOfRange(x, rounding) <=> x < -One \/ x >= One
    BY <1>6 DEF OutOfRange
  <2>2. Floor(x) \in Bits <=> -Scale <= Floor(x) /\ ~(Scale <= Floor(x))
    BY <1>1, <1>5
  <2>3. QED
    BY <1>1, <1>3, <1>6, <2>1, <2>2
<1>7. CASE rounding = "ceil"
  <2>1. OutOfRange(x, rounding) <=> x <= -One - Grain \/ x > One - Grain
    BY <1>7 DEF OutOfRange
  <2>2. Ceil(x) \in Bits <=> Ceil(x) <= Scale - 1 /\ ~(Ceil(x) <= -Scale - 1)
    BY <1>1, <1>5
  <2>3. QED
    BY <1>1, <1>4, <1>7, <2>1, <2>2
<1>8. QED
  BY <1>6, <1>7

\* A conversion fails for the numbers out of range on the side asked for, and
\* for no other, whatever the width of the type.
THEOREM RefusalIsExact == Spec => []FailsExactlyOutside
<1>1. ASSUME Inv, result # Pending
      PROVE  result = Error <=> OutOfRange(call.x, call.rounding)
  <2> DEFINE i == IF call.rounding = "floor" THEN Floor(call.x) ELSE Ceil(call.x)
  <2>1. call.x \in Int /\ call.rounding \in {"floor", "ceil"}
    BY <1>1, ScaleType, FormatAssumption DEF Inv, Float
  <2>2. i \in Bits <=> ~OutOfRange(call.x, call.rounding)
    BY <2>1, RoundedInRange
  <2>3. result = Cast(i)
    BY <1>1 DEF Inv, FloatToFixed
  <2>4. Error \notin Bits
    BY ScaleType, MarkAssumption DEF Bits
  <2> HIDE DEF i
  <2>5. QED
    BY <2>2, <2>3, <2>4 DEF Cast
<1>2. Inv => FailsExactlyOutside
  BY <1>1 DEF FailsExactlyOutside
<1>3. QED
  BY <1>2, Invariance, PTL

=============================================================================
