--------------------------- MODULE IntegerDivision ---------------------------
(***************************************************************************)
(* Lemmas about rounding an integer to a multiple of another.              *)
(***************************************************************************)
EXTENDS Integers, TLAPS

\* Division rounds down, also for negative numbers.
LEMMA DivisionRoundsDown ==
    ASSUME NEW x \in Int, NEW g \in Nat \ {0}
    PROVE  /\ x \div g \in Int
           /\ (x \div g) * g <= x
           /\ x < (x \div g) * g + g
BY SMTT(60)

\* Numbers on the grid of g are at least g apart.
LEMMA GridSteps ==
    ASSUME NEW b \in Int, NEW f \in Int, NEW g \in Nat \ {0}, f < b
    PROVE  f * g + g <= b * g
<1>1. PICK d \in Nat : b = f + 1 + d
  BY 0 <= b - f - 1
<1>2. b * g = f * g + g + d * g
  BY <1>1, SMTT(30)
<1>3. d * g >= 0
  BY <1>1, SMTT(30)
<1>4. QED
  BY <1>2, <1>3, SMTT(30)

=============================================================================
