---------------------------- MODULE MCFederation ----------------------------
(***************************************************************************)
(* Instances of Federation for TLC.                                        *)
(***************************************************************************)
EXTENDS FederationInvariants, TLC

OneLen == {3}
TwoLens == {3, 4}
OnePrivacy == {1}

CONSTANT Wide    \* the controllers that use the 32 bit type, not the 16 bit one

ParamOf ==
    [c \in Controller |->
        [gradient_len |-> 3, privacy_parameter |-> 1,
         submission_type |-> IF c \in Wide THEN "FixedType32Bit"
                                           ELSE "FixedType16Bit"]]

Symmetry ==
    Permutations(VerifyKey) \cup Permutations(TaskId)
        \cup Permutations(Handler) \cup Permutations(SessionId)

\* Controllers differ in nothing when none of them is Wide.
SymmetryOfEqualControllers == Symmetry \cup Permutations(Controller)

=============================================================================
