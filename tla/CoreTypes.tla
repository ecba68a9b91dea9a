----------------------------- MODULE CoreTypes -----------------------------
(***************************************************************************)
(* The parameters of a training session (src/core/types.rs) and their      *)
(* conversion into the VDAF instance that janus stores with a task.        *)
(***************************************************************************)

CONSTANTS
    GradientLen,        \* lengths of gradient vectors (usize)
    PrivacyParameter    \* zCDP budgets

FixedTypeTag == {"FixedType16Bit", "FixedType32Bit"}

BitSize == {"BitSize16", "BitSize32"}

VdafParameter ==
    [gradient_len      : GradientLen,
     privacy_parameter : PrivacyParameter,
     submission_type   : FixedTypeTag]

VdafInstance ==
    [length : GradientLen, bitsize : BitSize, dp_strategy : PrivacyParameter]

ToVdafInstance(p) ==
    [length      |-> p.gradient_len,
     bitsize     |-> IF p.submission_type = "FixedType16Bit"
                     THEN "BitSize16" ELSE "BitSize32",
     dp_strategy |-> p.privacy_parameter]

=============================================================================
