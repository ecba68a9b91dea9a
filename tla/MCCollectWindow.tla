--------------------------- MODULE MCCollectWindow ---------------------------
(***************************************************************************)
(* The instance of CollectWindow for TLC.                                  *)
(***************************************************************************)
EXTENDS CollectWindow, TLC

Symmetry == Permutations(Client)

=============================================================================
