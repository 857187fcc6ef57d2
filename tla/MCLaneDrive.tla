----------------------------- MODULE MCLaneDrive -----------------------------
(***************************************************************************)
(* LaneDrive for TLC: operation ids are model values and interchangeable.  *)
(***************************************************************************)
EXTENDS LaneDrive, TLC

OpSymmetry == Permutations(Ops)
=============================================================================
