----------------------------- MODULE MCContext -----------------------------
(***************************************************************************)
(* The instance of Context TLC checks.                                     *)
(***************************************************************************)
EXTENDS Context

\* What an object may depend on is interchangeable.
Symmetric == Permutations(Others)
=============================================================================
