--------------------------- MODULE MCDebugSession ---------------------------
(***************************************************************************)
(* The instances of DebugSession TLC checks: one caller that goes by the   *)
(* book (session_one_caller), and overlapping callers                      *)
(* (session_many_callers).                                                 *)
(***************************************************************************)
EXTENDS DebugSession, TLC

\* Callers and thread objects are interchangeable.
Symmetric == Permutations(Clients) \cup Permutations(Listeners)
=============================================================================
