--------------------------- MODULE MCSessionPool ---------------------------
(***************************************************************************)
(* The instance of SessionPool TLC checks: overlapping calls, logins that  *)
(* fail, sessions that expire.                                             *)
(***************************************************************************)
EXTENDS SessionPool, TLC

\* Threads are interchangeable, and so are the sessions SAP mints.
Symmetric == Permutations(Threads) \cup Permutations(Sessions)
=============================================================================
