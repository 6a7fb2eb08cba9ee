--------------------------- MODULE DebugLifecycle ---------------------------
(***************************************************************************)
(* What one system's debug session promises its caller: the states         *)
(* DebugManager.poll names (debug_session.py:163-187) and the moves        *)
(* between them.  A listener that is waiting never waits forever, and what *)
(* was caught is attached or released before anything else is listened for.*)
(***************************************************************************)

VARIABLE status

States == {"idle", "listening", "caught", "attached", "timeout", "error"}

Init == status = "idle"

\* debug_listen is accepted: no listener, nothing caught, nothing attached.
Listen ==
  /\ status \in {"idle", "timeout", "error"}
  /\ status' = "listening"

\* The listener is over: it caught something, gave up, failed or was stopped.
ListenerEnds ==
  /\ status = "listening"
  /\ status' \in {"caught", "timeout", "error", "idle"}

Attach ==
  /\ status = "caught"
  /\ status' = "attached"

\* debug_detach from any state; debug_stop_listener forgets a timeout.
Settle ==
  /\ status' = "idle"

Next == Listen \/ ListenerEnds \/ Attach \/ Settle

Spec == Init /\ [][Next]_status /\ WF_status(ListenerEnds)
=============================================================================
