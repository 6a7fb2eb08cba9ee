-------------------------- MODULE BreakpointsProofs --------------------------
(***************************************************************************)
(* Proofs about Breakpoints for every set of callers and ids and every     *)
(* combination of faults: each call may be refused or lost, and the        *)
(* process may die at any time.                                            *)
(***************************************************************************)
EXTENDS Breakpoints, TLAPS

\* A call that is about a breakpoint knows which.
Knows ==
  \A c \in Clients :
    pc[c] \in {"remember", "delete", "forget", "clear", "clear_forget"} => id[c] \in Ids

\* What is about to be forgotten is deleted, and nobody has set it again; of a clear the
\* delete may have failed.
Deleted ==
  \A c \in Clients :
    /\ pc[c] = "forget" => id[c] \notin armed
    /\ pc[c] = "clear_forget" => id[c] \notin armed \/ id[c] \in swallowed

\* The shutdown is alone.
Alone == pc[Main] # "idle" => \A c \in Clients : pc[c] = "idle"

\* The inductive invariant.
BreakpointInv == TypeOK /\ Knows /\ Deleted /\ Alone /\ Accounted

\* What the shutdown still has to delete.
Pending ==
  /\ pc[Main] = "close_delete" => armed \subseteq todo[Main] \cup lost \cup swallowed
  /\ pc[Main] \in {"close_end", "closed"} => armed \subseteq lost \cup swallowed

-------------------------------------------------------------------------------
\* Nothing is armed, remembered or lost at the start.
LEMMA InitInv == Init => BreakpointInv
BY BreakpointAssumption
   DEF Init, BreakpointInv, TypeOK, Knows, Deleted, Alone, Accounted, Actors, Fetched

\* A tool's step keeps the accounts: what it takes from the list it has seen deleted.
LEMMA ToolStep ==
  ASSUME BreakpointInv, NEW c \in Clients, Tool(c)
  PROVE  BreakpointInv'
<1> USE BreakpointAssumption DEF BreakpointInv, TypeOK, Knows, Deleted, Alone, Accounted, Actors,
      Fetched, Goto, Calls, Send, Fresh
<1>1. CASE SetSend(c) BY <1>1 DEF SetSend
<1>2. CASE SetDone(c) BY <1>2 DEF SetDone
<1>3. CASE SetFails(c) BY <1>3 DEF SetFails
<1>4. CASE Remember(c) BY <1>4 DEF Remember
<1>5. CASE DeleteSend(c) BY <1>5 DEF DeleteSend
<1>6. CASE DeleteDone(c) BY <1>6 DEF DeleteDone
<1>7. CASE DeleteFails(c) BY <1>7 DEF DeleteFails
<1>8. CASE Forget(c) BY <1>8 DEF Forget
<1>9. CASE ClearBegin(c) BY <1>9 DEF ClearBegin
<1>10. CASE ClearSend(c) BY <1>10 DEF ClearSend
<1>11. CASE ClearDone(c) BY <1>11 DEF ClearDone
<1>12. CASE ClearForget(c) BY <1>12 DEF ClearForget
<1>13. CASE ClearAllSend(c) BY <1>13 DEF ClearAllSend
<1>14. CASE ClearAllDone(c) BY <1>14 DEF ClearAllDone, Net
<1> QED BY <1>1, <1>2, <1>3, <1>4, <1>5, <1>6, <1>7, <1>8, <1>9, <1>10, <1>11, <1>12, <1>13, <1>14
        DEF Tool

\* So do the shutdown, which empties the list only when it is over, and a crash, after which
\* whatever is armed is lost.
LEMMA EndStep ==
  ASSUME BreakpointInv, Close \/ Crash \/ Closed
  PROVE  BreakpointInv'
<1> USE BreakpointAssumption DEF BreakpointInv, TypeOK, Knows, Deleted, Alone, Accounted, Actors,
      Fetched, Goto, Fresh
<1>1. CASE CloseBegin BY <1>1 DEF CloseBegin
<1>2. CASE CloseDelete BY <1>2 DEF CloseDelete
<1>3. CASE CloseNet BY <1>3 DEF CloseNet, Net
<1>4. CASE CloseEnd BY <1>4 DEF CloseEnd
<1>5. CASE Crash BY <1>5 DEF Crash
<1>6. CASE Closed BY <1>6 DEF Closed, vars
<1> QED BY <1>1, <1>2, <1>3, <1>4, <1>5, <1>6 DEF Close

\* Nothing is armed behind the shutdown's back, and it leaves out nothing it knows of.
LEMMA PendingStep ==
  ASSUME BreakpointInv, Pending, [Next]_vars
  PROVE  Pending'
<1> USE BreakpointAssumption DEF BreakpointInv, TypeOK, Alone, Accounted, Pending, Actors, Fetched,
      Goto, Calls, Send
<1>1. ASSUME NEW c \in Clients, Tool(c)
      PROVE  Pending'
  <2>1. pc[Main] = "idle"
    BY <1>1 DEF Tool, SetSend, SetDone, SetFails, Remember, DeleteSend, DeleteDone, DeleteFails,
         Forget, ClearBegin, ClearSend, ClearDone, ClearForget, ClearAllSend, ClearAllDone
  <2>2. pc'[Main] = pc[Main]
    BY <1>1 DEF Tool, SetSend, SetDone, SetFails, Remember, DeleteSend, DeleteDone, DeleteFails,
         Forget, ClearBegin, ClearSend, ClearDone, ClearForget, ClearAllSend, ClearAllDone
  <2> QED BY <2>1, <2>2
<1>2. CASE CloseBegin
  <2>1. armed \subseteq remembered \cup lost \cup swallowed
    BY <1>2 DEF CloseBegin
  <2> QED BY <1>2, <2>1 DEF CloseBegin
<1>3. CASE CloseDelete BY <1>3 DEF CloseDelete
<1>4. CASE CloseNet BY <1>4 DEF CloseNet, Net
<1>5. CASE CloseEnd BY <1>5 DEF CloseEnd
<1>6. CASE Crash BY <1>6 DEF Crash
<1>7. CASE Closed \/ UNCHANGED vars BY <1>7 DEF Closed, vars
<1> QED BY <1>1, <1>2, <1>3, <1>4, <1>5, <1>6, <1>7 DEF Next, Close

\* Every reachable state satisfies the inductive invariant.
THEOREM Invariance == Spec => []BreakpointInv
<1>1. Init => BreakpointInv
  BY InitInv
<1>2. BreakpointInv /\ [Next]_vars => BreakpointInv'
  <2> SUFFICES ASSUME BreakpointInv, [Next]_vars PROVE BreakpointInv'
    OBVIOUS
  <2>1. CASE UNCHANGED vars
    BY <2>1 DEF vars, BreakpointInv, TypeOK, Knows, Deleted, Alone, Accounted, Fetched
  <2> QED BY <2>1, ToolStep, EndStep DEF Next
<1> QED BY <1>1, <1>2, PTL DEF Spec

\* The fields keep their types: among others only ids SAP has named are remembered.
THEOREM TypeCorrect == Spec => []TypeOK
<1>1. BreakpointInv => TypeOK
  BY DEF BreakpointInv
<1> QED BY <1>1, Invariance, PTL

\* While the server runs, whatever is armed and was ever named to it can still be deleted
\* by it, however set, delete and clear overlap, fail or are cut short; but not what a
\* clear has failed to delete.
THEOREM NothingForgotten == Spec => []Accounted
<1>1. BreakpointInv => Accounted
  BY DEF BreakpointInv
<1> QED BY <1>1, Invariance, PTL

\* After the shutdown nothing is armed that was named to the server and whose delete has
\* not failed itself, whatever else has failed.
THEOREM NothingLeft == Spec => []ShutdownDeletes
<1>1. Spec => []BreakpointInv
  BY Invariance
<1>2. Init => Pending
  BY BreakpointAssumption DEF Init, Pending, Actors
<1>3. BreakpointInv /\ Pending /\ [Next]_vars => Pending'
  BY PendingStep
<1>4. Pending => ShutdownDeletes
  BY DEF Pending, ShutdownDeletes
<1> QED BY <1>1, <1>2, <1>3, <1>4, PTL DEF Spec
=============================================================================
