---------------------------- MODULE Breakpoints ----------------------------
(***************************************************************************)
(* The external breakpoints of one system: the tools that set, delete and  *)
(* clear them (server.py:636-723), the list of ids DebugManager remembers  *)
(* (debug_session.py:356-378) and the shutdown that deletes them           *)
(* (debug_session.py:421-455).  SAP has no call that lists breakpoints, so *)
(* one that is armed and not remembered stays armed.                       *)
(*                                                                         *)
(* Every SAP call holds the CONTROL channel's lock from sending to answer. *)
(***************************************************************************)
EXTENDS FiniteSets

CONSTANTS
  Clients,     \* worker threads running a breakpoint tool
  Main,        \* the main thread, which runs close_all
  Ids,         \* breakpoint ids SAP hands out; reused once nobody knows them
  Faults,      \* which calls may fail
  ClearWorks,  \* does an empty set of breakpoints make SAP drop ours? (unmeasured)
  None

ASSUME BreakpointAssumption ==
  /\ Main \notin Clients
  /\ None \notin Clients \cup Ids \cup {Main}
  /\ ClearWorks \in BOOLEAN
  /\ Faults \subseteq {"set_refused", "set_lost", "delete_refused", "delete_lost",
                       "clear_refused", "close_refused", "no_control", "crash"}

VARIABLES
  armed,       \* SAP's side: the breakpoints that will stop a program
  remembered,  \* st.breakpoints
  lock,        \* holder of the CONTROL channel's lock
  pc,          \* where each thread is
  id,          \* the breakpoint its current step is about
  todo,        \* the snapshot a clear, or the shutdown, still has to work through
  lost,        \* ids this process was never told, or forgot in a crash
  swallowed    \* ids whose delete failed, or was not sent, without the code minding

vars == <<armed, remembered, lock, pc, id, todo, lost, swallowed>>

Actors == Clients \cup {Main}

TypeOK ==
  /\ armed \in SUBSET Ids
  /\ remembered \in SUBSET Ids
  /\ lock \in Actors \cup {None}
  /\ pc \in [Actors -> {"idle", "set", "remember", "delete", "forget", "next", "clear",
                        "clear_forget", "clear_all", "close_delete", "close_end", "closed"}]
  /\ id \in [Clients -> Ids \cup {None}]
  /\ todo \in [Actors -> SUBSET Ids]
  /\ lost \in SUBSET Ids
  /\ swallowed \in SUBSET Ids

Init ==
  /\ armed = {} /\ remembered = {} /\ lost = {} /\ swallowed = {}
  /\ lock = None
  /\ pc = [a \in Actors |-> "idle"]
  /\ id = [c \in Clients |-> None]
  /\ todo = [a \in Actors |-> {}]

-----------------------------------------------------------------------------
Goto(a, where) == pc' = [pc EXCEPT ![a] = where]

Calls(c) == pc[c] = "idle" /\ pc[Main] = "idle"

Fresh(i) ==
  /\ i \notin armed \cup remembered
  /\ \A c \in Clients : id[c] # i
  /\ \A a \in Actors : i \notin todo[a]

\* A request goes out on the CONTROL session.
Send(c, where, i) ==
  /\ lock = None
  /\ lock' = c
  /\ id' = [id EXCEPT ![c] = i]
  /\ Goto(c, where)
  /\ UNCHANGED <<armed, remembered, todo, lost, swallowed>>

-----------------------------------------------------------------------------
(* debug_set_breakpoint *)

\* The model's bound: no more breakpoints than there are ids.
RoomForOne == \E i \in Ids : Fresh(i)

SetSend(c) == Calls(c) /\ RoomForOne /\ Send(c, "set", None)

\* SAP arms the breakpoint and names it.
SetDone(c) ==
  /\ pc[c] = "set"
  /\ \E i \in Ids :
       /\ Fresh(i)
       /\ armed' = armed \cup {i}
       /\ lost' = lost \ {i} /\ swallowed' = swallowed \ {i}
       /\ id' = [id EXCEPT ![c] = i]
  /\ lock' = None
  /\ Goto(c, "remember")
  /\ UNCHANGED <<remembered, todo>>

\* Mutant of SetFails: the empty id of a refused breakpoint is remembered.
SetFailsRemembered(c) ==
  /\ pc[c] = "set"
  /\ "set_refused" \in Faults
  /\ lock' = None
  /\ Goto(c, "remember")
  /\ UNCHANGED <<armed, remembered, id, todo, lost, swallowed>>

\* SAP refuses it, or arms it and the answer never arrives.
SetFails(c) ==
  /\ pc[c] = "set"
  /\ \/ "set_refused" \in Faults /\ UNCHANGED <<armed, lost, swallowed>>
     \/ /\ "set_lost" \in Faults
        /\ \E i \in Ids : Fresh(i) /\ armed' = armed \cup {i} /\ lost' = lost \cup {i}
  /\ lock' = None
  /\ Goto(c, "idle")
  /\ UNCHANGED <<remembered, id, todo, swallowed>>

\* remember_breakpoints, in a step of its own: the lock of the channel is given back.
Remember(c) ==
  /\ pc[c] = "remember"
  /\ remembered' = remembered \cup {id[c]}
  /\ id' = [id EXCEPT ![c] = None]
  /\ Goto(c, "idle")
  /\ UNCHANGED <<armed, lock, todo, lost, swallowed>>

-----------------------------------------------------------------------------
(* debug_delete_breakpoint: an id one of the set calls has returned *)

DeleteSend(c) == Calls(c) /\ \E i \in remembered : Send(c, "delete", i)

DeleteDone(c) ==
  /\ pc[c] = "delete"
  /\ armed' = armed \ {id[c]}
  /\ lock' = None
  /\ Goto(c, "forget")
  /\ UNCHANGED <<remembered, id, todo, lost, swallowed>>

\* Mutant of DeleteFails: the id is forgotten although the delete was refused.
DeleteFailsForgetting(c) ==
  /\ pc[c] = "delete"
  /\ "delete_refused" \in Faults
  /\ lock' = None
  /\ Goto(c, "forget")
  /\ UNCHANGED <<armed, remembered, id, todo, lost, swallowed>>

\* DebugError: refused, or done and the answer lost.  The id stays remembered.
DeleteFails(c) ==
  /\ pc[c] = "delete"
  /\ \/ "delete_refused" \in Faults /\ UNCHANGED armed
     \/ "delete_lost" \in Faults /\ armed' = armed \ {id[c]}
  /\ lock' = None
  /\ id' = [id EXCEPT ![c] = None]
  /\ Goto(c, "idle")
  /\ UNCHANGED <<remembered, todo, lost, swallowed>>

Forget(c) ==
  /\ pc[c] = "forget"
  /\ remembered' = remembered \ {id[c]}
  /\ id' = [id EXCEPT ![c] = None]
  /\ Goto(c, "idle")
  /\ UNCHANGED <<armed, lock, todo, lost, swallowed>>

-----------------------------------------------------------------------------
(* debug_clear_breakpoints *)

ClearBegin(c) ==
  /\ Calls(c)
  /\ todo' = [todo EXCEPT ![c] = remembered]
  /\ Goto(c, "next")
  /\ UNCHANGED <<armed, remembered, lock, id, lost, swallowed>>

ClearSend(c) == pc[c] = "next" /\ \E i \in todo[c] : Send(c, "clear", i)

\* The delete answers, or its DebugError is swallowed: "clear_forget" follows either way.
ClearDone(c) ==
  /\ pc[c] = "clear"
  /\ \/ armed' = armed \ {id[c]} /\ UNCHANGED swallowed
     \/ /\ "clear_refused" \in Faults
        /\ swallowed' = swallowed \cup {id[c]} /\ UNCHANGED armed
  /\ lock' = None
  /\ Goto(c, "clear_forget")
  /\ UNCHANGED <<remembered, id, todo, lost>>

ClearForget(c) ==
  /\ pc[c] = "clear_forget"
  /\ remembered' = remembered \ {id[c]}
  /\ todo' = [todo EXCEPT ![c] = @ \ {id[c]}]
  /\ id' = [id EXCEPT ![c] = None]
  /\ Goto(c, "next")
  /\ UNCHANGED <<armed, lock, lost, swallowed>>

ClearAllSend(c) == pc[c] = "next" /\ todo[c] = {} /\ Send(c, "clear_all", None)

\* The empty set of breakpoints: sent as a safety net, effective or not.
Net == armed' = IF ClearWorks THEN {} ELSE armed

ClearAllDone(c) ==
  /\ pc[c] = "clear_all"
  /\ Net \/ ("clear_refused" \in Faults /\ UNCHANGED armed)
  /\ lock' = None
  /\ Goto(c, "idle")
  /\ UNCHANGED <<remembered, id, todo, lost, swallowed>>

-----------------------------------------------------------------------------
(* close_all, when no call is in flight; and a process that just dies *)

\* Nothing remembered, or no control session to be had, which is swallowed too: nothing
\* is deleted.
CloseBegin ==
  /\ \A a \in Actors : pc[a] = "idle"
  /\ \/ /\ remembered # {}
        /\ lock' = Main
        /\ todo' = [todo EXCEPT ![Main] = remembered]
        /\ Goto(Main, "close_delete")
        /\ UNCHANGED swallowed
     \/ /\ remembered = {} \/ "no_control" \in Faults
        /\ swallowed' = swallowed \cup remembered
        /\ Goto(Main, "close_end")
        /\ UNCHANGED <<lock, todo>>
  /\ UNCHANGED <<armed, remembered, id, lost>>

\* Mutant of CloseDelete: one try around the loop, so the first failure ends it.
CloseDeleteOnce ==
  /\ pc[Main] = "close_delete"
  /\ \E i \in todo[Main] :
       \/ /\ armed' = armed \ {i} /\ UNCHANGED swallowed
          /\ todo' = [todo EXCEPT ![Main] = @ \ {i}]
       \/ /\ "close_refused" \in Faults
          /\ swallowed' = swallowed \cup {i} /\ UNCHANGED armed
          /\ todo' = [todo EXCEPT ![Main] = {}]
  /\ UNCHANGED <<remembered, lock, pc, id, lost>>

CloseDelete ==
  /\ pc[Main] = "close_delete"
  /\ \E i \in todo[Main] :
       /\ \/ armed' = armed \ {i} /\ UNCHANGED swallowed
          \/ /\ "close_refused" \in Faults
             /\ swallowed' = swallowed \cup {i} /\ UNCHANGED armed
       /\ todo' = [todo EXCEPT ![Main] = @ \ {i}]
  /\ UNCHANGED <<remembered, lock, pc, id, lost>>

CloseNet ==
  /\ pc[Main] = "close_delete" /\ todo[Main] = {}
  /\ Net \/ ("close_refused" \in Faults /\ UNCHANGED armed)
  /\ lock' = None
  /\ Goto(Main, "close_end")
  /\ UNCHANGED <<remembered, id, todo, lost, swallowed>>

CloseEnd ==
  /\ pc[Main] = "close_end"
  /\ remembered' = {}
  /\ Goto(Main, "closed")
  /\ UNCHANGED <<armed, lock, id, todo, lost, swallowed>>

\* The process dies without close_all and is started again: what was armed is armed
\* still, a set request under way may yet arrive, and the list is gone.
Crash ==
  /\ "crash" \in Faults
  /\ pc[Main] # "closed"
  /\ \E late \in {{}} \cup {{i} : i \in {j \in Ids : Fresh(j)}} :
       /\ late # {} => \E c \in Clients : pc[c] = "set"
       /\ armed' = armed \cup late
       /\ lost' = armed \cup late
  /\ remembered' = {} /\ swallowed' = {}
  /\ lock' = None
  /\ pc' = [a \in Actors |-> "idle"]
  /\ id' = [c \in Clients |-> None]
  /\ todo' = [a \in Actors |-> {}]

\* After the shutdown nothing has to happen any more.
Closed == pc[Main] = "closed" /\ UNCHANGED vars

-----------------------------------------------------------------------------
Tool(c) ==
  \/ SetSend(c) \/ SetDone(c) \/ SetFails(c) \/ Remember(c)
  \/ DeleteSend(c) \/ DeleteDone(c) \/ DeleteFails(c) \/ Forget(c)
  \/ ClearBegin(c) \/ ClearSend(c) \/ ClearDone(c) \/ ClearForget(c)
  \/ ClearAllSend(c) \/ ClearAllDone(c)

Close == CloseBegin \/ CloseDelete \/ CloseNet \/ CloseEnd

Next == (\E c \in Clients : Tool(c)) \/ Close \/ Crash \/ Closed

Spec == Init /\ [][Next]_vars

-----------------------------------------------------------------------------
\* Breakpoints whose set call has just returned, about to be remembered.
Fetched == {id[c] : c \in {d \in Clients : pc[d] = "remember"}}

\* "They have to be remembered: there is no list-breakpoints call over REST"
\* (debug_session.py:63-66): in any interleaving of set, delete and clear that fail or not,
\* the server forgets nothing that is armed and was ever named to it, but what a
\* debug_clear_breakpoints has failed to delete: that error it swallows, and forgets the id
\* all the same (server.py:714-719), against the sentence quoted.
Accounted ==
  pc[Main] # "closed" => armed \subseteq remembered \cup Fetched \cup lost \cup swallowed

\* "The server deletes everything it set when it shuts down" (src/README.md:201-203): after
\* close_all only that is armed whose own delete has failed, there or in an earlier clear,
\* or could not be sent, or that was set without an answer.  No failure of one keeps
\* another from being deleted.
ShutdownDeletes == pc[Main] = "closed" => armed \subseteq lost \cup swallowed
=============================================================================
