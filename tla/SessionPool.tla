---------------------------- MODULE SessionPool ----------------------------
(***************************************************************************)
(* DebugSessionPool of src/adt_mcp/debug_pool.py for one system with       *)
(* cookie authentication: one DebugSession per channel, built on demand,   *)
(* with a login if the channel's cookie file holds no live SAP session.    *)
(* A client is known by the SAP session it was built on; the name of a     *)
(* session nobody refers to any more is used again.                        *)
(***************************************************************************)

CONSTANTS
  Threads,    \* worker threads of the debugger tools
  Admins,     \* whoever logs the system in without the pool: refresh_cookies_for,
              \* the web admin, SessionKeeper
  Channels,   \* channels in use
  Sessions,   \* SAP sessions, a SAP_SESSIONID each
  NoSession,  \* no cookies at all
  Faults,     \* what may go wrong
  None

ASSUME PoolAssumption ==
  /\ Threads \cap Admins = {}
  /\ {"debug", "control"} \subseteq Channels /\ Channels \subseteq {"debug", "exec", "control"}
  /\ None \notin Threads \cup Sessions \cup {NoSession}
  /\ NoSession \notin Sessions
  /\ Faults \subseteq {"login_fails", "probe_lost", "useless_login", "expiry"}

Clients == Sessions \cup {NoSession}

VARIABLES
  pool,     \* _sessions: the client of each channel, if it has one
  create,   \* holder of _create_lock
  lock,     \* holder of each channel's lock
  known,    \* _info: has the tenant named the ABAP user?
  file,     \* the SAP session in each channel's cookie file
  alive,    \* SAP's side: the sessions that have not expired
  pc,       \* where each thread is
  channel,  \* the channel its call is about
  mine,     \* the client it has in hand
  closed    \* has close_all been through?

vars == <<pool, create, lock, known, file, alive, pc, channel, mine, closed>>

TypeOK ==
  /\ pool \in [Channels -> Clients \cup {None}]
  /\ create \in Threads \cup {None}
  /\ lock \in [Channels -> Threads \cup {None}]
  /\ known \in BOOLEAN
  /\ file \in [Channels -> Clients]
  /\ alive \in SUBSET Sessions
  /\ pc \in [Threads \cup Admins -> {"idle", "lock", "look", "want", "probe", "login",
                                     "reopen", "check", "publish", "holds"}]
  /\ channel \in [Threads -> Channels]
  /\ mine \in [Threads -> Clients \cup {None}]
  /\ \A t \in Threads : pc[t] \in {"probe", "check", "publish", "holds"} => mine[t] # None
  /\ closed \in BOOLEAN

Init ==
  /\ pool = [ch \in Channels |-> None]
  /\ create = None
  /\ lock = [ch \in Channels |-> None]
  /\ known = FALSE
  /\ file = [ch \in Channels |-> NoSession]
  /\ alive = {}
  /\ pc = [t \in Threads \cup Admins |-> "idle"]
  /\ channel = [t \in Threads |-> "control"]
  /\ mine = [t \in Threads |-> None]
  /\ closed = FALSE

-----------------------------------------------------------------------------
Goto(t, where) == pc' = [pc EXCEPT ![t] = where]

\* Mutant of ChannelFile: the debug channel reads the system's own cookie file.
ChannelFileShared(ch) == IF ch = "debug" THEN "control" ELSE ch

\* Every channel has a cookie file of its own; that of "control" is the system's.
ChannelFile(ch) == ch

\* The call is over, with an answer or an exception: with-blocks give back what is held.
Leaves(t) ==
  /\ Goto(t, "idle")
  /\ channel' = [channel EXCEPT ![t] = "control"]
  /\ mine' = [mine EXCEPT ![t] = None]
  /\ lock' = [ch \in Channels |-> IF lock[ch] = t THEN None ELSE lock[ch]]

\* DebugSession(): the cookies are read from the file once, now.
Opens(t, where) ==
  /\ mine' = [mine EXCEPT ![t] = file[ChannelFile(channel[t])]]
  /\ Goto(t, where)

InUse ==
  {file[ch] : ch \in Channels} \cup {pool[ch] : ch \in Channels} \cup {mine[t] : t \in Threads}

\* Every login mints a session of its own (debug_pool.py:10-15) and writes it to a file.
Mints(ch, usable) ==
  \E s \in Sessions :
    /\ s \notin InUse
    /\ file' = [file EXCEPT ![ch] = s]
    /\ alive' = IF usable THEN alive \cup {s} ELSE alive \ {s}

\* A browser that saw no cookies has overwritten the file all the same.
MintsNothing(ch) == file' \in {file, [file EXCEPT ![ch] = NoSession]}

\* system_info() names the user, or nothing: the session is dead or the probe got lost.
Answers(t) == mine[t] \in alive
Silent(t) == mine[t] \notin alive \/ "probe_lost" \in Faults

-----------------------------------------------------------------------------
(* A call on a channel *)

\* Tools take the channel's lock first; start_listen and identity do not.
Call(t) ==
  /\ pc[t] = "idle" /\ ~closed
  /\ \E ch \in Channels : channel' = [channel EXCEPT ![t] = ch]
  /\ \E where \in {"lock", "look"} : Goto(t, where)
  /\ UNCHANGED <<pool, create, lock, known, file, alive, mine, closed>>

Locks(t) ==
  /\ pc[t] = "lock"
  /\ lock[channel[t]] = None
  /\ lock' = [lock EXCEPT ![channel[t]] = t]
  /\ Goto(t, "look")
  /\ UNCHANGED <<pool, create, known, file, alive, channel, mine, closed>>

\* session(): the client that is there, whatever has become of its SAP session.
Look(t) ==
  /\ pc[t] = "look"
  /\ mine' = [mine EXCEPT ![t] = pool[channel[t]]]
  /\ Goto(t, IF pool[channel[t]] # None THEN "holds" ELSE "want")
  /\ UNCHANGED <<pool, create, lock, known, file, alive, channel, closed>>

\* Somebody else built it while this thread waited for _create_lock.
LookAgain(t) ==
  /\ pc[t] = "want"
  /\ create = None
  /\ pool[channel[t]] # None
  /\ mine' = [mine EXCEPT ![t] = pool[channel[t]]]
  /\ Goto(t, "holds")
  /\ UNCHANGED <<pool, create, lock, known, file, alive, channel, closed>>

\* Mutant of Build: it does not matter what is there by now.
BuildBlindly(t) ==
  /\ pc[t] = "want"
  /\ create = None
  /\ create' = t
  /\ Opens(t, "probe")
  /\ UNCHANGED <<pool, lock, known, file, alive, channel, closed>>

Build(t) ==
  /\ pc[t] = "want"
  /\ create = None
  /\ pool[channel[t]] = None
  /\ create' = t
  /\ Opens(t, "probe")
  /\ UNCHANGED <<pool, lock, known, file, alive, channel, closed>>

Probe(t) ==
  /\ pc[t] = "probe"
  /\ \/ /\ Answers(t)
        /\ known' = TRUE
        /\ Goto(t, "publish")
        /\ UNCHANGED mine
     \/ /\ Silent(t)
        /\ mine' = [mine EXCEPT ![t] = None]
        /\ Goto(t, "login")
        /\ UNCHANGED known
  /\ UNCHANGED <<pool, create, lock, file, alive, channel, closed>>

\* Whether SAP will accept what the browser captured is not known yet.
Login(t) ==
  /\ pc[t] = "login"
  /\ \E usable \in {TRUE} \cup {"useless_login" \notin Faults} :
       Mints(ChannelFile(channel[t]), usable)
  /\ Goto(t, "reopen")
  /\ UNCHANGED <<pool, create, lock, known, channel, mine, closed>>

\* Mutant of LoginFails: _create_lock taken and given back by hand.
LoginFailsHolding(t) ==
  /\ pc[t] = "login"
  /\ "login_fails" \in Faults
  /\ Leaves(t)
  /\ UNCHANGED <<pool, create, known, file, alive, closed>>

\* No login: DebugError.
LoginFails(t) ==
  /\ pc[t] = "login"
  /\ "login_fails" \in Faults
  /\ MintsNothing(ChannelFile(channel[t]))
  /\ create' = None
  /\ Leaves(t)
  /\ UNCHANGED <<pool, known, alive, closed>>

\* Mutant of Reopen: the client closed before the login is used on.
ReopenNothing(t) ==
  /\ pc[t] = "reopen"
  /\ Goto(t, "check")
  /\ UNCHANGED <<pool, create, lock, known, file, alive, channel, mine, closed>>

\* The cookies are read again: the client built before the login is closed by now.
Reopen(t) ==
  /\ pc[t] = "reopen"
  /\ Opens(t, "check")
  /\ UNCHANGED <<pool, create, lock, known, file, alive, channel, closed>>

\* Mutant of Check: only a session found alive without a login is remembered.
CheckForgetful(t) ==
  /\ pc[t] = "check"
  /\ Answers(t)
  /\ Goto(t, "publish")
  /\ UNCHANGED <<pool, create, lock, known, file, alive, channel, mine, closed>>

Check(t) ==
  /\ pc[t] = "check"
  /\ Answers(t)
  /\ known' = TRUE
  /\ Goto(t, "publish")
  /\ UNCHANGED <<pool, create, lock, file, alive, channel, mine, closed>>

\* "logged in but the session is still not usable"
CheckFails(t) ==
  /\ pc[t] = "check"
  /\ Silent(t)
  /\ create' = None
  /\ Leaves(t)
  /\ UNCHANGED <<pool, known, file, alive, closed>>

Publish(t) ==
  /\ pc[t] = "publish"
  /\ pool' = [pool EXCEPT ![channel[t]] = mine[t]]
  /\ create' = None
  /\ Goto(t, "holds")
  /\ UNCHANGED <<lock, known, file, alive, channel, mine, closed>>

\* The request is answered, or its exception reported.
Done(t) ==
  /\ pc[t] = "holds"
  /\ Leaves(t)
  /\ UNCHANGED <<pool, create, known, file, alive, closed>>

\* invalidate(), by a release that could not let its debuggee go: what the pool holds now
\* is dropped and closed.
Invalidate(t) ==
  /\ pc[t] = "holds" /\ channel[t] = "debug" /\ lock["debug"] = t
  /\ pool' = [pool EXCEPT !["debug"] = None]
  /\ Leaves(t)
  /\ UNCHANGED <<create, known, file, alive, closed>>

\* close_all, once no call is in flight.
CloseAll ==
  /\ ~closed /\ \A t \in Threads : pc[t] = "idle"
  /\ pool' = [ch \in Channels |-> None]
  /\ closed' = TRUE
  /\ UNCHANGED <<create, lock, known, file, alive, pc, channel, mine>>

\* The process ends, or dies, and is started again. The cookie files are still there.
Restart ==
  /\ pool' = [ch \in Channels |-> None]
  /\ create' = None
  /\ lock' = [ch \in Channels |-> None]
  /\ known' = FALSE
  /\ pc' = [t \in Threads \cup Admins |-> "idle"]
  /\ channel' = [t \in Threads |-> "control"]
  /\ mine' = [t \in Threads |-> None]
  /\ closed' = FALSE
  /\ UNCHANGED <<file, alive>>

-----------------------------------------------------------------------------
(* Logins without the pool, and SAP dropping a session *)

AdminBegin(a) ==
  /\ pc[a] = "idle" /\ ~closed
  /\ Goto(a, "login")
  /\ UNCHANGED <<pool, create, lock, known, file, alive, channel, mine, closed>>

AdminEnd(a) ==
  /\ pc[a] = "login"
  /\ \/ Mints("control", TRUE)
     \/ "login_fails" \in Faults /\ MintsNothing("control") /\ UNCHANGED alive
  /\ Goto(a, "idle")
  /\ UNCHANGED <<pool, create, lock, known, channel, mine, closed>>

Expire ==
  /\ "expiry" \in Faults
  /\ \E s \in alive : alive' = alive \ {s}
  /\ UNCHANGED <<pool, create, lock, known, file, pc, channel, mine, closed>>

-----------------------------------------------------------------------------
Continue(t) ==
  \/ Locks(t) \/ Look(t) \/ LookAgain(t) \/ Build(t) \/ Probe(t) \/ Login(t)
  \/ LoginFails(t) \/ Reopen(t) \/ Check(t) \/ CheckFails(t) \/ Publish(t)
  \/ Done(t) \/ Invalidate(t)

Next ==
  \/ \E t \in Threads : Call(t) \/ Continue(t)
  \/ \E a \in Admins : AdminBegin(a) \/ AdminEnd(a)
  \/ CloseAll \/ Restart \/ Expire

Spec == Init /\ [][Next]_vars

-----------------------------------------------------------------------------
\* "One DebugSession per (system, channel)" (debug_pool.py:273): of concurrent first calls
\* only one builds. A second client would be published over the first, and nobody would
\* ever close that one.
OneClient == create # None => pool[channel[create]] = None

\* "channels really are independent" (debug_pool.py:10-15): no two channels ever ride on
\* the same SAP session, so no stateless call can end the stateful session of another.
Isolated ==
  \A p, q \in Channels :
    p # q /\ None \notin {pool[p], pool[q]} => pool[p] # pool[q]

\* Whoever holds _create_lock is building and waits for no other lock; whoever holds a
\* channel's lock is in the middle of a call and not waiting for a second channel. No
\* login that fails leaves a lock behind, and threads never wait in a circle.
LocksOrdered ==
  /\ create # None => pc[create] \in {"probe", "login", "reopen", "check", "publish"}
  /\ \A ch \in Channels : lock[ch] # None =>
       pc[lock[ch]] \notin {"idle", "lock"} /\ channel[lock[ch]] = ch

\* A session that is in the pool has named the ABAP user (debug_pool.py:298, 315), so identity()
\* inside a call never has to log in on the control channel as well.
UserKnown == (\E ch \in Channels : pool[ch] # None) => known
=============================================================================
