---------------------------- MODULE DebugSession ----------------------------
(***************************************************************************)
(* DebugManager of src/adt_mcp/debug_session.py for one system: the        *)
(* background listener thread, the session state its tools share, attach,  *)
(* the attached calls, release and the shutdown.  Every tool call runs in  *)
(* a worker thread (server.py:629-633), so calls overlap as they please.   *)
(*                                                                         *)
(* Consecutive statements that touch only the caller's own data, or that   *)
(* no other thread can tell apart, are one action; an action ends wherever *)
(* the code gives up a lock, waits, calls SAP or starts a thread.          *)
(***************************************************************************)
EXTENDS Naturals, FiniteSets

CONSTANTS
  Clients,      \* worker threads running a debugger tool
  Main,         \* the main thread, which runs close_all at shutdown
  Listeners,    \* thread objects a listener can be given; reused once forgotten
  Debuggees,    \* programs that can stop at a breakpoint
  Unattachable, \* the debuggees SAP flags IS_ATTACH_IMPOSSIBLE
  MaxRounds,    \* long-poll rounds of one listen call, seconds / _POLL_CHUNK
  Faults,       \* what may go wrong around the code
  Disciplined,  \* callers detach what was caught before they listen again
  None

ASSUME SessionAssumption ==
  /\ MaxRounds \in Nat \ {0}
  /\ Main \notin Clients
  /\ Clients \cap Listeners = {} /\ Main \notin Listeners
  /\ None \notin Clients \cup Listeners \cup Debuggees \cup {Main}
  /\ Unattachable \subseteq Debuggees
  /\ Disciplined \in BOOLEAN
  /\ Faults \subseteq {"build_error", "build_crash", "listen_error", "lost_answer",
                       "join_expires", "arm_expires", "detach_fails", "abrupt_exit"}

VARIABLES
  st,       \* the _State fields of the system
  channel,  \* does the pool hold a DEBUG session?
  lock,     \* holder of the DEBUG channel's lock
  pc,       \* where each worker thread, and the main thread, is
  joins,    \* the thread object a thread has read in order to join it
  target,   \* the debuggee id an attach call has sent
  lpc,      \* where each listener thread is
  rem,      \* rounds the listener has left
  found,    \* what the listener's last round returned
  stale,    \* listeners holding a session that invalidate has closed
  program   \* SAP's side: each debuggee is free, stopped or attached

vars == <<st, channel, lock, pc, joins, target, lpc, rem, found, stale, program>>

Actors == Clients \cup {Main}

ClientPC == {"idle", "build", "start", "armed", "stop_ctl", "stop_join", "stop_wait",
             "stop_clear",
             "attach_lock", "attach_call", "attach_set", "use_lock", "use_call",
             "rel_read", "rel_join", "rel_wait", "rel_check", "rel_lock", "rel_call", "rel_clear",
             "poll_listening", "poll_rest"}
MainPC == {"serving", "close_read", "close_join", "close_wait", "close_check",
           "close_lock", "close_call", "close_clear", "closed"}
LoopPC == {"none", "made", "new", "top", "lock", "register", "listen", "publish",
           "leave", "ending", "dead"}

TypeOK ==
  /\ st \in [starting : BOOLEAN, stop : BOOLEAN, polling : BOOLEAN,
             thread : Listeners \cup {None}, debuggee : Debuggees \cup {None},
             attached : BOOLEAN, error : BOOLEAN, timedOut : BOOLEAN]
  /\ channel \in BOOLEAN
  /\ lock \in Clients \cup {Main} \cup Listeners \cup {None}
  /\ pc \in [Actors -> ClientPC \cup MainPC]
  /\ pc[Main] \in MainPC /\ \A c \in Clients : pc[c] \in ClientPC
  /\ joins \in [Actors -> Listeners \cup {None}]
  /\ target \in [Clients -> Debuggees \cup {None}]
  /\ lpc \in [Listeners -> LoopPC]
  /\ rem \in [Listeners -> 0 .. MaxRounds]
  /\ found \in [Listeners -> Debuggees \cup {None}]
  /\ stale \in SUBSET Listeners
  /\ program \in [Debuggees -> {"free", "stopped", "attached"}]

Init ==
  /\ st = [starting |-> FALSE, stop |-> FALSE, polling |-> FALSE, thread |-> None,
           debuggee |-> None, attached |-> FALSE, error |-> FALSE, timedOut |-> FALSE]
  /\ channel = FALSE
  /\ lock = None
  /\ pc = [a \in Actors |-> IF a = Main THEN "serving" ELSE "idle"]
  /\ joins = [a \in Actors |-> None]
  /\ target = [c \in Clients |-> None]
  /\ lpc = [l \in Listeners |-> "none"]
  /\ rem = [l \in Listeners |-> 0]
  /\ found = [l \in Listeners |-> None]
  /\ stale = {}
  /\ program = [d \in Debuggees |-> "free"]

-----------------------------------------------------------------------------
(* Thread objects. *)

\* Thread.is_alive(): true from start() until the target has returned.
Alive(l) == lpc[l] \notin {"none", "made", "dead"}

\* Mutant of Listening: it takes the round in flight for the listener.
ListeningOnAir == st.starting \/ (st.thread # None /\ lock = st.thread)

Listening == st.starting \/ (st.thread # None /\ Alive(st.thread))

\* A new Thread object is one nobody holds a reference to.
Fresh(l) == ~Alive(l) /\ l # st.thread /\ \A a \in Actors : joins[a] # l

\* join(timeout=_CLOSE_JOIN) comes back when the thread is dead or, where a round
\* can outlast the ceiling, at any time.
JoinReturns(l) ==
  \/ lpc[l] = "dead"
  \/ "join_expires" \in Faults /\ Alive(l)

\* Joining a thread object that was never started raises RuntimeError.
JoinRaises(l) == lpc[l] = "made"

Serving == pc[Main] = "serving"

Goto(a, where) == pc' = [pc EXCEPT ![a] = where]

\* join() is called on what st.thread is now; on None it is an AttributeError.
JoinsThread(a, waiting, failed) ==
  /\ joins' = [joins EXCEPT ![a] = st.thread]
  /\ Goto(a, IF st.thread = None THEN failed ELSE waiting)

\* The call answers its client.
Answers(c) == Goto(c, "idle")

\* A worker thread takes its next tool call.  A call that is refused changes nothing.
Calls(c) == pc[c] = "idle" /\ Serving

-----------------------------------------------------------------------------
(* start_listen *)

\* Mutants of ListenAccepted: the starting flag is not looked at; an earlier
\* listener's polling event is left set.
ListenAcceptedThreadOnly(c) ==
  /\ Calls(c)
  /\ Disciplined => st.debuggee = None
  /\ ~(st.thread # None /\ Alive(st.thread)) /\ ~st.attached
  /\ st' = [st EXCEPT !.stop = FALSE, !.polling = FALSE, !.debuggee = None,
                      !.error = FALSE, !.timedOut = FALSE, !.starting = TRUE]
  /\ Goto(c, "build")
  /\ UNCHANGED <<channel, lock, joins, target, lpc, rem, found, stale, program>>

ListenAcceptedPolling(c) ==
  /\ Calls(c)
  /\ Disciplined => st.debuggee = None
  /\ ~Listening /\ ~st.attached
  /\ st' = [st EXCEPT !.stop = FALSE, !.debuggee = None,
                      !.error = FALSE, !.timedOut = FALSE, !.starting = TRUE]
  /\ Goto(c, "build")
  /\ UNCHANGED <<channel, lock, joins, target, lpc, rem, found, stale, program>>

\* Check and reset under _guard.
ListenAccepted(c) ==
  /\ Calls(c)
  /\ Disciplined => st.debuggee = None
  /\ ~Listening /\ ~st.attached
  /\ st' = [st EXCEPT !.stop = FALSE, !.polling = FALSE, !.debuggee = None,
                      !.error = FALSE, !.timedOut = FALSE, !.starting = TRUE]
  /\ Goto(c, "build")
  /\ UNCHANGED <<channel, lock, joins, target, lpc, rem, found, stale, program>>

\* Mutant of BuildFails: the except clause forgets the flag.
BuildFailsStuck(c) ==
  /\ pc[c] = "build"
  /\ "build_error" \in Faults
  /\ Answers(c)
  /\ UNCHANGED <<st, channel, lock, joins, target, lpc, rem, found, stale, program>>

\* user() or session() raised DebugError.
BuildFails(c) ==
  /\ pc[c] = "build"
  /\ "build_error" \in Faults
  /\ st' = [st EXCEPT !.starting = FALSE]
  /\ Answers(c)
  /\ UNCHANGED <<channel, lock, joins, target, lpc, rem, found, stale, program>>

\* They raised something else: the except clause does not see it.
BuildCrashes(c) ==
  /\ pc[c] = "build"
  /\ "build_crash" \in Faults
  /\ Answers(c)
  /\ UNCHANGED <<st, channel, lock, joins, target, lpc, rem, found, stale, program>>

\* The session is there and st.thread is the new, not yet started, Thread.
CreateThread(c) ==
  /\ pc[c] = "build"
  /\ \E l \in Listeners :
       /\ Fresh(l)
       /\ st' = [st EXCEPT !.thread = l]
       /\ lpc' = [lpc EXCEPT ![l] = "made"]
       /\ rem' = [rem EXCEPT ![l] = MaxRounds]
       /\ found' = [found EXCEPT ![l] = None]
       /\ stale' = stale \ {l}
  /\ channel' = TRUE
  /\ Goto(c, "start")
  /\ UNCHANGED <<lock, joins, target, program>>

\* st.thread.start() reads the field again: a stop or release between the two
\* statements has made it None, and the call ends in AttributeError.
StartThread(c) ==
  /\ pc[c] = "start"
  /\ IF st.thread # None /\ lpc[st.thread] = "made"
       THEN /\ lpc' = [lpc EXCEPT ![st.thread] = "new"]
            /\ Goto(c, "armed")
       ELSE /\ Answers(c)
            /\ UNCHANGED lpc
  /\ UNCHANGED <<st, channel, lock, joins, target, rem, found, stale, program>>

\* polling.wait(timeout=_LISTEN_ARMED), then None: the tool says OK either way.
ListenReturns(c) ==
  /\ pc[c] = "armed"
  /\ st.polling \/ "arm_expires" \in Faults
  /\ Answers(c)
  /\ UNCHANGED <<st, channel, lock, joins, target, lpc, rem, found, stale, program>>

-----------------------------------------------------------------------------
(* loop(): the listener thread *)

LoopBegin(l) ==
  /\ lpc[l] = "new"
  /\ st' = [st EXCEPT !.starting = FALSE]
  /\ lpc' = [lpc EXCEPT ![l] = "top"]
  /\ UNCHANGED <<channel, lock, pc, joins, target, rem, found, stale, program>>

\* Mutant of LoopTest: one round too many.
LoopTestOnceMore(l) ==
  /\ lpc[l] = "top"
  /\ lpc' = [lpc EXCEPT ![l] = IF rem[l] >= 0 /\ ~st.stop THEN "lock" ELSE "leave"]
  /\ UNCHANGED <<st, channel, lock, pc, joins, target, rem, found, stale, program>>

LoopTest(l) ==
  /\ lpc[l] = "top"
  /\ lpc' = [lpc EXCEPT ![l] = IF rem[l] > 0 /\ ~st.stop THEN "lock" ELSE "leave"]
  /\ UNCHANGED <<st, channel, lock, pc, joins, target, rem, found, stale, program>>

\* with lock: polling.set().  start_listen may answer from here on.
LoopAcquire(l) ==
  /\ lpc[l] = "lock"
  /\ lock = None
  /\ lock' = l
  /\ st' = [st EXCEPT !.polling = TRUE]
  /\ lpc' = [lpc EXCEPT ![l] = "register"]
  /\ UNCHANGED <<channel, pc, joins, target, rem, found, stale, program>>

\* The registration request goes out: on a new session only when the request for the
\* CSRF token before it has been answered.
LoopRegister(l) ==
  /\ lpc[l] = "register"
  /\ l \notin stale
  /\ lpc' = [lpc EXCEPT ![l] = "listen"]
  /\ UNCHANGED <<st, channel, lock, pc, joins, target, rem, found, stale, program>>

\* A program stops at a breakpoint, or has been waiting there, and SAP answers the
\* round with it.
ListenCaught(l) ==
  /\ lpc[l] = "listen"
  /\ l \notin stale
  /\ \E d \in Debuggees :
       /\ program[d] # "attached"
       /\ program' = [program EXCEPT ![d] = "stopped"]
       /\ found' = [found EXCEPT ![l] = d]
  /\ lock' = None
  /\ lpc' = [lpc EXCEPT ![l] = "publish"]
  /\ UNCHANGED <<st, channel, pc, joins, target, rem, stale>>

\* The round ran out, or stop_listener ended it.
ListenEmpty(l) ==
  /\ lpc[l] = "listen"
  /\ l \notin stale
  /\ rem' = [rem EXCEPT ![l] = rem[l] - 1]
  /\ lock' = None
  /\ lpc' = [lpc EXCEPT ![l] = "top"]
  /\ UNCHANGED <<st, channel, pc, joins, target, found, stale, program>>

\* Mutant of ListenFails: the lock taken and given back by hand, without a finally.
ListenFailsHolding(l) ==
  /\ lpc[l] \in {"register", "listen"}
  /\ l \in stale \/ "listen_error" \in Faults
  /\ st' = [st EXCEPT !.error = TRUE]
  /\ lpc' = [lpc EXCEPT ![l] = "ending"]
  /\ UNCHANGED <<channel, lock, pc, joins, target, rem, found, stale, program>>

\* The round raised, before its registration was out or after.  Its answer may have been
\* lost on the way back, in which case SAP has stopped a program this server never hears of.
ListenFails(l) ==
  /\ lpc[l] \in {"register", "listen"}
  /\ \/ /\ l \in stale \/ "listen_error" \in Faults
        /\ UNCHANGED program
     \/ /\ "lost_answer" \in Faults /\ lpc[l] = "listen"
        /\ \E d \in Debuggees :
             program[d] = "free" /\ program' = [program EXCEPT ![d] = "stopped"]
  /\ lock' = None
  /\ st' = [st EXCEPT !.error = TRUE]
  /\ lpc' = [lpc EXCEPT ![l] = "ending"]
  /\ UNCHANGED <<channel, pc, joins, target, rem, found, stale>>

\* st.debuggee = caught; return
LoopPublish(l) ==
  /\ lpc[l] = "publish"
  /\ st' = [st EXCEPT !.debuggee = found[l]]
  /\ lpc' = [lpc EXCEPT ![l] = "ending"]
  /\ UNCHANGED <<channel, lock, pc, joins, target, rem, found, stale, program>>

\* Rounds used up, or stopped: only the first is a timeout.
LoopLeave(l) ==
  /\ lpc[l] = "leave"
  /\ st' = [st EXCEPT !.timedOut = @ \/ ~st.stop]
  /\ lpc' = [lpc EXCEPT ![l] = "ending"]
  /\ UNCHANGED <<channel, lock, pc, joins, target, rem, found, stale, program>>

\* finally: polling.set(), and the thread is over, its locals with it.
LoopEnd(l) ==
  /\ lpc[l] = "ending"
  /\ st' = [st EXCEPT !.polling = TRUE]
  /\ lpc' = [lpc EXCEPT ![l] = "dead"]
  /\ rem' = [rem EXCEPT ![l] = 0]
  /\ found' = [found EXCEPT ![l] = None]
  /\ stale' = stale \ {l}
  /\ UNCHANGED <<channel, lock, pc, joins, target, program>>

-----------------------------------------------------------------------------
(* stop *)

StopSet(c) ==
  /\ Calls(c)
  /\ st' = [st EXCEPT !.stop = TRUE]
  /\ Goto(c, "stop_ctl")
  /\ UNCHANGED <<channel, lock, joins, target, lpc, rem, found, stale, program>>

\* stop_listener on the CONTROL channel, where a DebugError is swallowed; then st.thread
\* is looked at.
StopControl(c) ==
  /\ pc[c] = "stop_ctl"
  /\ Goto(c, IF st.thread = None THEN "stop_clear" ELSE "stop_join")
  /\ UNCHANGED <<st, channel, lock, joins, target, lpc, rem, found, stale, program>>

\* Any other exception leaves the call before anything is cleared.
StopFails(c) ==
  /\ pc[c] = "stop_ctl"
  /\ "build_crash" \in Faults
  /\ Answers(c)
  /\ UNCHANGED <<st, channel, lock, joins, target, lpc, rem, found, stale, program>>

\* st.thread.join(): the field is read once more, and may be None by now.
StopJoins(c) ==
  /\ pc[c] = "stop_join"
  /\ JoinsThread(c, "stop_wait", "idle")
  /\ UNCHANGED <<st, channel, lock, target, lpc, rem, found, stale, program>>

\* Mutant of StopJoined: the thread is forgotten without being waited for.
StopWithoutJoin(c) ==
  /\ pc[c] = "stop_wait"
  /\ joins' = [joins EXCEPT ![c] = None]
  /\ Goto(c, "stop_clear")
  /\ UNCHANGED <<st, channel, lock, target, lpc, rem, found, stale, program>>

StopJoined(c) ==
  /\ pc[c] = "stop_wait"
  /\ JoinReturns(joins[c])
  /\ joins' = [joins EXCEPT ![c] = None]
  /\ Goto(c, "stop_clear")
  /\ UNCHANGED <<st, channel, lock, target, lpc, rem, found, stale, program>>

StopClear(c) ==
  /\ pc[c] = "stop_clear"
  /\ st' = [st EXCEPT !.thread = None, !.timedOut = FALSE]
  /\ Answers(c)
  /\ UNCHANGED <<channel, lock, joins, target, lpc, rem, found, stale, program>>

\* stop() or release() joined a thread object that was not started yet: the
\* RuntimeError leaves the call before it clears anything.
JoinFails(c) ==
  /\ pc[c] \in {"stop_wait", "rel_wait"}
  /\ JoinRaises(joins[c])
  /\ joins' = [joins EXCEPT ![c] = None]
  /\ Answers(c)
  /\ UNCHANGED <<st, channel, lock, target, lpc, rem, found, stale, program>>

-----------------------------------------------------------------------------
(* attach *)

\* Mutant of AttachCheck: attach no longer waits for the listener to be over.
AttachCheckAnyTime(c) ==
  /\ Calls(c)
  /\ st.debuggee # None /\ st.debuggee \notin Unattachable
  /\ Goto(c, "attach_lock")
  /\ UNCHANGED <<st, channel, lock, joins, target, lpc, rem, found, stale, program>>

AttachCheck(c) ==
  /\ Calls(c)
  /\ ~Listening
  /\ st.debuggee # None /\ st.debuggee \notin Unattachable
  /\ Goto(c, "attach_lock")
  /\ UNCHANGED <<st, channel, lock, joins, target, lpc, rem, found, stale, program>>

\* Under the lock the debuggee is read again; None["id"] is a TypeError.
AttachSend(c) ==
  /\ pc[c] = "attach_lock"
  /\ lock = None
  /\ channel' = TRUE
  /\ IF st.debuggee = None
       THEN /\ Answers(c)
            /\ UNCHANGED <<lock, target>>
       ELSE /\ lock' = c
            /\ target' = [target EXCEPT ![c] = st.debuggee]
            /\ Goto(c, "attach_call")
  /\ UNCHANGED <<st, joins, lpc, rem, found, stale, program>>

\* SAP attaches a debuggee that is still stopped; any attach may be refused.
AttachDone(c) ==
  /\ pc[c] = "attach_call"
  /\ program[target[c]] = "stopped"
  /\ program' = [program EXCEPT ![target[c]] = "attached"]
  /\ lock' = None
  /\ target' = [target EXCEPT ![c] = None]
  /\ Goto(c, "attach_set")
  /\ UNCHANGED <<st, channel, joins, lpc, rem, found, stale>>

AttachFails(c) ==
  /\ pc[c] = "attach_call"
  /\ \/ UNCHANGED program
     \/ /\ "lost_answer" \in Faults
        /\ program' = [program EXCEPT ![target[c]] = "attached"]
  /\ lock' = None
  /\ target' = [target EXCEPT ![c] = None]
  /\ Answers(c)
  /\ UNCHANGED <<st, channel, joins, lpc, rem, found, stale>>

\* st.attached = True, outside every lock.
AttachSet(c) ==
  /\ pc[c] = "attach_set"
  /\ st' = [st EXCEPT !.attached = TRUE]
  /\ Answers(c)
  /\ UNCHANGED <<channel, lock, joins, target, lpc, rem, found, stale, program>>

-----------------------------------------------------------------------------
(* debug_stack, debug_variables, debug_step: require_attached, run_attached *)

UseCheck(c) ==
  /\ Calls(c)
  /\ st.attached
  /\ Goto(c, "use_lock")
  /\ UNCHANGED <<st, channel, lock, joins, target, lpc, rem, found, stale, program>>

\* Mutant of UseSend: the call goes out without the channel's lock.
UseSendUnlocked(c) ==
  /\ pc[c] = "use_lock"
  /\ lock' = c
  /\ channel' = TRUE
  /\ Goto(c, "use_call")
  /\ UNCHANGED <<st, joins, target, lpc, rem, found, stale, program>>

UseSend(c) ==
  /\ pc[c] = "use_lock"
  /\ lock = None
  /\ lock' = c
  /\ channel' = TRUE
  /\ Goto(c, "use_call")
  /\ UNCHANGED <<st, joins, target, lpc, rem, found, stale, program>>

\* A step may let the program run to its end.
UseDone(c) ==
  /\ pc[c] = "use_call"
  /\ program' \in {program} \cup
                  {[program EXCEPT ![d] = "free"] : d \in {e \in Debuggees : program[e] = "attached"}}
  /\ lock' = None
  /\ Answers(c)
  /\ UNCHANGED <<st, channel, joins, target, lpc, rem, found, stale>>

-----------------------------------------------------------------------------
(* release *)

ReleaseStop(c) ==
  /\ Calls(c)
  /\ st' = [st EXCEPT !.stop = TRUE]
  /\ Goto(c, "rel_read")
  /\ UNCHANGED <<channel, lock, joins, target, lpc, rem, found, stale, program>>

ReleaseRead(c) ==
  /\ pc[c] = "rel_read"
  /\ Goto(c, IF st.thread = None THEN "rel_check" ELSE "rel_join")
  /\ UNCHANGED <<st, channel, lock, joins, target, lpc, rem, found, stale, program>>

ReleaseJoins(c) ==
  /\ pc[c] = "rel_join"
  /\ JoinsThread(c, "rel_wait", "idle")
  /\ UNCHANGED <<st, channel, lock, target, lpc, rem, found, stale, program>>

ReleaseJoined(c) ==
  /\ pc[c] = "rel_wait"
  /\ JoinReturns(joins[c])
  /\ joins' = [joins EXCEPT ![c] = None]
  /\ Goto(c, "rel_check")
  /\ UNCHANGED <<st, channel, lock, target, lpc, rem, found, stale, program>>

\* Mutant of ReleaseCheck: only an attached debuggee is worth a detach.
ReleaseCheckAttached(c) ==
  /\ pc[c] = "rel_check"
  /\ Goto(c, IF st.attached THEN "rel_lock" ELSE "rel_clear")
  /\ UNCHANGED <<st, channel, lock, joins, target, lpc, rem, found, stale, program>>

\* A merely caught debuggee is released too.
ReleaseCheck(c) ==
  /\ pc[c] = "rel_check"
  /\ Goto(c, IF st.attached \/ st.debuggee # None THEN "rel_lock" ELSE "rel_clear")
  /\ UNCHANGED <<st, channel, lock, joins, target, lpc, rem, found, stale, program>>

ReleaseSend(c) ==
  /\ pc[c] = "rel_lock"
  /\ lock = None
  /\ lock' = c
  /\ channel' = TRUE
  /\ Goto(c, "rel_call")
  /\ UNCHANGED <<st, joins, target, lpc, rem, found, stale, program>>

\* The stateful session is over: whatever it held runs on.
Released == program' = [d \in Debuggees |-> "free"]

ReleaseDone(c) ==
  /\ pc[c] = "rel_call"
  /\ Released
  /\ lock' = None
  /\ Goto(c, "rel_clear")
  /\ UNCHANGED <<st, channel, joins, target, lpc, rem, found, stale>>

\* Both detach paths failed.  Either the session still answers, and it is dropped
\* from the pool and closed under whoever else holds it, or not even that answered.
ReleaseFails(c) ==
  /\ pc[c] = "rel_call"
  /\ "detach_fails" \in Faults
  /\ \/ /\ channel' = FALSE
        /\ stale' = stale \cup {l \in Listeners : lpc[l] \notin {"none", "dead"}}
     \/ UNCHANGED <<channel, stale>>
  /\ lock' = None
  /\ Goto(c, "rel_clear")
  /\ UNCHANGED <<st, joins, target, lpc, rem, found, program>>

ReleaseClear(c) ==
  /\ pc[c] = "rel_clear"
  /\ st' = [st EXCEPT !.thread = None, !.debuggee = None, !.attached = FALSE,
                      !.error = FALSE, !.timedOut = FALSE]
  /\ Answers(c)
  /\ UNCHANGED <<channel, lock, joins, target, lpc, rem, found, stale, program>>

-----------------------------------------------------------------------------
(* poll: three reads of the shared state, with other threads in between *)

PollFirst(c) ==
  /\ Calls(c)
  /\ ~st.error /\ ~st.attached
  /\ Goto(c, "poll_listening")
  /\ UNCHANGED <<st, channel, lock, joins, target, lpc, rem, found, stale, program>>

PollListening(c) ==
  /\ pc[c] = "poll_listening"
  /\ Goto(c, IF Listening THEN "idle" ELSE "poll_rest")
  /\ UNCHANGED <<st, channel, lock, joins, target, lpc, rem, found, stale, program>>

\* caught, timeout or idle, by what debuggee and timed_out say now.
PollRest(c) ==
  /\ pc[c] = "poll_rest"
  /\ Answers(c)
  /\ UNCHANGED <<st, channel, lock, joins, target, lpc, rem, found, stale, program>>

-----------------------------------------------------------------------------
(* close_all, from main's finally and again from atexit.  The server has come  *)
(* down: no call is in flight, unless it is torn down abruptly.                *)

CloseStop ==
  /\ pc[Main] \in {"serving", "closed"}
  /\ "abrupt_exit" \in Faults \/ \A c \in Clients : pc[c] = "idle"
  /\ st' = [st EXCEPT !.stop = TRUE]
  /\ Goto(Main, "close_read")
  /\ UNCHANGED <<channel, lock, joins, target, lpc, rem, found, stale, program>>

CloseRead ==
  /\ pc[Main] = "close_read"
  /\ Goto(Main, IF st.thread = None THEN "close_check" ELSE "close_join")
  /\ UNCHANGED <<st, channel, lock, joins, target, lpc, rem, found, stale, program>>

CloseJoins ==
  /\ pc[Main] = "close_join"
  /\ JoinsThread(Main, "close_wait", "closed")
  /\ UNCHANGED <<st, channel, lock, target, lpc, rem, found, stale, program>>

\* A thread object that was not started yet ends close_all with RuntimeError.
CloseJoined ==
  /\ pc[Main] = "close_wait"
  /\ \/ JoinReturns(joins[Main]) /\ Goto(Main, "close_check")
     \/ JoinRaises(joins[Main]) /\ Goto(Main, "closed")
  /\ joins' = [joins EXCEPT ![Main] = None]
  /\ UNCHANGED <<st, channel, lock, target, lpc, rem, found, stale, program>>

\* Mutant of CloseCheck: shutdown releases attached debuggees only.
CloseCheckAttached ==
  /\ pc[Main] = "close_check"
  /\ Goto(Main, IF channel /\ st.attached THEN "close_lock" ELSE "close_clear")
  /\ UNCHANGED <<st, channel, lock, joins, target, lpc, rem, found, stale, program>>

\* get_existing: shutdown never builds a DEBUG session.
CloseCheck ==
  /\ pc[Main] = "close_check"
  /\ Goto(Main, IF channel /\ (st.attached \/ st.debuggee # None)
                  THEN "close_lock" ELSE "close_clear")
  /\ UNCHANGED <<st, channel, lock, joins, target, lpc, rem, found, stale, program>>

CloseSend ==
  /\ pc[Main] = "close_lock"
  /\ lock = None
  /\ lock' = Main
  /\ Goto(Main, "close_call")
  /\ UNCHANGED <<st, channel, joins, target, lpc, rem, found, stale, program>>

CloseDone ==
  /\ pc[Main] = "close_call"
  /\ Released \/ ("detach_fails" \in Faults /\ UNCHANGED program)
  /\ lock' = None
  /\ Goto(Main, "close_clear")
  /\ UNCHANGED <<st, channel, joins, target, lpc, rem, found, stale>>

\* The state is cleared, starting included, and the pool closes its sessions.
CloseClear ==
  /\ pc[Main] = "close_clear"
  /\ st' = [st EXCEPT !.thread = None, !.starting = FALSE, !.debuggee = None,
                      !.attached = FALSE, !.error = FALSE, !.timedOut = FALSE]
  /\ channel' = FALSE
  /\ stale' = stale \cup {l \in Listeners : lpc[l] \notin {"none", "listen", "dead"}}
  /\ Goto(Main, "closed")
  /\ UNCHANGED <<lock, joins, target, lpc, rem, found, program>>

-----------------------------------------------------------------------------
\* What a worker thread does once a call has begun.
Continue(c) ==
  \/ BuildFails(c) \/ BuildCrashes(c) \/ CreateThread(c) \/ StartThread(c)
  \/ ListenReturns(c)
  \/ StopControl(c) \/ StopFails(c) \/ StopJoins(c) \/ StopJoined(c) \/ StopClear(c)
  \/ JoinFails(c)
  \/ AttachSend(c) \/ AttachDone(c) \/ AttachFails(c) \/ AttachSet(c)
  \/ UseSend(c) \/ UseDone(c)
  \/ ReleaseRead(c) \/ ReleaseJoins(c) \/ ReleaseJoined(c) \/ ReleaseCheck(c)
  \/ ReleaseSend(c) \/ ReleaseDone(c) \/ ReleaseFails(c) \/ ReleaseClear(c)
  \/ PollListening(c) \/ PollRest(c)

\* A worker thread takes its next call.
Call(c) ==
  \/ ListenAccepted(c)
  \/ StopSet(c)
  \/ AttachCheck(c)
  \/ UseCheck(c)
  \/ ReleaseStop(c)
  \/ PollFirst(c)

Loop(l) ==
  \/ LoopBegin(l) \/ LoopTest(l) \/ LoopAcquire(l) \/ LoopRegister(l)
  \/ LoopLeave(l)
  \/ ListenCaught(l) \/ ListenEmpty(l) \/ ListenFails(l)
  \/ LoopPublish(l) \/ LoopEnd(l)

Close ==
  \/ CloseRead \/ CloseJoins \/ CloseJoined \/ CloseCheck \/ CloseSend \/ CloseDone
  \/ CloseClear

Next ==
  \/ \E c \in Clients : Call(c) \/ Continue(c)
  \/ \E l \in Listeners : Loop(l)
  \/ CloseStop \/ Close

Spec == Init /\ [][Next]_vars

\* Threads run, and every request is answered or runs into its HTTP timeout.
\* Nobody has to call a tool, and nobody has to shut the server down.
Fairness ==
  /\ \A c \in Clients : WF_vars(Continue(c))
  /\ \A l \in Listeners : WF_vars(Loop(l))
  /\ WF_vars(Close)

FairSpec == Spec /\ Fairness

-----------------------------------------------------------------------------
(* Any number of callers. *)

\* The requests that are out on the DEBUG session, that for a CSRF token included.
OnChannel ==
  {c \in Clients : pc[c] \in {"attach_call", "use_call", "rel_call"}}
  \cup {l \in Listeners : lpc[l] \in {"register", "listen"}}
  \cup {m \in {Main} : pc[m] = "close_call"}

\* "two threads, one session, which the pool forbids" (debug_session.py:19-22): at
\* most one thread has a request out on the DEBUG session, listener, tools and
\* shutdown together, whatever joins give up and whatever sessions are dropped.
ChannelExclusive == \A a, b \in OnChannel : a = b

\* Listen commands between acceptance and their thread's first step.
Starting ==
  {c \in Clients : pc[c] \in {"build", "start"}} \cup {l \in Listeners : lpc[l] = "new"}

\* Two concurrent debug_listen calls never both get past the check
\* (debug_session.py:101-116): at most one command is starting, and while the
\* server serves, starting says so for as long as it is.
OneStart ==
  /\ \A a, b \in Starting : a = b
  /\ Serving /\ Starting # {} => st.starting

\* "Asking for a second is an error, not a silent takeover of the one already
\* running" (debug_session.py:70-71): a new listener thread is never put in the
\* place of one that is alive, and no caller finds its thread replaced.
NoTakeover ==
  [][st'.thread \notin {None, st.thread} =>
       ~(st.thread # None /\ (Alive(st.thread) \/ lpc[st.thread] = "made"))]_vars

-----------------------------------------------------------------------------
(* One caller at a time, and no round outlasting the join. *)

\* Every listener thread that is alive is the one the state knows: nothing is left
\* listening behind the back of stop, release or a new debug_listen.
NoZombie == \A l \in Listeners : Alive(l) => st.thread = l

\* A debuggee that is stopped holds one of the tenant's work processes
\* (debug_session.py:392-394): the server never loses sight of it.  It is the one in
\* the state, or the listener is about to put it there.
NoOrphan ==
  \A d \in Debuggees : program[d] # "free" =>
     \/ st.debuggee = d
     \/ \E l \in Listeners : lpc[l] = "publish" /\ found[l] = d

\* At most one debug session (debug_session.py:70): attached means attached to
\* something, and no listener shares the session with it.
OneSession == st.attached => st.debuggee # None /\ ~Listening

\* Once poll has read that nobody is listening, what was caught is in the state: the
\* answers "timeout" and "idle" never hide a debuggee that the listener has stopped.
PollHonest ==
  \A c \in Clients : pc[c] = "poll_rest" =>
     /\ \A l \in Listeners : ~Alive(l)
     /\ \A d \in Debuggees : program[d] = "stopped" => st.debuggee = d

\* start_listen answers OK only once its own listener has come to hold the DEBUG session
\* for its first round, or is over: an earlier listener's polling event does not count, and
\* nobody else's request is in between.  The registration itself may still be to come,
\* since polling is set first: "until the registration request has really gone out"
\* (debug_session.py:156-157) is more than the code does.
RoundBeforeOk ==
  [][\A c \in Clients : pc[c] = "armed" /\ pc'[c] = "idle" =>
       /\ st.thread # None
       /\ lpc[st.thread] \notin {"made", "new"}
       /\ lpc[st.thread] \in {"top", "lock"} => rem[st.thread] < MaxRounds
       /\ lpc[st.thread] \in {"register", "listen"} => lock = st.thread]_vars

\* After close_all no program of the tenant is left stopped (__main__.py:51-53).
ShutdownReleases == pc[Main] = "closed" => \A d \in Debuggees : program[d] = "free"

\* Every tool call comes back: none waits for a lock, a join or a round for ever.
CallReturns == \A c \in Clients : pc[c] # "idle" ~> pc[c] = "idle"

\* What debug_poll would answer if it read everything at once.
Status ==
  IF st.error THEN "error"
  ELSE IF st.attached THEN "attached"
  ELSE IF Listening THEN "listening"
  ELSE IF st.debuggee # None THEN "caught"
  ELSE IF st.timedOut THEN "timeout" ELSE "idle"

Abstract == INSTANCE DebugLifecycle WITH status <- Status

\* The session moves between the states poll names as DebugLifecycle allows, and a
\* listener that is waiting ends.
Implements == Abstract!Spec
=============================================================================
