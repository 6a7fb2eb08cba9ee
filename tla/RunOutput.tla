----------------------------- MODULE RunOutput -----------------------------
(***************************************************************************)
(* Background runs of DebugManager (debug_session.py:267-352): run_class   *)
(* starts a thread, waits for its text and hands it over; what it leaves   *)
(* behind is collected by debug_poll and debug_detach.  A text is known by *)
(* the run that produced it.                                               *)
(*                                                                         *)
(* The listener is reduced to whether one is on the air: a program that    *)
(* reaches its breakpoint then stops, and keeps the request that started   *)
(* it until debug_detach lets it go.  run_class is accepted under _guard,  *)
(* output is taken under run_lock: neither section excludes the other, so  *)
(* each is a step per read and write of what they share.                   *)
(***************************************************************************)
EXTENDS Naturals, FiniteSets

CONSTANTS
  Runners,   \* worker threads calling run_class
  Pollers,   \* worker threads calling debug_listen, debug_poll, debug_detach
  Runs,      \* thread objects for runs, reused once forgotten
  None

\* What run_class answers when it has no text.
States == {"none", "caught", "running"}

ASSUME RunAssumption ==
  /\ Runners \cap Pollers = {}
  /\ None \notin Runs
  /\ Runs \cap States = {}

VARIABLES
  runThread,   \* st.run_thread
  runText,     \* st.run_text
  runWaiting,  \* st.run_waiting
  debuggee,    \* st.debuggee
  listening,   \* a listener is on the air
  execLock,    \* the run holding the EXEC channel's lock
  pc,          \* where each worker thread is
  mine,        \* the run a run_class call has made
  rpc,         \* where each run thread is
  outcome,     \* the text, or the state, a run_class call answers
  given,       \* how many callers have been handed the run's text
  latest,      \* the last run accepted
  closed,      \* has close_all been through?
  stray        \* runs a poll has forgotten before they were over

vars == <<runThread, runText, runWaiting, debuggee, listening, execLock, pc, mine,
          rpc, outcome, given, latest, closed, stray>>

Callers == Runners \cup Pollers

\* A run_class call inside _guard, and one that waits for its run; a poll or detach that
\* takes output, inside run_lock.
Guarded == {"blocked", "empty", "claim", "make"}
Waiting == {"start", "wait", "look"}
Taking == {"thread", "forget", "text"}

TypeOK ==
  /\ runThread \in Runs \cup {None}
  /\ runText \in Runs \cup {None}
  /\ runWaiting \in BOOLEAN
  /\ debuggee \in Runs \cup {None}
  /\ listening \in BOOLEAN
  /\ execLock \in Runs \cup {None}
  /\ pc \in [Callers -> {"idle", "finally", "clear", "join", "take"}
                           \cup Guarded \cup Waiting \cup Taking]
  /\ mine \in [Runners -> Runs \cup {None}]
  /\ rpc \in [Runs -> {"none", "made", "lock", "exec", "stopped", "publish", "dead"}]
  /\ outcome \in [Runners -> Runs \cup States]
  /\ given \in [Runs -> 0 .. 2]
  /\ latest \in Runs \cup {None}
  /\ closed \in BOOLEAN
  /\ stray \in SUBSET Runs

Init ==
  /\ runThread = None /\ runText = None /\ runWaiting = FALSE
  /\ debuggee = None /\ listening = FALSE /\ execLock = None
  /\ pc = [c \in Callers |-> "idle"]
  /\ mine = [c \in Runners |-> None]
  /\ rpc = [r \in Runs |-> "none"]
  /\ outcome = [c \in Runners |-> "none"]
  /\ given = [r \in Runs |-> 0]
  /\ latest = None
  /\ closed = FALSE /\ stray = {}

-----------------------------------------------------------------------------
Alive(r) == rpc[r] \notin {"none", "made", "dead"}

Fresh(r) ==
  /\ rpc[r] \in {"none", "dead"}
  /\ r \notin {runThread, runText, latest}
  /\ \A c \in Runners : r \notin {mine[c], outcome[c]}

Goto(c, where) == pc' = [pc EXCEPT ![c] = where]

GuardFree == \A c \in Runners : pc[c] \notin Guarded
RunLockFree == \A p \in Pollers : pc[p] \notin Taking

HandOver(r) == given' = [given EXCEPT ![r] = @ + 1]

-----------------------------------------------------------------------------
(* run_and_wait *)

\* The model's bound: no more runs than there are names for.
RoomForRun == \E r \in Runs : Fresh(r)

\* Not busy.
RunEnters(c) ==
  /\ pc[c] = "idle" /\ ~closed /\ GuardFree /\ RoomForRun
  /\ ~(runThread # None /\ Alive(runThread))
  /\ Goto(c, "blocked")
  /\ UNCHANGED <<runThread, runText, runWaiting, debuggee, listening, execLock, mine, rpc,
                 outcome, given, latest, closed, stray>>

\* Not blocked, or out again.
RunUnblocked(c) ==
  /\ pc[c] = "blocked"
  /\ Goto(c, IF debuggee = None THEN "empty" ELSE "idle")
  /\ UNCHANGED <<runThread, runText, runWaiting, debuggee, listening, execLock, mine, rpc,
                 outcome, given, latest, closed, stray>>

\* Mutant of RunEmpties: the text of an earlier run is left where it is.
RunEmptiesNothing(c) ==
  /\ pc[c] = "empty"
  /\ latest' = None
  /\ Goto(c, "claim")
  /\ UNCHANGED <<runThread, runText, runWaiting, debuggee, listening, execLock, mine, rpc,
                 outcome, given, closed, stray>>

\* From here on the last run is the one that is about to be made.
RunEmpties(c) ==
  /\ pc[c] = "empty"
  /\ runText' = None /\ latest' = None
  /\ Goto(c, "claim")
  /\ UNCHANGED <<runThread, runWaiting, debuggee, listening, execLock, mine, rpc, outcome,
                 given, closed, stray>>

RunClaims(c) ==
  /\ pc[c] = "claim"
  /\ runWaiting' = TRUE
  /\ Goto(c, "make")
  /\ UNCHANGED <<runThread, runText, debuggee, listening, execLock, mine, rpc, outcome,
                 given, latest, closed, stray>>

\* The thread is made here, and started after _guard is given back.
RunMakes(c) ==
  /\ pc[c] = "make"
  /\ \E r \in Runs :
       /\ Fresh(r)
       /\ runThread' = r /\ latest' = r
       /\ mine' = [mine EXCEPT ![c] = r]
       /\ rpc' = [rpc EXCEPT ![r] = "made"]
       /\ given' = [given EXCEPT ![r] = 0]
       /\ stray' = stray \ {r}
  /\ Goto(c, "start")
  /\ UNCHANGED <<runText, runWaiting, debuggee, listening, execLock, outcome, closed>>

\* Mutant of RunStart: the call waits for the run itself.
RunInline(c) ==
  /\ pc[c] = "start"
  /\ \/ /\ rpc[mine[c]] = "made"
        /\ rpc' = [rpc EXCEPT ![mine[c]] = "lock"]
        /\ UNCHANGED pc
     \/ /\ rpc[mine[c]] = "dead"
        /\ Goto(c, "wait")
        /\ UNCHANGED rpc
  /\ UNCHANGED <<runThread, runText, runWaiting, debuggee, listening, execLock, mine,
                 outcome, given, latest, closed, stray>>

RunStart(c) ==
  /\ pc[c] = "start"
  /\ rpc' = [rpc EXCEPT ![mine[c]] = "lock"]
  /\ Goto(c, "wait")
  /\ UNCHANGED <<runThread, runText, runWaiting, debuggee, listening, execLock, mine,
                 outcome, given, latest, closed, stray>>

\* text, st.run_text = st.run_text, None under run_lock: whosever text it is.
WaitTake(c) ==
  /\ pc[c] = "wait" /\ RunLockFree
  /\ IF runText # None
       THEN /\ outcome' = [outcome EXCEPT ![c] = runText]
            /\ HandOver(runText)
            /\ runText' = None
            /\ Goto(c, "finally")
       ELSE /\ Goto(c, "look")
            /\ UNCHANGED <<outcome, given, runText>>
  /\ UNCHANGED <<runThread, runWaiting, debuggee, listening, execLock, mine, rpc, latest,
                 closed, stray>>

\* A debuggee ends the wait.
WaitCaught(c) ==
  /\ pc[c] = "look"
  /\ debuggee # None
  /\ outcome' = [outcome EXCEPT ![c] = "caught"]
  /\ Goto(c, "finally")
  /\ UNCHANGED <<runThread, runText, runWaiting, debuggee, listening, execLock, mine, rpc,
                 given, latest, closed, stray>>

\* So does the deadline.
WaitDeadline(c) ==
  /\ pc[c] = "look"
  /\ debuggee = None
  /\ outcome' = [outcome EXCEPT ![c] = "running"]
  /\ Goto(c, "finally")
  /\ UNCHANGED <<runThread, runText, runWaiting, debuggee, listening, execLock, mine, rpc,
                 given, latest, closed, stray>>

\* Before the deadline the loop sleeps and looks again.
WaitSleep(c) ==
  /\ pc[c] = "look"
  /\ debuggee = None
  /\ Goto(c, "wait")
  /\ UNCHANGED <<runThread, runText, runWaiting, debuggee, listening, execLock, mine, rpc,
                 outcome, given, latest, closed, stray>>

WaitFinally(c) ==
  /\ pc[c] = "finally"
  /\ runWaiting' = FALSE
  /\ mine' = [mine EXCEPT ![c] = None]
  /\ outcome' = [outcome EXCEPT ![c] = "none"]
  /\ Goto(c, "idle")
  /\ UNCHANGED <<runThread, runText, debuggee, listening, execLock, rpc, given, latest,
                 closed, stray>>

-----------------------------------------------------------------------------
(* _run_body, and the program it runs *)

BodyAcquire(r) ==
  /\ rpc[r] = "lock"
  /\ execLock = None
  /\ execLock' = r
  /\ rpc' = [rpc EXCEPT ![r] = "exec"]
  /\ UNCHANGED <<runThread, runText, runWaiting, debuggee, listening, pc, mine, outcome,
                 given, latest, closed, stray>>

\* The program reaches a breakpoint while a listener is on the air.
Stops(r) ==
  /\ rpc[r] = "exec"
  /\ listening
  /\ listening' = FALSE
  /\ rpc' = [rpc EXCEPT ![r] = "stopped"]
  /\ UNCHANGED <<runThread, runText, runWaiting, debuggee, execLock, pc, mine, outcome,
                 given, latest, closed, stray>>

\* The listener thread publishes what it caught.
Publishes(r) ==
  /\ rpc[r] = "stopped"
  /\ debuggee = None
  /\ debuggee' = r
  /\ UNCHANGED <<runThread, runText, runWaiting, listening, execLock, pc, mine, rpc,
                 outcome, given, latest, closed, stray>>

\* The request returns, or fails: there is a text either way.
BodyDone(r) ==
  /\ rpc[r] = "exec"
  /\ execLock' = None
  /\ rpc' = [rpc EXCEPT ![r] = "publish"]
  /\ UNCHANGED <<runThread, runText, runWaiting, debuggee, listening, pc, mine, outcome,
                 given, latest, closed, stray>>

\* The text is published under run_lock and the thread is over.
BodyPublish(r) ==
  /\ rpc[r] = "publish" /\ RunLockFree
  /\ runText' = r
  /\ rpc' = [rpc EXCEPT ![r] = "dead"]
  /\ UNCHANGED <<runThread, runWaiting, debuggee, listening, execLock, pc, mine, outcome,
                 given, latest, closed, stray>>

-----------------------------------------------------------------------------
(* take_run_output, by debug_poll and at the end of debug_detach *)

\* Mutants of CollectLooks: no yielding to a run_class that is waiting; a yielding call
\* that drops the text all the same.
CollectUnyielding(p) ==
  /\ pc[p] \in {"idle", "take"} /\ ~closed /\ RunLockFree
  /\ Goto(p, "thread")
  /\ UNCHANGED <<runThread, runText, runWaiting, debuggee, listening, execLock, mine, rpc,
                 outcome, given, latest, closed, stray>>

CollectDropping(p) ==
  /\ pc[p] \in {"idle", "take"} /\ ~closed /\ RunLockFree
  /\ runText' = IF runWaiting THEN None ELSE runText
  /\ Goto(p, IF runWaiting THEN "idle" ELSE "thread")
  /\ UNCHANGED <<runThread, runWaiting, debuggee, listening, execLock, mine, rpc, outcome,
                 given, latest, closed, stray>>

\* Nothing while a run_class waits.
CollectLooks(p) ==
  /\ pc[p] \in {"idle", "take"} /\ ~closed /\ RunLockFree
  /\ Goto(p, IF runWaiting THEN "idle" ELSE "thread")
  /\ UNCHANGED <<runThread, runText, runWaiting, debuggee, listening, execLock, mine, rpc,
                 outcome, given, latest, closed, stray>>

\* Is the thread over, or has it not been started yet?
CollectChecks(p) ==
  /\ pc[p] = "thread"
  /\ Goto(p, IF runThread # None /\ ~Alive(runThread) THEN "forget" ELSE "text")
  /\ UNCHANGED <<runThread, runText, runWaiting, debuggee, listening, execLock, mine, rpc,
                 outcome, given, latest, closed, stray>>

\* Then it is forgotten, even if it is another one by now.
CollectForgets(p) ==
  /\ pc[p] = "forget"
  /\ runThread' = None
  /\ stray' = stray \cup {r \in Runs : r = runThread /\ rpc[r] \notin {"none", "dead"}}
  /\ Goto(p, "text")
  /\ UNCHANGED <<runText, runWaiting, debuggee, listening, execLock, mine, rpc, outcome,
                 given, latest, closed>>

\* Mutant of CollectTakes: a text that is read and not consumed.
CollectKeeping(p) ==
  /\ pc[p] = "text"
  /\ IF runText # None THEN HandOver(runText) ELSE UNCHANGED given
  /\ Goto(p, "idle")
  /\ UNCHANGED <<runThread, runText, runWaiting, debuggee, listening, execLock, mine, rpc,
                 outcome, latest, closed, stray>>

\* The text is consumed.
CollectTakes(p) ==
  /\ pc[p] = "text"
  /\ IF runText # None THEN HandOver(runText) ELSE UNCHANGED given
  /\ runText' = None
  /\ Goto(p, "idle")
  /\ UNCHANGED <<runThread, runWaiting, debuggee, listening, execLock, mine, rpc, outcome,
                 latest, closed, stray>>

\* The join before it, for ten seconds at most.  A thread that was made and not
\* started cannot be joined, and the RuntimeError ends the call.
CollectJoin(p) ==
  /\ pc[p] = "join"
  /\ Goto(p, IF runThread # None /\ rpc[runThread] = "made" THEN "idle" ELSE "take")
  /\ UNCHANGED <<runThread, runText, runWaiting, debuggee, listening, execLock, mine, rpc,
                 outcome, given, latest, closed, stray>>

-----------------------------------------------------------------------------
(* debug_listen and debug_detach, as far as a run can tell *)

Listen(p) ==
  /\ pc[p] = "idle" /\ ~closed
  /\ ~listening /\ debuggee = None /\ \A r \in Runs : rpc[r] # "stopped"
  /\ listening' = TRUE
  /\ UNCHANGED <<runThread, runText, runWaiting, debuggee, execLock, pc, mine, rpc,
                 outcome, given, latest, closed, stray>>

ListenOver ==
  /\ listening
  /\ listening' = FALSE
  /\ UNCHANGED <<runThread, runText, runWaiting, debuggee, execLock, pc, mine, rpc,
                 outcome, given, latest, closed, stray>>

LetGo == rpc' = [r \in Runs |-> IF rpc[r] = "stopped" THEN "exec" ELSE rpc[r]]

\* release() has joined the listener, so what it caught is published by then.
DetachRelease(p) ==
  /\ pc[p] = "idle" /\ ~closed
  /\ \A r \in Runs : rpc[r] = "stopped" => debuggee = r
  /\ LetGo
  /\ listening' = FALSE
  /\ Goto(p, "clear")
  /\ UNCHANGED <<runThread, runText, runWaiting, debuggee, execLock, mine, outcome, given,
                 latest, closed, stray>>

DetachClear(p) ==
  /\ pc[p] = "clear"
  /\ debuggee' = None
  /\ Goto(p, "join")
  /\ UNCHANGED <<runThread, runText, runWaiting, listening, execLock, mine, rpc, outcome,
                 given, latest, closed, stray>>

\* close_all: the debuggee is let go first, the run thread joined for a while, and
\* its text dropped.
Close ==
  /\ ~closed /\ \A c \in Callers : pc[c] = "idle"
  /\ LetGo
  /\ runThread' = None /\ runText' = None /\ debuggee' = None
  /\ listening' = FALSE /\ closed' = TRUE
  /\ UNCHANGED <<runWaiting, execLock, pc, mine, outcome, given, latest, stray>>

\* After the shutdown nothing has to happen any more.
Stopped == closed /\ UNCHANGED vars

-----------------------------------------------------------------------------
Waits(c) ==
  \/ RunUnblocked(c) \/ RunEmpties(c) \/ RunClaims(c) \/ RunMakes(c)
  \/ RunStart(c) \/ WaitTake(c) \/ WaitCaught(c) \/ WaitDeadline(c) \/ WaitSleep(c)
  \/ WaitFinally(c)

Body(r) == BodyAcquire(r) \/ BodyDone(r) \/ BodyPublish(r)

Takes(p) == CollectChecks(p) \/ CollectForgets(p) \/ CollectTakes(p)

Tool(p) ==
  \/ CollectLooks(p) \/ Takes(p) \/ CollectJoin(p)
  \/ Listen(p) \/ DetachRelease(p) \/ DetachClear(p)

Next ==
  \/ \E c \in Runners : RunEnters(c) \/ Waits(c)
  \/ \E r \in Runs : Body(r) \/ Stops(r) \/ Publishes(r)
  \/ \E p \in Pollers : Tool(p)
  \/ ListenOver \/ Close \/ Stopped

Spec == Init /\ [][Next]_vars

\* Threads run, and one that asks for run_lock again and again gets it; a program that is
\* not stopped ends or runs into its HTTP ceiling; the listener publishes.  Nobody has to
\* let a stopped program go.  A loop that sleeps and looks again reaches its deadline.
FairSpec ==
  /\ Spec
  /\ \A c \in Runners : SF_vars(Waits(c)) /\ SF_vars(WaitDeadline(c))
  /\ \A p \in Pollers : WF_vars(Takes(p))
  /\ \A r \in Runs : WF_vars(Body(r)) /\ WF_vars(Publishes(r))

-----------------------------------------------------------------------------
\* A finished run's text is handed over once: run_class, debug_poll and debug_detach
\* never both report it; and not while run_class waits for it: "without this flag a
\* poll landing at the wrong moment takes the result" (debug_session.py:57-60).
DeliveredOnce ==
  /\ \A r \in Runs : given[r] <= 1
  /\ \A c \in Runners : pc[c] \in {"wait", "look"} => given[mine[c]] = 0

\* What run_class answers as done is the text of the run it started (debug_session.py:270-
\* 271), never that of a run that was over before it began.  The text of another run it
\* can answer in one case only: a poll that saw no run_class waiting forgets the thread one
\* has made meanwhile (debug_session.py:342-347 against 288-297), so that the next
\* run_class is not told that this run is still busy.
OwnOutput ==
  \A c \in Runners :
    pc[c] = "finally" /\ outcome[c] \in Runs => outcome[c] \in {mine[c]} \cup stray

\* The text of the last run is not lost (poll: "the finished run nobody has collected
\* yet", debug_session.py:166-168): until somebody is handed it, it can be collected,
\* unless a run that was forgotten has put its own in the same place.
NotLost ==
  ~closed /\ latest # None /\ rpc[latest] = "dead" /\ given[latest] = 0
     => \/ runText = latest
        \/ \E r \in stray \ {latest} : rpc[r] = "dead"

\* run_class comes back although the code it started is stopped at a breakpoint and
\* nobody has let it go: "the same self-deadlock debug_listen avoids"
\* (debug_session.py:277-281).
RunClassReturns == \A c \in Runners : pc[c] # "idle" ~> pc[c] = "idle"
=============================================================================
