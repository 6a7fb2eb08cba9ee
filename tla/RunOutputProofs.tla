--------------------------- MODULE RunOutputProofs ---------------------------
(***************************************************************************)
(* Proofs about RunOutput for every set of run threads and of callers that *)
(* poll, listen and detach.  Where a text goes, and that it is not lost,   *)
(* needs that no two run_class calls overlap: the thread is started        *)
(* outside _guard (debug_session.py:298).                                  *)
(***************************************************************************)
EXTENDS RunOutput, TLAPS

\* No two run_class calls overlap.
Sequential == \A c, d \in Runners : pc[c] # "idle" /\ pc[d] # "idle" => c = d

\* A run_class call has a run of its own, which nobody else starts.
Owns ==
  \A c \in Runners :
    /\ pc[c] \in Waiting \cup {"finally"} => mine[c] \in Runs
    /\ pc[c] = "start" => rpc[mine[c]] = "made"
    /\ \A d \in Runners : mine[c] = mine[d] /\ mine[c] # None => c = d

\* Runners and pollers keep to their own steps.
Roles ==
  /\ \A c \in Runners : pc[c] \in {"idle", "finally"} \cup Guarded \cup Waiting
  /\ \A p \in Pollers : pc[p] \in {"idle", "clear", "join", "take"} \cup Taking

\* A text is published when its run is over, and nobody is handed it before; once it has
\* been handed over it is not there any more.
Once ==
  /\ \A r \in Runs : given[r] \in 0 .. 1 /\ (given[r] = 1 => rpc[r] \in {"none", "dead"})
  /\ runText # None => rpc[runText] = "dead" /\ given[runText] = 0

\* What holds however many run_class calls there are.
TextInv == TypeOK /\ Owns /\ Roles /\ Once

Live(r) == rpc[r] \notin {"none", "dead"}

\* There is one run at a time but for those a poll has forgotten: the last one, which
\* _State knows until it is over.
OneRun ==
  ~closed => \A r \in Runs : Live(r) => r \in stray \/ (r = latest /\ r = runThread)

\* No other is left once a run_class call is past the check for a busy one.
Entering ==
  \A c \in Runners :
    /\ pc[c] \in Guarded => ~closed /\ \A r \in Runs : Live(r) => r \in stray
    /\ pc[c] \in {"claim", "make"} => runText \in {None} \cup stray
    /\ pc[c] = "make" => runWaiting

\* A thread that was made is about to be started.
AboutToStart ==
  \A r \in Runs : rpc[r] = "made" => \E c \in Runners : pc[c] = "start" /\ mine[c] = r

\* A run_class call that waits has said so, for the last run; the text it will find is its
\* own or that of a forgotten run, and nobody else has had it.
Attended ==
  \A c \in Runners : pc[c] \in Waiting =>
    /\ runWaiting /\ ~closed
    /\ mine[c] = latest
    /\ runText \in {None, mine[c]} \cup stray
    /\ given[mine[c]] = 0

\* Whoever is about to take a text has run_lock, and a run that was made since is not over.
Unpublished ==
  \A p \in Pollers, c \in Runners :
    pc[p] \in Taking /\ pc[c] \in Waiting => rpc[mine[c]] # "dead"

\* The inductive invariant for run_class calls that do not overlap.
Sole ==
  AboutToStart /\ OneRun /\ Entering /\ Attended /\ Unpublished /\ OwnOutput /\ NotLost

SoleInv == TextInv /\ Sole

-------------------------------------------------------------------------------
\* Nothing has been run at the start.
LEMMA InitInv == Init => SoleInv
<1> SUFFICES ASSUME Init PROVE SoleInv
  OBVIOUS
<1> USE RunAssumption DEF Init, Callers, Guarded, Waiting, Taking, States
<1>1. TypeOK
  <2>1. /\ pc \in [Callers -> {"idle", "finally", "clear", "join", "take"}
                                \cup Guarded \cup Waiting \cup Taking]
        /\ mine \in [Runners -> Runs \cup {None}]
        /\ outcome \in [Runners -> Runs \cup States]
    OBVIOUS
  <2>2. rpc \in [Runs -> {"none", "made", "lock", "exec", "stopped", "publish", "dead"}]
    OBVIOUS
  <2>3. given \in [Runs -> 0 .. 2]
    OBVIOUS
  <2> QED BY <2>1, <2>2, <2>3 DEF TypeOK
<1>2. Owns /\ Roles /\ Once
  BY DEF Owns, Roles, Once
<1>3. Sole
  BY DEF Sole, AboutToStart, OneRun, Entering, Live, Attended, Unpublished, OwnOutput, NotLost
<1> QED BY <1>1, <1>2, <1>3 DEF SoleInv, TextInv

\* A step of run_class hands over a text that is there, and takes it away.
LEMMA RunnerStep ==
  ASSUME TextInv, NEW c \in Runners, RunEnters(c) \/ Waits(c)
  PROVE  TextInv'
<1> USE RunAssumption DEF TextInv, TypeOK, Owns, Roles, Once, Callers, Guarded, Waiting,
      Taking, States, Goto, HandOver, Alive, Fresh
<1>1. CASE RunEnters(c) BY <1>1 DEF RunEnters
<1>2. CASE RunUnblocked(c) BY <1>2 DEF RunUnblocked
<1>3. CASE RunEmpties(c) BY <1>3 DEF RunEmpties
<1>4. CASE RunClaims(c) BY <1>4 DEF RunClaims
<1>5. CASE RunMakes(c) BY <1>5 DEF RunMakes
<1>6. CASE RunStart(c) BY <1>6 DEF RunStart
<1>7. CASE WaitTake(c) BY <1>7 DEF WaitTake
<1>8. CASE WaitCaught(c) BY <1>8 DEF WaitCaught
<1>9. CASE WaitDeadline(c) BY <1>9 DEF WaitDeadline
<1>10. CASE WaitSleep(c) BY <1>10 DEF WaitSleep
<1>11. CASE WaitFinally(c)
  <2>1. TypeOK'
    BY <1>11 DEF WaitFinally
  <2>2. Owns'
    BY <1>11 DEF WaitFinally
  <2>3. Roles'
    BY <1>11 DEF WaitFinally
  <2>4. Once'
    BY <1>11 DEF WaitFinally
  <2> QED BY <2>1, <2>2, <2>3, <2>4
<1> QED BY <1>1, <1>2, <1>3, <1>4, <1>5, <1>6, <1>7, <1>8, <1>9, <1>10, <1>11 DEF Waits

\* A run is over when it publishes its text.
LEMMA BodyStep ==
  ASSUME TextInv, NEW r \in Runs, Body(r) \/ Stops(r) \/ Publishes(r)
  PROVE  TextInv'
<1> USE RunAssumption DEF TextInv, TypeOK, Owns, Roles, Once, Callers, Guarded, Waiting,
      Taking, States, Goto, HandOver, Alive, Fresh
<1>1. CASE BodyAcquire(r) BY <1>1 DEF BodyAcquire
<1>2. CASE Stops(r)
  <2>1. TypeOK'
    BY <1>2 DEF Stops
  <2>2. Owns'
    BY <1>2 DEF Stops
  <2>3. Roles'
    BY <1>2 DEF Stops
  <2>4. Once'
    BY <1>2 DEF Stops
  <2> QED BY <2>1, <2>2, <2>3, <2>4
<1>3. CASE Publishes(r) BY <1>3 DEF Publishes
<1>4. CASE BodyDone(r) BY <1>4 DEF BodyDone
<1>5. CASE BodyPublish(r) BY <1>5 DEF BodyPublish
<1> QED BY <1>1, <1>2, <1>3, <1>4, <1>5 DEF Body

\* So does a poll or a detach.
LEMMA PollerStep ==
  ASSUME TextInv, NEW p \in Pollers, Tool(p)
  PROVE  TextInv'
<1> USE RunAssumption DEF TextInv, TypeOK, Owns, Roles, Once, Callers, Guarded, Waiting,
      Taking, States, Goto, HandOver, Alive, Fresh, LetGo
<1>1. CASE CollectLooks(p) BY <1>1 DEF CollectLooks
<1>2. CASE CollectChecks(p) BY <1>2 DEF CollectChecks
<1>3. CASE CollectForgets(p) BY <1>3 DEF CollectForgets
<1>4. CASE CollectTakes(p) BY <1>4 DEF CollectTakes
<1>5. CASE CollectJoin(p) BY <1>5 DEF CollectJoin
<1>6. CASE Listen(p) BY <1>6 DEF Listen
<1>7. CASE DetachRelease(p)
  <2>1. TypeOK'
    BY <1>7 DEF DetachRelease
  <2>2. Owns'
    BY <1>7 DEF DetachRelease
  <2>3. Roles'
    BY <1>7 DEF DetachRelease
  <2>4. Once'
    BY <1>7 DEF DetachRelease
  <2> QED BY <2>1, <2>2, <2>3, <2>4
<1>8. CASE DetachClear(p) BY <1>8 DEF DetachClear
<1> QED BY <1>1, <1>2, <1>3, <1>4, <1>5, <1>6, <1>7, <1>8 DEF Tool, Takes

\* Listeners and the shutdown hand over nothing.
LEMMA OtherStep ==
  ASSUME TextInv, ListenOver \/ Close \/ Stopped \/ UNCHANGED vars
  PROVE  TextInv'
<1> USE RunAssumption DEF TextInv, TypeOK, Owns, Roles, Once, Callers, Guarded, Waiting,
      Taking, States, Goto, HandOver, Alive, Fresh, LetGo
<1>1. CASE ListenOver
  <2>1. TypeOK' BY <1>1 DEF ListenOver
  <2>2. Owns' /\ Roles' /\ Once' BY <1>1 DEF ListenOver
  <2> QED BY <2>1, <2>2
<1>2. CASE Close
  <2>1. TypeOK' BY <1>2 DEF Close
  <2>2. Owns' BY <1>2 DEF Close
  <2>3. Roles' /\ Once' BY <1>2 DEF Close
  <2> QED BY <2>1, <2>2, <2>3
<1>3. CASE Stopped \/ UNCHANGED vars BY <1>3 DEF Stopped, vars
<1> QED BY <1>1, <1>2, <1>3

\* run_class takes its own text, or that of a forgotten run.
LEMMA SoleRunnerStep ==
  ASSUME Sequential, Sequential', SoleInv, NEW c \in Runners, RunEnters(c) \/ Waits(c)
  PROVE  Sole'
<1> USE RunAssumption DEF SoleInv, Sole, Sequential, TextInv, TypeOK, Owns, Roles, Once,
      AboutToStart, OneRun, Entering, Live, Attended, Unpublished, OwnOutput, NotLost, Callers,
      Guarded, Waiting, Taking, States, Goto, HandOver, Alive, Fresh
<1>1. CASE RunEnters(c) BY <1>1 DEF RunEnters
<1>2. CASE RunUnblocked(c) BY <1>2 DEF RunUnblocked
<1>3. CASE RunEmpties(c) BY <1>3 DEF RunEmpties
<1>4. CASE RunClaims(c) BY <1>4 DEF RunClaims
<1>5. CASE RunMakes(c) BY <1>5 DEF RunMakes
<1>6. CASE RunStart(c) BY <1>6 DEF RunStart
<1>7. CASE WaitTake(c) BY <1>7 DEF WaitTake
<1>8. CASE WaitCaught(c) BY <1>8 DEF WaitCaught
<1>9. CASE WaitDeadline(c) BY <1>9 DEF WaitDeadline
<1>10. CASE WaitSleep(c) BY <1>10 DEF WaitSleep
<1>11. CASE WaitFinally(c) BY <1>11 DEF WaitFinally
<1> QED BY <1>1, <1>2, <1>3, <1>4, <1>5, <1>6, <1>7, <1>8, <1>9, <1>10, <1>11 DEF Waits

\* The run that publishes is the one a waiting call has started, or a forgotten one.
LEMMA SoleBodyStep ==
  ASSUME Sequential, Sequential', SoleInv, NEW r \in Runs, Body(r) \/ Stops(r) \/ Publishes(r)
  PROVE  Sole'
<1> USE RunAssumption DEF SoleInv, Sole, Sequential, TextInv, TypeOK, Owns, Roles, Once,
      AboutToStart, OneRun, Entering, Live, Attended, Unpublished, OwnOutput, NotLost, Callers,
      Guarded, Waiting, Taking, States, Goto, HandOver, Alive, Fresh
<1>1. CASE BodyAcquire(r) BY <1>1 DEF BodyAcquire
<1>2. CASE Stops(r) BY <1>2 DEF Stops
<1>3. CASE Publishes(r) BY <1>3 DEF Publishes
<1>4. CASE BodyDone(r) BY <1>4 DEF BodyDone
<1>5. CASE BodyPublish(r)
  <2>1. AboutToStart' /\ OneRun' /\ Entering' BY <1>5 DEF BodyPublish
  <2>2. Attended' BY <1>5 DEF BodyPublish
  <2>3. Unpublished' BY <1>5 DEF BodyPublish, RunLockFree
  <2>4. OwnOutput' BY <1>5 DEF BodyPublish
  <2>5. NotLost'
    <3>1. CASE r = latest BY <1>5, <3>1 DEF BodyPublish
    <3>2. CASE r # latest
      <4>1. /\ rpc' = [rpc EXCEPT ![r] = "dead"] /\ Live(r)
            /\ UNCHANGED <<latest, stray, closed>>
        BY <1>5 DEF BodyPublish
      <4>2. rpc'[r] = "dead" BY <4>1
      <4>3. ~closed => r \in stray' \ {latest'} BY <3>2, <4>1
      <4> QED BY <4>1, <4>2, <4>3
    <3> QED BY <3>1, <3>2
  <2> QED BY <2>1, <2>2, <2>3, <2>4, <2>5
<1> QED BY <1>1, <1>2, <1>3, <1>4, <1>5 DEF Body

\* A poll keeps off the text of a call that waits.
LEMMA SolePollerStep ==
  ASSUME Sequential, Sequential', SoleInv, NEW p \in Pollers, Tool(p)
  PROVE  Sole'
<1> USE RunAssumption DEF SoleInv, Sole, Sequential, TextInv, TypeOK, Owns, Roles, Once,
      AboutToStart, OneRun, Entering, Live, Attended, Unpublished, OwnOutput, NotLost, Callers,
      Guarded, Waiting, Taking, States, Goto, HandOver, Alive, Fresh, LetGo
<1>1. CASE CollectLooks(p) BY <1>1 DEF CollectLooks
<1>2. CASE CollectChecks(p) BY <1>2 DEF CollectChecks
<1>3. CASE CollectForgets(p) BY <1>3 DEF CollectForgets
<1>4. CASE CollectTakes(p) BY <1>4 DEF CollectTakes
<1>5. CASE CollectJoin(p) BY <1>5 DEF CollectJoin
<1>6. CASE Listen(p) BY <1>6 DEF Listen
<1>7. CASE DetachRelease(p) BY <1>7 DEF DetachRelease
<1>8. CASE DetachClear(p) BY <1>8 DEF DetachClear
<1> QED BY <1>1, <1>2, <1>3, <1>4, <1>5, <1>6, <1>7, <1>8 DEF Tool, Takes

\* The shutdown waits for the calls; what it drops nobody is promised any more.
LEMMA SoleOtherStep ==
  ASSUME Sequential, Sequential', SoleInv, ListenOver \/ Close \/ Stopped \/ UNCHANGED vars
  PROVE  Sole'
<1> USE RunAssumption DEF SoleInv, Sole, Sequential, TextInv, TypeOK, Owns, Roles, Once,
      AboutToStart, OneRun, Entering, Live, Attended, Unpublished, OwnOutput, NotLost, Callers,
      Guarded, Waiting, Taking, States, Goto, HandOver, Alive, Fresh, LetGo
<1>1. CASE ListenOver BY <1>1 DEF ListenOver
<1>2. CASE Close BY <1>2 DEF Close
<1>3. CASE Stopped \/ UNCHANGED vars BY <1>3 DEF Stopped, vars
<1> QED BY <1>1, <1>2, <1>3

\* Whatever the number of run_class calls, texts are handed over at most once.
THEOREM Invariance == Spec => []TextInv
<1>1. Init => TextInv
  BY InitInv DEF SoleInv
<1>2. TextInv /\ [Next]_vars => TextInv'
  BY RunnerStep, BodyStep, PollerStep, OtherStep DEF Next
<1> QED BY <1>1, <1>2, PTL DEF Spec

\* The fields keep their types: among others a run's text is handed to two callers at most.
THEOREM TypeCorrect == Spec => []TypeOK
<1>1. TextInv => TypeOK
  BY DEF TextInv
<1> QED BY <1>1, Invariance, PTL

\* Two run_class calls of one caller never overlap.
THEOREM AloneInTurn ==
  ASSUME \A c, d \in Runners : c = d
  PROVE  Spec => []Sequential
<1>1. Sequential BY DEF Sequential
<1> QED BY <1>1, PTL

\* Where run_class calls do not overlap the other properties hold as well.
THEOREM SoleInvariance == Spec /\ []Sequential => []SoleInv
<1>1. Init => SoleInv
  BY InitInv
<1>2. SoleInv /\ Sequential /\ Sequential' /\ [Next]_vars => SoleInv'
  <2> SUFFICES ASSUME SoleInv, Sequential, Sequential', [Next]_vars PROVE SoleInv'
    OBVIOUS
  <2>1. TextInv'
    BY RunnerStep, BodyStep, PollerStep, OtherStep DEF Next, SoleInv
  <2>2. Sole'
    BY SoleRunnerStep, SoleBodyStep, SolePollerStep, SoleOtherStep DEF Next
  <2> QED BY <2>1, <2>2 DEF SoleInv
<1> QED BY <1>1, <1>2, PTL DEF Spec

\* Where run_class calls do not overlap, a text is handed over once, and not past the call
\* that waits for it.
THEOREM HandedOnce == Spec /\ []Sequential => []DeliveredOnce
<1>1. SoleInv => DeliveredOnce
  <2> SUFFICES ASSUME SoleInv PROVE DeliveredOnce
    OBVIOUS
  <2>1. \A r \in Runs : given[r] <= 1
    BY DEF SoleInv, TextInv, Once
  <2>2. \A c \in Runners : pc[c] \in {"wait", "look"} => given[mine[c]] = 0
    BY DEF SoleInv, Sole, Attended, Waiting
  <2> QED BY <2>1, <2>2 DEF DeliveredOnce
<1> QED BY <1>1, SoleInvariance, PTL

\* Where run_class calls do not overlap, what one answers as done is what its own run has
\* written, or a run that a poll has forgotten while it was still going.
THEOREM OwnText == Spec /\ []Sequential => []OwnOutput
<1>1. SoleInv => OwnOutput
  BY DEF SoleInv, Sole
<1> QED BY <1>1, SoleInvariance, PTL

\* Where run_class calls do not overlap, the last run's text can be collected until
\* somebody is handed it, unless a forgotten run has finished.
THEOREM TextKept == Spec /\ []Sequential => []NotLost
<1>1. SoleInv => NotLost
  BY DEF SoleInv, Sole
<1> QED BY <1>1, SoleInvariance, PTL
=============================================================================
