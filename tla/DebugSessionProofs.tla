-------------------------- MODULE DebugSessionProofs --------------------------
(***************************************************************************)
(* Proofs about DebugSession for every set of callers, thread objects and  *)
(* programs, every number of rounds and every combination of faults.       *)
(***************************************************************************)
EXTENDS DebugSession, TLAPS

\* Whoever has a request out on the DEBUG session holds the channel's lock.
HoldsLock == \A a \in OnChannel : lock = a

\* A thread object in st.thread that is not started yet has somebody about to start it.
MadeIsOwned ==
  st.thread # None /\ lpc[st.thread] = "made" => \E c \in Clients : pc[c] = "start"

\* A listen command that is being built finds no live listener to displace.
SlotIsFree ==
  (\E c \in Clients : pc[c] = "build") =>
    ~(st.thread # None /\ (Alive(st.thread) \/ lpc[st.thread] = "made"))

\* A round is only taken while rounds are left.
RoundsLeft == \A l \in Listeners : lpc[l] \in {"lock", "register", "listen"} => rem[l] > 0

\* The inductive invariant.
SessionInv == TypeOK /\ RoundsLeft /\ HoldsLock /\ OneStart /\ MadeIsOwned /\ SlotIsFree

-------------------------------------------------------------------------------
\* The fields, and the program counters, have the types they start with: no call,
\* however it is cut short, leaves a field with something else in it.
LEMMA InitType == Init => TypeOK
<1> SUFFICES ASSUME Init PROVE TypeOK
  OBVIOUS
<1> USE SessionAssumption DEF Init, Actors
<1>1. st \in [starting : BOOLEAN, stop : BOOLEAN, polling : BOOLEAN,
             thread : Listeners \cup {None}, debuggee : Debuggees \cup {None},
             attached : BOOLEAN, error : BOOLEAN, timedOut : BOOLEAN]
  OBVIOUS
<1>2. /\ pc \in [Actors -> ClientPC \cup MainPC]
      /\ pc[Main] \in MainPC /\ \A c \in Clients : pc[c] \in ClientPC
  BY DEF ClientPC, MainPC
<1>3. /\ rem \in [Listeners -> 0 .. MaxRounds]
      /\ lpc \in [Listeners -> LoopPC]
  BY DEF LoopPC
<1> QED BY <1>1, <1>2, <1>3 DEF TypeOK

\* Every step of a worker thread's call keeps the types.
LEMMA CallType ==
  ASSUME TypeOK, NEW c \in Clients, Call(c)
  PROVE  TypeOK'
<1> USE SessionAssumption DEF TypeOK, Actors, ClientPC, MainPC, LoopPC, Goto, Answers, Calls
<1>1. CASE ListenAccepted(c) BY <1>1 DEF ListenAccepted
<1>2. CASE StopSet(c) BY <1>2 DEF StopSet
<1>3. CASE AttachCheck(c) BY <1>3 DEF AttachCheck
<1>4. CASE UseCheck(c) BY <1>4 DEF UseCheck
<1>5. CASE ReleaseStop(c) BY <1>5 DEF ReleaseStop
<1>6. CASE PollFirst(c) BY <1>6 DEF PollFirst
<1> QED BY <1>1, <1>2, <1>3, <1>4, <1>5, <1>6 DEF Call

LEMMA ContinueType ==
  ASSUME TypeOK, NEW c \in Clients, Continue(c)
  PROVE  TypeOK'
<1> USE SessionAssumption DEF TypeOK, Actors, ClientPC, MainPC, LoopPC, Goto, Answers, Calls, Released
<1>1. CASE BuildFails(c) BY <1>1 DEF BuildFails
<1>2. CASE BuildCrashes(c) BY <1>2 DEF BuildCrashes
<1>3. CASE CreateThread(c) BY <1>3 DEF CreateThread
<1>4. CASE StartThread(c) BY <1>4 DEF StartThread
<1>5. CASE ListenReturns(c) BY <1>5 DEF ListenReturns
<1>6. CASE StopControl(c) BY <1>6 DEF StopControl
<1>7. CASE StopFails(c) BY <1>7 DEF StopFails
<1>8. CASE StopJoins(c) BY <1>8 DEF StopJoins, JoinsThread
<1>9. CASE StopJoined(c) BY <1>9 DEF StopJoined
<1>10. CASE StopClear(c) BY <1>10 DEF StopClear
<1>11. CASE JoinFails(c) BY <1>11 DEF JoinFails
<1>12. CASE AttachSend(c) BY <1>12 DEF AttachSend
<1>13. CASE AttachDone(c) BY <1>13 DEF AttachDone
<1>14. CASE AttachFails(c) BY <1>14 DEF AttachFails
<1>15. CASE AttachSet(c) BY <1>15 DEF AttachSet
<1>16. CASE UseSend(c) BY <1>16 DEF UseSend
<1>17. CASE UseDone(c) BY <1>17 DEF UseDone
<1>18. CASE ReleaseRead(c) BY <1>18 DEF ReleaseRead
<1>19. CASE ReleaseJoins(c) BY <1>19 DEF ReleaseJoins, JoinsThread
<1>20. CASE ReleaseJoined(c) BY <1>20 DEF ReleaseJoined
<1>21. CASE ReleaseCheck(c) BY <1>21 DEF ReleaseCheck
<1>22. CASE ReleaseSend(c) BY <1>22 DEF ReleaseSend
<1>23. CASE ReleaseDone(c) BY <1>23 DEF ReleaseDone
<1>24. CASE ReleaseFails(c)
  <2>1. channel' \in BOOLEAN /\ stale' \in SUBSET Listeners
    BY <1>24 DEF ReleaseFails
  <2>2. /\ lock' = None /\ pc' = [pc EXCEPT ![c] = "rel_clear"]
        /\ UNCHANGED <<st, joins, target, lpc, rem, found, program>>
    BY <1>24 DEF ReleaseFails
  <2> QED BY <2>1, <2>2
<1>25. CASE ReleaseClear(c) BY <1>25 DEF ReleaseClear
<1>26. CASE PollListening(c) BY <1>26 DEF PollListening
<1>27. CASE PollRest(c) BY <1>27 DEF PollRest
<1> QED BY <1>1, <1>2, <1>3, <1>4, <1>5, <1>6, <1>7, <1>8, <1>9, <1>10, <1>11, <1>12,
      <1>13, <1>14, <1>15, <1>16, <1>17, <1>18, <1>19, <1>20, <1>21, <1>22,
      <1>23, <1>24, <1>25, <1>26, <1>27 DEF Continue

\* So does every step of a listener thread.
LEMMA LoopType ==
  ASSUME TypeOK, RoundsLeft, NEW l \in Listeners, Loop(l)
  PROVE  TypeOK'
<1> USE SessionAssumption DEF TypeOK, Actors, ClientPC, MainPC, LoopPC, Goto, Answers, Calls, Released
<1>1. CASE LoopBegin(l) BY <1>1 DEF LoopBegin
<1>2. CASE LoopTest(l) BY <1>2 DEF LoopTest
<1>3. CASE LoopAcquire(l) BY <1>3 DEF LoopAcquire
<1>4. CASE LoopLeave(l) BY <1>4 DEF LoopLeave
<1>5. CASE ListenCaught(l) BY <1>5 DEF ListenCaught
<1>6. CASE ListenEmpty(l)
  <2>1. rem[l] \in Nat /\ rem[l] > 0 /\ rem[l] <= MaxRounds
    BY <1>6 DEF ListenEmpty, RoundsLeft
  <2>2. rem[l] - 1 \in 0 .. MaxRounds
    BY <2>1
  <2> QED BY <1>6, <2>2 DEF ListenEmpty
<1>7. CASE ListenFails(l)
  <2>1. program' \in [Debuggees -> {"free", "stopped", "attached"}]
    BY <1>7 DEF ListenFails
  <2>2. /\ st' = [st EXCEPT !.error = TRUE]
        /\ lock' = None /\ lpc' = [lpc EXCEPT ![l] = "ending"]
        /\ UNCHANGED <<channel, pc, joins, target, rem, found, stale>>
    BY <1>7 DEF ListenFails
  <2> QED BY <2>1, <2>2
<1>8. CASE LoopPublish(l) BY <1>8 DEF LoopPublish
<1>9. CASE LoopEnd(l)
  <2>1. /\ rem' \in [Listeners -> 0 .. MaxRounds]
        /\ found' \in [Listeners -> Debuggees \cup {None}]
        /\ stale' \in SUBSET Listeners
    BY <1>9 DEF LoopEnd
  <2>2. /\ st' = [st EXCEPT !.polling = TRUE]
        /\ lpc' = [lpc EXCEPT ![l] = "dead"]
        /\ UNCHANGED <<channel, lock, pc, joins, target, program>>
    BY <1>9 DEF LoopEnd
  <2> QED BY <2>1, <2>2
<1>10. CASE LoopRegister(l) BY <1>10 DEF LoopRegister
<1> QED BY <1>1, <1>2, <1>3, <1>4, <1>5, <1>6, <1>7, <1>8, <1>9, <1>10 DEF Loop

\* So does every step of the shutdown.
LEMMA CloseType ==
  ASSUME TypeOK, CloseStop \/ Close
  PROVE  TypeOK'
<1> USE SessionAssumption DEF TypeOK, Actors, ClientPC, MainPC, LoopPC, Goto, Answers, Calls, Released
<1>1. CASE CloseRead BY <1>1 DEF CloseRead
<1>2. CASE CloseJoins BY <1>2 DEF CloseJoins, JoinsThread
<1>3. CASE CloseJoined BY <1>3 DEF CloseJoined
<1>4. CASE CloseCheck BY <1>4 DEF CloseCheck
<1>5. CASE CloseSend BY <1>5 DEF CloseSend
<1>6. CASE CloseDone BY <1>6 DEF CloseDone
<1>7. CASE CloseClear BY <1>7 DEF CloseClear
<1>8. CASE CloseStop BY <1>8 DEF CloseStop
<1> QED BY <1>1, <1>2, <1>3, <1>4, <1>5, <1>6, <1>7, <1>8 DEF Close

\* A round is taken only after the loop has seen that rounds are left.
LEMMA RoundsStep ==
  ASSUME TypeOK, RoundsLeft, [Next]_vars
  PROVE  RoundsLeft'
<1> USE SessionAssumption DEF TypeOK, Actors, ClientPC, MainPC, LoopPC, Goto, Answers, Calls, RoundsLeft, Alive, Fresh
<1>1. ASSUME NEW c \in Clients, Call(c) PROVE RoundsLeft'
  <2>1. CASE ListenAccepted(c) BY <1>1, <2>1 DEF ListenAccepted
  <2>2. CASE StopSet(c) BY <1>1, <2>2 DEF StopSet
  <2>3. CASE AttachCheck(c) BY <1>1, <2>3 DEF AttachCheck
  <2>4. CASE UseCheck(c) BY <1>1, <2>4 DEF UseCheck
  <2>5. CASE ReleaseStop(c) BY <1>1, <2>5 DEF ReleaseStop
  <2>6. CASE PollFirst(c) BY <1>1, <2>6 DEF PollFirst
  <2> QED BY <1>1, <2>1, <2>2, <2>3, <2>4, <2>5, <2>6 DEF Call
<1>2. ASSUME NEW c \in Clients, Continue(c) PROVE RoundsLeft'
  <2>1. CASE BuildFails(c) BY <1>2, <2>1 DEF BuildFails
  <2>2. CASE BuildCrashes(c) BY <1>2, <2>2 DEF BuildCrashes
  <2>3. CASE CreateThread(c) BY <1>2, <2>3 DEF CreateThread
  <2>4. CASE StartThread(c) BY <1>2, <2>4 DEF StartThread
  <2>5. CASE ListenReturns(c) BY <1>2, <2>5 DEF ListenReturns
  <2>6. CASE StopControl(c) BY <1>2, <2>6 DEF StopControl
  <2>7. CASE StopFails(c) BY <1>2, <2>7 DEF StopFails
  <2>8. CASE StopJoins(c) BY <1>2, <2>8 DEF StopJoins, JoinsThread
  <2>9. CASE StopJoined(c) BY <1>2, <2>9 DEF StopJoined
  <2>10. CASE StopClear(c) BY <1>2, <2>10 DEF StopClear
  <2>11. CASE JoinFails(c) BY <1>2, <2>11 DEF JoinFails
  <2>12. CASE AttachSend(c) BY <1>2, <2>12 DEF AttachSend
  <2>13. CASE AttachDone(c) BY <1>2, <2>13 DEF AttachDone
  <2>14. CASE AttachFails(c) BY <1>2, <2>14 DEF AttachFails
  <2>15. CASE AttachSet(c) BY <1>2, <2>15 DEF AttachSet
  <2>16. CASE UseSend(c) BY <1>2, <2>16 DEF UseSend
  <2>17. CASE UseDone(c) BY <1>2, <2>17 DEF UseDone
  <2>18. CASE ReleaseRead(c) BY <1>2, <2>18 DEF ReleaseRead
  <2>19. CASE ReleaseJoins(c) BY <1>2, <2>19 DEF ReleaseJoins, JoinsThread
  <2>20. CASE ReleaseJoined(c) BY <1>2, <2>20 DEF ReleaseJoined
  <2>21. CASE ReleaseCheck(c) BY <1>2, <2>21 DEF ReleaseCheck
  <2>22. CASE ReleaseSend(c) BY <1>2, <2>22 DEF ReleaseSend
  <2>23. CASE ReleaseDone(c) BY <1>2, <2>23 DEF ReleaseDone
  <2>24. CASE ReleaseFails(c) BY <1>2, <2>24 DEF ReleaseFails
  <2>25. CASE ReleaseClear(c) BY <1>2, <2>25 DEF ReleaseClear
  <2>26. CASE PollListening(c) BY <1>2, <2>26 DEF PollListening
  <2>27. CASE PollRest(c) BY <1>2, <2>27 DEF PollRest
  <2> QED BY <1>2, <2>1, <2>2, <2>3, <2>4, <2>5, <2>6, <2>7, <2>8, <2>9, <2>10, <2>11, <2>12,
        <2>13, <2>14, <2>15, <2>16, <2>17, <2>18, <2>19, <2>20, <2>21, <2>22,
        <2>23, <2>24, <2>25, <2>26, <2>27 DEF Continue
<1>3. ASSUME NEW l \in Listeners, Loop(l) PROVE RoundsLeft'
  <2>1. CASE LoopBegin(l) BY <1>3, <2>1 DEF LoopBegin
  <2>2. CASE LoopTest(l) BY <1>3, <2>2 DEF LoopTest
  <2>3. CASE LoopAcquire(l) BY <1>3, <2>3 DEF LoopAcquire
  <2>4. CASE LoopLeave(l) BY <1>3, <2>4 DEF LoopLeave
  <2>5. CASE ListenCaught(l) BY <1>3, <2>5 DEF ListenCaught
  <2>6. CASE ListenEmpty(l) BY <1>3, <2>6 DEF ListenEmpty
  <2>7. CASE ListenFails(l) BY <1>3, <2>7 DEF ListenFails
  <2>8. CASE LoopPublish(l) BY <1>3, <2>8 DEF LoopPublish
  <2>9. CASE LoopEnd(l) BY <1>3, <2>9 DEF LoopEnd
  <2>10. CASE LoopRegister(l) BY <1>3, <2>10 DEF LoopRegister
  <2> QED BY <1>3, <2>1, <2>2, <2>3, <2>4, <2>5, <2>6, <2>7, <2>8, <2>9, <2>10 DEF Loop
<1>4. CASE Close
  <2>1. CASE CloseRead BY <1>4, <2>1 DEF CloseRead
  <2>2. CASE CloseJoins BY <1>4, <2>2 DEF CloseJoins, JoinsThread
  <2>3. CASE CloseJoined BY <1>4, <2>3 DEF CloseJoined
  <2>4. CASE CloseCheck BY <1>4, <2>4 DEF CloseCheck
  <2>5. CASE CloseSend BY <1>4, <2>5 DEF CloseSend
  <2>6. CASE CloseDone BY <1>4, <2>6 DEF CloseDone
  <2>7. CASE CloseClear BY <1>4, <2>7 DEF CloseClear
  <2> QED BY <1>4, <2>1, <2>2, <2>3, <2>4, <2>5, <2>6, <2>7 DEF Close
<1>5. CASE CloseStop BY <1>5 DEF CloseStop
<1>6. CASE UNCHANGED vars BY <1>6 DEF vars
<1> QED BY <1>1, <1>2, <1>3, <1>4, <1>5, <1>6 DEF Next

\* A request goes out on the DEBUG session only from under its lock, and the lock is
\* given back only by the one whose request has come back.
LEMMA LockStep ==
  ASSUME TypeOK, HoldsLock, [Next]_vars
  PROVE  HoldsLock'
<1> USE SessionAssumption DEF TypeOK, Actors, ClientPC, MainPC, LoopPC, Goto, Answers, Calls, HoldsLock, OnChannel
<1>1. ASSUME NEW c \in Clients, Call(c) PROVE HoldsLock'
  <2>1. CASE ListenAccepted(c) BY <1>1, <2>1 DEF ListenAccepted
  <2>2. CASE StopSet(c) BY <1>1, <2>2 DEF StopSet
  <2>3. CASE AttachCheck(c) BY <1>1, <2>3 DEF AttachCheck
  <2>4. CASE UseCheck(c) BY <1>1, <2>4 DEF UseCheck
  <2>5. CASE ReleaseStop(c) BY <1>1, <2>5 DEF ReleaseStop
  <2>6. CASE PollFirst(c) BY <1>1, <2>6 DEF PollFirst
  <2> QED BY <1>1, <2>1, <2>2, <2>3, <2>4, <2>5, <2>6 DEF Call
<1>2. ASSUME NEW c \in Clients, Continue(c) PROVE HoldsLock'
  <2>1. CASE BuildFails(c) BY <1>2, <2>1 DEF BuildFails
  <2>2. CASE BuildCrashes(c) BY <1>2, <2>2 DEF BuildCrashes
  <2>3. CASE CreateThread(c) BY <1>2, <2>3 DEF CreateThread
  <2>4. CASE StartThread(c) BY <1>2, <2>4 DEF StartThread
  <2>5. CASE ListenReturns(c) BY <1>2, <2>5 DEF ListenReturns
  <2>6. CASE StopControl(c) BY <1>2, <2>6 DEF StopControl
  <2>7. CASE StopFails(c) BY <1>2, <2>7 DEF StopFails
  <2>8. CASE StopJoins(c) BY <1>2, <2>8 DEF StopJoins, JoinsThread
  <2>9. CASE StopJoined(c) BY <1>2, <2>9 DEF StopJoined
  <2>10. CASE StopClear(c) BY <1>2, <2>10 DEF StopClear
  <2>11. CASE JoinFails(c) BY <1>2, <2>11 DEF JoinFails
  <2>12. CASE AttachSend(c) BY <1>2, <2>12 DEF AttachSend
  <2>13. CASE AttachDone(c) BY <1>2, <2>13 DEF AttachDone
  <2>14. CASE AttachFails(c) BY <1>2, <2>14 DEF AttachFails
  <2>15. CASE AttachSet(c) BY <1>2, <2>15 DEF AttachSet
  <2>16. CASE UseSend(c) BY <1>2, <2>16 DEF UseSend
  <2>17. CASE UseDone(c) BY <1>2, <2>17 DEF UseDone
  <2>18. CASE ReleaseRead(c) BY <1>2, <2>18 DEF ReleaseRead
  <2>19. CASE ReleaseJoins(c) BY <1>2, <2>19 DEF ReleaseJoins, JoinsThread
  <2>20. CASE ReleaseJoined(c) BY <1>2, <2>20 DEF ReleaseJoined
  <2>21. CASE ReleaseCheck(c) BY <1>2, <2>21 DEF ReleaseCheck
  <2>22. CASE ReleaseSend(c) BY <1>2, <2>22 DEF ReleaseSend
  <2>23. CASE ReleaseDone(c) BY <1>2, <2>23 DEF ReleaseDone
  <2>24. CASE ReleaseFails(c) BY <1>2, <2>24 DEF ReleaseFails
  <2>25. CASE ReleaseClear(c) BY <1>2, <2>25 DEF ReleaseClear
  <2>26. CASE PollListening(c) BY <1>2, <2>26 DEF PollListening
  <2>27. CASE PollRest(c) BY <1>2, <2>27 DEF PollRest
  <2> QED BY <1>2, <2>1, <2>2, <2>3, <2>4, <2>5, <2>6, <2>7, <2>8, <2>9, <2>10, <2>11, <2>12,
        <2>13, <2>14, <2>15, <2>16, <2>17, <2>18, <2>19, <2>20, <2>21, <2>22,
        <2>23, <2>24, <2>25, <2>26, <2>27 DEF Continue
<1>3. ASSUME NEW l \in Listeners, Loop(l) PROVE HoldsLock'
  <2>1. CASE LoopBegin(l) BY <1>3, <2>1 DEF LoopBegin
  <2>2. CASE LoopTest(l) BY <1>3, <2>2 DEF LoopTest
  <2>3. CASE LoopAcquire(l) BY <1>3, <2>3 DEF LoopAcquire
  <2>4. CASE LoopLeave(l) BY <1>3, <2>4 DEF LoopLeave
  <2>5. CASE ListenCaught(l) BY <1>3, <2>5 DEF ListenCaught
  <2>6. CASE ListenEmpty(l) BY <1>3, <2>6 DEF ListenEmpty
  <2>7. CASE ListenFails(l) BY <1>3, <2>7 DEF ListenFails
  <2>8. CASE LoopPublish(l) BY <1>3, <2>8 DEF LoopPublish
  <2>9. CASE LoopEnd(l) BY <1>3, <2>9 DEF LoopEnd
  <2>10. CASE LoopRegister(l) BY <1>3, <2>10 DEF LoopRegister
  <2> QED BY <1>3, <2>1, <2>2, <2>3, <2>4, <2>5, <2>6, <2>7, <2>8, <2>9, <2>10 DEF Loop
<1>4. CASE Close
  <2>1. CASE CloseRead BY <1>4, <2>1 DEF CloseRead
  <2>2. CASE CloseJoins BY <1>4, <2>2 DEF CloseJoins, JoinsThread
  <2>3. CASE CloseJoined BY <1>4, <2>3 DEF CloseJoined
  <2>4. CASE CloseCheck BY <1>4, <2>4 DEF CloseCheck
  <2>5. CASE CloseSend BY <1>4, <2>5 DEF CloseSend
  <2>6. CASE CloseDone BY <1>4, <2>6 DEF CloseDone
  <2>7. CASE CloseClear BY <1>4, <2>7 DEF CloseClear
  <2> QED BY <1>4, <2>1, <2>2, <2>3, <2>4, <2>5, <2>6, <2>7 DEF Close
<1>5. CASE CloseStop BY <1>5 DEF CloseStop
<1>6. CASE UNCHANGED vars BY <1>6 DEF vars
<1> QED BY <1>1, <1>2, <1>3, <1>4, <1>5, <1>6 DEF Next

\* A listen command is accepted only when no other one is starting.
LEMMA StartStep ==
  ASSUME TypeOK, OneStart, [Next]_vars
  PROVE  OneStart'
<1> USE SessionAssumption DEF TypeOK, Actors, ClientPC, MainPC, LoopPC, Goto, Answers, Calls, OneStart, Starting, Serving, Listening, Fresh, Alive
<1>1. ASSUME NEW c \in Clients, Call(c) PROVE OneStart'
  <2>1. CASE ListenAccepted(c) BY <1>1, <2>1 DEF ListenAccepted
  <2>2. CASE StopSet(c) BY <1>1, <2>2 DEF StopSet
  <2>3. CASE AttachCheck(c) BY <1>1, <2>3 DEF AttachCheck
  <2>4. CASE UseCheck(c) BY <1>1, <2>4 DEF UseCheck
  <2>5. CASE ReleaseStop(c) BY <1>1, <2>5 DEF ReleaseStop
  <2>6. CASE PollFirst(c) BY <1>1, <2>6 DEF PollFirst
  <2> QED BY <1>1, <2>1, <2>2, <2>3, <2>4, <2>5, <2>6 DEF Call
<1>2. ASSUME NEW c \in Clients, Continue(c) PROVE OneStart'
  <2>1. CASE BuildFails(c) BY <1>2, <2>1 DEF BuildFails
  <2>2. CASE BuildCrashes(c) BY <1>2, <2>2 DEF BuildCrashes
  <2>3. CASE CreateThread(c) BY <1>2, <2>3 DEF CreateThread
  <2>4. CASE StartThread(c) BY <1>2, <2>4 DEF StartThread
  <2>5. CASE ListenReturns(c) BY <1>2, <2>5 DEF ListenReturns
  <2>6. CASE StopControl(c) BY <1>2, <2>6 DEF StopControl
  <2>7. CASE StopFails(c) BY <1>2, <2>7 DEF StopFails
  <2>8. CASE StopJoins(c) BY <1>2, <2>8 DEF StopJoins, JoinsThread
  <2>9. CASE StopJoined(c) BY <1>2, <2>9 DEF StopJoined
  <2>10. CASE StopClear(c) BY <1>2, <2>10 DEF StopClear
  <2>11. CASE JoinFails(c) BY <1>2, <2>11 DEF JoinFails
  <2>12. CASE AttachSend(c) BY <1>2, <2>12 DEF AttachSend
  <2>13. CASE AttachDone(c) BY <1>2, <2>13 DEF AttachDone
  <2>14. CASE AttachFails(c) BY <1>2, <2>14 DEF AttachFails
  <2>15. CASE AttachSet(c) BY <1>2, <2>15 DEF AttachSet
  <2>16. CASE UseSend(c) BY <1>2, <2>16 DEF UseSend
  <2>17. CASE UseDone(c) BY <1>2, <2>17 DEF UseDone
  <2>18. CASE ReleaseRead(c) BY <1>2, <2>18 DEF ReleaseRead
  <2>19. CASE ReleaseJoins(c) BY <1>2, <2>19 DEF ReleaseJoins, JoinsThread
  <2>20. CASE ReleaseJoined(c) BY <1>2, <2>20 DEF ReleaseJoined
  <2>21. CASE ReleaseCheck(c) BY <1>2, <2>21 DEF ReleaseCheck
  <2>22. CASE ReleaseSend(c) BY <1>2, <2>22 DEF ReleaseSend
  <2>23. CASE ReleaseDone(c) BY <1>2, <2>23 DEF ReleaseDone
  <2>24. CASE ReleaseFails(c) BY <1>2, <2>24 DEF ReleaseFails
  <2>25. CASE ReleaseClear(c) BY <1>2, <2>25 DEF ReleaseClear
  <2>26. CASE PollListening(c) BY <1>2, <2>26 DEF PollListening
  <2>27. CASE PollRest(c) BY <1>2, <2>27 DEF PollRest
  <2> QED BY <1>2, <2>1, <2>2, <2>3, <2>4, <2>5, <2>6, <2>7, <2>8, <2>9, <2>10, <2>11, <2>12,
        <2>13, <2>14, <2>15, <2>16, <2>17, <2>18, <2>19, <2>20, <2>21, <2>22,
        <2>23, <2>24, <2>25, <2>26, <2>27 DEF Continue
<1>3. ASSUME NEW l \in Listeners, Loop(l) PROVE OneStart'
  <2>1. CASE LoopBegin(l) BY <1>3, <2>1 DEF LoopBegin
  <2>2. CASE LoopTest(l) BY <1>3, <2>2 DEF LoopTest
  <2>3. CASE LoopAcquire(l) BY <1>3, <2>3 DEF LoopAcquire
  <2>4. CASE LoopLeave(l) BY <1>3, <2>4 DEF LoopLeave
  <2>5. CASE ListenCaught(l) BY <1>3, <2>5 DEF ListenCaught
  <2>6. CASE ListenEmpty(l) BY <1>3, <2>6 DEF ListenEmpty
  <2>7. CASE ListenFails(l) BY <1>3, <2>7 DEF ListenFails
  <2>8. CASE LoopPublish(l) BY <1>3, <2>8 DEF LoopPublish
  <2>9. CASE LoopEnd(l) BY <1>3, <2>9 DEF LoopEnd
  <2>10. CASE LoopRegister(l) BY <1>3, <2>10 DEF LoopRegister
  <2> QED BY <1>3, <2>1, <2>2, <2>3, <2>4, <2>5, <2>6, <2>7, <2>8, <2>9, <2>10 DEF Loop
<1>4. CASE Close
  <2>1. CASE CloseRead BY <1>4, <2>1 DEF CloseRead
  <2>2. CASE CloseJoins BY <1>4, <2>2 DEF CloseJoins, JoinsThread
  <2>3. CASE CloseJoined BY <1>4, <2>3 DEF CloseJoined
  <2>4. CASE CloseCheck BY <1>4, <2>4 DEF CloseCheck
  <2>5. CASE CloseSend BY <1>4, <2>5 DEF CloseSend
  <2>6. CASE CloseDone BY <1>4, <2>6 DEF CloseDone
  <2>7. CASE CloseClear BY <1>4, <2>7 DEF CloseClear
  <2> QED BY <1>4, <2>1, <2>2, <2>3, <2>4, <2>5, <2>6, <2>7 DEF Close
<1>5. CASE CloseStop BY <1>5 DEF CloseStop
<1>6. CASE UNCHANGED vars BY <1>6 DEF vars
<1> QED BY <1>1, <1>2, <1>3, <1>4, <1>5, <1>6 DEF Next

\* An unstarted thread object has a command about to start it.
LEMMA MadeStep ==
  ASSUME TypeOK, OneStart, MadeIsOwned, [Next]_vars
  PROVE  MadeIsOwned'
<1> USE SessionAssumption DEF TypeOK, Actors, ClientPC, MainPC, LoopPC, Goto, Answers, Calls, OneStart, Starting, MadeIsOwned, Fresh, Alive
<1>1. ASSUME NEW c \in Clients, Call(c) PROVE MadeIsOwned'
  <2>1. CASE ListenAccepted(c) BY <1>1, <2>1 DEF ListenAccepted
  <2>2. CASE StopSet(c) BY <1>1, <2>2 DEF StopSet
  <2>3. CASE AttachCheck(c) BY <1>1, <2>3 DEF AttachCheck
  <2>4. CASE UseCheck(c) BY <1>1, <2>4 DEF UseCheck
  <2>5. CASE ReleaseStop(c) BY <1>1, <2>5 DEF ReleaseStop
  <2>6. CASE PollFirst(c) BY <1>1, <2>6 DEF PollFirst
  <2> QED BY <1>1, <2>1, <2>2, <2>3, <2>4, <2>5, <2>6 DEF Call
<1>2. ASSUME NEW c \in Clients, Continue(c) PROVE MadeIsOwned'
  <2>1. CASE BuildFails(c) BY <1>2, <2>1 DEF BuildFails
  <2>2. CASE BuildCrashes(c) BY <1>2, <2>2 DEF BuildCrashes
  <2>3. CASE CreateThread(c) BY <1>2, <2>3 DEF CreateThread
  <2>4. CASE StartThread(c) BY <1>2, <2>4 DEF StartThread
  <2>5. CASE ListenReturns(c) BY <1>2, <2>5 DEF ListenReturns
  <2>6. CASE StopControl(c) BY <1>2, <2>6 DEF StopControl
  <2>7. CASE StopFails(c) BY <1>2, <2>7 DEF StopFails
  <2>8. CASE StopJoins(c) BY <1>2, <2>8 DEF StopJoins, JoinsThread
  <2>9. CASE StopJoined(c) BY <1>2, <2>9 DEF StopJoined
  <2>10. CASE StopClear(c) BY <1>2, <2>10 DEF StopClear
  <2>11. CASE JoinFails(c) BY <1>2, <2>11 DEF JoinFails
  <2>12. CASE AttachSend(c) BY <1>2, <2>12 DEF AttachSend
  <2>13. CASE AttachDone(c) BY <1>2, <2>13 DEF AttachDone
  <2>14. CASE AttachFails(c) BY <1>2, <2>14 DEF AttachFails
  <2>15. CASE AttachSet(c) BY <1>2, <2>15 DEF AttachSet
  <2>16. CASE UseSend(c) BY <1>2, <2>16 DEF UseSend
  <2>17. CASE UseDone(c) BY <1>2, <2>17 DEF UseDone
  <2>18. CASE ReleaseRead(c) BY <1>2, <2>18 DEF ReleaseRead
  <2>19. CASE ReleaseJoins(c) BY <1>2, <2>19 DEF ReleaseJoins, JoinsThread
  <2>20. CASE ReleaseJoined(c) BY <1>2, <2>20 DEF ReleaseJoined
  <2>21. CASE ReleaseCheck(c) BY <1>2, <2>21 DEF ReleaseCheck
  <2>22. CASE ReleaseSend(c) BY <1>2, <2>22 DEF ReleaseSend
  <2>23. CASE ReleaseDone(c) BY <1>2, <2>23 DEF ReleaseDone
  <2>24. CASE ReleaseFails(c) BY <1>2, <2>24 DEF ReleaseFails
  <2>25. CASE ReleaseClear(c) BY <1>2, <2>25 DEF ReleaseClear
  <2>26. CASE PollListening(c) BY <1>2, <2>26 DEF PollListening
  <2>27. CASE PollRest(c) BY <1>2, <2>27 DEF PollRest
  <2> QED BY <1>2, <2>1, <2>2, <2>3, <2>4, <2>5, <2>6, <2>7, <2>8, <2>9, <2>10, <2>11, <2>12,
        <2>13, <2>14, <2>15, <2>16, <2>17, <2>18, <2>19, <2>20, <2>21, <2>22,
        <2>23, <2>24, <2>25, <2>26, <2>27 DEF Continue
<1>3. ASSUME NEW l \in Listeners, Loop(l) PROVE MadeIsOwned'
  <2>1. CASE LoopBegin(l) BY <1>3, <2>1 DEF LoopBegin
  <2>2. CASE LoopTest(l) BY <1>3, <2>2 DEF LoopTest
  <2>3. CASE LoopAcquire(l) BY <1>3, <2>3 DEF LoopAcquire
  <2>4. CASE LoopLeave(l) BY <1>3, <2>4 DEF LoopLeave
  <2>5. CASE ListenCaught(l) BY <1>3, <2>5 DEF ListenCaught
  <2>6. CASE ListenEmpty(l) BY <1>3, <2>6 DEF ListenEmpty
  <2>7. CASE ListenFails(l) BY <1>3, <2>7 DEF ListenFails
  <2>8. CASE LoopPublish(l) BY <1>3, <2>8 DEF LoopPublish
  <2>9. CASE LoopEnd(l) BY <1>3, <2>9 DEF LoopEnd
  <2>10. CASE LoopRegister(l) BY <1>3, <2>10 DEF LoopRegister
  <2> QED BY <1>3, <2>1, <2>2, <2>3, <2>4, <2>5, <2>6, <2>7, <2>8, <2>9, <2>10 DEF Loop
<1>4. CASE Close
  <2>1. CASE CloseRead BY <1>4, <2>1 DEF CloseRead
  <2>2. CASE CloseJoins BY <1>4, <2>2 DEF CloseJoins, JoinsThread
  <2>3. CASE CloseJoined BY <1>4, <2>3 DEF CloseJoined
  <2>4. CASE CloseCheck BY <1>4, <2>4 DEF CloseCheck
  <2>5. CASE CloseSend BY <1>4, <2>5 DEF CloseSend
  <2>6. CASE CloseDone BY <1>4, <2>6 DEF CloseDone
  <2>7. CASE CloseClear BY <1>4, <2>7 DEF CloseClear
  <2> QED BY <1>4, <2>1, <2>2, <2>3, <2>4, <2>5, <2>6, <2>7 DEF Close
<1>5. CASE CloseStop BY <1>5 DEF CloseStop
<1>6. CASE UNCHANGED vars BY <1>6 DEF vars
<1> QED BY <1>1, <1>2, <1>3, <1>4, <1>5, <1>6 DEF Next

\* While a listen command is being built, nobody can bring st.thread to life.
LEMMA SlotStep ==
  ASSUME TypeOK, OneStart, MadeIsOwned, SlotIsFree, [Next]_vars
  PROVE  SlotIsFree'
<1> USE SessionAssumption DEF TypeOK, Actors, ClientPC, MainPC, LoopPC, Goto, Answers, Calls, OneStart, Starting, Serving, Listening, MadeIsOwned, SlotIsFree, Fresh, Alive
<1>1. ASSUME NEW c \in Clients, Call(c) PROVE SlotIsFree'
  <2>1. CASE ListenAccepted(c) BY <1>1, <2>1 DEF ListenAccepted
  <2>2. CASE StopSet(c) BY <1>1, <2>2 DEF StopSet
  <2>3. CASE AttachCheck(c) BY <1>1, <2>3 DEF AttachCheck
  <2>4. CASE UseCheck(c) BY <1>1, <2>4 DEF UseCheck
  <2>5. CASE ReleaseStop(c) BY <1>1, <2>5 DEF ReleaseStop
  <2>6. CASE PollFirst(c) BY <1>1, <2>6 DEF PollFirst
  <2> QED BY <1>1, <2>1, <2>2, <2>3, <2>4, <2>5, <2>6 DEF Call
<1>2. ASSUME NEW c \in Clients, Continue(c) PROVE SlotIsFree'
  <2>1. CASE BuildFails(c) BY <1>2, <2>1 DEF BuildFails
  <2>2. CASE BuildCrashes(c) BY <1>2, <2>2 DEF BuildCrashes
  <2>3. CASE CreateThread(c) BY <1>2, <2>3 DEF CreateThread
  <2>4. CASE StartThread(c) BY <1>2, <2>4 DEF StartThread
  <2>5. CASE ListenReturns(c) BY <1>2, <2>5 DEF ListenReturns
  <2>6. CASE StopControl(c) BY <1>2, <2>6 DEF StopControl
  <2>7. CASE StopFails(c) BY <1>2, <2>7 DEF StopFails
  <2>8. CASE StopJoins(c) BY <1>2, <2>8 DEF StopJoins, JoinsThread
  <2>9. CASE StopJoined(c) BY <1>2, <2>9 DEF StopJoined
  <2>10. CASE StopClear(c) BY <1>2, <2>10 DEF StopClear
  <2>11. CASE JoinFails(c) BY <1>2, <2>11 DEF JoinFails
  <2>12. CASE AttachSend(c) BY <1>2, <2>12 DEF AttachSend
  <2>13. CASE AttachDone(c) BY <1>2, <2>13 DEF AttachDone
  <2>14. CASE AttachFails(c) BY <1>2, <2>14 DEF AttachFails
  <2>15. CASE AttachSet(c) BY <1>2, <2>15 DEF AttachSet
  <2>16. CASE UseSend(c) BY <1>2, <2>16 DEF UseSend
  <2>17. CASE UseDone(c) BY <1>2, <2>17 DEF UseDone
  <2>18. CASE ReleaseRead(c) BY <1>2, <2>18 DEF ReleaseRead
  <2>19. CASE ReleaseJoins(c) BY <1>2, <2>19 DEF ReleaseJoins, JoinsThread
  <2>20. CASE ReleaseJoined(c) BY <1>2, <2>20 DEF ReleaseJoined
  <2>21. CASE ReleaseCheck(c) BY <1>2, <2>21 DEF ReleaseCheck
  <2>22. CASE ReleaseSend(c) BY <1>2, <2>22 DEF ReleaseSend
  <2>23. CASE ReleaseDone(c) BY <1>2, <2>23 DEF ReleaseDone
  <2>24. CASE ReleaseFails(c) BY <1>2, <2>24 DEF ReleaseFails
  <2>25. CASE ReleaseClear(c) BY <1>2, <2>25 DEF ReleaseClear
  <2>26. CASE PollListening(c) BY <1>2, <2>26 DEF PollListening
  <2>27. CASE PollRest(c) BY <1>2, <2>27 DEF PollRest
  <2> QED BY <1>2, <2>1, <2>2, <2>3, <2>4, <2>5, <2>6, <2>7, <2>8, <2>9, <2>10, <2>11, <2>12,
        <2>13, <2>14, <2>15, <2>16, <2>17, <2>18, <2>19, <2>20, <2>21, <2>22,
        <2>23, <2>24, <2>25, <2>26, <2>27 DEF Continue
<1>3. ASSUME NEW l \in Listeners, Loop(l) PROVE SlotIsFree'
  <2>1. CASE LoopBegin(l) BY <1>3, <2>1 DEF LoopBegin
  <2>2. CASE LoopTest(l) BY <1>3, <2>2 DEF LoopTest
  <2>3. CASE LoopAcquire(l) BY <1>3, <2>3 DEF LoopAcquire
  <2>4. CASE LoopLeave(l) BY <1>3, <2>4 DEF LoopLeave
  <2>5. CASE ListenCaught(l) BY <1>3, <2>5 DEF ListenCaught
  <2>6. CASE ListenEmpty(l) BY <1>3, <2>6 DEF ListenEmpty
  <2>7. CASE ListenFails(l) BY <1>3, <2>7 DEF ListenFails
  <2>8. CASE LoopPublish(l) BY <1>3, <2>8 DEF LoopPublish
  <2>9. CASE LoopEnd(l) BY <1>3, <2>9 DEF LoopEnd
  <2>10. CASE LoopRegister(l) BY <1>3, <2>10 DEF LoopRegister
  <2> QED BY <1>3, <2>1, <2>2, <2>3, <2>4, <2>5, <2>6, <2>7, <2>8, <2>9, <2>10 DEF Loop
<1>4. CASE Close
  <2>1. CASE CloseRead BY <1>4, <2>1 DEF CloseRead
  <2>2. CASE CloseJoins BY <1>4, <2>2 DEF CloseJoins, JoinsThread
  <2>3. CASE CloseJoined BY <1>4, <2>3 DEF CloseJoined
  <2>4. CASE CloseCheck BY <1>4, <2>4 DEF CloseCheck
  <2>5. CASE CloseSend BY <1>4, <2>5 DEF CloseSend
  <2>6. CASE CloseDone BY <1>4, <2>6 DEF CloseDone
  <2>7. CASE CloseClear BY <1>4, <2>7 DEF CloseClear
  <2> QED BY <1>4, <2>1, <2>2, <2>3, <2>4, <2>5, <2>6, <2>7 DEF Close
<1>5. CASE CloseStop BY <1>5 DEF CloseStop
<1>6. CASE UNCHANGED vars BY <1>6 DEF vars
<1> QED BY <1>1, <1>2, <1>3, <1>4, <1>5, <1>6 DEF Next

-------------------------------------------------------------------------------
\* The five lemmas together: no step leaves the inductive invariant.
LEMMA SessionStep ==
  ASSUME SessionInv, [Next]_vars
  PROVE  SessionInv'
<1>1. TypeOK'
  <2>1. ASSUME NEW c \in Clients, Call(c) PROVE TypeOK'
    BY <2>1, CallType DEF SessionInv
  <2>2. ASSUME NEW c \in Clients, Continue(c) PROVE TypeOK'
    BY <2>2, ContinueType DEF SessionInv
  <2>3. ASSUME NEW l \in Listeners, Loop(l) PROVE TypeOK'
    BY <2>3, LoopType DEF SessionInv
  <2>4. CASE CloseStop \/ Close
    BY <2>4, CloseType DEF SessionInv
  <2>5. CASE UNCHANGED vars
    BY <2>5 DEF SessionInv, TypeOK, vars
  <2> QED BY <2>1, <2>2, <2>3, <2>4, <2>5 DEF Next
<1>2. RoundsLeft' BY RoundsStep DEF SessionInv
<1>3. HoldsLock' BY LockStep DEF SessionInv
<1>4. OneStart' BY StartStep DEF SessionInv
<1>5. MadeIsOwned' BY MadeStep DEF SessionInv
<1>6. SlotIsFree' BY SlotStep DEF SessionInv
<1> QED BY <1>1, <1>2, <1>3, <1>4, <1>5, <1>6 DEF SessionInv

LEMMA InitInv == Init => SessionInv
<1> SUFFICES ASSUME Init PROVE SessionInv
  OBVIOUS
<1>1. TypeOK
  BY InitType
<1>2. \A c \in Clients : pc[c] = "idle"
  BY SessionAssumption DEF Init, Actors
<1>3. \A l \in Listeners : lpc[l] = "none"
  BY DEF Init
<1>4. pc[Main] = "serving" /\ st.thread = None
  BY DEF Init, Actors
<1>5. OnChannel = {} /\ Starting = {}
  BY <1>2, <1>3, <1>4 DEF OnChannel, Starting
<1> QED
  BY <1>1, <1>2, <1>3, <1>4, <1>5
  DEF SessionInv, RoundsLeft, HoldsLock, OneStart, MadeIsOwned, SlotIsFree

\* The inductive invariant holds in every reachable state.
THEOREM Invariance == Spec => []SessionInv
  BY InitInv, SessionStep, PTL DEF Spec

\* The fields and program counters of debug_session.py keep their types under any
\* interleaving of callers, listener threads and the shutdown.
THEOREM TypeCorrect == Spec => []TypeOK
<1>1. SessionInv => TypeOK BY DEF SessionInv
<1> QED BY <1>1, Invariance, PTL

\* "two threads, one session" never happens on the DEBUG session, however many callers
\* there are, whatever joins expire and whatever sessions are dropped.
THEOREM ChannelMutex == Spec => []ChannelExclusive
<1>1. SessionInv => ChannelExclusive
  BY DEF SessionInv, HoldsLock, ChannelExclusive
<1> QED BY <1>1, Invariance, PTL

\* Of any number of concurrent debug_listen calls, one at most is starting a listener.
THEOREM StartExclusive == Spec => []OneStart
<1>1. SessionInv => OneStart BY DEF SessionInv
<1> QED BY <1>1, Invariance, PTL

\* No listener thread ever takes the place of one that is alive or about to be started.
THEOREM ThreadNotReplaced == Spec => NoTakeover
<1> DEFINE Keeps == st'.thread \notin {None, st.thread} =>
             ~(st.thread # None /\ (Alive(st.thread) \/ lpc[st.thread] = "made"))
<1>1. ASSUME SessionInv, [Next]_vars PROVE [Keeps]_vars
  <2>0. st \in [starting : BOOLEAN, stop : BOOLEAN, polling : BOOLEAN,
               thread : Listeners \cup {None}, debuggee : Debuggees \cup {None},
               attached : BOOLEAN, error : BOOLEAN, timedOut : BOOLEAN]
    BY <1>1 DEF SessionInv, TypeOK
  <2>1. ASSUME NEW c \in Clients, Call(c) PROVE st'.thread = st.thread
    BY <2>0, <2>1
    DEF Call, ListenAccepted, StopSet, AttachCheck, UseCheck, ReleaseStop, PollFirst
  <2>2. ASSUME NEW c \in Clients, Continue(c) PROVE Keeps
    <3>1. CASE CreateThread(c)
      BY <1>1, <3>1 DEF CreateThread, SessionInv, SlotIsFree
    <3>2. CASE StopClear(c) \/ ReleaseClear(c)
      <4>1. st'.thread = None
        BY <2>0, <3>2 DEF StopClear, ReleaseClear
      <4> QED BY <4>1
    <3>3. CASE ~(CreateThread(c) \/ StopClear(c) \/ ReleaseClear(c))
      <4>1. st'.thread = st.thread
        <5>1. CASE st' = st
          BY <5>1
        <5>2. CASE BuildFails(c) \/ AttachSet(c)
          BY <2>0, <5>2 DEF BuildFails, AttachSet
        <5> QED
          BY <2>2, <3>3, <5>1, <5>2
          DEF Continue, BuildCrashes, StartThread, ListenReturns, StopControl,
              StopFails, StopJoins, StopJoined, JoinFails, AttachSend, AttachDone, AttachFails,
              UseSend, UseDone, ReleaseRead, ReleaseJoins, ReleaseJoined, ReleaseCheck,
              ReleaseSend, ReleaseDone, ReleaseFails, PollListening, PollRest
      <4> QED BY <4>1
    <3> QED BY <3>1, <3>2, <3>3
  <2>3. ASSUME NEW l \in Listeners, Loop(l) PROVE st'.thread = st.thread
    BY <2>0, <2>3
    DEF Loop, LoopBegin, LoopTest, LoopAcquire, LoopRegister, LoopLeave, ListenCaught, ListenEmpty,
        ListenFails, LoopPublish, LoopEnd
  <2>4. CASE CloseStop \/ Close
    <3>1. st'.thread \in {None, st.thread}
      BY <2>0, <2>4
      DEF CloseStop, Close, CloseRead, CloseJoins, CloseJoined, CloseCheck, CloseSend, CloseDone,
          CloseClear
    <3> QED BY <3>1
  <2>5. CASE UNCHANGED vars
    BY <2>5 DEF vars
  <2> QED BY <1>1, <2>1, <2>2, <2>3, <2>4, <2>5 DEF Next
<1> QED BY <1>1, Invariance, PTL DEF Spec, NoTakeover

-------------------------------------------------------------------------------
(* One call at a time, and no round outlasting the join *)

\* No two tool calls overlap: the agent waits for the answer before it calls again.
Sequential == \A c, d \in Clients : pc[c] # "idle" /\ pc[d] # "idle" => c = d

\* Joins wait for the thread, and the server comes down only between calls.
Patient == Faults \cap {"join_expires", "abrupt_exit"} = {}

\* No listener thread is alive or about to be started.
Quiet == \A l \in Listeners : lpc[l] \in {"none", "dead"}

\* A listener that has not told what came of it.
Watching == {"made", "new", "top", "lock", "register", "listen", "publish", "leave"}

\* The state knows the thread that is alive or about to be started.
ThreadKnown == \A l \in Listeners : lpc[l] \notin {"none", "dead"} => st.thread = l

\* What a call has read of the state is still so when it acts on it.
CallerKnows ==
  \A c \in Clients :
    /\ pc[c] = "build" => Quiet
    /\ pc[c] = "start" => st.thread # None /\ lpc[st.thread] = "made"
    /\ pc[c] \in {"build", "start"} => st.starting /\ st.debuggee = None /\ ~st.error /\ ~st.polling
    /\ pc[c] \in {"armed", "stop_join", "stop_wait", "rel_join", "rel_wait"} => st.thread # None
    /\ pc[c] \in {"stop_wait", "rel_wait"} => joins[c] = st.thread
    /\ pc[c] \in {"stop_clear", "rel_check", "rel_lock", "rel_call", "rel_clear", "poll_rest"} => Quiet
    /\ pc[c] \in {"attach_lock", "attach_call", "attach_set"} => ~Listening /\ st.debuggee # None
    /\ pc[c] = "attach_call" => target[c] = st.debuggee

\* The polling event is that of the listener a debug_listen is waiting for.
ArmedByOwn ==
  \A c \in Clients : pc[c] = "armed" /\ st.polling =>
    /\ lpc[st.thread] \notin {"made", "new"}
    /\ lpc[st.thread] \in {"top", "lock"} => rem[st.thread] < MaxRounds

\* The shutdown finds no call, and waits for the listener.
ShutdownKnows ==
  /\ ~Serving => \A c \in Clients : pc[c] = "idle"
  /\ pc[Main] \in {"close_join", "close_wait"} => st.thread # None
  /\ pc[Main] = "close_wait" => joins[Main] = st.thread
  /\ pc[Main] \in {"close_check", "close_lock", "close_call", "close_clear", "closed"} => Quiet

\* While a listener watches, nothing is caught and nothing has failed.
FieldsAgree ==
  /\ \A l \in Listeners : lpc[l] = "made" => \E c \in Clients : pc[c] = "start"
  /\ \A l \in Listeners : lpc[l] \in Watching => st.debuggee = None /\ ~st.error
  /\ \A l \in Listeners : lpc[l] \notin {"none", "made", "new", "dead"} => ~st.starting
  /\ st.error => st.debuggee = None /\ ~st.starting

\* The inductive invariant for calls that do not overlap.
TurnInv == ThreadKnown /\ CallerKnows /\ ArmedByOwn /\ ShutdownKnows /\ FieldsAgree /\ OneSession

\* A call begins only when no other is under way.
LEMMA TurnCall ==
  ASSUME TypeOK, TurnInv, Sequential, Sequential', Patient, NEW c \in Clients, Call(c)
  PROVE  TurnInv'
<1> USE SessionAssumption
    DEF TypeOK, Sequential, Patient, TurnInv, ThreadKnown, CallerKnows, ArmedByOwn,
        ShutdownKnows, FieldsAgree, OneSession, Quiet, Watching, Actors, LoopPC, Goto,
        Answers, Calls, Serving, Listening, Alive
<1>1. CASE ListenAccepted(c) BY <1>1 DEF ListenAccepted
<1>2. CASE StopSet(c) BY <1>2 DEF StopSet
<1>3. CASE AttachCheck(c) BY <1>3 DEF AttachCheck
<1>4. CASE UseCheck(c) BY <1>4 DEF UseCheck
<1>5. CASE ReleaseStop(c) BY <1>5 DEF ReleaseStop
<1>6. CASE PollFirst(c) BY <1>6 DEF PollFirst
<1> QED BY <1>1, <1>2, <1>3, <1>4, <1>5, <1>6 DEF Call

\* A call that goes on finds the state as it left it.
LEMMA TurnContinue ==
  ASSUME TypeOK, TurnInv, Sequential, Sequential', Patient, NEW c \in Clients, Continue(c)
  PROVE  TurnInv'
<1> USE SessionAssumption
    DEF TypeOK, Sequential, Patient, TurnInv, ThreadKnown, CallerKnows, ArmedByOwn,
        ShutdownKnows, FieldsAgree, OneSession, Quiet, Watching, Actors, LoopPC, Goto,
        Answers, Calls, Serving, Listening, Alive
<1>1. CASE BuildFails(c) BY <1>1 DEF BuildFails
<1>2. CASE BuildCrashes(c) BY <1>2 DEF BuildCrashes
<1>3. CASE CreateThread(c) BY <1>3 DEF CreateThread, Fresh
<1>4. CASE StartThread(c) BY <1>4 DEF StartThread
<1>5. CASE ListenReturns(c) BY <1>5 DEF ListenReturns
<1>6. CASE StopControl(c) BY <1>6 DEF StopControl
<1>7. CASE StopFails(c) BY <1>7 DEF StopFails
<1>8. CASE StopJoins(c) BY <1>8 DEF StopJoins, JoinsThread
<1>9. CASE StopJoined(c) BY <1>9 DEF StopJoined, JoinReturns
<1>10. CASE StopClear(c) BY <1>10 DEF StopClear
<1>11. CASE JoinFails(c) BY <1>11 DEF JoinFails, JoinRaises
<1>12. CASE AttachSend(c) BY <1>12 DEF AttachSend
<1>13. CASE AttachDone(c) BY <1>13 DEF AttachDone
<1>14. CASE AttachFails(c) BY <1>14 DEF AttachFails
<1>15. CASE AttachSet(c) BY <1>15 DEF AttachSet
<1>16. CASE UseSend(c) BY <1>16 DEF UseSend
<1>17. CASE UseDone(c) BY <1>17 DEF UseDone
<1>18. CASE ReleaseRead(c) BY <1>18 DEF ReleaseRead
<1>19. CASE ReleaseJoins(c) BY <1>19 DEF ReleaseJoins, JoinsThread
<1>20. CASE ReleaseJoined(c) BY <1>20 DEF ReleaseJoined, JoinReturns
<1>21. CASE ReleaseCheck(c) BY <1>21 DEF ReleaseCheck
<1>22. CASE ReleaseSend(c) BY <1>22 DEF ReleaseSend
<1>23. CASE ReleaseDone(c) BY <1>23 DEF ReleaseDone, Released
<1>24. CASE ReleaseFails(c) BY <1>24 DEF ReleaseFails
<1>25. CASE ReleaseClear(c) BY <1>25 DEF ReleaseClear
<1>26. CASE PollListening(c) BY <1>26 DEF PollListening
<1>27. CASE PollRest(c) BY <1>27 DEF PollRest
<1> QED BY <1>1, <1>2, <1>3, <1>4, <1>5, <1>6, <1>7, <1>8, <1>9, <1>10, <1>11, <1>12, <1>13,
      <1>14, <1>15, <1>16, <1>17, <1>18, <1>19, <1>20, <1>21, <1>22, <1>23, <1>24, <1>25,
      <1>26, <1>27 DEF Continue

\* A listener changes only what no call under way relies on.
LEMMA TurnLoop ==
  ASSUME TypeOK, TurnInv, Sequential, Sequential', Patient, NEW l \in Listeners, Loop(l)
  PROVE  TurnInv'
<1> USE SessionAssumption
    DEF TypeOK, Sequential, Patient, TurnInv, ThreadKnown, CallerKnows, ArmedByOwn,
        ShutdownKnows, FieldsAgree, OneSession, Quiet, Watching, Actors, LoopPC, Goto,
        Answers, Calls, Serving, Listening, Alive
<1>1. CASE LoopBegin(l) BY <1>1 DEF LoopBegin
<1>2. CASE LoopTest(l) BY <1>2 DEF LoopTest
<1>3. CASE LoopAcquire(l) BY <1>3 DEF LoopAcquire
<1>4. CASE LoopLeave(l) BY <1>4 DEF LoopLeave
<1>5. CASE ListenCaught(l) BY <1>5 DEF ListenCaught
<1>6. CASE ListenEmpty(l) BY <1>6 DEF ListenEmpty
<1>7. CASE ListenFails(l) BY <1>7 DEF ListenFails
<1>8. CASE LoopPublish(l) BY <1>8 DEF LoopPublish
<1>9. CASE LoopEnd(l) BY <1>9 DEF LoopEnd
<1>10. CASE LoopRegister(l) BY <1>10 DEF LoopRegister
<1> QED BY <1>1, <1>2, <1>3, <1>4, <1>5, <1>6, <1>7, <1>8, <1>9, <1>10 DEF Loop

\* The shutdown begins between calls.
LEMMA TurnClose ==
  ASSUME TypeOK, TurnInv, Sequential, Sequential', Patient, CloseStop \/ Close
  PROVE  TurnInv'
<1> USE SessionAssumption
    DEF TypeOK, Sequential, Patient, TurnInv, ThreadKnown, CallerKnows, ArmedByOwn,
        ShutdownKnows, FieldsAgree, OneSession, Quiet, Watching, Actors, LoopPC, Goto,
        Answers, Calls, Serving, Listening, Alive
<1>1. CASE CloseStop BY <1>1 DEF CloseStop
<1>2. CASE CloseRead BY <1>2 DEF CloseRead
<1>3. CASE CloseJoins BY <1>3 DEF CloseJoins, JoinsThread
<1>4. CASE CloseJoined BY <1>4 DEF CloseJoined, JoinReturns, JoinRaises
<1>5. CASE CloseCheck BY <1>5 DEF CloseCheck
<1>6. CASE CloseSend BY <1>6 DEF CloseSend
<1>7. CASE CloseDone BY <1>7 DEF CloseDone, Released
<1>8. CASE CloseClear BY <1>8 DEF CloseClear
<1> QED BY <1>1, <1>2, <1>3, <1>4, <1>5, <1>6, <1>7, <1>8 DEF Close

\* At the start nothing listens and nothing is caught.
LEMMA InitTurn == Init => TurnInv
BY SessionAssumption
DEF Init, TurnInv, ThreadKnown, CallerKnows, ArmedByOwn, ShutdownKnows, FieldsAgree, OneSession,
    Quiet, Watching, Actors, Listening, Alive, Serving

\* Every step that leaves at most one call under way keeps the invariant.
LEMMA TurnStep ==
  ASSUME TypeOK, TurnInv, Sequential, Sequential', Patient, [Next]_vars
  PROVE  TurnInv'
<1>1. CASE UNCHANGED vars
  BY <1>1
  DEF vars, TurnInv, ThreadKnown, CallerKnows, ArmedByOwn, ShutdownKnows, FieldsAgree, OneSession,
      Quiet, Listening, Alive, Serving
<1>2. CASE Next
  BY <1>2, TurnCall, TurnContinue, TurnLoop, TurnClose DEF Next
<1> QED BY <1>1, <1>2

\* What a call, a listener and the shutdown have read stays true until they act on it, as
\* long as calls do not overlap.
THEOREM TurnInvariance ==
  ASSUME Patient
  PROVE  Spec /\ []Sequential => []TurnInv
<1>1. TypeOK /\ TurnInv /\ Sequential /\ Sequential' /\ [Next]_vars => TurnInv'
  BY TurnStep
<1> QED BY <1>1, InitTurn, TypeCorrect, PTL DEF Spec

\* Two calls of one caller never overlap: what is proved of non-overlapping calls is true
\* of a server with a single caller.
THEOREM AloneInTurn ==
  ASSUME \A c, d \in Clients : c = d
  PROVE  Spec => []Sequential
<1>1. Sequential BY DEF Sequential
<1> QED BY <1>1, PTL

\* For calls that do not overlap, no listener thread is alive behind the back of stop,
\* release or the next debug_listen.
THEOREM NoListenerLost ==
  ASSUME Patient
  PROVE  Spec /\ []Sequential => []NoZombie
<1>1. TurnInv => NoZombie BY DEF TurnInv, ThreadKnown, NoZombie, Alive
<1> QED BY <1>1, TurnInvariance, PTL

\* For calls that do not overlap, an attached session is attached to something and shares
\* the DEBUG session with no listener.
THEOREM SessionAlone ==
  ASSUME Patient
  PROVE  Spec /\ []Sequential => []OneSession
<1>1. TurnInv => OneSession BY DEF TurnInv
<1> QED BY <1>1, TurnInvariance, PTL

\* debug_listen answers OK only once its own listener holds the session for its first round,
\* has had it or is over, unless the call gives up waiting.
THEOREM OwnRound ==
  ASSUME Patient, "arm_expires" \notin Faults
  PROVE  Spec /\ []Sequential => RoundBeforeOk
<1> DEFINE Armed ==
      \A c \in Clients : pc[c] = "armed" /\ pc'[c] = "idle" =>
        /\ st.thread # None
        /\ lpc[st.thread] \notin {"made", "new"}
        /\ lpc[st.thread] \in {"top", "lock"} => rem[st.thread] < MaxRounds
        /\ lpc[st.thread] \in {"register", "listen"} => lock = st.thread
<1>1. ASSUME SessionInv, TypeOK, TurnInv, [Next]_vars PROVE [Armed]_vars
  <2>0. st.thread # None /\ lpc[st.thread] \in {"register", "listen"} => lock = st.thread
    BY <1>1 DEF SessionInv, TypeOK, HoldsLock, OnChannel
  <2>1. SUFFICES ASSUME NEW c \in Clients, pc[c] = "armed", pc'[c] = "idle"
                 PROVE  st.thread # None /\ st.polling
    BY <1>1, <2>0 DEF TurnInv, ArmedByOwn
  <2>2. st.thread # None
    BY <1>1, <2>1 DEF TurnInv, CallerKnows
  <2>3. ASSUME NEW d \in Clients, Call(d) \/ Continue(d) PROVE st.polling
    <3>1. CASE d = c
      BY <1>1, <2>1, <2>3, <3>1
      DEF Call, Calls, ListenAccepted, StopSet, AttachCheck, UseCheck, ReleaseStop, PollFirst,
          Continue, BuildFails, BuildCrashes, CreateThread, StartThread, ListenReturns,
          StopControl, StopFails, StopJoins, StopJoined, StopClear, JoinFails, AttachSend,
          AttachDone, AttachFails, AttachSet, UseSend, UseDone, ReleaseRead, ReleaseJoins,
          ReleaseJoined, ReleaseCheck, ReleaseSend, ReleaseDone, ReleaseFails, ReleaseClear,
          PollListening, PollRest
    <3>2. CASE d # c
      <4>1. pc'[c] = pc[c]
        BY <1>1, <2>3, <3>2
        DEF TypeOK, Actors, Goto, Answers, JoinsThread, Call, Calls, ListenAccepted, StopSet,
            AttachCheck, UseCheck, ReleaseStop, PollFirst,
            Continue, BuildFails, BuildCrashes, CreateThread, StartThread, ListenReturns,
            StopControl, StopFails, StopJoins, StopJoined, StopClear, JoinFails, AttachSend,
            AttachDone, AttachFails, AttachSet, UseSend, UseDone, ReleaseRead, ReleaseJoins,
            ReleaseJoined, ReleaseCheck, ReleaseSend, ReleaseDone, ReleaseFails, ReleaseClear,
            PollListening, PollRest
      <4> QED BY <2>1, <4>1
    <3> QED BY <3>1, <3>2
  <2>4. ASSUME NEW l \in Listeners, Loop(l) PROVE pc' = pc
    BY <2>4
    DEF Loop, LoopBegin, LoopTest, LoopAcquire, LoopRegister, LoopLeave, ListenCaught, ListenEmpty,
        ListenFails, LoopPublish, LoopEnd
  <2>5. CASE CloseStop \/ Close
    <3>1. pc'[c] = pc[c]
      BY <1>1, <2>5, SessionAssumption
      DEF TypeOK, Actors, Goto, JoinsThread, CloseStop, Close, CloseRead, CloseJoins, CloseJoined,
          CloseCheck, CloseSend, CloseDone, CloseClear
    <3> QED BY <2>1, <3>1
  <2>6. CASE UNCHANGED vars
    BY <2>1, <2>6 DEF vars
  <2> QED BY <1>1, <2>1, <2>2, <2>3, <2>4, <2>5, <2>6 DEF Next
<1> QED BY <1>1, Invariance, TurnInvariance, TypeCorrect, PTL DEF Spec, RoundBeforeOk

-------------------------------------------------------------------------------
(* Nothing caught is lost *)

\* SAP's answers arrive, and a detach does what it is asked.
Reliable == Faults \cap {"lost_answer", "detach_fails"} = {}

\* Nothing is stopped once it was released, and what is cleared had been released; only
\* with a session in the pool can something have been caught.
LetGo ==
  /\ \A c \in Clients : pc[c] = "rel_clear" => \A d \in Debuggees : program[d] = "free"
  /\ pc[Main] \in {"close_clear", "closed"} => \A d \in Debuggees : program[d] = "free"
  /\ ~channel => st.debuggee = None /\ Quiet

\* The inductive invariant when callers detach what was caught before they listen again.
BookInv == NoOrphan /\ LetGo

\* A call that begins forgets nothing.
LEMMA BookCall ==
  ASSUME TypeOK, TurnInv, BookInv, Sequential, Sequential', Patient, Reliable, Disciplined,
         NEW c \in Clients, Call(c)
  PROVE  BookInv'
<1> USE SessionAssumption
    DEF TypeOK, Sequential, Patient, Reliable, BookInv, LetGo, NoOrphan, TurnInv,
        ThreadKnown, CallerKnows, ArmedByOwn, ShutdownKnows, FieldsAgree, OneSession, Quiet,
        Watching, Actors, LoopPC, Goto, Answers, Calls, Serving, Listening, Alive
<1>1. CASE ListenAccepted(c) BY <1>1 DEF ListenAccepted
<1>2. CASE StopSet(c) BY <1>2 DEF StopSet
<1>3. CASE AttachCheck(c) BY <1>3 DEF AttachCheck
<1>4. CASE UseCheck(c) BY <1>4 DEF UseCheck
<1>5. CASE ReleaseStop(c) BY <1>5 DEF ReleaseStop
<1>6. CASE PollFirst(c) BY <1>6 DEF PollFirst
<1> QED BY <1>1, <1>2, <1>3, <1>4, <1>5, <1>6 DEF Call

\* A call that goes on clears only what it has released, or what is free.
LEMMA BookContinue ==
  ASSUME TypeOK, TurnInv, BookInv, Sequential, Sequential', Patient, Reliable, Disciplined,
         NEW c \in Clients, Continue(c)
  PROVE  BookInv'
<1> USE SessionAssumption
    DEF TypeOK, Sequential, Patient, Reliable, BookInv, LetGo, NoOrphan, TurnInv,
        ThreadKnown, CallerKnows, ArmedByOwn, ShutdownKnows, FieldsAgree, OneSession, Quiet,
        Watching, Actors, LoopPC, Goto, Answers, Calls, Serving, Listening, Alive
<1>1. CASE BuildFails(c) BY <1>1 DEF BuildFails
<1>2. CASE BuildCrashes(c) BY <1>2 DEF BuildCrashes
<1>3. CASE CreateThread(c) BY <1>3 DEF CreateThread, Fresh
<1>4. CASE StartThread(c) BY <1>4 DEF StartThread
<1>5. CASE ListenReturns(c) BY <1>5 DEF ListenReturns
<1>6. CASE StopControl(c) BY <1>6 DEF StopControl
<1>7. CASE StopFails(c) BY <1>7 DEF StopFails
<1>8. CASE StopJoins(c) BY <1>8 DEF StopJoins, JoinsThread
<1>9. CASE StopJoined(c) BY <1>9 DEF StopJoined, JoinReturns
<1>10. CASE StopClear(c) BY <1>10 DEF StopClear
<1>11. CASE JoinFails(c) BY <1>11 DEF JoinFails, JoinRaises
<1>12. CASE AttachSend(c) BY <1>12 DEF AttachSend
<1>13. CASE AttachDone(c) BY <1>13 DEF AttachDone
<1>14. CASE AttachFails(c) BY <1>14 DEF AttachFails
<1>15. CASE AttachSet(c) BY <1>15 DEF AttachSet
<1>16. CASE UseSend(c) BY <1>16 DEF UseSend
<1>17. CASE UseDone(c) BY <1>17 DEF UseDone
<1>18. CASE ReleaseRead(c) BY <1>18 DEF ReleaseRead
<1>19. CASE ReleaseJoins(c) BY <1>19 DEF ReleaseJoins, JoinsThread
<1>20. CASE ReleaseJoined(c) BY <1>20 DEF ReleaseJoined, JoinReturns
<1>21. CASE ReleaseCheck(c) BY <1>21 DEF ReleaseCheck
<1>22. CASE ReleaseSend(c) BY <1>22 DEF ReleaseSend
<1>23. CASE ReleaseDone(c) BY <1>23 DEF ReleaseDone, Released
<1>24. CASE ReleaseFails(c) BY <1>24 DEF ReleaseFails
<1>25. CASE ReleaseClear(c) BY <1>25 DEF ReleaseClear
<1>26. CASE PollListening(c) BY <1>26 DEF PollListening
<1>27. CASE PollRest(c) BY <1>27 DEF PollRest
<1> QED BY <1>1, <1>2, <1>3, <1>4, <1>5, <1>6, <1>7, <1>8, <1>9, <1>10, <1>11, <1>12, <1>13,
      <1>14, <1>15, <1>16, <1>17, <1>18, <1>19, <1>20, <1>21, <1>22, <1>23, <1>24, <1>25,
      <1>26, <1>27 DEF Continue

\* What a listener catches it publishes.
LEMMA BookLoop ==
  ASSUME TypeOK, TurnInv, BookInv, Sequential, Sequential', Patient, Reliable, Disciplined,
         NEW l \in Listeners, Loop(l)
  PROVE  BookInv'
<1> USE SessionAssumption
    DEF TypeOK, Sequential, Patient, Reliable, BookInv, LetGo, NoOrphan, TurnInv,
        ThreadKnown, CallerKnows, ArmedByOwn, ShutdownKnows, FieldsAgree, OneSession, Quiet,
        Watching, Actors, LoopPC, Goto, Answers, Calls, Serving, Listening, Alive
<1>1. CASE LoopBegin(l) BY <1>1 DEF LoopBegin
<1>2. CASE LoopTest(l) BY <1>2 DEF LoopTest
<1>3. CASE LoopAcquire(l) BY <1>3 DEF LoopAcquire
<1>4. CASE LoopLeave(l) BY <1>4 DEF LoopLeave
<1>5. CASE ListenCaught(l) BY <1>5 DEF ListenCaught
<1>6. CASE ListenEmpty(l) BY <1>6 DEF ListenEmpty
<1>7. CASE ListenFails(l) BY <1>7 DEF ListenFails
<1>8. CASE LoopPublish(l) BY <1>8 DEF LoopPublish
<1>9. CASE LoopEnd(l) BY <1>9 DEF LoopEnd
<1>10. CASE LoopRegister(l) BY <1>10 DEF LoopRegister
<1> QED BY <1>1, <1>2, <1>3, <1>4, <1>5, <1>6, <1>7, <1>8, <1>9, <1>10 DEF Loop

\* The shutdown clears only what it has released, or what is free.
LEMMA BookClose ==
  ASSUME TypeOK, TurnInv, BookInv, Sequential, Sequential', Patient, Reliable, Disciplined,
         CloseStop \/ Close
  PROVE  BookInv'
<1> USE SessionAssumption
    DEF TypeOK, Sequential, Patient, Reliable, BookInv, LetGo, NoOrphan, TurnInv,
        ThreadKnown, CallerKnows, ArmedByOwn, ShutdownKnows, FieldsAgree, OneSession, Quiet,
        Watching, Actors, LoopPC, Goto, Answers, Calls, Serving, Listening, Alive
<1>1. CASE CloseStop BY <1>1 DEF CloseStop
<1>2. CASE CloseRead BY <1>2 DEF CloseRead
<1>3. CASE CloseJoins BY <1>3 DEF CloseJoins, JoinsThread
<1>4. CASE CloseJoined BY <1>4 DEF CloseJoined, JoinReturns, JoinRaises
<1>5. CASE CloseCheck BY <1>5 DEF CloseCheck
<1>6. CASE CloseSend BY <1>6 DEF CloseSend
<1>7. CASE CloseDone BY <1>7 DEF CloseDone, Released
<1>8. CASE CloseClear BY <1>8 DEF CloseClear
<1> QED BY <1>1, <1>2, <1>3, <1>4, <1>5, <1>6, <1>7, <1>8 DEF Close

\* At the start every debuggee runs.
LEMMA InitBook == Init => BookInv
BY SessionAssumption DEF Init, BookInv, NoOrphan, LetGo, Quiet, Actors

\* Every step of callers that go by the book keeps account of what is stopped.
LEMMA BookStep ==
  ASSUME TypeOK, TurnInv, BookInv, Sequential, Sequential', Patient, Reliable, Disciplined,
         [Next]_vars
  PROVE  BookInv'
<1>1. CASE UNCHANGED vars
  BY <1>1 DEF vars, BookInv, NoOrphan, LetGo, Quiet
<1>2. CASE Next
  BY <1>2, BookCall, BookContinue, BookLoop, BookClose DEF Next
<1> QED BY <1>1, <1>2

\* Where SAP's answers arrive too and callers detach what was caught before they listen
\* again, every stopped program is accounted for, and what was released is free.
THEOREM BookInvariance ==
  ASSUME Patient, Reliable, Disciplined
  PROVE  Spec /\ []Sequential => []BookInv
<1>1. TypeOK /\ TurnInv /\ BookInv /\ Sequential /\ Sequential' /\ [Next]_vars => BookInv'
  BY BookStep
<1> QED BY <1>1, InitBook, TurnInvariance, TypeCorrect, PTL DEF Spec

\* No stopped program is ever lost sight of.
THEOREM NothingOrphaned ==
  ASSUME Patient, Reliable, Disciplined
  PROVE  Spec /\ []Sequential => []NoOrphan
<1>1. BookInv => NoOrphan BY DEF BookInv
<1> QED BY <1>1, BookInvariance, PTL

\* debug_poll answers "timeout" or "idle" only when no program is stopped unseen.
THEOREM PollTellsTruth ==
  ASSUME Patient, Reliable, Disciplined
  PROVE  Spec /\ []Sequential => []PollHonest
<1>1. TypeOK /\ TurnInv /\ BookInv => PollHonest
  BY DEF TypeOK, TurnInv, CallerKnows, Quiet, BookInv, NoOrphan, PollHonest, Alive
<1> QED BY <1>1, BookInvariance, TurnInvariance, TypeCorrect, PTL

\* close_all leaves no program of the tenant stopped.
THEOREM ShutdownFrees ==
  ASSUME Patient, Reliable, Disciplined
  PROVE  Spec /\ []Sequential => []ShutdownReleases
<1>1. BookInv => ShutdownReleases BY DEF BookInv, LetGo, ShutdownReleases
<1> QED BY <1>1, BookInvariance, PTL

-------------------------------------------------------------------------------
(* The life cycle debug_poll shows *)

\* Only an accepted debug_listen moves the life cycle when a call begins.
LEMMA MovesCall ==
  ASSUME TypeOK, TurnInv, TurnInv', Sequential, Patient, Disciplined,
         NEW c \in Clients, Call(c)
  PROVE  Abstract!Next \/ UNCHANGED Status
<1> USE SessionAssumption
    DEF TypeOK, Sequential, Patient, TurnInv, ThreadKnown, CallerKnows, ArmedByOwn,
        ShutdownKnows, FieldsAgree, OneSession, Quiet, Watching, Actors, LoopPC, Goto,
        Answers, Calls, Serving, Listening, Alive, Abstract!Next, Abstract!Listen,
        Abstract!ListenerEnds, Abstract!Attach, Abstract!Settle, Status
<1>1. CASE ListenAccepted(c) BY <1>1 DEF ListenAccepted
<1>2. CASE StopSet(c) BY <1>2 DEF StopSet
<1>3. CASE AttachCheck(c) BY <1>3 DEF AttachCheck
<1>4. CASE UseCheck(c) BY <1>4 DEF UseCheck
<1>5. CASE ReleaseStop(c) BY <1>5 DEF ReleaseStop
<1>6. CASE PollFirst(c) BY <1>6 DEF PollFirst
<1> QED BY <1>1, <1>2, <1>3, <1>4, <1>5, <1>6 DEF Call

\* A call moves it when it attaches, forgets a timeout, detaches, or fails to build a session.
LEMMA MovesContinue ==
  ASSUME TypeOK, TurnInv, TurnInv', Sequential, Patient, Disciplined,
         NEW c \in Clients, Continue(c)
  PROVE  Abstract!Next \/ UNCHANGED Status
<1> USE SessionAssumption
    DEF TypeOK, Sequential, Patient, TurnInv, ThreadKnown, CallerKnows, ArmedByOwn,
        ShutdownKnows, FieldsAgree, OneSession, Quiet, Watching, Actors, LoopPC, Goto,
        Answers, Calls, Serving, Listening, Alive, Abstract!Next, Abstract!Listen,
        Abstract!ListenerEnds, Abstract!Attach, Abstract!Settle, Status
<1>1. CASE BuildFails(c) BY <1>1 DEF BuildFails
<1>2. CASE BuildCrashes(c) BY <1>2 DEF BuildCrashes
<1>3. CASE CreateThread(c) BY <1>3 DEF CreateThread, Fresh
<1>4. CASE StartThread(c) BY <1>4 DEF StartThread
<1>5. CASE ListenReturns(c) BY <1>5 DEF ListenReturns
<1>6. CASE StopControl(c) BY <1>6 DEF StopControl
<1>7. CASE StopFails(c) BY <1>7 DEF StopFails
<1>8. CASE StopJoins(c) BY <1>8 DEF StopJoins, JoinsThread
<1>9. CASE StopJoined(c) BY <1>9 DEF StopJoined, JoinReturns
<1>10. CASE StopClear(c) BY <1>10 DEF StopClear
<1>11. CASE JoinFails(c) BY <1>11 DEF JoinFails, JoinRaises
<1>12. CASE AttachSend(c) BY <1>12 DEF AttachSend
<1>13. CASE AttachDone(c) BY <1>13 DEF AttachDone
<1>14. CASE AttachFails(c) BY <1>14 DEF AttachFails
<1>15. CASE AttachSet(c) BY <1>15 DEF AttachSet
<1>16. CASE UseSend(c) BY <1>16 DEF UseSend
<1>17. CASE UseDone(c) BY <1>17 DEF UseDone
<1>18. CASE ReleaseRead(c) BY <1>18 DEF ReleaseRead
<1>19. CASE ReleaseJoins(c) BY <1>19 DEF ReleaseJoins, JoinsThread
<1>20. CASE ReleaseJoined(c) BY <1>20 DEF ReleaseJoined, JoinReturns
<1>21. CASE ReleaseCheck(c) BY <1>21 DEF ReleaseCheck
<1>22. CASE ReleaseSend(c) BY <1>22 DEF ReleaseSend
<1>23. CASE ReleaseDone(c) BY <1>23 DEF ReleaseDone, Released
<1>24. CASE ReleaseFails(c) BY <1>24 DEF ReleaseFails
<1>25. CASE ReleaseClear(c) BY <1>25 DEF ReleaseClear
<1>26. CASE PollListening(c) BY <1>26 DEF PollListening
<1>27. CASE PollRest(c) BY <1>27 DEF PollRest
<1> QED BY <1>1, <1>2, <1>3, <1>4, <1>5, <1>6, <1>7, <1>8, <1>9, <1>10, <1>11, <1>12, <1>13,
      <1>14, <1>15, <1>16, <1>17, <1>18, <1>19, <1>20, <1>21, <1>22, <1>23, <1>24, <1>25,
      <1>26, <1>27 DEF Continue

\* A listener moves it when it fails or is over.
LEMMA MovesLoop ==
  ASSUME TypeOK, TurnInv, TurnInv', Sequential, Patient, Disciplined,
         NEW l \in Listeners, Loop(l)
  PROVE  Abstract!Next \/ UNCHANGED Status
<1> USE SessionAssumption
    DEF TypeOK, Sequential, Patient, TurnInv, ThreadKnown, CallerKnows, ArmedByOwn,
        ShutdownKnows, FieldsAgree, OneSession, Quiet, Watching, Actors, LoopPC, Goto,
        Answers, Calls, Serving, Listening, Alive, Abstract!Next, Abstract!Listen,
        Abstract!ListenerEnds, Abstract!Attach, Abstract!Settle, Status
<1>1. CASE LoopBegin(l) BY <1>1 DEF LoopBegin
<1>2. CASE LoopTest(l) BY <1>2 DEF LoopTest
<1>3. CASE LoopAcquire(l) BY <1>3 DEF LoopAcquire
<1>4. CASE LoopLeave(l) BY <1>4 DEF LoopLeave
<1>5. CASE ListenCaught(l) BY <1>5 DEF ListenCaught
<1>6. CASE ListenEmpty(l) BY <1>6 DEF ListenEmpty
<1>7. CASE ListenFails(l) BY <1>7 DEF ListenFails
<1>8. CASE LoopPublish(l) BY <1>8 DEF LoopPublish
<1>9. CASE LoopEnd(l) BY <1>9 DEF LoopEnd
<1>10. CASE LoopRegister(l) BY <1>10 DEF LoopRegister
<1> QED BY <1>1, <1>2, <1>3, <1>4, <1>5, <1>6, <1>7, <1>8, <1>9, <1>10 DEF Loop

\* The shutdown ends in idle.
LEMMA MovesClose ==
  ASSUME TypeOK, TurnInv, TurnInv', Sequential, Patient, Disciplined, CloseStop \/ Close
  PROVE  Abstract!Next \/ UNCHANGED Status
<1> USE SessionAssumption
    DEF TypeOK, Sequential, Patient, TurnInv, ThreadKnown, CallerKnows, ArmedByOwn,
        ShutdownKnows, FieldsAgree, OneSession, Quiet, Watching, Actors, LoopPC, Goto,
        Answers, Calls, Serving, Listening, Alive, Abstract!Next, Abstract!Listen,
        Abstract!ListenerEnds, Abstract!Attach, Abstract!Settle, Status
<1>1. CASE CloseStop BY <1>1 DEF CloseStop
<1>2. CASE CloseRead BY <1>2 DEF CloseRead
<1>3. CASE CloseJoins BY <1>3 DEF CloseJoins, JoinsThread
<1>4. CASE CloseJoined BY <1>4 DEF CloseJoined, JoinReturns, JoinRaises
<1>5. CASE CloseCheck BY <1>5 DEF CloseCheck
<1>6. CASE CloseSend BY <1>6 DEF CloseSend
<1>7. CASE CloseDone BY <1>7 DEF CloseDone, Released
<1>8. CASE CloseClear BY <1>8 DEF CloseClear
<1> QED BY <1>1, <1>2, <1>3, <1>4, <1>5, <1>6, <1>7, <1>8 DEF Close

\* Every step of the debug session is a move of DebugLifecycle or changes no state that
\* debug_poll names.
LEMMA MovesStep ==
  ASSUME TypeOK, TurnInv, TurnInv', Sequential, Patient, Disciplined, [Next]_vars
  PROVE  [Abstract!Next]_Status
<1>1. CASE UNCHANGED vars
  BY <1>1 DEF vars, Status, Listening, Alive
<1>2. CASE Next
  BY <1>2, MovesCall, MovesContinue, MovesLoop, MovesClose DEF Next
<1> QED BY <1>1, <1>2

\* For callers that detach what was caught before they listen again, the states debug_poll
\* names follow each other as DebugLifecycle says.  That a listener which is waiting ends
\* is left to the runs.
THEOREM LifecycleSafety ==
  ASSUME Patient, Disciplined
  PROVE  Spec /\ []Sequential => Abstract!Init /\ [][Abstract!Next]_Status
<1>1. Init => Abstract!Init
  BY DEF Init, Abstract!Init, Status, Listening
<1>2. TypeOK /\ TurnInv /\ TurnInv' /\ Sequential /\ [Next]_vars => [Abstract!Next]_Status
  BY MovesStep
<1> QED BY <1>1, <1>2, TurnInvariance, TypeCorrect, PTL DEF Spec
===============================================================================
