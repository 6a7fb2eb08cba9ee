-------------------------- MODULE SessionPoolProofs --------------------------
(***************************************************************************)
(* Proofs about SessionPool for every set of threads, of logins beside the *)
(* pool, of channels and of SAP sessions, and every combination of faults. *)
(***************************************************************************)
EXTENDS SessionPool, TLAPS

Building == {"probe", "login", "reopen", "check", "publish"}

\* Whoever is building a session holds _create_lock.
BuilderHolds == \A t \in Threads : pc[t] \in Building => create = t

\* A session about to be published has named the user.
PublishesKnown == \A t \in Threads : pc[t] = "publish" => known

\* The inductive invariant, but for what keeps the channels apart.
PoolInv == TypeOK /\ BuilderHolds /\ PublishesKnown /\ OneClient /\ LocksOrdered /\ UserKnown

\* A thread takes nothing in hand before it has looked at its channel.
EmptyHanded == \A t \in Threads : pc[t] \in {"idle", "lock"} => mine[t] = None

\* What has answered is a SAP session.
Usable ==
  /\ \A ch \in Channels : pool[ch] # NoSession
  /\ \A t \in Threads : pc[t] \in {"publish", "holds"} => mine[t] # NoSession

\* The session a channel's file, client or current call is known by.
Has(ch, s) == file[ch] = s \/ pool[ch] = s \/ \E t \in Threads : channel[t] = ch /\ mine[t] = s

\* No SAP session is known on two channels.
Apart == \A s \in Sessions : \A p, q \in Channels : Has(p, s) /\ Has(q, s) => p = q

ApartInv == EmptyHanded /\ Usable /\ Apart

-------------------------------------------------------------------------------
\* The pool starts empty, and nobody holds a lock.
LEMMA InitInv == Init => PoolInv
<1> SUFFICES ASSUME Init PROVE PoolInv
  OBVIOUS
<1>1. TypeOK
  BY PoolAssumption DEF Init, TypeOK, Clients
<1>2. BuilderHolds /\ PublishesKnown /\ OneClient /\ LocksOrdered /\ UserKnown
  BY PoolAssumption DEF Init, BuilderHolds, PublishesKnown, OneClient, LocksOrdered, UserKnown, Building
<1> QED BY <1>1, <1>2 DEF PoolInv

\* No step of a thread, a login, a shutdown or a restart leaves a field without its type.
LEMMA TypeStep ==
  ASSUME TypeOK, [Next]_vars
  PROVE  TypeOK'
<1> USE PoolAssumption DEF TypeOK, Clients, Goto, ChannelFile
<1>1. ASSUME NEW t \in Threads, Call(t) \/ Continue(t)
      PROVE  TypeOK'
  <2>1. CASE Call(t) BY <2>1 DEF Call
  <2>2. CASE Locks(t) BY <2>2 DEF Locks
  <2>3. CASE Look(t) BY <2>3 DEF Look
  <2>4. CASE LookAgain(t) BY <2>4 DEF LookAgain
  <2>5. CASE Build(t) BY <2>5 DEF Build, Opens
  <2>6. CASE Probe(t) BY <2>6 DEF Probe
  <2>7. CASE Login(t) BY <2>7 DEF Login, Mints
  <2>8. CASE LoginFails(t) BY <2>8 DEF LoginFails, MintsNothing, Leaves
  <2>9. CASE Reopen(t)
    <3>1. /\ mine' = [mine EXCEPT ![t] = file[channel[t]]] /\ pc' = [pc EXCEPT ![t] = "check"]
          /\ UNCHANGED <<pool, create, lock, known, file, alive, channel, closed>>
      BY <2>9 DEF Reopen, Opens
    <3>2. file[channel[t]] \in Clients /\ file[channel[t]] # None
      <4>1. channel[t] \in Channels
        BY DEF TypeOK
      <4>2. file[channel[t]] \in Clients
        BY <4>1 DEF TypeOK
      <4> QED BY <4>2
    <3>3. mine' \in [Threads -> Clients \cup {None}]
      BY <3>1, <3>2
    <3>4. pc' \in [Threads \cup Admins -> {"idle", "lock", "look", "want", "probe", "login",
                                          "reopen", "check", "publish", "holds"}]
      BY <3>1
    <3>5. \A u \in Threads : pc'[u] \in {"probe", "check", "publish", "holds"} => mine'[u] # None
      BY <3>1, <3>2
    <3> QED BY <3>1, <3>3, <3>4, <3>5
  <2>10. CASE Check(t) BY <2>10 DEF Check
  <2>11. CASE CheckFails(t) BY <2>11 DEF CheckFails, Leaves
  <2>12. CASE Publish(t) BY <2>12 DEF Publish
  <2>13. CASE Done(t) BY <2>13 DEF Done, Leaves
  <2>14. CASE Invalidate(t) BY <2>14 DEF Invalidate, Leaves
  <2> QED BY <1>1, <2>1, <2>2, <2>3, <2>4, <2>5, <2>6, <2>7, <2>8, <2>9, <2>10, <2>11, <2>12,
             <2>13, <2>14 DEF Continue
<1>2. ASSUME NEW a \in Admins, AdminBegin(a) \/ AdminEnd(a)
      PROVE  TypeOK'
  BY <1>2 DEF AdminBegin, AdminEnd, Mints, MintsNothing
<1>3. CASE CloseAll BY <1>3 DEF CloseAll
<1>4. CASE Restart BY <1>4 DEF Restart
<1>5. CASE Expire BY <1>5 DEF Expire
<1>6. CASE UNCHANGED vars BY <1>6 DEF vars
<1> QED BY <1>1, <1>2, <1>3, <1>4, <1>5, <1>6 DEF Next

\* The rest of the invariant, actor by actor.
LEMMA PoolStep ==
  ASSUME PoolInv, [Next]_vars
  PROVE  PoolInv'
<1>0. TypeOK'
  BY TypeStep DEF PoolInv
<1> USE PoolAssumption, <1>0 DEF PoolInv, TypeOK, BuilderHolds, PublishesKnown, OneClient,
      LocksOrdered, UserKnown, Building, Goto
<1>1. ASSUME NEW t \in Threads, Call(t) \/ Continue(t)
      PROVE  PoolInv'
  <2>1. CASE Call(t) BY <2>1 DEF Call
  <2>2. CASE Locks(t) BY <2>2 DEF Locks
  <2>3. CASE Look(t) BY <2>3 DEF Look
  <2>4. CASE LookAgain(t) BY <2>4 DEF LookAgain
  <2>5. CASE Build(t) BY <2>5 DEF Build, Opens
  <2>6. CASE Probe(t) BY <2>6 DEF Probe
  <2>7. CASE Login(t) BY <2>7 DEF Login, Mints
  <2>8. CASE LoginFails(t) BY <2>8 DEF LoginFails, Leaves
  <2>9. CASE Reopen(t) BY <2>9 DEF Reopen, Opens
  <2>10. CASE Check(t) BY <2>10 DEF Check
  <2>11. CASE CheckFails(t) BY <2>11 DEF CheckFails, Leaves
  <2>12. CASE Publish(t) BY <2>12 DEF Publish
  <2>13. CASE Done(t) BY <2>13 DEF Done, Leaves
  <2>14. CASE Invalidate(t) BY <2>14 DEF Invalidate, Leaves
  <2> QED BY <1>1, <2>1, <2>2, <2>3, <2>4, <2>5, <2>6, <2>7, <2>8, <2>9, <2>10, <2>11, <2>12,
             <2>13, <2>14 DEF Continue
<1>2. ASSUME NEW a \in Admins, AdminBegin(a) \/ AdminEnd(a)
      PROVE  PoolInv'
  <2>1. CASE AdminBegin(a) BY <2>1 DEF AdminBegin
  <2>2. CASE AdminEnd(a) BY <2>2 DEF AdminEnd
  <2> QED BY <1>2, <2>1, <2>2
<1>3. CASE CloseAll BY <1>3 DEF CloseAll
<1>4. CASE Restart BY <1>4 DEF Restart
<1>5. CASE Expire BY <1>5 DEF Expire
<1>6. CASE UNCHANGED vars BY <1>6 DEF vars
<1> QED BY <1>1, <1>2, <1>3, <1>4, <1>5, <1>6 DEF Next

-------------------------------------------------------------------------------
\* A login writes a session nobody has to the file of one channel.
LEMMA MintedApart ==
  ASSUME TypeOK, ApartInv, NEW ch \in Channels, NEW usable, Mints(ch, usable),
         UNCHANGED <<pool, channel, mine>>
  PROVE  Apart'
<1>1. PICK s \in Sessions : s \notin InUse /\ file' = [file EXCEPT ![ch] = s]
  BY DEF Mints
<1>2. \A q \in Channels : ~Has(q, s)
  BY <1>1 DEF InUse, Has
<1>3. \A q \in Channels, r \in Sessions : Has(q, r)' => Has(q, r) \/ (q = ch /\ r = s)
  BY <1>1 DEF Has, TypeOK
<1> QED BY <1>2, <1>3 DEF ApartInv, Apart

\* What a step makes of the pool, the files and the hands is on the channel it was on.
LEMMA CarriedApart ==
  ASSUME ApartInv, \A q \in Channels, s \in Sessions : Has(q, s)' => Has(q, s)
  PROVE  Apart'
BY DEF ApartInv, Apart

\* No step brings a SAP session from one channel to another, or the empty one into the pool.
LEMMA ApartStep ==
  ASSUME PoolInv, ApartInv, [Next]_vars
  PROVE  ApartInv'
<1> USE PoolAssumption DEF TypeOK, Clients, EmptyHanded, Usable, Goto, ChannelFile
<1>0. TypeOK
  BY DEF PoolInv
<1>1. ASSUME NEW t \in Threads, Call(t) \/ Continue(t)
      PROVE  ApartInv'
  <2>1. (EmptyHanded /\ Usable)'
    <3>1. CASE Call(t) BY <1>0, <3>1 DEF Call, ApartInv
    <3>2. CASE Locks(t) BY <1>0, <3>2 DEF Locks, ApartInv
    <3>3. CASE Look(t) BY <1>0, <3>3 DEF Look, ApartInv
    <3>4. CASE LookAgain(t) BY <1>0, <3>4 DEF LookAgain, ApartInv
    <3>5. CASE Build(t) BY <1>0, <3>5 DEF Build, Opens, ApartInv
    <3>6. CASE Probe(t) BY <1>0, <3>6 DEF Probe, Answers, ApartInv
    <3>7. CASE Login(t) BY <1>0, <3>7 DEF Login, ApartInv
    <3>8. CASE LoginFails(t) BY <1>0, <3>8 DEF LoginFails, Leaves, ApartInv
    <3>9. CASE Reopen(t) BY <1>0, <3>9 DEF Reopen, Opens, ApartInv
    <3>10. CASE Check(t) BY <1>0, <3>10 DEF Check, Answers, ApartInv
    <3>11. CASE CheckFails(t) BY <1>0, <3>11 DEF CheckFails, Leaves, ApartInv
    <3>12. CASE Publish(t) BY <1>0, <3>12 DEF Publish, ApartInv
    <3>13. CASE Done(t) BY <1>0, <3>13 DEF Done, Leaves, ApartInv
    <3>14. CASE Invalidate(t) BY <1>0, <3>14 DEF Invalidate, Leaves, ApartInv
    <3> QED BY <1>1, <3>1, <3>2, <3>3, <3>4, <3>5, <3>6, <3>7, <3>8, <3>9, <3>10, <3>11, <3>12,
               <3>13, <3>14 DEF Continue
  <2>2. Apart'
    <3>1. CASE Call(t) BY <1>0, <3>1, CarriedApart DEF Call, Has, ApartInv
    <3>2. CASE Locks(t) BY <1>0, <3>2, CarriedApart DEF Locks, Has
    <3>3. CASE Look(t) BY <1>0, <3>3, CarriedApart DEF Look, Has
    <3>4. CASE LookAgain(t) BY <1>0, <3>4, CarriedApart DEF LookAgain, Has
    <3>5. CASE Build(t) BY <1>0, <3>5, CarriedApart DEF Build, Opens, Has
    <3>6. CASE Probe(t) BY <1>0, <3>6, CarriedApart DEF Probe, Has
    <3>7. CASE Login(t)
      <4>1. UNCHANGED <<pool, channel, mine>> /\ channel[t] \in Channels
        BY <1>0, <3>7 DEF Login
      <4>2. PICK usable : Mints(channel[t], usable)
        BY <3>7 DEF Login
      <4> QED BY <1>0, <4>1, <4>2, MintedApart
    <3>8. CASE LoginFails(t) BY <1>0, <3>8, CarriedApart DEF LoginFails, Leaves, MintsNothing, Has
    <3>9. CASE Reopen(t) BY <1>0, <3>9, CarriedApart DEF Reopen, Opens, Has
    <3>10. CASE Check(t) BY <1>0, <3>10, CarriedApart DEF Check, Has
    <3>11. CASE CheckFails(t) BY <1>0, <3>11, CarriedApart DEF CheckFails, Leaves, Has
    <3>12. CASE Publish(t) BY <1>0, <3>12, CarriedApart DEF Publish, Has
    <3>13. CASE Done(t) BY <1>0, <3>13, CarriedApart DEF Done, Leaves, Has
    <3>14. CASE Invalidate(t) BY <1>0, <3>14, CarriedApart DEF Invalidate, Leaves, Has
    <3> QED BY <1>1, <3>1, <3>2, <3>3, <3>4, <3>5, <3>6, <3>7, <3>8, <3>9, <3>10, <3>11, <3>12,
               <3>13, <3>14 DEF Continue
  <2> QED BY <2>1, <2>2 DEF ApartInv
<1>2. ASSUME NEW a \in Admins, AdminBegin(a) \/ AdminEnd(a)
      PROVE  ApartInv'
  <2>1. CASE AdminBegin(a)
    <3>1. Apart'
      BY <2>1, CarriedApart DEF AdminBegin, Has
    <3> QED BY <1>0, <2>1, <3>1 DEF AdminBegin, ApartInv
  <2>2. CASE AdminEnd(a)
    <3>1. UNCHANGED <<pool, channel, mine>> /\ \A t \in Threads : pc'[t] = pc[t]
      BY <1>0, <2>2 DEF AdminEnd
    <3>2. CASE Mints("control", TRUE)
      BY <1>0, <3>1, <3>2, MintedApart DEF ApartInv
    <3>3. CASE MintsNothing("control")
      <4>1. Apart'
        BY <1>0, <3>1, <3>3, CarriedApart DEF MintsNothing, Has
      <4> QED BY <3>1, <4>1 DEF ApartInv
    <3> QED BY <2>2, <3>2, <3>3 DEF AdminEnd
  <2> QED BY <1>2, <2>1, <2>2
<1>3. CASE CloseAll
  <2>1. Apart'
    BY <1>0, <1>3, CarriedApart DEF CloseAll, Has
  <2> QED BY <1>3, <2>1 DEF CloseAll, ApartInv
<1>4. CASE Restart
  <2>1. Apart'
    BY <1>0, <1>4, CarriedApart DEF Restart, Has
  <2> QED BY <1>4, <2>1 DEF Restart, ApartInv
<1>5. CASE Expire \/ UNCHANGED vars
  <2>1. UNCHANGED <<pool, file, pc, channel, mine>>
    BY <1>5 DEF Expire, vars
  <2> QED BY <2>1 DEF ApartInv, Apart, Has
<1> QED BY <1>1, <1>2, <1>3, <1>4, <1>5 DEF Next

\* No channel has a session in the beginning.
LEMMA InitApart == Init => ApartInv
<1> SUFFICES ASSUME Init PROVE ApartInv
  OBVIOUS
<1>1. EmptyHanded /\ Usable
  BY PoolAssumption DEF Init, EmptyHanded, Usable
<1>2. \A s \in Sessions, q \in Channels : ~Has(q, s)
  BY PoolAssumption DEF Init, Has
<1> QED BY <1>1, <1>2 DEF ApartInv, Apart

\* Two channels with one client would both have its SAP session.
LEMMA ApartIsolates ==
  ASSUME TypeOK, Usable, Apart
  PROVE  Isolated
<1> SUFFICES ASSUME NEW p \in Channels, NEW q \in Channels, p # q,
                    None \notin {pool[p], pool[q]}, pool[p] = pool[q]
             PROVE  FALSE
  BY DEF Isolated
<1>1. pool[p] \in Sessions
  BY DEF TypeOK, Usable, Clients
<1>2. Has(p, pool[p]) /\ Has(q, pool[p])
  BY DEF Has
<1> QED BY <1>1, <1>2 DEF Apart

-------------------------------------------------------------------------------
\* PoolInv and ApartInv hold in every reachable state: of the locks and of what they
\* protect, and of the SAP sessions behind the channels.
THEOREM Invariance == Spec => [](PoolInv /\ ApartInv)
<1>1. Init => PoolInv /\ ApartInv
  BY InitInv, InitApart
<1>2. PoolInv /\ ApartInv /\ [Next]_vars => (PoolInv /\ ApartInv)'
  BY PoolStep, ApartStep
<1> QED BY <1>1, <1>2, PTL DEF Spec

\* The pool keeps its types for any number of threads, channels and SAP sessions: whoever
\* probes, checks, publishes or uses a client has one in hand.
THEOREM TypeCorrect == Spec => []TypeOK
<1>1. PoolInv /\ ApartInv => TypeOK
  BY DEF PoolInv
<1> QED BY <1>1, Invariance, PTL

\* While a thread builds the session of a channel the pool holds none for it (the second
\* look under _create_lock, debug_pool.py:329-331): none is ever published over another.
THEOREM OneClientPerChannel == Spec => []OneClient
<1>1. PoolInv /\ ApartInv => OneClient
  BY DEF PoolInv
<1> QED BY <1>1, Invariance, PTL

\* Locks are taken in one order, channel before _create_lock, and every way out of a call,
\* a login that fails included, gives them back.
THEOREM LockOrder == Spec => []LocksOrdered
<1>1. PoolInv /\ ApartInv => LocksOrdered
  BY DEF PoolInv
<1> QED BY <1>1, Invariance, PTL

\* Whatever logins, rotations and restarts there are, a pooled session has named its user,
\* so identity() never logs in under the lock of another channel.
THEOREM UserIsKnown == Spec => []UserKnown
<1>1. PoolInv /\ ApartInv => UserKnown
  BY DEF PoolInv
<1> QED BY <1>1, Invariance, PTL

\* Two channels never ride on one SAP session, for any number of threads and of logins that
\* go past the pool: every session is written to the file of one channel, and each
\* channel reads only its own.
THEOREM ChannelsApart == Spec => []Isolated
<1>1. PoolInv /\ ApartInv => Isolated
  BY ApartIsolates DEF PoolInv, ApartInv
<1> QED BY <1>1, Invariance, PTL
=============================================================================
