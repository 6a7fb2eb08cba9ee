--------------------------- MODULE WriteToolProofs ---------------------------
(***************************************************************************)
(* Proofs about WriteTool for every set of SAP sessions and every          *)
(* combination of faults.                                                  *)
(***************************************************************************)
EXTENDS WriteTool, TLAPS

Jars == [jar : Clients, seed : Clients \cup {None}, csrf : Sessions \cup {None}]

CallRecords ==
  [creates : BOOLEAN, activates : BOOLEAN, made : BOOLEAN, token : Sessions \cup {None},
   disturbed : BOOLEAN, refreshed : BOOLEAN, says : Answers, expired : BOOLEAN]

\* What the answers say and what is locked, as opposed to TypeOK.
Claims == OkMeansActive /\ FailureTold /\ LockCarried /\ LockGivenBack

\* How far the call has got, by where it is.
Progress ==
  /\ (pc \in {"token", "lock", "put", "unlock", "activate"} \/ call.made) => object.exists
  /\ pc \notin {"unlock", "answered", "again"} => call.says = "none"
  /\ pc = "unlock" => call.says \in {"none", "not_saved"}
  /\ (pc = "unlock" /\ call.says = "none") \/ pc = "activate" => object.stored

\* The lock is in the session of the cookie file only while the client is.
FileLocks == owner = file => owner = client.jar

\* In a sequence nobody has disturbed, the jar has nothing new to load.
Seeded == pc \in {"lock", "put", "unlock"} /\ ~call.disturbed => client.seed = file

\* The inductive invariant.
WriteInv ==
  /\ TypeOK /\ Progress /\ FileLocks /\ Seeded
  /\ OkMeansActive /\ FailureTold /\ LockCarried /\ LockGivenBack

-------------------------------------------------------------------------------
\* A request, whatever becomes of it, leaves the client in the session it was in or in
\* that of the cookie file, and in the former if the file has nothing new.
LEMMA PrimedClient ==
  ASSUME TypeOK
  PROVE  /\ Primed \in Jars
         /\ Primed.jar \in {client.jar, file}
         /\ Primed.seed = file
         /\ client.seed = file => Primed.jar = client.jar
  BY DEF TypeOK, Primed, Jar, Jars, Clients

\* So does fetching a token, which leaves the cookies alone.
LEMMA FetchedClient ==
  ASSUME TypeOK, NEW k \in Jars
  PROVE  /\ Fetched(k) \in Jars
         /\ Fetched(k).jar = k.jar
         /\ Fetched(k).seed = k.seed
  BY DEF TypeOK, Fetched, Jars

\* The client _edit_sequence starts with has looked at the cookie file.
LEMMA ReadyClient ==
  ASSUME TypeOK
  PROVE  /\ Ready \in Jars
         /\ Ready.jar \in {client.jar, file}
         /\ Ready.seed = file
  BY PrimedClient, FetchedClient DEF Ready

\* A request of the edit sequence leaves the session only for one the file has got since.
LEMMA SequenceClient ==
  ASSUME TypeOK, NEW t, NEW k \in Outcomes(client, t)
  PROVE  /\ k \in Jars
         /\ k.jar \in {client.jar, file}
         /\ client.seed = file => k.jar = client.jar /\ k.seed = file
<1>1. client \in Jars
  BY DEF TypeOK, Jars
<1> QED BY <1>1, PrimedClient, FetchedClient DEF Outcomes

\* A request of _post may end in the session of the file at any time.
LEMMA PostedClient ==
  ASSUME TypeOK, NEW k \in Posted
  PROVE  k \in Jars /\ k.jar \in {client.jar, file}
  BY PrimedClient, FetchedClient, ReadyClient DEF Posted, Outcomes

\* A login, good or bad, never puts the session that holds the lock into the cookie file.
LEMMA LoginFile ==
  ASSUME TypeOK, Login \/ LoginFails
  PROVE  /\ file' \in Clients
         /\ file' # file => file' # owner
         /\ alive \subseteq alive' /\ alive' \in SUBSET Sessions
<1> USE WriteAssumption DEF TypeOK, Clients
<1>1. CASE Login
  <2>1. PICK s \in Sessions \ InUse : file' = s /\ alive' = alive \cup {s}
    BY <1>1 DEF Login
  <2> QED BY <2>1 DEF InUse
<1>2. CASE LoginFails BY <1>2 DEF LoginFails
<1> QED BY <1>1, <1>2

-------------------------------------------------------------------------------
\* Nothing is known, locked or said at the start.
LEMMA InitInv == Init => WriteInv
<1> SUFFICES ASSUME Init PROVE WriteInv
  OBVIOUS
<1> USE WriteAssumption DEF Init, NoCall
<1>1. TypeOK BY DEF TypeOK, Clients, Answers
<1>2. Progress /\ FileLocks /\ Seeded BY DEF Progress, FileLocks, Seeded
<1>3. OkMeansActive /\ FailureTold /\ LockCarried /\ LockGivenBack
  BY DEF OkMeansActive, FailureTold, LockCarried, LockGivenBack
<1> QED BY <1>1, <1>2, <1>3 DEF WriteInv

\* The keeper's own steps touch neither the object nor the lock.
LEMMA KeeperStep ==
  ASSUME WriteInv, Begin \/ Probe \/ Renew \/ Return \/ RenewAndRetry \/ Again
  PROVE  WriteInv'
<1> USE WriteAssumption DEF WriteInv, TypeOK, Progress, FileLocks, Seeded, OkMeansActive, FailureTold,
      LockCarried, LockGivenBack, Goto, NoCall, First, Clients, Answers
<1>1. CASE Begin
  <2>1. PICK creates \in BOOLEAN, activates \in BOOLEAN :
          call' = [NoCall EXCEPT !.creates = creates, !.activates = activates]
    BY <1>1 DEF Begin
  <2>2. call' = [creates |-> creates, activates |-> activates, made |-> FALSE, token |-> None,
                 disturbed |-> FALSE, refreshed |-> FALSE, says |-> "none", expired |-> FALSE]
    BY <2>1
  <2>3. TypeOK' BY <1>1, <2>2 DEF Begin
  <2>4. Progress' /\ FileLocks' /\ Seeded' BY <1>1, <2>2 DEF Begin
  <2>5. Claims' BY <1>1, <2>2 DEF Begin, Claims
  <2> QED BY <2>3, <2>4, <2>5 DEF Claims
<1>2. CASE Probe
  <2>1. client' \in Jars /\ client'.jar \in {client.jar, file}
    BY <1>2, PrimedClient DEF Probe
  <2> QED BY <1>2, <2>1 DEF Probe, Jars
<1>3. CASE Renew
  <2>1. file' \in Clients /\ (file' # file => file' # owner) /\ alive \subseteq alive'
        /\ alive' \in SUBSET Sessions
    BY <1>3, LoginFile DEF Renew
  <2>2. TypeOK' BY <1>3, <2>1 DEF Renew
  <2>3. Progress' /\ FileLocks' /\ Seeded' BY <1>3, <2>1 DEF Renew
  <2>4. Claims' BY <1>3, <2>1 DEF Renew, Claims
  <2> QED BY <2>2, <2>3, <2>4 DEF Claims
<1>4. CASE Return BY <1>4 DEF Return
<1>5. CASE RenewAndRetry
  <2> USE <1>5 DEF RenewAndRetry
  <2>1. file' \in Clients /\ (file' # file => file' # owner) /\ alive \subseteq alive'
        /\ alive' \in SUBSET Sessions
    BY LoginFile
  <2>2. CASE call' = [call EXCEPT !.refreshed = TRUE] /\ pc' = "again" BY <2>1, <2>2
  <2>3. CASE call' = NoCall /\ pc' = "idle" BY <2>1, <2>3
  <2> QED BY <2>2, <2>3
<1>6. CASE Again
  <2>1. TypeOK' BY <1>6 DEF Again
  <2>2. Progress' /\ FileLocks' /\ Seeded' BY <1>6 DEF Again
  <2>3. Claims' BY <1>6 DEF Again, Claims
  <2> QED BY <2>1, <2>2, <2>3 DEF Claims
<1> QED BY <1>1, <1>2, <1>3, <1>4, <1>5, <1>6

\* What an answer leaves of the call.
Said(what) ==
  /\ call' \in CallRecords
  /\ pc' = "answered"
  /\ call'.made = call.made
  /\ call'.says = IF call.made /\ what # "ok" THEN "exists" ELSE what

\* The call ends with the answer it gives, except that a failure after create_object has
\* made the object says that it exists.
LEMMA SaysStep ==
  ASSUME WriteInv
  PROVE  \A what \in Answers : \A expired \in BOOLEAN : Says(what, expired) => Said(what)
  BY DEF WriteInv, TypeOK, Says, Said, Goto, Answers, CallRecords

\* Creating: what is made exists, and nobody holds its lock through this client.
LEMMA CreateStep ==
  ASSUME WriteInv, Create
  PROVE  WriteInv'
<1>1. PICK k \in Posted :
        /\ client' = k
        /\ \/ /\ object' = [object EXCEPT !.exists = TRUE]
              /\ \/ call' = [call EXCEPT !.made = TRUE] /\ pc' = "package"
                 \/ Says("unknown", FALSE)
           \/ /\ \E expired \in BOOLEAN : Says("not_created", expired)
              /\ UNCHANGED object
  BY DEF Create, Goto
<1>2. \/ /\ object' = [object EXCEPT !.exists = TRUE]
         /\ \/ call' = [call EXCEPT !.made = TRUE] /\ pc' = "package"
            \/ Said("unknown")
      \/ Said("not_created") /\ UNCHANGED object
  BY <1>1, SaysStep DEF Answers
<1>3. pc = "create" /\ client' = k /\ UNCHANGED <<file, alive, owner, left>>
  BY <1>1 DEF Create
<1>4. client' \in Jars /\ client'.jar \in {client.jar, file}
  BY <1>3, PostedClient DEF WriteInv
<1> USE WriteAssumption DEF WriteInv, TypeOK, Progress, FileLocks, Seeded, OkMeansActive, FailureTold,
      LockCarried, LockGivenBack, Clients, Jars, CallRecords, Answers
<1>5. CASE /\ object' = [object EXCEPT !.exists = TRUE]
           /\ call' = [call EXCEPT !.made = TRUE] /\ pc' = "package"
  BY <1>3, <1>4, <1>5
<1>6. CASE object' = [object EXCEPT !.exists = TRUE] /\ Said("unknown")
  BY <1>3, <1>4, <1>6 DEF Said
<1>7. CASE Said("not_created") /\ UNCHANGED object
  BY <1>3, <1>4, <1>7 DEF Said
<1> QED BY <1>2, <1>5, <1>6, <1>7

\* The write gate: only an object that exists is written.
LEMMA PackageStep ==
  ASSUME WriteInv, Package
  PROVE  WriteInv'
<1>1. /\ pc = "package" /\ client' = Primed
      /\ UNCHANGED <<file, alive, owner, left, object>>
      /\ \/ object.exists /\ pc' = "token" /\ UNCHANGED call
         \/ Said("not_saved")
  BY SaysStep DEF Package, Goto, Answers
<1>2. client' \in Jars /\ client'.jar \in {client.jar, file}
  BY <1>1, PrimedClient DEF WriteInv
<1> USE WriteAssumption DEF WriteInv, TypeOK, Progress, FileLocks, Seeded, OkMeansActive, FailureTold,
      LockCarried, LockGivenBack, Clients, Jars, CallRecords, Answers
<1>3. CASE object.exists /\ pc' = "token" /\ UNCHANGED call
  BY <1>1, <1>2, <1>3
<1>4. CASE Said("not_saved")
  BY <1>1, <1>2, <1>4 DEF Said
<1> QED BY <1>1, <1>3, <1>4

\* The sequence starts with everything the cookie file holds.
LEMMA TokenStep ==
  ASSUME WriteInv, Token
  PROVE  WriteInv'
<1>1. client' \in Jars /\ client'.jar \in {client.jar, file} /\ client'.seed = file
  BY ReadyClient DEF Token, WriteInv
<1>2. pc = "token" /\ pc' = "lock" /\ UNCHANGED <<file, alive, owner, left, object>>
  BY DEF Token, Goto
<1> USE WriteAssumption DEF WriteInv, TypeOK, Progress, FileLocks, Seeded, OkMeansActive, FailureTold,
      LockCarried, LockGivenBack, Clients, Jars, CallRecords, Answers
<1>3. call' \in CallRecords /\ call'.says = call.says /\ call'.made = call.made
  BY <1>1 DEF Token
<1>4. ~call'.disturbed
  BY DEF Token
<1> QED BY <1>1, <1>2, <1>3, <1>4

\* The lock is taken by the session the client is in from then on, rotated or not.
LEMMA LockStep ==
  ASSUME WriteInv, Lock
  PROVE  WriteInv'
<1>1. PICK k \in Outcomes(client, call.token) :
        \/ /\ k.jar \in alive
           /\ (client' = k /\ UNCHANGED alive) \/ Rotates(k)
           /\ owner' = client'.jar /\ left' = FALSE
           /\ pc' = "put" /\ UNCHANGED call
        \/ /\ k.jar \in alive /\ client' = k /\ UNCHANGED alive
           /\ owner' = k.jar /\ left' = TRUE
           /\ Said("not_saved")
        \/ client' = k /\ Said("locked") /\ UNCHANGED <<alive, owner, left>>
        \/ client' = k /\ Said("not_saved") /\ UNCHANGED <<alive, owner, left>>
  BY SaysStep DEF Lock, Goto, Answers
<1>2. pc = "lock" /\ UNCHANGED <<file, object>>
  BY DEF Lock
<1>3. /\ k \in Jars /\ k.jar \in {client.jar, file}
      /\ client.seed = file => k.jar = client.jar /\ k.seed = file
  BY SequenceClient DEF WriteInv
<1> USE WriteAssumption DEF WriteInv, TypeOK, Progress, FileLocks, Seeded, OkMeansActive, FailureTold,
      LockCarried, LockGivenBack, Clients, Jars, CallRecords, Answers
<1>4. CASE /\ k.jar \in alive /\ client' = k /\ UNCHANGED alive
           /\ owner' = client'.jar /\ left' = FALSE /\ pc' = "put" /\ UNCHANGED call
  <2>1. TypeOK'
    <3>1. client' \in Jars /\ alive' \in SUBSET Sessions BY <1>3, <1>4
    <3>2. owner' \in alive' \cup {None} /\ left' \in BOOLEAN BY <1>4
    <3>3. UNCHANGED <<file, object, call>> /\ pc' = "put" BY <1>2, <1>4
    <3> QED BY <3>1, <3>2, <3>3
  <2>2. Progress' /\ FileLocks' /\ Seeded' BY <1>2, <1>3, <1>4
  <2>3. OkMeansActive' /\ FailureTold' BY <1>2, <1>4
  <2>4. LockCarried' /\ LockGivenBack' BY <1>4
  <2> QED BY <2>1, <2>2, <2>3, <2>4
<1>5. CASE /\ k.jar \in alive /\ Rotates(k)
           /\ owner' = client'.jar /\ left' = FALSE /\ pc' = "put" /\ UNCHANGED call
  <2>1. PICK r \in Sessions \ InUse :
          client' = [k EXCEPT !.jar = r] /\ alive' = (alive \ {k.jar}) \cup {r}
    BY <1>5 DEF Rotates
  <2>2. r # file BY <2>1 DEF InUse
  <2>3. client' \in Jars /\ client'.jar = r /\ client'.seed = k.seed
    BY <1>3, <2>1
  <2>4. TypeOK'
    <3>1. client' \in Jars /\ alive' \in SUBSET Sessions BY <2>1, <2>3
    <3>2. owner' \in alive' \cup {None} /\ left' \in BOOLEAN BY <1>5, <2>1, <2>3
    <3>3. UNCHANGED <<file, object, call>> /\ pc' = "put" BY <1>2, <1>5
    <3> QED BY <3>1, <3>2, <3>3
  <2>5. Progress' /\ FileLocks' /\ Seeded' BY <1>2, <1>3, <1>5, <2>1, <2>2, <2>3
  <2>6. OkMeansActive' /\ FailureTold' BY <1>2, <1>5
  <2>7. LockCarried' /\ LockGivenBack' BY <1>5
  <2> QED BY <2>4, <2>5, <2>6, <2>7
<1>6. CASE client' = k /\ Said("locked") /\ UNCHANGED <<alive, owner, left>>
  BY <1>2, <1>3, <1>6 DEF Said
<1>7. CASE client' = k /\ Said("not_saved") /\ UNCHANGED <<alive, owner, left>>
  BY <1>2, <1>3, <1>7 DEF Said
<1>8. CASE /\ k.jar \in alive /\ client' = k /\ UNCHANGED alive
           /\ owner' = k.jar /\ left' = TRUE /\ Said("not_saved")
  BY <1>2, <1>3, <1>8 DEF Said
<1> QED BY <1>1, <1>4, <1>5, <1>6, <1>7, <1>8

\* The put, whatever its answer, leaves the lock where it was.
LEMMA PutStep ==
  ASSUME WriteInv, Put
  PROVE  WriteInv'
<1>1. /\ pc = "put" /\ pc' = "unlock" /\ UNCHANGED <<file, alive, owner, left>>
      /\ object' = object \/ Stores
      /\ \/ Stores /\ UNCHANGED call
         \/ \E expired \in BOOLEAN : PutFails(expired)
  BY DEF Put, Goto
<1>2. /\ client' \in Jars /\ client'.jar \in {client.jar, file}
      /\ client.seed = file => client'.jar = client.jar /\ client'.seed = file
  BY SequenceClient DEF Put, WriteInv
<1> USE WriteAssumption DEF WriteInv, TypeOK, Progress, FileLocks, Seeded, OkMeansActive, FailureTold,
      LockCarried, LockGivenBack, Clients, Jars, CallRecords, Answers
<1>3. /\ call' \in CallRecords /\ call'.made = call.made /\ call'.disturbed = call.disturbed
      /\ \/ Stores /\ call'.says = "none"
         \/ call'.says = "not_saved"
  BY <1>1 DEF PutFails
<1>4. /\ object' \in [exists : BOOLEAN, stored : BOOLEAN, active : BOOLEAN]
      /\ object'.exists = object.exists
      /\ call'.says = "none" => object'.stored
  BY <1>1, <1>3 DEF Stores
<1> QED BY <1>1, <1>2, <1>3, <1>4

\* The unlock gives back the lock or remembers that it was left, unless the client has left
\* the session that holds it; then it is the lock of a session that is in no cookie file.
LEMMA UnlockStep ==
  ASSUME WriteInv, Unlock
  PROVE  WriteInv'
<1>1. /\ pc = "unlock" /\ UNCHANGED <<file, alive, object>>
      /\ \/ owner' = None /\ left' = FALSE
         \/ owner # client'.jar /\ UNCHANGED <<owner, left>>
         \/ UNCHANGED owner /\ left' = TRUE
      /\ \/ call.says = "none" /\ pc' = "activate" /\ UNCHANGED call
         \/ call.says = "none" /\ Said("saved")
         \/ call.says # "none" /\ (Said("not_saved") \/ Said("stale"))
  <2>1. call.expired \in BOOLEAN
    BY DEF WriteInv, TypeOK
  <2> QED BY <2>1, SaysStep DEF Unlock, Unlocks, Goto, Answers
<1>2. client' \in Jars /\ client'.jar \in {client.jar, file}
  BY SequenceClient DEF Unlock, WriteInv
<1> USE WriteAssumption DEF WriteInv, TypeOK, Progress, FileLocks, Seeded, OkMeansActive, FailureTold,
      LockCarried, LockGivenBack, Clients, Jars, CallRecords, Answers
<1>3. /\ owner' = client'.jar => left'
      /\ owner' = file => owner' = client'.jar
      /\ owner' \in {owner, None} /\ left' \in BOOLEAN
  <2>1. None \notin {file, client'.jar} BY <1>2
  <2>2. CASE owner' = None /\ left' = FALSE BY <2>1, <2>2
  <2>3. CASE owner # client'.jar /\ UNCHANGED <<owner, left>> BY <1>2, <2>3
  <2>4. CASE UNCHANGED owner /\ left' = TRUE BY <1>2, <2>4
  <2> QED BY <1>1, <2>2, <2>3, <2>4
<1>4. CASE call.says = "none" /\ pc' = "activate" /\ UNCHANGED call
  BY <1>1, <1>2, <1>3, <1>4
<1>5. CASE call.says = "none" /\ Said("saved")
  BY <1>1, <1>2, <1>3, <1>5 DEF Said
<1>6. CASE Said("not_saved") \/ Said("stale")
  BY <1>1, <1>2, <1>3, <1>6 DEF Said
<1> QED BY <1>1, <1>4, <1>5, <1>6

\* Only what is stored becomes active, and only then the answer is OK.
LEMMA ActivateStep ==
  ASSUME WriteInv, Activate
  PROVE  WriteInv'
<1>1. /\ pc = "activate" /\ UNCHANGED <<file, alive, owner, left>>
      /\ \/ Activates /\ (Said("ok") \/ Said("not_active"))
         \/ UNCHANGED object /\ Said("not_active")
  BY SaysStep DEF Activate, Answers
<1>2. client' \in Jars /\ client'.jar \in {client.jar, file}
  BY PostedClient DEF Activate, WriteInv
<1> USE WriteAssumption DEF WriteInv, TypeOK, Progress, FileLocks, Seeded, OkMeansActive, FailureTold,
      LockCarried, LockGivenBack, Clients, Jars, CallRecords, Answers
<1>3. CASE Activates /\ (Said("ok") \/ Said("not_active"))
  BY <1>1, <1>2, <1>3 DEF Activates, Said
<1>4. CASE UNCHANGED object /\ Said("not_active")
  BY <1>1, <1>2, <1>4 DEF Said
<1> QED BY <1>1, <1>3, <1>4

\* Logins and reads beside the call, and sessions that expire.
LEMMA BesideStep ==
  ASSUME WriteInv, WorkerLogin \/ WorkerReads \/ Expire
  PROVE  WriteInv'
<1> USE WriteAssumption DEF WriteInv, TypeOK, Progress, FileLocks, Seeded, OkMeansActive, FailureTold,
      LockCarried, LockGivenBack, Clients, Jars, CallRecords, Answers
<1>1. CASE WorkerLogin
  <2>1. /\ file' \in Clients /\ (file' # file => file' # owner)
        /\ alive \subseteq alive' /\ alive' \in SUBSET Sessions
    BY <1>1, LoginFile DEF WorkerLogin
  <2>2. CASE pc \in {"lock", "put", "unlock"}
    <3>1. /\ call' \in CallRecords /\ call'.disturbed
          /\ call'.says = call.says /\ call'.made = call.made
      BY <1>1, <2>2 DEF WorkerLogin
    <3>2. UNCHANGED <<client, owner, left, object, pc>>
      BY <1>1 DEF WorkerLogin
    <3> QED BY <2>1, <2>2, <3>1, <3>2
  <2>3. CASE pc \notin {"lock", "put", "unlock"}
    BY <1>1, <2>1, <2>3 DEF WorkerLogin
  <2> QED BY <2>2, <2>3
<1>2. CASE WorkerReads
  <2>1. /\ client' \in Jars /\ client'.jar \in {client.jar, file} /\ client'.seed = file
        /\ client.seed = file => client'.jar = client.jar
    BY <1>2, PrimedClient DEF WorkerReads
  <2> QED BY <1>2, <2>1 DEF WorkerReads
<1>3. CASE Expire BY <1>3 DEF Expire
<1> QED BY <1>1, <1>2, <1>3

-------------------------------------------------------------------------------
\* Every reachable state satisfies the inductive invariant.
THEOREM Invariance == Spec => []WriteInv
<1>1. Init => WriteInv
  BY InitInv
<1>2. WriteInv /\ [Next]_vars => WriteInv'
  <2> SUFFICES ASSUME WriteInv, [Next]_vars PROVE WriteInv'
    OBVIOUS
  <2>1. CASE Next
    BY <2>1, KeeperStep, CreateStep, PackageStep, TokenStep, LockStep, PutStep, UnlockStep,
       ActivateStep, BesideStep DEF Next, Proceed
  <2>2. CASE UNCHANGED vars
    BY <2>2 DEF vars, WriteInv, TypeOK, Progress, FileLocks, Seeded, OkMeansActive, FailureTold,
       LockCarried, LockGivenBack
  <2> QED BY <2>1, <2>2
<1> QED BY <1>1, <1>2, PTL DEF Spec

\* The state keeps its types: among others the lock never stays with a dead session, and a
\* token is cached only if one was fetched.
THEOREM TypeCorrect == Spec => []TypeOK
BY Invariance, PTL DEF WriteInv

\* OK is answered only when the source of the call is stored and active, whatever expired,
\* was renewed or was retried on the way.
THEOREM OkIsTrue == Spec => []OkMeansActive
BY Invariance, PTL DEF WriteInv

\* An error that says what has been created or stored is right about it.
THEOREM FailuresAreTrue == Spec => []FailureTold
BY Invariance, PTL DEF WriteInv

\* Nothing but a login beside the call parts the client from the session holding its lock.
THEOREM LockFollows == Spec => []LockCarried
BY Invariance, PTL DEF WriteInv

\* No lock is left in the client's session but one that SAP was asked to give back and did
\* not, or that it granted without its answer arriving.
THEOREM LockReturned == Spec => []LockGivenBack
BY Invariance, PTL DEF WriteInv
=============================================================================
