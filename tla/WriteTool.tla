----------------------------- MODULE WriteTool -----------------------------
(***************************************************************************)
(* create_object and update_source under SessionKeeper.call: the tools     *)
(* that write to a tenant, over the one httpx client they all share        *)
(* (server.py:87-157, adt_client.py:1195-1252, 2399-2769), for one object  *)
(* of one system with cookies and stored credentials.                      *)
(*                                                                         *)
(* Tools without async run on the event loop, one at a time; logins and    *)
(* the requests of async tools and of the web admin run beside them, in    *)
(* worker threads.  An action is one request and its answer, with the one  *)
(* retry a rejected CSRF token gets, and any answer may get lost.  A       *)
(* token, a jar and a cookie file are known by the SAP session they belong *)
(* to; a rotated id arrives with an answer.  The object is known by what   *)
(* matters to the call: does it exist, is the call's source the one that   *)
(* is stored, and the one that is active.  Nobody else edits it meanwhile. *)
(***************************************************************************)

CONSTANTS
  Sessions,   \* SAP sessions; a name nobody refers to is used again
  NoSession,  \* no cookies at all
  Faults,     \* what may go wrong
  None

ASSUME WriteAssumption ==
  /\ NoSession \notin Sessions
  /\ None \notin Sessions \cup {NoSession}
  /\ Faults \subseteq {"expiry", "rotation", "login_fails", "refused", "lost", "workers"}

VARIABLES
  file,    \* the session in the system's cookie file
  client,  \* the shared client: cookie jar, what it was seeded with, cached CSRF token
  alive,   \* SAP's side: sessions that have not expired
  owner,   \* SAP's side: the session that holds the edit lock
  left,    \* is that lock one that a LOCK or UNLOCK without a good answer has left?
  object,  \* SAP's side: what has become of the object
  pc,      \* where the event loop is
  call     \* the call it is in

vars == <<file, client, alive, owner, left, object, pc, call>>

Clients == Sessions \cup {NoSession}

\* What a tool function says, by what has become of the object.
Answers == {"none", "unknown", "not_created", "exists", "locked", "not_saved", "stale",
            "saved", "not_active", "ok"}

TypeOK ==
  /\ file \in Clients
  /\ client \in [jar : Clients, seed : Clients \cup {None}, csrf : Sessions \cup {None}]
  /\ alive \in SUBSET Sessions
  /\ owner \in alive \cup {None}
  /\ left \in BOOLEAN
  /\ object \in [exists : BOOLEAN, stored : BOOLEAN, active : BOOLEAN]
  /\ pc \in {"idle", "probe", "renew", "create", "package", "token", "lock", "put", "unlock",
             "activate", "answered", "again"}
  /\ call \in [creates : BOOLEAN, activates : BOOLEAN, made : BOOLEAN, token : Sessions \cup {None},
               disturbed : BOOLEAN, refreshed : BOOLEAN, says : Answers, expired : BOOLEAN]

NoCall == [creates |-> FALSE, activates |-> TRUE, made |-> FALSE, token |-> None,
           disturbed |-> FALSE, refreshed |-> FALSE, says |-> "none", expired |-> FALSE]

Init ==
  /\ file = NoSession
  /\ client = [jar |-> NoSession, seed |-> None, csrf |-> None]
  /\ alive = {} /\ owner = None /\ left = FALSE
  /\ object \in [exists : BOOLEAN, stored : {FALSE}, active : {FALSE}]
  /\ pc = "idle" /\ call = NoCall

-----------------------------------------------------------------------------
(* Sessions, cookies and tokens *)

InUse == {file, client.jar, client.seed, client.csrf, call.token, owner}

\* Mutant of Jar: the cookie file is loaded again for every request.
JarReloaded == IF file # NoSession THEN file ELSE client.jar

\* _prime_cookies: the session of a cookie file that has changed since the last look
\* replaces the one in the jar, unless the file is empty ...
Jar == IF file \notin {client.seed, NoSession} THEN file ELSE client.jar

\* ... and the cached token goes.
Primed ==
  [jar |-> Jar, seed |-> file, csrf |-> IF file = client.seed THEN client.csrf ELSE None]

\* Mutant of Fetched: what the answer carries is cached, though it may be no token.
FetchedAnything(k) == [k EXCEPT !.csrf = k.jar]

\* _csrf_token: a token is cached if the answer carries one.
Fetched(k) == IF k.jar \in alive THEN [k EXCEPT !.csrf = k.jar] ELSE k

\* The client once its request with token t is carried out.  The token of another session
\* is rejected, and a fresh one fetched, cookies and all; a dead session rejects the
\* token, or answers with a login page or a redirect.
Outcomes(k, t) ==
  {o \in {k, Fetched(Primed)} :
     \/ k.jar \notin alive
     \/ o = k /\ t = k.jar
     \/ o = Fetched(Primed) /\ t # k.jar}

\* _post: cookies first, then the cached token or a new one.
Ready == IF Primed.csrf # None THEN Primed ELSE Fetched(Primed)
Posted == Outcomes(Ready, Ready.csrf)

\* A login mints a session and writes it to the cookie file; it may expire at once.
Login == \E s \in Sessions \ InUse : file' = s /\ alive' = alive \cup {s}

\* No cookies captured, and the file overwritten all the same.
LoginFails == "login_fails" \in Faults /\ file' \in {file, NoSession} /\ UNCHANGED alive

Goto(where) == pc' = where

\* The tool function, of the keeper's first attempt or its second.
First == IF call.creates THEN "create" ELSE "package"

\* It returns; expired tells whether looks_expired finds an expired session in its text.
\* Once create_object has made the object, a failure says so (adt_client.py:2758-2766).
Says(what, expired) ==
  /\ call' = [call EXCEPT !.expired = expired, !.token = None, !.disturbed = FALSE,
                          !.says = IF call.made /\ what # "ok" THEN "exists" ELSE what]
  /\ Goto("answered")

\* A request session s did not grant; that of a dead one may, or may not, name the expiry.
Refused(s) == s \notin alive \/ "refused" \in Faults
Names(s, expired) == expired => s \notin alive

-----------------------------------------------------------------------------
(* SessionKeeper.call *)

Begin ==
  /\ pc = "idle"
  /\ \E creates, activates \in BOOLEAN :
       /\ creates => activates
       /\ call' = [NoCall EXCEPT !.creates = creates, !.activates = activates]
       /\ pc' \in {"probe", IF creates THEN "create" ELSE "package"}
  /\ object' = [object EXCEPT !.stored = FALSE, !.active = FALSE]
  /\ UNCHANGED <<file, client, alive, owner, left>>

\* test_connection after IDLE_SECONDS: only a login page, a 401 or a 403 leads to a login.
Probe ==
  /\ pc = "probe"
  /\ client' = Primed
  /\ \/ Primed.jar \in alive \/ "lost" \in Faults
     \/ Primed.jar \notin alive
  /\ pc' \in {First} \cup (IF Primed.jar \in alive THEN {} ELSE {"renew"})
  /\ UNCHANGED <<file, alive, owner, left, object, call>>

Renew ==
  /\ pc = "renew"
  /\ Login \/ LoginFails
  /\ call' = [call EXCEPT !.refreshed = TRUE]
  /\ Goto(First)
  /\ UNCHANGED <<client, owner, left, object>>

\* Mutant of Return: every expired answer is worth another login.
ReturnUnexpired ==
  /\ pc = "answered"
  /\ ~call.expired
  /\ Goto("idle") /\ call' = NoCall
  /\ UNCHANGED <<file, client, alive, owner, left, object>>

\* No expired session, or the one login of this call has been spent.
Return ==
  /\ pc = "answered"
  /\ ~call.expired \/ call.refreshed
  /\ Goto("idle") /\ call' = NoCall
  /\ UNCHANGED <<file, client, alive, owner, left, object>>

RenewAndRetry ==
  /\ pc = "answered"
  /\ call.expired /\ ~call.refreshed
  /\ \/ Login /\ call' = [call EXCEPT !.refreshed = TRUE] /\ Goto("again")
     \/ LoginFails /\ call' = NoCall /\ Goto("idle")
  /\ UNCHANGED <<client, owner, left, object>>

Again ==
  /\ pc = "again"
  /\ call' = [call EXCEPT !.made = FALSE, !.says = "none", !.expired = FALSE]
  /\ Goto(First)
  /\ UNCHANGED <<file, client, alive, owner, left, object>>

-----------------------------------------------------------------------------
(* create_object *)

Create ==
  /\ pc = "create"
  /\ \E k \in Posted :
       /\ client' = k
       /\ \/ /\ k.jar \in alive /\ ~object.exists
             /\ object' = [object EXCEPT !.exists = TRUE]
             /\ \/ call' = [call EXCEPT !.made = TRUE] /\ Goto("package")
                \/ "lost" \in Faults /\ Says("unknown", FALSE)
          \/ /\ Refused(k.jar) \/ object.exists
             /\ \E expired \in BOOLEAN : Names(k.jar, expired) /\ Says("not_created", expired)
             /\ UNCHANGED object
  /\ UNCHANGED <<file, alive, owner, left>>

-----------------------------------------------------------------------------
(* update_source *)

\* object_package answers None of whatever goes wrong, so the gate refuses, and says
\* nothing of an expired session.
Package ==
  /\ pc = "package"
  /\ client' = Primed
  /\ \/ /\ Primed.jar \in alive /\ object.exists
        /\ Goto("token") /\ UNCHANGED call
     \/ /\ Primed.jar \notin alive \/ ~object.exists \/ "lost" \in Faults
        /\ Says("not_saved", FALSE)
  /\ UNCHANGED <<file, alive, owner, left, object>>

\* SAP gives the session k is in another id, and the jar follows.
Rotates(k) ==
  /\ "rotation" \in Faults
  /\ \E r \in Sessions \ InUse :
       /\ client' = [k EXCEPT !.jar = r]
       /\ alive' = (alive \ {k.jar}) \cup {r}

\* _edit_sequence asks for a token and primes the jar; from here on the jar decides.
Token ==
  /\ pc = "token"
  /\ client' = Ready
  /\ call' = [call EXCEPT !.token = Ready.csrf, !.disturbed = FALSE]
  /\ Goto("lock")
  /\ UNCHANGED <<file, alive, owner, left, object>>

\* The answer that got lost may be that of a LOCK which SAP has granted.
Lock ==
  /\ pc = "lock"
  /\ \E k \in Outcomes(client, call.token) :
       \/ /\ k.jar \in alive /\ owner \in {None, k.jar}
          /\ \/ client' = k /\ UNCHANGED alive
             \/ Rotates(k)
          /\ owner' = client'.jar /\ left' = FALSE
          /\ Goto("put") /\ UNCHANGED call
       \/ /\ "lost" \in Faults
          /\ k.jar \in alive /\ owner \in {None, k.jar}
          /\ client' = k
          /\ owner' = k.jar /\ left' = TRUE
          /\ Says("not_saved", FALSE) /\ UNCHANGED alive
       \/ /\ k.jar \in alive /\ owner \notin {None, k.jar}
          /\ client' = k
          /\ Says("locked", FALSE) /\ UNCHANGED <<alive, owner, left>>
       \/ /\ Refused(k.jar)
          /\ client' = k
          /\ \E expired \in BOOLEAN : Names(k.jar, expired) /\ Says("not_saved", expired)
          /\ UNCHANGED <<alive, owner, left>>
  /\ UNCHANGED <<file, object>>

Stores == object' = [object EXCEPT !.stored = TRUE]

\* put_err, kept for the answer: a 401 or 403 of any kind is said to be an expired session.
PutFails(expired) == call' = [call EXCEPT !.says = "not_saved", !.expired = expired]

\* Mutant of Put: a login page is as good as any other 200.
PutAnything ==
  /\ pc = "put"
  /\ \E k \in Outcomes(client, call.token) :
       /\ client' = k
       /\ \/ k.jar \in alive /\ owner = k.jar /\ Stores
          \/ k.jar \notin alive /\ UNCHANGED object
  /\ Goto("unlock")
  /\ UNCHANGED <<file, alive, owner, left, call>>

\* A source is stored only in the session that holds the lock.
Put ==
  /\ pc = "put"
  /\ \E k \in Outcomes(client, call.token) :
       /\ client' = k
       /\ \/ k.jar \in alive /\ owner = k.jar /\ Stores /\ UNCHANGED call
          \/ "lost" \in Faults /\ (Stores \/ UNCHANGED object) /\ PutFails(FALSE)
          \/ /\ Refused(k.jar) \/ owner # k.jar
             /\ \E expired \in BOOLEAN : (expired => Refused(k.jar)) /\ PutFails(expired)
             /\ UNCHANGED object
  /\ Goto("unlock")
  /\ UNCHANGED <<file, alive, owner, left>>

\* Mutant of Unlock: only a source that was stored is unlocked again.
UnlockStored ==
  /\ pc = "unlock"
  /\ IF call.says # "none"
       THEN Says("not_saved", call.expired) /\ UNCHANGED <<client, owner>>
       ELSE /\ client' \in Outcomes(client, call.token)
            /\ owner' = IF owner = client'.jar THEN None ELSE owner
            /\ Goto("activate") /\ UNCHANGED call
  /\ UNCHANGED <<file, alive, left, object>>

\* What becomes of the lock when client k asks SAP to give it back, and whether the answer
\* confirms it.  A request without a lock to give back may be answered in any way.
Unlocks(k, confirmed) ==
  \/ owner = k.jar /\ confirmed /\ owner' = None /\ left' = FALSE
  \/ owner # k.jar /\ UNCHANGED <<owner, left>>
  \/ /\ "lost" \in Faults
     /\ owner = k.jar /\ ~confirmed /\ owner' = None /\ left' = FALSE
  \/ /\ Faults \cap {"lost", "refused"} # {}
     /\ owner = k.jar /\ ~confirmed /\ UNCHANGED owner /\ left' = TRUE

\* The lock is asked back whatever the put has answered.  Not being confirmed matters to
\* the answer only if the put failed.
Unlock ==
  /\ pc = "unlock"
  /\ \E k \in Outcomes(client, call.token), confirmed \in BOOLEAN :
       /\ client' = k
       /\ Unlocks(k, confirmed)
       /\ \/ /\ call.says = "none" /\ call.activates
             /\ Goto("activate") /\ UNCHANGED call
          \/ /\ call.says = "none" /\ ~call.activates
             /\ Says("saved", FALSE)
          \/ /\ call.says # "none"
             /\ Says(IF confirmed THEN "not_saved" ELSE "stale", call.expired)
  /\ UNCHANGED <<file, alive, object>>

Activates == object' = [object EXCEPT !.active = object.stored]

\* Mutant of Activate: the HTML of a login page is a log without messages.
ActivateAnything ==
  /\ pc = "activate"
  /\ \E k \in Posted :
       /\ client' = k
       /\ IF k.jar \in alive THEN Activates ELSE UNCHANGED object
  /\ Says("ok", FALSE)
  /\ UNCHANGED <<file, alive, owner, left>>

Activate ==
  /\ pc = "activate"
  /\ \E k \in Posted :
       /\ client' = k
       /\ \/ k.jar \in alive /\ Activates /\ Says("ok", FALSE)
          \/ /\ "lost" \in Faults /\ k.jar \in alive
             /\ Activates /\ Says("not_active", FALSE)
          \/ /\ Refused(k.jar)
             /\ \E expired \in BOOLEAN : Names(k.jar, expired) /\ Says("not_active", expired)
             /\ UNCHANGED object
  /\ UNCHANGED <<file, alive, owner, left>>

-----------------------------------------------------------------------------
(* Beside the event loop *)

\* refresh_cookies_for and the web admin log in.
WorkerLogin ==
  /\ "workers" \in Faults
  /\ Login \/ LoginFails
  /\ call' = IF pc \in {"lock", "put", "unlock"} THEN [call EXCEPT !.disturbed = TRUE] ELSE call
  /\ UNCHANGED <<client, owner, left, object, pc>>

\* debug_set_breakpoint reads a source, the web admin tests a connection.
WorkerReads ==
  /\ "workers" \in Faults
  /\ client' = Primed
  /\ UNCHANGED <<file, alive, owner, left, object, pc, call>>

\* SAP drops a session, and the lock it holds with it.
Expire ==
  /\ "expiry" \in Faults
  /\ \E s \in alive :
       /\ alive' = alive \ {s}
       /\ owner' = IF owner = s THEN None ELSE owner
       /\ left' = (left /\ owner # s)
  /\ UNCHANGED <<file, client, object, pc, call>>

-----------------------------------------------------------------------------
Proceed ==
  \/ Probe \/ Renew \/ Return \/ RenewAndRetry \/ Again
  \/ Create \/ Package \/ Token \/ Lock \/ Put \/ Unlock \/ Activate

Next == Begin \/ Proceed \/ WorkerLogin \/ WorkerReads \/ Expire

Spec == Init /\ [][Next]_vars

\* The event loop runs, and every request and every login comes back.
FairSpec == Spec /\ WF_vars(Proceed)

-----------------------------------------------------------------------------
\* OK means the source is stored and active (test_activate_on_login_page_is_session_
\* expired_not_ok): whatever expires, is renewed or retried on the way, what the tenant
\* runs is what the call has written.
OkMeansActive ==
  call.says = "ok" =>
    object.exists /\ object.stored /\ object.active

\* "The source is already stored at this point ... say that instead of a bare error"
\* (adt_client.py:228-237), "The object EXISTS now" (adt_client.py:2763-2765): what an
\* error says has happened has happened, in this attempt or an earlier one.
FailureTold ==
  /\ call.says \in {"saved", "not_active"} => object.stored
  /\ call.says = "exists" => object.exists

\* "a session-id the server rotates mid-sequence ... is carried into the following
\* PUT/UNLOCK" (adt_client.py:2401-2403): until the sequence is over the client stays in
\* the session that took the lock, unless somebody logs in meanwhile.
LockCarried ==
  pc \in {"put", "unlock"} /\ owner # None /\ ~call.disturbed => owner = client.jar

\* Outside the sequence the client's session holds no lock, however the put went, but one
\* whose LOCK was never answered, or whose UNLOCK failed although it was asked for in the
\* session that holds the lock: what "may remain locked" (adt_client.py:2643-2646) warns of
\* is SAP's doing.  The client never goes back to a session that it has left locked.
LockGivenBack == pc \notin {"put", "unlock"} /\ owner = client.jar => left

\* "One login attempt per call" (server.py:147-148): a call comes back even if every login
\* works and no session it mints is any good.
CallEnds == pc # "idle" ~> pc = "idle"

\* "The failing request wrote nothing, so a retry after re-login is safe"
\* (server.py:74-76): what SessionKeeper calls again has not created its object yet.
RetryIsSafe == pc = "again" => ~call.made
=============================================================================
