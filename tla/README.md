# adt-mcp in TLA+

adt-mcp is an MCP server through which an agent works on SAP systems: it reads and writes ABAP
objects over ADT's REST interface and drives ABAP's external debugger. These modules model the parts
of `src/src/adt_mcp` in which order, failure and concurrency matter, check them with TLC on small
instances and prove what matters most with TLAPS for every instance. Line numbers refer to the files
under `src/src/adt_mcp` unless a path says otherwise.

## The system

One process. FastMCP runs a tool without `async` on the event loop thread, one at a time; the
debugger tools and `refresh_cookies_for` are `async` and run their work in worker threads
(server.py:629-633, 592), as do the web admin's logins and connection tests. On top of that there
is one listener thread and at most one run thread per system, and a short-lived thread per automatic
login.

| component | state it keeps | operations | interacts with |
|---|---|---|---|
| `DebugManager` (debug_session.py) | per system a `_State`: listener thread, `starting`, `stop`, `polling`, debuggee, `attached`, error, `timed_out`, the background run's thread, text and `waiting` flag, remembered breakpoint ids; `_guard` | start_listen, stop, attach, run_attached, run_control, release, poll, run_and_wait, take_run_output, remember/forget, close_all | the pool, for a session per channel; the debugger protocol |
| `DebugSessionPool`, `DebugSession` (debug_pool.py) | a session per (system, channel), a lock per channel, `_create_lock`, the ABAP user | session, get_existing, identity, lock, invalidate, close_all | cookie files, browser logins, SAP |
| debugger protocol (debugger.py) | none | XML of listeners, breakpoints, stack, variables, steps; their parsers | SAP |
| debugger tools (server.py:602-885) | none | debug_*, run_class | `DebugManager` |
| `ADTClient` (adt_client.py) | one httpx client for everything: cookie jar, what it was seeded with, CSRF token per system | the reading tools (server.py:201-520), create_object, update_source, update_class_include, activate, clone_package, get_context | cookie files, SAP |
| `SessionKeeper` (server.py:87-157) | when each system was used last, `_lock` | call: probe, log in, run the tool, log in and run it again | every tool without `async`, logins |
| cookie login (cookie_refresh.py) | cookie files, a persistent browser profile | refresh_cookies, interactive_login, capture from a running Chrome | the browser |
| `SystemRegistry` (registry.py), web admin (server.py:887-1017) | the table of systems, `systems.json` | list, get, upsert, delete; the admin routes | all tools |
| entry point (`__main__.py`) | none | serve; close_all in `finally` and at exit | `DebugManager` |

What is hard, and what has to hold:

- **Debugging sessions.** A listener waits up to a minute per round in a request that holds the DEBUG
  session; tools, `stop`, `release` and the shutdown want the same session, join the thread with a
  time limit of 35 s, and write the same fields. One request at a time on a session; one listener;
  no program left stopped on the tenant (it holds one of its few work processes); `poll` never says
  idle while a program is stopped; whoever waits comes back.
- **Background runs.** A program started by `run_class` that stops at a breakpoint keeps its request
  until somebody attaches, and its text may be collected by three tools. Exactly one gets it.
- **Breakpoints.** SAP offers no list, so an id that is forgotten cannot be deleted.
- **Session pool.** Two locks, logins of minutes held under one of them, two or three channels that
  must not share a SAP session, cookies read once.
- **Writes.** A lock, put, unlock, activate sequence whose lock belongs to a session that SAP may
  rotate, that may expire and that other threads may replace in the shared jar, under a keeper that
  calls everything a second time. What the tool answers must be what has happened.
- **Registry.** Case-insensitive reads with case-sensitive writes; a file that is rewritten in place.
- **Cloning and context.** Multi-step algorithms over data: partial failures, a bounded closure.

`PROJECT.json` lists every hazard at its line, with the properties that cover it or why none does.

## The modules

| module | models | |
|---|---|---|
| `DebugLifecycle` | what a debug session promises: the states `poll` names and the moves between them | abstract |
| `DebugSession` | `DebugManager` for one system but for runs and breakpoints | implements `DebugLifecycle` |
| `MCDebugSession` | instances of it (symmetry) | |
| `DebugSessionProofs` | theorems about it | |
| `RunOutput` | background runs | |
| `RunOutputProofs` | theorems about it | |
| `Breakpoints` | breakpoint tools, remembered ids, the shutdown's deletes | |
| `BreakpointsProofs` | theorems about it | |
| `SessionPool`, `MCSessionPool` | the pool for one system with cookies, and an instance | |
| `SessionPoolProofs` | theorems about it | |
| `WriteTool` | create_object and update_source under the keeper, on the shared client | |
| `WriteToolProofs` | theorems about it | |
| `Registry` | the table of systems, `systems.json`, the admin routes, restarts, editing by hand | |
| `RegistryProofs` | theorems about it | |
| `ClonePackage`, `MCClonePackage` | clone_package over several calls, and the package it is checked on | |
| `ClonePackageProofs` | theorems about `ClonePackage` | |
| `Context`, `MCContext` | the expansion of get_context, and its symmetry | |
| `ContextProofs` | theorems about `Context` | |

Systems never meet: `_states`, the pool, the seed and the token cache are keyed by system name, so each
module about them is about one. `Registry` is about all of them; `ClonePackage` reads one and writes one, which may be the same.

**Granularity.** In the concurrent modules an action is the code between two points at which another
thread can be told apart: it ends where the code takes or gives up a lock, waits, sends a request,
starts or joins a thread, or reads shared state it will act on later. A request is two actions,
sending and answer, so everything else can happen while it is out. `poll` is three actions since it
reads three times without a lock; the sections under `_guard` and `run_lock` that touch a run's fields do not exclude each
other, so in `RunOutput` each is an action per read and write. `WriteTool` is coarser: its tools run on the event loop, which no
other tool interrupts, so an action is a request and its answer, including the retry with a fresh
CSRF token, and workers act between requests.

**`DebugSession`.** `st` is the `_State` record, `lpc` and `rem` the listener threads and their remaining
rounds, `pc` the worker threads (a tool call each) and the main thread, `lock` and `channel` what the
pool knows of the DEBUG session, `program` SAP's side. The actions are named after the methods:
`Listen...`, `Loop...`, `Stop...`, `Attach...`, `Use...` (any attached call), `Release...`, `Poll...`, `Close...`.
The listener sets `polling` (`LoopAcquire`) before its registration request goes out (`LoopRegister`): on a new session a
request for the CSRF token comes first (debug_pool.py:193-195). A join that expires, a `DebugError`, another exception while the session is built, a listener request
that fails, a lost answer, a failing detach and an abrupt exit are in the constant `Faults`.
`Disciplined` restricts callers to detaching what was caught before they listen again.

**`RunOutput`.** `rpc` is the run threads, `outcome` what `run_class` will answer, `given` counts to how many
callers a text was handed. `run_and_wait`'s section under `_guard` is `RunEnters`, `RunUnblocked`, `RunEmpties`, `RunClaims` and
`RunMakes`, that of `take_run_output` under `run_lock` is `CollectLooks`, `CollectChecks`, `CollectForgets` and `CollectTakes`. `stray`
remembers the runs that a poll has forgotten before they were over, and is not in the code. Listener and release are reduced to what a run can see of them.

**`Breakpoints`.** `armed` is SAP's side, `remembered` the list, `lost` what this process never knew (a lost
answer, a crash), `swallowed` what it knew and dropped without a word: the failed delete of a clear (server.py:717-719) or of the
shutdown, or a shutdown without a control session. `ClearWorks` is whether SAP drops our breakpoints when told an empty set, which the
code itself calls unmeasured.

**`SessionPool`.** A client is known by the SAP session it was built on. `create` and `lock` hold the locks'
holders; logins of `Admins` go past the pool.

**`WriteTool`.** `client` is jar, seed and token, each known by a SAP session; `owner` is the session holding
the edit lock, `left` whether that lock is there because LOCK was never answered or UNLOCK was refused or lost; `object` says whether the object exists and whether the call's source is what is stored
and what is active; `call` is the keeper's call. `call.disturbed` remembers a login beside the sequence,
`call.made` what create_object knows in its local control flow; these and `left` are not fields of the code.

**`Registry`.** `table` is `_systems` in its order, `file` what `systems.json` holds, as the dictionaries `to_dict`
writes, or `Torn` between the truncation and the end of a write. A name is a model value, `Alike` says
which of them `casefold` makes the same. A route changes the table and saves: three actions, since a full disk or the end of the
process can come between them; `api_login` is two more around its wait. `answered` is what the user was last told is stored, or wrote
by hand, and is not in the code. The actions are `api_upsert` (`Upsert`), `api_delete`, `api_login`, `_save` (`Open`, `Write`), `_load`
(`Start`).

**`ClonePackage`.** `target` is the target system, `todo`, `at`, `got`, `towrite` the loop's variables and
those of `_clone_one`, `result` the lines of the answer. An action is a request; each may fail, and a
creation or write may have happened when it does. A name is a stem and the number of suffixes on it, which is what decides whether
`rewrite_references`, replacing one name after the other in the same text, meets a name that it has
just written. `unread` remembers includes whose read failed, which the code takes for includes that are not there;
`lacks`, in a record of the target, which of them were unread when the object was made.

**`Context`.** `frontier`, `visited`, `count` are those of `_expand_cds_context`; `deps` is the tenant's graph, chosen
where a source is read for the first time, so every graph within the bounds is covered. The names in a source
come in any order. `Within`, which the properties use, is the reference definition: names at most so many dependencies away.

## The runs

Every run is exhaustive.

| run | instance | shows |
|---|---|---|
| `session_one_caller` | 1 caller, 2 thread objects, 2 debuggees (one cannot be attached), 2 rounds | with one disciplined caller: no listener behind the state's back (`NoZombie`), no program out of sight (`NoOrphan`), attached means attached (`OneSession`), an honest poll (`PollHonest`), a shutdown that releases (`ShutdownReleases`), no OK before the own listener's first round (`RoundBeforeOk`), every call returns, `DebugLifecycle` is implemented |
| `session_many_callers` | 2 callers, 2 thread objects, 1 debuggee, 1 round, builds that crash, joins that expire, failing detaches | in any interleaving: one request on the session (`ChannelExclusive`), one listen command starting (`OneStart`), no live listener replaced (`NoTakeover`) |
| `run_output` | 1 `run_class` at a time, 2 other callers, 3 runs | each text is delivered once and not past a call that waits for it (`DeliveredOnce`), to the right caller (`OwnOutput`), and is not lost (`NotLost`), but for what runs that a poll has forgotten do; `run_class` returns though its program is stopped |
| `breakpoints` | 2 callers, 3 ids, every fault | whatever is armed and was named to the process can be deleted (`Accounted`) and is by the shutdown (`ShutdownDeletes`), but what a clear, or the shutdown itself, has failed to delete |
| `session_pool` | 2 threads, 1 admin, 2 channels, 5 sessions | one client per channel is ever built, channels stay apart, locks are never waited for in a circle or left behind, a pooled session has named its user |
| `write_tool` | 4 sessions, every fault | OK means stored and active, errors are truthful, the lock is carried and, but for what an unanswered LOCK or UNLOCK leaves, given back, each call ends |
| `registry` | 3 names, 2 of them alike, 1 setting, 1 waiting login | a start serves what was last acknowledged (`Recovered`); the admin form loses no flag (`FlagsKept`) |
| `clone_package` | 7 objects, 2 calls, a second system or the same | what is called OK is whole and refers to the clones (`OkIsFaithful`), a clone without its source or without local classes that could be read is never active (`HalfIsInactive`), nothing older is changed (`OthersUntouched`) |
| `context` | 6 names, 2 mentions per source, depth 1 or 3, limit 3 or 5 | each dependency once (`AddedOnce`), all of them if the answer is not cut off (`Complete`), the nearest if it is (`NearestFirst`) |

**Bounds.** Two callers are enough for each check-then-act in the code (they are pairwise); two thread
objects for one in the state and one left behind, the most the code can tell apart at a time; two
rounds distinguish the first from the last; two debuggees the attachable from the other one. Three
breakpoint ids allow one forgotten, one in flight and one remembered. Three runs are one collected,
one pending and one accepted; `RoomForRun` keeps a fourth out until a name is free. Five sessions in `session_pool` are two files, two pooled clients and one
in hand; in rare states a login finds no free name, and then waits there. Four sessions in
`write_tool` are jar, file, lock owner and a new one. No other counter is bounded: thread objects,
breakpoint ids and sessions are reused once nobody refers to them. The package of `clone_package` has a
view and another that is the first with the suffix, a class with local classes and tests that mentions both, an interface whose name
is too long to be suffixed (`MaxSuffix`, for 30 characters), a namespaced service with its binding, and a data element, which is
skipped; a second call (`MaxRuns`) meets what the first has left. Six names with two mentions each (`MaxMentions`) are enough
for a circle, for two ways of different length to one name, and for a name just behind the depth or
the limit; limit 5 cuts nothing off. Three names with two alike are the least on which the exact and the
caseless match differ; a second setting or login would only repeat the first.

**Deadlock** is checked except in `clone_package`, `clone_include_lost` and `context`, where a call comes
to its end and nothing starts another.

**Not true in general.** `NoZombie`, `NoOrphan`, `OneSession`, `PollHonest`, `ShutdownReleases`, `RoundBeforeOk` and the steps
of `DebugLifecycle` do not hold when callers overlap, nor most of them when joins expire: a `stop` that read no thread while a `debug_listen` was building clears the new one, `attach`
checks before it takes the lock and sets `attached` after giving it up. The
code's documents claim them for one session driven by one agent, which is what the run assumes; the
theorems need only that calls do not overlap. `OwnOutput` needs the same of `run_class` calls, see below.

**What the properties exempt.** Some documents promise more than the code does, and the properties say what is left of it.
`RoundBeforeOk` does not ask that the registration is out. `OwnOutput` and `NotLost` exempt what runs in `stray` do, `Accounted` and
`ShutdownDeletes` what is in `lost` or `swallowed`, `LockGivenBack` a lock that is `left`; each of these
grows only in the steps that are to blame. The disagreements are listed below.

**Fairness.** `DebugSession`: worker threads, the listener and a shutdown that has begun proceed, since
threads are scheduled and every request has an HTTP timeout; nobody has to call a tool.
`RunOutput`: the same for run threads, the listener and whoever is inside `run_lock`. A waiting `run_class` asks for `run_lock` again
and again, gets it although others come before it, and its loop reaches its deadline (strong fairness of
its steps and of that one: they are enabled time and again); nobody has to let a stopped program go, to poll, or to detach. `WriteTool`: the event loop proceeds, every request and login comes back; workers
and expiries are free to go on for ever.

**Disagreements with the code.** Each is a run that finds a counterexample, and a finding:

| run | what happens |
|---|---|
| `run_stolen` | the run's thread is started outside `_guard`: two `run_class` calls, and one gets the other's text |
| `create_repeated` | the session expires after create_object has created the object: the keeper calls it again, it exists already, and the answer that said so is thrown away |
| `clone_include_lost` | the read of a class's local classes fails: the clone is made without them and called OK |

Other things the models show, or that were seen while modelling, without a run:

- An exception other than `DebugError` while a session is built leaves `starting` set, and no listen or attach is accepted
  any more (`session_one_caller` with `"build_crash"` in `Faults`: `Implements` fails).
- A second `debug_listen` forgets the program that the first one caught, and the shutdown leaves it stopped
  (`session_one_caller` with `Disciplined = FALSE`: `ShutdownReleases` fails).
- `debug_listen` may answer OK before its registration is out: the listener sets `polling` before it calls `listen`
  (debug_session.py:137-138), whose first request on a new session is one for a CSRF token. The comment at debug_session.py:156-159
  says the wait is "until the registration request has really gone out" and "a correctness condition".
- A poll that saw no `run_class` waiting (debug_session.py:343) may find the thread one has made meanwhile, not yet started, and
  forget it (345-346): `busy` is not answered while it runs, the next `run_class` is accepted beside it and may answer its text. Without
  `stray` in `OwnOutput` and `NotLost`, `run_output` finds both. Lines 289 and 345 read `run_thread` twice: one that is forgotten in between raises
  an `AttributeError` in `run_class`, which the model leaves out.
- `debug_clear_breakpoints` forgets an id although its delete failed (server.py:714-719), so the breakpoint stays armed, on no list, also after
  the shutdown. "They have to be remembered" (debug_session.py:63-66) and "The server deletes everything it set when it
  shuts down" (src/README.md:201-203) say otherwise. Without `swallowed` in them, `Accounted` and `ShutdownDeletes` fail.
- After a put that went through, an UNLOCK that was refused or lost is not mentioned: the answer is OK with the object
  locked (adt_client.py:2640-2647). Of a LOCK whose answer got lost the message says only that the request failed.
- A debugger session that expired stays in the pool, so logging in again, as the error advises
  (debug_pool.py:225-226), does not help before the server is restarted.
- `api_login` drops the safety flags of a system it finds, which `api_upsert` keeps on purpose. A hand edit made while the
  server is up is overwritten by the next save.
- `rewrite_references` looks for `\b` before a name; a name that begins with `/` has none, so references to
  namespaced objects stay as they are.
- clone_package asks `check_write` without an object name, so a system with `write_objects` set refuses every clone unless a
  pattern matches the empty name. `activate` asks nothing, though its docstring says it needs `allow_write` (server.py:548).
- The keeper recognises an expired session by the text of the answer: once clone_package has begun to clone, its answer does not
  begin with `Error:`, and update_source on an expired session finds no package and says that. Neither leads to a login.
- The entities of a behavior definition share `visited`, each with its own count: what was cut off under the first is not
  added under the second.
- `depth=0` is `depth=1`.

## The proofs

The assumptions are those of the modules' constants (`SessionAssumption`, `BreakpointAssumption`,
`PoolAssumption`, `WriteAssumption`, `RunAssumption`, `RegistryAssumption`, `CloneAssumption`: values that
the code tells apart are different, faults are those named, a listen has at least one round, a package has
one object per type and name, each with a main part, and only classes have others) and, where a theorem says so, those
named below. Nothing is assumed finite but the names of `Registry`, whose table is a sequence of them, and those of
`Context`, whose frontier is one. Each module defines an inductive invariant, shows that it holds initially and is preserved
action by action, and draws its theorems from it.

**`DebugSessionProofs`** holds for any number of callers, thread objects and programs, and under all
faults, `lost_answer`, `arm_expires` and `abrupt_exit`, which no run has, included. `TypeCorrect`,
`ChannelMutex`, `StartExclusive` and `ThreadNotReplaced` follow from `SessionInv`. `ChannelExclusive`
is not inductive by itself: `HoldsLock` adds that whoever has a request out holds the lock, also where the
session was closed under him. `NoTakeover` is about a step; it needs that while a command is being
built the slot holds no live or unstarted thread (`SlotIsFree`), which needs `OneStart`, and that an unstarted thread has
somebody about to start it (`MadeIsOwned`). `RoundsLeft` is for the type of `rem`.

What `session_one_caller` checks for one caller is proved for any number whose calls do not overlap (`Sequential`, a
condition on the behaviour: `Spec /\ []Sequential => ...`); that a single caller's never do is `AloneInTurn`. What must
not go wrong is named in the theorems:

| theorems | follow from | rule out |
|---|---|---|
| `NoListenerLost`, `SessionAlone` | `TurnInv` | a join that expires, an abrupt exit (`Patient`): a listener is left at work behind the caller |
| `OwnRound` | `TurnInv` | also a wait for `polling` that expires, after which OK is said all the same |
| `NothingOrphaned`, `PollTellsTruth`, `ShutdownFrees` | `BookInv` | also a lost answer and a failing detach (`Reliable`), and a listen before what was caught is detached (`Disciplined`): a program is stopped and the state does not know |
| `LifecycleSafety` | `TurnInv` | `Patient`'s and a breach of `Disciplined`: "caught" ends without a detach |

Each of these conditions is needed: with one of them dropped, TLC finds a counterexample on the instance of
`session_one_caller` (or, for `Sequential`, with two callers). The exceptions are a join that expires, which leaves `OneSession` alone there, and
an abrupt exit, which leaves `NoOrphan` and `PollHonest` alone; these three are proved under more than they may need. All other faults
are allowed, a build that crashes among them: it leaves "listening" on show for ever, which is against the liveness of
`DebugLifecycle` only.

`TurnInv` says that what a call, a listener or the shutdown has read and not yet acted on is still true, place by place
(`CallerKnows`, `ArmedByOwn`, `ShutdownKnows`), that a listener which is not over is the one in `st.thread` (`ThreadKnown`) and that the fields agree
with each other (`FieldsAgree`); the step that preserves one part needs the others. `BookInv` adds SAP's side:
`NoOrphan`, and that what a release has let go stays free until the next listen (`LetGo`).
`LifecycleSafety` is the safety part of `Implements`: `Status` starts as `DebugLifecycle` does, and every step is one of its steps or
leaves `Status` alone.

**`WriteToolProofs`** holds for any number of sessions and all faults. `WriteInv` adds three
conjuncts to the four properties and the types. `Progress` ties the place in the sequence to what has happened: past
the gate the object exists, past a put without an error the source is stored; `OkMeansActive` and
`FailureTold` need it. `FileLocks` says that a lock held by the session of the cookie file is held by the client's
session: a later look at the file can then not bring the client back to a session it left locked, which is why
`LockGivenBack` is preserved by every request, those that leave a lock behind included. `Seeded` says that in an undisturbed sequence the file
has nothing new, so even the retry after a rejected token does not change the jar; `LockCarried` needs it.

**`BreakpointsProofs`** holds for any number of callers and ids, and under all faults, without a condition. The invariant adds
to `Accounted` that an id about to be forgotten is not armed or its delete was swallowed (`Deleted`) and that nobody else is at work
during the shutdown (`Alone`). For `NothingLeft`, `Pending` says what is still to be deleted at each step of `close_all`.

**`SessionPoolProofs`** holds for any number of threads, sessions and logins past the pool, and under
all faults. For the locks: whoever builds holds `_create_lock` (`BuilderHolds`), which makes
`OneClient` inductive, since only the builder publishes; `PublishesKnown` does the same for `UserKnown`. For `Isolated`:
a SAP session is written to one channel's file when it is minted, and from there reaches only that channel's
client and calls (`Apart`). `Usable` says that what has answered is a session at all, for two clients without cookies would be
equal; `EmptyHanded` that a call which has not looked yet brings nothing from another channel.

**`RunOutputProofs`** holds for any number of run threads and of callers that poll, listen and detach. `TextInv`, for any
number of `run_class` calls, says that a text is there only when its run is over and before it was handed to anybody (`Once`),
and that no two calls have the same run (`Owns`). `OwnOutput`, `NotLost` and `DeliveredOnce` need that no two `run_class` calls
overlap (`Sequential` again), since the thread is started outside `_guard`; without it `run_stolen` refutes the first.
`SoleInv` then adds that the only runs at large are the last and those a poll has forgotten (`OneRun`, `AboutToStart`), that nothing but
a forgotten run can write while a call is in the section under `_guard` (`Entering`), that what a waiting
call may find is its own text or that of a forgotten run, and nobody else has had it (`Attended`), and that a poll which is
past its look at `run_waiting` meets no text of a run made since (`Unpublished`), for `run_lock` keeps that from being published.

**`RegistryProofs`** holds for any finite set of names, any sense of what is alike, any settings and any number of waiting
logins. `IsTable` says that a table has one record per name, and `FileTold` that a file is torn or the dump of what
was last acknowledged, or written by hand; `StartRecovers` follows, since what `to_dict` leaves out is what
`from_dict` puts back (`TableComesBack`). For `FormKeepsFlags` a lookup by the exact name, or without it by
one that is alike, is shown to find the least such index (`ExactSearch`, `AlikeSearch`).

**`ClonePackageProofs`** holds for any package, any number of calls and every failure the module knows. `HalfIsInactive` needs that
what the answer calls OK is whole (`OkIsWhole`), for that is what is activated, and this in turn that what is about to be created was
read or is in `unread` (`AllRead`), that an object which is being written was made by this call, is inactive, and has what a clone is given up
for or is still to get it (`AllWritten`), and that each object is dealt with once (`InTurns`). `OthersUntouched` is about a step and follows from the same invariant.
`OkIsAClone` adds `FaithInv`: what was read is rewritten and complete but for `unread` (`ReadFaithful`), and what is stored was read, with
the rest still to be written (`StoredFaithful`). Its heart is `RewriteOnce`: replacing one name after the other, those with most suffixes
first, is replacing each once, since what has just been written has more suffixes than whatever is still to be replaced.

**`ContextProofs`** holds for any finite set of names, any graph, any depth and any limit. `Within`, the reference
definition, is a recursive function; that it has the solution it is meant to have is shown first (`SpreadsExists`), by a minimal
counterexample in place of the library's induction theorems. The invariant compares what the sweep has found with `Within`
level by level. As long as nothing was cut off, all that is nearer than the level being expanded is in `visited`, and
nothing beyond that level is there or due (`FoundInv`); the frontier holds names of this level and the next, each once, nearest
first (`QueueInv`); and what was found has been read, is waiting, or is too deep (`ReadInv`). What holds also of an
answer that was cut off is that some level is complete with nothing beyond the next (`Layered`) and that what was added earlier is
no farther (`Ordered`). A source that is read makes the graph grow under the invariant: `Undisturbed` and `Enlarged` say what this
does to the distances already settled. `NearestFirst` also needs that a name in reach is in reach
within as many steps as there are names, the bound of `Distance` (`Stalls`, `NotFar`).

**Only model-checked.** Liveness: that calls return (`CallReturns`, `RunClassReturns`, `CallEnds`) and the liveness
half of `Implements`, that a listener which is waiting ends; both rest on fairness, which is beyond the prover. Every
other property of a passing run is a theorem.

## Not modelled

- Rendering, XML, parsers, `locate_statement`: data. A reply is what the caller makes of it.
- Basic authentication: such systems neither log in nor expire.
- `DebugSession.request`'s own CSRF retry; SAP's ten-second close of a session.
- HTTP ceilings as time: a request ends, in time or with an error, and a join may expire.
- The gate: `WriteTool` starts behind `check_write` and `allow_write`, in `ClonePackage` its answer is a choice. Which packages and
  names it lets through is a match of patterns, once per call and with no state; `allow_debug` likewise.
- `Registry` leaves out url, client and credentials, `api_list` and `api_test`, which change nothing; `api_refresh` is `WorkerLogin`
  in `WriteTool`.
- `ClonePackage` leaves out what others do to the target between the requests of a call.
- `Context` leaves out parsing and compressing, and which names are standard: a leaf is a leaf.
- `WriteTool` leaves out create_object without a source. A lock that was left stays until its session ends. The
  advice given when a put failed as well, that a fresh session releases it (adt_client.py:2645-2646), is contradicted by the
  comment at adt_client.py:2449-2451; which one is right only SAP can tell.
- The keeper's clock: `Begin` may probe or not.
- The reading tools, the web page, the browser.


## Plan

1. A composition of `DebugSession`, `RunOutput` and `Breakpoints` over one `SessionPool`: identity inside a
   DEBUG call, invalidation under a listener, the exec timeout computed before a listener starts.
2. `create_object` without a source and the activation tools in `WriteTool`.
3. Proofs: theorems about the compositions and actions of 1 and 2; for calls that overlap, the most that is true of `NoZombie`
   and `NoOrphan`, which the runs refute as they stand.
