---------------------------- MODULE ClonePackage ----------------------------
(***************************************************************************)
(* clone_package and _clone_one (adt_client.py:2771-2919): every object of *)
(* a package is read, renamed and written into another package, in the     *)
(* order of CLONE_ORDER, and what worked is activated by one call at the   *)
(* end.  The lock and put of a single write are the business of WriteTool; *)
(* here a request works, fails, or works and its answer is lost.  A name   *)
(* is <<stem, k>>: the stem and how often the suffix has been appended.    *)
(***************************************************************************)
EXTENDS Naturals, Sequences, FiniteSets, SequencesExt

CONSTANTS
  Source,       \* the objects of the package: [type, name, parts]; parts maps a part to the names in it
  MaxSuffix,    \* a name with more suffixes is longer than 30 characters
  Namespaced,   \* stems that begin with "/"
  MaxRuns,      \* bound: calls of the tool
  None

Suffixed(n) == <<n[1], n[2] + 1>>

\* One object per type and name; each has a main part, and classes have includes.
ASSUME CloneAssumption ==
  /\ \A o \in Source : DOMAIN o = {"type", "name", "parts"} /\ "main" \in DOMAIN o.parts
  /\ \A o \in Source : o.name[2] \in Nat /\ (o.type # "CLAS" => DOMAIN o.parts = {"main"})
  /\ \A o, q \in Source : o.type = q.type /\ Suffixed(o.name) = Suffixed(q.name) => o = q
  /\ None \notin Source
  /\ MaxSuffix \in Nat /\ MaxRuns \in Nat

VARIABLES
  target,    \* what is in the target system: <<type, name>> -> the object, or None; lacks
             \* are the includes it was made without because they could not be read
  pc,        \* where the call is
  run,       \* calls so far; 0 made what was there before
  todo,      \* cloneable, sorted by type, without those that were dealt with
  at,        \* the object being cloned
  got,       \* what was read of it
  unread,    \* <<object, include>> that is there and could not be read
  towrite,   \* its parts that are still to be written
  result     \* what the answer says of each object

vars == <<target, pc, run, todo, at, got, unread, towrite, result>>

-----------------------------------------------------------------------------
(* The plan *)

CloneOrder == <<"DOMA", "DTEL", "PROG", "TABL", "DDLS", "DDLX", "DCLS",
                "INTF", "CLAS", "BDEF", "SRVD", "SRVB">>
Rank(o) == SelectInSeq(CloneOrder, LAMBDA t : t = o.type)

\* What create_object knows, without what it would make an empty shell of.
Cloneable == {o \in Source : Rank(o) # 0 /\ o.type \notin {"DTEL", "DOMA"}}

Fits(o) == Suffixed(o.name)[2] <= MaxSuffix
Planned == {o \in Cloneable : Fits(o)}

\* The keys of rename_map.
Renamed == {o.name : o \in Planned}

NewName(n) == IF n \in Renamed THEN Suffixed(n) ELSE n

\* Mutant of InTurn: shortest first.
InTurnShortest(i) == i

\* "Longest names first": stems do not meet, so the suffixes decide, and names
\* with as many of them are as one.
InTurn(i) == MaxSuffix - i

\* What is left of a text when the names of so many suffixes are replaced in it.
\* The \b before a "/" matches at no reference.
Replaced(text, k) ==
  {IF n \in Renamed /\ n[2] = k /\ n[1] \notin Namespaced THEN Suffixed(n) ELSE n : n \in text}

\* rewrite_references: one name after the other is replaced in the text that
\* the one before it left.
Rewrite(names) ==
  LET text[i \in 0 .. MaxSuffix] == Replaced(IF i = 0 THEN names ELSE text[i - 1], InTurn(i))
  IN text[MaxSuffix]

-----------------------------------------------------------------------------
(* The target *)

\* Main first: it makes the inactive version the includes attach to.
PartOrder == <<"main", "definitions", "implementations", "macros", "testclasses">>
Turn(p) == CHOOSE i \in DOMAIN PartOrder : PartOrder[i] = p

Runtime == {"definitions", "implementations"}

NoParts == [p \in {} |-> {}]

Key(o) == <<o.type, Suffixed(o.name)>>
Keys == {Key(o) : o \in Source} \cup {<<o.type, o.name>> : o \in Source}

\* SAP has one object per type and name, in whatever package.
Exists(o) == target[Key(o)] # None

\* Another system, or the one the package itself is in.
Init ==
  /\ target \in {[k \in Keys |-> None],
                 [k \in Keys |-> IF \E o \in Source : k = <<o.type, o.name>>
                                 THEN [parts |-> (CHOOSE o \in Source : k = <<o.type, o.name>>).parts,
                                       run |-> 0, active |-> TRUE, lacks |-> {}]
                                 ELSE None]}
  /\ pc = "idle" /\ run = 0
  /\ todo = {} /\ at = None /\ got = NoParts /\ towrite = {}
  /\ unread = {} /\ result = [o \in Source |-> "none"]

-----------------------------------------------------------------------------
\* list_package can fail; then the plan is made.
Begin ==
  /\ pc = "idle" /\ run < MaxRuns
  /\ run' = run + 1
  /\ unread' = {} /\ result' = [o \in Source |-> "none"]
  /\ pc' \in {"idle", "gate"}
  /\ UNCHANGED <<target, todo, at, got, towrite>>

\* dry_run is asked for, or check_write says no: nothing but the plan is answered.
Gate ==
  /\ pc = "gate"
  /\ \/ pc' = "pick" /\ todo' = Planned
     \/ pc' = "idle" /\ UNCHANGED todo
  /\ UNCHANGED <<target, run, at, got, unread, towrite, result>>

\* The order within a type is that of the listing.
Pick(o) ==
  /\ pc = "pick" /\ o \in todo
  /\ \A q \in todo : Rank(o) <= Rank(q)
  /\ at' = o /\ todo' = todo \ {o} /\ pc' = "read"
  /\ UNCHANGED <<target, run, got, unread, towrite, result>>

\* The object is done; what is said of it is the next line of the answer.
Says(what) ==
  /\ result' = [result EXCEPT ![at] = what]
  /\ at' = None /\ got' = NoParts /\ towrite' = {}
  /\ pc' = "pick"

Reads(names, next) ==
  /\ got' = [p \in {"main"} |-> names]
  /\ pc' = next
  /\ UNCHANGED <<at, towrite, result>>

\* The service definition of a binding is looked up, not rewritten.
ReadBinding ==
  /\ pc = "read" /\ at.type = "SRVB"
  /\ Reads({NewName(n) : n \in at.parts["main"]}, "create") \/ Says("failed")
  /\ UNCHANGED <<target, run, todo, unread>>

ReadSource ==
  /\ pc = "read" /\ at.type # "SRVB"
  /\ \/ Reads(Rewrite(at.parts["main"]), IF at.type = "CLAS" THEN "includes" ELSE "create")
     \/ Says("failed")
  /\ UNCHANGED <<target, run, todo, unread>>

\* An include that cannot be read is taken for one that is not there.
ReadIncludes ==
  /\ pc = "includes"
  /\ \E lost \in SUBSET (DOMAIN at.parts \ {"main"}) :
       /\ got' = [p \in DOMAIN at.parts \ lost |-> IF p = "main" THEN got[p] ELSE Rewrite(at.parts[p])]
       /\ unread' = unread \cup {<<at, p>> : p \in lost}
  /\ pc' = "create"
  /\ UNCHANGED <<target, run, todo, at, towrite, result>>

\* Mutant of Create: an object that is there already is as good as a new one.
CreateOver ==
  /\ pc = "create"
  /\ target' = [target EXCEPT ![Key(at)] =
                  IF @ = None THEN [parts |-> NoParts, run |-> run, active |-> FALSE, lacks |-> {}]
                              ELSE @]
  /\ towrite' = DOMAIN got
  /\ pc' = "write"
  /\ UNCHANGED <<run, todo, at, got, unread, result>>

\* create_object without a source; a binding is complete with it.
Create ==
  /\ pc = "create"
  /\ \/ /\ ~Exists(at)
        /\ target' = [target EXCEPT ![Key(at)] =
                        [parts |-> IF at.type = "SRVB" THEN got ELSE NoParts,
                         run |-> run, active |-> FALSE,
                         lacks |-> {p \in DOMAIN at.parts : <<at, p>> \in unread}]]
        /\ \/ /\ at.type # "SRVB"
              /\ towrite' = DOMAIN got
              /\ pc' = "write"
              /\ UNCHANGED <<at, got, result>>
           \/ at.type = "SRVB" /\ Says("OK")
           \/ Says("failed")
     \/ Says("failed") /\ UNCHANGED target
  /\ UNCHANGED <<run, todo, unread>>

\* Mutant of Fatal: a class can do without its local classes.
FatalMain(p) == p = "main"

\* What a clone is given up for; the other includes are warned about.
Fatal(p) == p = "main" \/ p \in Runtime

\* update_source, or update_class_include: the part is stored and not activated.
Stored(p) ==
  [target EXCEPT ![Key(at)].parts = [q \in DOMAIN @ \cup {p} |-> IF q = p THEN got[p] ELSE @[q]]]

\* The next part; what is not fatal is only warned about.
Write(p) ==
  /\ pc = "write" /\ p \in towrite
  /\ \A q \in towrite : Turn(p) <= Turn(q)
  /\ LET GoesOn == towrite' = towrite \ {p} /\ UNCHANGED <<pc, at, got, result>>
     IN \/ target' = Stored(p) /\ GoesOn
        \/ target' \in {target, Stored(p)} /\ IF Fatal(p) THEN Says("failed") ELSE GoesOn
  /\ UNCHANGED <<run, todo, unread>>

Written ==
  /\ pc = "write" /\ towrite = {}
  /\ Says("OK")
  /\ UNCHANGED <<target, run, todo, unread>>

\* Mutant of Activate: whatever this call has created.
ActivateCreated ==
  /\ pc = "pick" /\ todo = {}
  /\ target' = [k \in Keys |-> IF target[k] # None /\ target[k].run = run
                               THEN [target[k] EXCEPT !.active = TRUE] ELSE target[k]]
  /\ pc' = "idle"
  /\ UNCHANGED <<run, todo, at, got, unread, towrite, result>>

\* activate_many: what was said OK of, at once; objects without it stay inactive.
Activate ==
  /\ pc = "pick" /\ todo = {}
  /\ \/ target' = [k \in Keys |->
                     IF \E o \in Source : Key(o) = k /\ result[o] = "OK"
                     THEN [target[k] EXCEPT !.active = TRUE] ELSE target[k]]
     \/ UNCHANGED target
  /\ pc' = "idle"
  /\ UNCHANGED <<run, todo, at, got, unread, towrite, result>>

\* The process ends in the middle, and the caller starts over.
Crash ==
  /\ pc # "idle"
  /\ pc' = "idle" /\ todo' = {} /\ at' = None /\ got' = NoParts /\ unread' = {} /\ towrite' = {}
  /\ result' = [o \in Source |-> "none"]
  /\ UNCHANGED <<target, run>>

Next ==
  \/ Begin \/ Gate \/ \E o \in Source : Pick(o)
  \/ \E p \in ToSet(PartOrder) : Write(p)
  \/ ReadBinding \/ ReadSource \/ ReadIncludes \/ Create \/ Written \/ Activate \/ Crash

Spec == Init /\ [][Next]_vars

-----------------------------------------------------------------------------
\* A call changes nothing that was there when it began: neither the originals,
\* when they are in the same system, nor what an earlier call or somebody else
\* made under the new names ("if not shell.startswith", adt_client.py:2883, 2915).
OthersUntouched ==
  [][\A k \in Keys : target[k] # None /\ target'[k] # target[k] => target[k].run = run]_vars

\* An object the answer calls OK has its source, with the local classes that
\* could be read, and refers to the clones: each name of the plan is suffixed
\* once and no other is touched, also when the package has names that are others
\* with the suffix, or too long for one (adt_client.py:73-82, 2797-2806).
\* References to names that begin with "/" are left out.
OkIsFaithful ==
  \A o \in Source : result[o] = "OK" =>
    LET made == target[Key(o)].parts
        Due(n) == IF \E q \in Planned : q.name = n THEN Suffixed(n) ELSE n
        Plain(names) == {n \in names : n[1] \notin Namespaced}
    IN /\ \A p \in DOMAIN o.parts \cap {"main", "definitions", "implementations"} :
            p \in DOMAIN made \/ <<o, p>> \in unread
       /\ \A p \in DOMAIN made : Plain(made[p]) = {Due(n) : n \in Plain(o.parts[p])}

\* Of the parts a clone is given up for, it has all that could be read.
Whole(made, o) ==
  \A p \in DOMAIN o.parts : Fatal(p) => p \in DOMAIN made.parts \cup made.lacks

\* A clone that stopped halfway, in this call or one before it, is never activated, whether
\* or not the caller got an answer (adt_client.py:2838-2843): what is active and was made by
\* the tool has its main part and, for a class, the local classes that could be read when
\* it was made.
HalfIsInactive ==
  \A o \in Source :
    LET made == target[Key(o)]
    IN made # None /\ made.run # 0 /\ made.active => Whole(made, o)

\* What the answer calls OK has every include it has in the package, or a warning:
\* "Read every part up front so a read error aborts before we create an orphaned
\* shell on the target" (adt_client.py:2869-2870).
ReadAborts == \A o \in Source : result[o] = "OK" => \A p \in ToSet(PartOrder) : <<o, p>> \notin unread
=============================================================================
