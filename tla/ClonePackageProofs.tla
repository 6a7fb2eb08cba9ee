------------------------- MODULE ClonePackageProofs -------------------------
(***************************************************************************)
(* Proofs about ClonePackage for any package and any number of calls.      *)
(***************************************************************************)
EXTENDS ClonePackage, WellFoundedInduction, TLAPS

IsObject(v) == DOMAIN v = {"parts", "run", "active", "lacks"}

\* The target has objects; what it has is kept under its key.
TargetOk == DOMAIN target = Keys /\ \A k \in Keys : target[k] # None => IsObject(target[k])

AtWork == {"read", "includes", "create", "write"}

\* Each object is dealt with once in a call.
InTurns ==
  /\ DOMAIN result = Source /\ todo \subseteq Source
  /\ pc \in {"idle", "gate", "pick"} \cup AtWork
  /\ pc \in AtWork => at \in Source \ todo
  /\ pc = "gate" => \A o \in Source : result[o] # "OK"
  /\ \A o \in Source : result[o] = "OK" =>
       (pc \in {"pick"} \cup AtWork => o \notin todo) /\ (pc \in AtWork => o # at)

\* What is about to be created has been read, or is known not to have been.
AllRead ==
  /\ pc = "includes" => "main" \in DOMAIN got
  /\ pc = "create" => \A p \in DOMAIN at.parts : p \in DOMAIN got \/ <<at, p>> \in unread

\* What is being written was made by this call and is inactive; what it cannot do without
\* and does not have is still to be written.
AllWritten ==
  pc = "write" =>
    /\ IsObject(target[Key(at)]) /\ target[Key(at)].run = run /\ target[Key(at)].active = FALSE
    /\ \A p \in DOMAIN at.parts : Fatal(p) =>
         p \in towrite \cup DOMAIN target[Key(at)].parts \cup target[Key(at)].lacks

\* What is called OK was made by this call and is whole.
OkIsWhole ==
  \A o \in Source : result[o] = "OK" =>
    /\ IsObject(target[Key(o)]) /\ target[Key(o)].run = run
    /\ Whole(target[Key(o)], o)

\* The inductive invariant.
CloneInv == TargetOk /\ InTurns /\ AllRead /\ AllWritten /\ OkIsWhole /\ HalfIsInactive

-------------------------------------------------------------------------------
\* No two objects get the same place in the target.
LEMMA KeysDiffer ==
  ASSUME NEW o \in Source, NEW q \in Source, Key(o) = Key(q)
  PROVE  o = q
BY CloneAssumption DEF Key

\* A call writes where its object goes.
LEMMA KeyIsKey == \A o \in Source : Key(o) \in Keys
BY DEF Keys

LEMMA InitInv == Init => CloneInv
<1> SUFFICES ASSUME Init PROVE CloneInv
  OBVIOUS
<1>1. TargetOk /\ HalfIsInactive
  <2>1. CASE target = [k \in Keys |-> None]
    BY <2>1, KeyIsKey DEF TargetOk, HalfIsInactive
  <2>2. CASE target = [k \in Keys |-> IF \E o \in Source : k = <<o.type, o.name>>
                         THEN [parts |-> (CHOOSE o \in Source : k = <<o.type, o.name>>).parts,
                               run |-> 0, active |-> TRUE, lacks |-> {}]
                         ELSE None]
    <3>1. ASSUME NEW k \in Keys, target[k] # None
          PROVE  IsObject(target[k]) /\ target[k].run = 0
      <4>1. \E o \in Source : k = <<o.type, o.name>>
        BY <2>2, <3>1
      <4>2. PICK o \in Source : target[k] = [parts |-> o.parts, run |-> 0, active |-> TRUE, lacks |-> {}]
        BY <2>2, <4>1
      <4> QED BY <4>2 DEF IsObject
    <3> QED BY <2>2, <3>1, KeyIsKey DEF TargetOk, HalfIsInactive
  <2> QED BY <2>1, <2>2 DEF Init
<1>2. InTurns /\ AllRead /\ AllWritten /\ OkIsWhole
  BY DEF Init, InTurns, AtWork, AllRead, AllWritten, OkIsWhole
<1> QED BY <1>1, <1>2 DEF CloneInv

\* The steps that leave the target alone.
LEMMA QuietStep ==
  ASSUME CloneInv,
         \/ Begin \/ Gate \/ (\E o \in Source : Pick(o)) \/ ReadBinding \/ ReadSource
         \/ ReadIncludes \/ Crash \/ UNCHANGED vars
  PROVE  CloneInv'
<1> USE DEF CloneInv, TargetOk, InTurns, AllRead, AllWritten, OkIsWhole, HalfIsInactive, AtWork, Says,
      Keys, Key, IsObject, Whole, Fatal
<1>1. CASE Begin BY <1>1 DEF Begin
<1>2. CASE Gate BY <1>2 DEF Gate, Planned, Cloneable
<1>3. CASE \E o \in Source : Pick(o) BY <1>3 DEF Pick
<1>4. CASE ReadBinding BY <1>4, CloneAssumption DEF ReadBinding, Reads
<1>5. CASE ReadSource BY <1>5, CloneAssumption DEF ReadSource, Reads
<1>6. CASE ReadIncludes BY <1>6, CloneAssumption DEF ReadIncludes
<1>7. CASE Crash BY <1>7 DEF Crash
<1>8. CASE UNCHANGED vars BY <1>8 DEF vars
<1> QED BY <1>1, <1>2, <1>3, <1>4, <1>5, <1>6, <1>7, <1>8

\* Creating fills the object's place, which was empty, or the object has failed.
LEMMA CreateStep ==
  ASSUME CloneInv, Create
  PROVE  CloneInv'
<1> USE DEF CloneInv, InTurns, AtWork, Says
<1> DEFINE new == [parts |-> IF at.type = "SRVB" THEN got ELSE NoParts, run |-> run, active |-> FALSE,
                   lacks |-> {p \in DOMAIN at.parts : <<at, p>> \in unread}]
<1>1. /\ pc = "create" /\ at \in Source \ todo /\ UNCHANGED <<run, todo>>
      /\ \A p \in DOMAIN at.parts : p \in DOMAIN got \/ <<at, p>> \in unread
  BY DEF Create, AllRead
<1>2. Key(at) \in Keys /\ \A o \in Source : Key(o) = Key(at) => o = at
  BY <1>1, KeyIsKey, KeysDiffer
<1>3. \/ UNCHANGED target
      \/ target[Key(at)] = None /\ target' = [target EXCEPT ![Key(at)] = new]
  BY DEF Create, Exists
<1>4. \/ pc' = "pick" /\ result' = [result EXCEPT ![at] = "failed"]
      \/ /\ pc' = "pick" /\ result' = [result EXCEPT ![at] = "OK"] /\ at.type = "SRVB"
         /\ target' = [target EXCEPT ![Key(at)] = new]
      \/ /\ pc' = "write" /\ UNCHANGED <<at, result>> /\ towrite' = DOMAIN got
         /\ target' = [target EXCEPT ![Key(at)] = new]
  BY DEF Create
<1>5. IsObject(new) /\ new.run = run /\ new.active = FALSE /\ (at.type = "SRVB" => new.parts = got)
      /\ \A p \in DOMAIN at.parts : p \in DOMAIN got \cup new.lacks
  BY <1>1 DEF IsObject
<1> HIDE DEF new
<1>6. \A o \in Source : o # at => target'[Key(o)] = target[Key(o)]
  BY <1>2, <1>3, KeyIsKey DEF TargetOk
<1>7. TargetOk' /\ HalfIsInactive'
  <2>1. DOMAIN target' = Keys /\ \A k \in Keys : target'[k] = target[k] \/ target'[k] = new
    BY <1>2, <1>3 DEF TargetOk
  <2>2. TargetOk' BY <1>5, <2>1 DEF TargetOk, Keys, Key, IsObject
  <2>3. HalfIsInactive' BY <1>5, <2>1, KeyIsKey DEF HalfIsInactive, Key, Whole, Fatal
  <2> QED BY <2>2, <2>3
<1>8. InTurns'
  BY <1>1, <1>4
<1>9. OkIsWhole'
  <2> SUFFICES ASSUME NEW o \in Source, result'[o] = "OK"
               PROVE  IsObject(target'[Key(o)]) /\ target'[Key(o)].run = run /\ Whole(target'[Key(o)], o)
    BY <1>1 DEF OkIsWhole, Key, IsObject, Whole, Fatal
  <2>1. CASE o # at
    <3>1. result[o] = "OK" BY <1>1, <1>4, <2>1
    <3> QED BY <1>6, <2>1, <3>1 DEF OkIsWhole
  <2>2. CASE o = at
    <3>1. at.type = "SRVB" /\ target'[Key(at)] = new
      BY <1>1, <1>2, <1>4, <2>2 DEF TargetOk
    <3> QED BY <1>5, <2>2, <3>1 DEF Whole
  <2> QED BY <2>1, <2>2
<1>10. AllRead' /\ AllWritten'
  <2>1. CASE pc' = "pick" BY <2>1 DEF AllRead, AllWritten
  <2>2. CASE pc' = "write"
    <3>1. target'[Key(at)] = new /\ at' = at /\ towrite' = DOMAIN got
      BY <1>1, <1>2, <1>4, <2>2 DEF TargetOk
    <3> QED BY <1>1, <1>5, <2>2, <3>1 DEF AllRead, AllWritten, Key, IsObject, Fatal
  <2> QED BY <1>4, <2>1, <2>2
<1> QED BY <1>7, <1>8, <1>9, <1>10

\* A part is added to what this call has made, or one it can do without is given up.
LEMMA WriteStep ==
  ASSUME CloneInv, NEW p \in ToSet(PartOrder), Write(p)
  PROVE  /\ CloneInv'
         /\ \A k \in Keys : target'[k] # target[k] => target[k].run = run
<1> USE DEF CloneInv, InTurns, AtWork, Says
<1> DEFINE place == Key(at)
           parts == [q \in DOMAIN target[place].parts \cup {p} |->
                       IF q = p THEN got[p] ELSE target[place].parts[q]]
<1>1. pc = "write" /\ at \in Source \ todo /\ p \in towrite /\ UNCHANGED <<run, todo>>
  BY DEF Write
<1>2. place \in Keys /\ \A o \in Source : Key(o) = place => o = at
  BY <1>1, KeyIsKey, KeysDiffer
<1>3. /\ IsObject(target[place]) /\ target[place].run = run /\ target[place].active = FALSE
      /\ \A q \in DOMAIN at.parts : Fatal(q) =>
           q \in towrite \cup DOMAIN target[place].parts \cup target[place].lacks
  BY <1>1 DEF AllWritten
<1>4. Stored(p) = [target EXCEPT ![place] = [target[place] EXCEPT !.parts = parts]]
  BY DEF Stored
<1>5. \/ /\ pc' = "pick" /\ result' = [result EXCEPT ![at] = "failed"]
         /\ target' \in {target, Stored(p)}
      \/ /\ UNCHANGED <<pc, at, result>> /\ towrite' = towrite \ {p}
         /\ target' = Stored(p) \/ (target' = target /\ ~ Fatal(p))
  BY DEF Write
<1>6. DOMAIN parts = DOMAIN target[place].parts \cup {p}
  OBVIOUS
<1> HIDE DEF place, parts
<1>7. target' = target \/ /\ DOMAIN target' = Keys
                          /\ \A k \in Keys \ {place} : target'[k] = target[k]
                          /\ target'[place] = [target[place] EXCEPT !.parts = parts]
  BY <1>2, <1>4, <1>5 DEF TargetOk
<1>8. /\ IsObject(target'[place]) /\ target'[place].run = run
      /\ target'[place].active = FALSE /\ target'[place].lacks = target[place].lacks
      /\ DOMAIN target[place].parts \subseteq DOMAIN target'[place].parts
  BY <1>3, <1>6, <1>7 DEF IsObject
<1>9. \A k \in Keys : k # place => target'[k] = target[k]
  BY <1>7
<1>10. TargetOk' /\ HalfIsInactive'
  <2>1. DOMAIN target' = Keys
    BY <1>7 DEF TargetOk
  <2>2. ASSUME NEW k \in Keys, target'[k] # None
        PROVE  IsObject(target'[k])
    BY <2>2, <1>8, <1>9 DEF TargetOk
  <2>3. ASSUME NEW o \in Source, target'[Key(o)] # None, target'[Key(o)].run # 0, target'[Key(o)].active
        PROVE  Whole(target'[Key(o)], o)
    <3>1. Key(o) # place BY <1>8, <2>3
    <3> QED BY <1>9, <2>3, <3>1, KeyIsKey DEF HalfIsInactive
  <2>4. TargetOk' BY <2>1, <2>2 DEF TargetOk, Keys, Key, IsObject
  <2>5. HalfIsInactive' BY <2>3 DEF HalfIsInactive, Key, Whole, Fatal
  <2> QED BY <2>4, <2>5
<1>11. InTurns'
  BY <1>1, <1>5
<1>12. OkIsWhole'
  <2>1. \A o \in Source : result'[o] = "OK" => o # at /\ result[o] = "OK"
    BY <1>1, <1>5
  <2>2. \A o \in Source : o # at => target'[Key(o)] = target[Key(o)]
    BY <1>2, <1>9, KeyIsKey
  <2> QED BY <1>1, <2>1, <2>2 DEF OkIsWhole, Key, IsObject, Whole, Fatal
<1>13. AllRead' /\ AllWritten'
  <2>1. CASE pc' = "pick" BY <2>1 DEF AllRead, AllWritten
  <2>2. CASE pc' = "write"
    <3>1. target' = Stored(p) => p \in DOMAIN target'[place].parts
      BY <1>2, <1>4, <1>6 DEF TargetOk
    <3>2. /\ at' = at /\ towrite' = towrite \ {p}
          /\ target' = Stored(p) \/ (target' = target /\ ~ Fatal(p))
      BY <2>2, <1>5
    <3>3. \A q \in DOMAIN at.parts : Fatal(q) =>
            q \in towrite' \cup DOMAIN target'[place].parts \cup target'[place].lacks
      BY <1>3, <1>8, <3>1, <3>2
    <3>4. run' = run /\ Key(at)' = place
      BY <1>1, <3>2 DEF Key, place
    <3> QED BY <2>2, <1>8, <3>2, <3>3, <3>4 DEF AllRead, AllWritten, Key, IsObject, Fatal, place
  <2> QED BY <1>1, <1>5, <2>1, <2>2
<1>14. \A k \in Keys : target'[k] # target[k] => target[k].run = run
  BY <1>3, <1>9
<1> QED BY <1>10, <1>11, <1>12, <1>13, <1>14

\* What has nothing left to write is whole, and is called OK.
LEMMA WrittenStep ==
  ASSUME CloneInv, Written
  PROVE  CloneInv'
<1> USE DEF CloneInv, InTurns, AtWork, Says
<1>1. /\ pc = "write" /\ at \in Source \ todo /\ towrite = {} /\ UNCHANGED <<target, run, todo>>
      /\ pc' = "pick" /\ result' = [result EXCEPT ![at] = "OK"]
  BY DEF Written
<1>2. TargetOk' /\ HalfIsInactive'
  BY <1>1 DEF TargetOk, HalfIsInactive, Keys, Key, IsObject, Whole, Fatal
<1>3. InTurns' /\ AllRead' /\ AllWritten'
  BY <1>1 DEF AllRead, AllWritten
<1>4. OkIsWhole'
  <2>1. Whole(target[Key(at)], at) BY <1>1 DEF AllWritten, Whole
  <2> QED BY <1>1, <2>1 DEF AllWritten, OkIsWhole, Key, IsObject, Whole, Fatal
<1> QED BY <1>2, <1>3, <1>4

\* Activation reaches what is called OK, which this call has made.
LEMMA ActivateStep ==
  ASSUME CloneInv, Activate
  PROVE  /\ CloneInv'
         /\ \A k \in Keys : target'[k] # target[k] => target[k].run = run
<1> USE DEF CloneInv, InTurns, AtWork
<1> DEFINE Told(k) == \E o \in Source : Key(o) = k /\ result[o] = "OK"
<1>1. pc = "pick" /\ pc' = "idle" /\ UNCHANGED <<run, todo, at, got, towrite, result>>
  BY DEF Activate
<1>2. /\ DOMAIN target' = Keys
      /\ \A k \in Keys : \/ target'[k] = target[k]
                         \/ Told(k) /\ target'[k] = [target[k] EXCEPT !.active = TRUE]
  <2>1. CASE UNCHANGED target
    BY <2>1 DEF TargetOk
  <2>2. CASE target' = [k \in Keys |-> IF Told(k) THEN [target[k] EXCEPT !.active = TRUE] ELSE target[k]]
    <3> HIDE DEF Told
    <3> QED BY <2>2
  <2> QED BY <2>1, <2>2 DEF Activate
<1>3. ASSUME NEW k \in Keys, Told(k)
      PROVE  IsObject(target[k]) /\ target[k].run = run
  BY <1>3 DEF OkIsWhole
<1>4. ASSUME NEW o \in Source, Told(Key(o))
      PROVE  Whole(target[Key(o)], o)
  BY <1>4, KeysDiffer DEF OkIsWhole
<1> HIDE DEF Told
<1>5. TargetOk' /\ HalfIsInactive'
  <2>1. TargetOk' BY <1>2, <1>3 DEF TargetOk, Keys, Key, IsObject
  <2>2. ASSUME NEW o \in Source, target'[Key(o)] # None, target'[Key(o)].run # 0, target'[Key(o)].active
        PROVE  Whole(target'[Key(o)], o)
    <3>1. CASE target'[Key(o)] = target[Key(o)] BY <2>2, <3>1 DEF HalfIsInactive
    <3>2. CASE Told(Key(o)) /\ target'[Key(o)] = [target[Key(o)] EXCEPT !.active = TRUE]
      <4>1. IsObject(target[Key(o)]) /\ Whole(target[Key(o)], o) BY <1>3, <1>4, <3>2, KeyIsKey
      <4> QED BY <3>2, <4>1 DEF IsObject, Whole
    <3> QED BY <1>2, <3>1, <3>2, KeyIsKey
  <2>3. HalfIsInactive' BY <2>2 DEF HalfIsInactive, Key, Whole, Fatal
  <2> QED BY <2>1, <2>3
<1>6. InTurns' /\ AllRead' /\ AllWritten'
  BY <1>1 DEF AllRead, AllWritten
<1>7. OkIsWhole'
  <2> SUFFICES ASSUME NEW o \in Source, result'[o] = "OK"
               PROVE  /\ IsObject(target'[Key(o)]) /\ target'[Key(o)].run = run'
                      /\ Whole(target'[Key(o)], o)
    BY DEF OkIsWhole, Key, IsObject, Whole, Fatal
  <2>1. IsObject(target[Key(o)]) /\ target[Key(o)].run = run /\ Whole(target[Key(o)], o)
    BY <1>1 DEF OkIsWhole
  <2>2. CASE target'[Key(o)] = target[Key(o)] BY <1>1, <2>1, <2>2
  <2>3. CASE target'[Key(o)] = [target[Key(o)] EXCEPT !.active = TRUE]
    BY <1>1, <2>1, <2>3 DEF IsObject, Whole
  <2> QED BY <1>2, <2>2, <2>3, KeyIsKey
<1>8. \A k \in Keys : target'[k] # target[k] => target[k].run = run
  BY <1>2, <1>3
<1> QED BY <1>5, <1>6, <1>7, <1>8

\* One step keeps the invariant, and changes only what the call itself has made.
LEMMA StepInv ==
  ASSUME CloneInv, [Next]_vars
  PROVE  /\ CloneInv'
         /\ \A k \in Keys : target[k] # None /\ target'[k] # target[k] => target[k].run = run
<1>1. CASE Begin \/ Gate \/ (\E o \in Source : Pick(o)) \/ ReadBinding \/ ReadSource
           \/ ReadIncludes \/ Crash \/ UNCHANGED vars
  <2>1. UNCHANGED target
    BY <1>1 DEF Begin, Gate, Pick, ReadBinding, ReadSource, ReadIncludes, Crash, vars
  <2> QED BY <1>1, <2>1, QuietStep
<1>2. CASE Create
  <2>1. UNCHANGED target \/ \E v : target[Key(at)] = None /\ target' = [target EXCEPT ![Key(at)] = v]
    BY <1>2 DEF Create, Exists
  <2>2. \A k \in Keys : target[k] # None => target'[k] = target[k]
    BY <2>1 DEF CloneInv, TargetOk
  <2> QED BY <1>2, <2>2, CreateStep
<1>3. CASE \E p \in ToSet(PartOrder) : Write(p)
  BY <1>3, WriteStep
<1>4. CASE Written
  <2>1. UNCHANGED target
    BY <1>4 DEF Written
  <2> QED BY <1>4, <2>1, WrittenStep
<1>5. CASE Activate
  BY <1>5, ActivateStep
<1> QED BY <1>1, <1>2, <1>3, <1>4, <1>5 DEF Next

\* The invariant holds throughout, whatever the package and however many calls.
THEOREM Invariance == Spec => []CloneInv
<1>1. Init => CloneInv
  BY InitInv
<1>2. CloneInv /\ [Next]_vars => CloneInv'
  BY StepInv
<1> QED BY <1>1, <1>2, PTL DEF Spec

\* No clone is ever active without its main part or without local classes that were read
\* for it (adt_client.py:2838-2843).
THEOREM HalfStaysInactive == Spec => []HalfIsInactive
<1>1. CloneInv => HalfIsInactive
  BY DEF CloneInv
<1> QED BY <1>1, Invariance, PTL

\* A call changes nothing that was there before it (adt_client.py:2883, 2915).
THEOREM OthersStay == Spec => OthersUntouched
<1>1. CloneInv /\ [Next]_vars =>
        [\A k \in Keys : target[k] # None /\ target'[k] # target[k] => target[k].run = run]_vars
  BY StepInv
<1> QED BY <1>1, Invariance, PTL DEF Spec, OthersUntouched

-------------------------------------------------------------------------------
(* What is called OK refers to the clones *)

\* The references that are rewritten at all.
Plain(names) == {n \in names : n[1] \notin Namespaced}

\* The parts of a clone are those of the object, with the names of the plan suffixed once.
IsCloneOf(parts, o) ==
  \A p \in DOMAIN parts :
    p \in DOMAIN o.parts /\ Plain(parts[p]) = {NewName(n) : n \in Plain(o.parts[p])}

\* Of the parts an object cannot do without, one that is not among those is not read.
Covers(parts, o) ==
  \A p \in DOMAIN o.parts \cap ({"main"} \cup Runtime) : p \in parts \/ <<o, p>> \in unread

\* What was read is rewritten, and complete before the object is created.
ReadFaithful ==
  /\ pc \in {"includes", "create", "write"} => IsCloneOf(got, at)
  /\ pc \in {"create", "write"} => Covers(DOMAIN got, at)

\* What is stored was read, and what is not yet stored is still to be written.
StoredFaithful ==
  pc = "write" =>
    /\ IsCloneOf(target[Key(at)].parts, at)
    /\ towrite \subseteq DOMAIN got
    /\ Covers(towrite \cup DOMAIN target[Key(at)].parts, at)

\* What is called OK is a clone.
OkIsClone ==
  \A o \in Source : result[o] = "OK" =>
    IsCloneOf(target[Key(o)].parts, o) /\ Covers(DOMAIN target[Key(o)].parts, o)

\* The inductive invariant behind OkIsFaithful.
FaithInv == ReadFaithful /\ StoredFaithful /\ OkIsClone

-------------------------------------------------------------------------------
(* Replacing one name after the other *)

\* A set of numbers that has 0 and every successor has them all.
LEMMA Upward ==
  ASSUME NEW I \in SUBSET Nat, 0 \in I, \A k \in I : k + 1 \in I
  PROVE  I = Nat
<1> SUFFICES ASSUME Nat \ I # {} PROVE FALSE
  OBVIOUS
<1>1. PICK i \in Nat \ I : \A j \in Nat \ I : ~ (<<j, i>> \in OpToRel(<, Nat))
  BY WFMin, NatLessThanWellFounded
<1>2. i # 0 /\ i - 1 \in Nat /\ i - 1 < i
  OBVIOUS
<1>3. i - 1 \in I
  BY <1>1, <1>2 DEF OpToRel
<1>4. (i - 1) + 1 \in I
  BY <1>3
<1> QED BY <1>2, <1>4

\* A name of the plan has a natural number of suffixes, and one more fits.
LEMMA RenamedFits == \A n \in Renamed : n[2] \in Nat /\ n[2] + 1 <= MaxSuffix
BY CloneAssumption DEF Renamed, Planned, Cloneable, Fits, Suffixed

\* A name that has just been written is not replaced again: each name of the plan gets the
\* suffix once, though others of the plan are names with the suffix.
LEMMA RewriteOnce ==
  ASSUME NEW names
  PROVE  Rewrite(names) =
           {IF n \in Renamed /\ n[1] \notin Namespaced THEN Suffixed(n) ELSE n : n \in names}
<1> DEFINE Turns == 0 .. MaxSuffix
           After(n, i) == IF n \in Renamed /\ n[1] \notin Namespaced /\ n[2] >= MaxSuffix - i
                          THEN Suffixed(n) ELSE n
           Put(n, k) == IF n \in Renamed /\ n[2] = k /\ n[1] \notin Namespaced
                        THEN Suffixed(n) ELSE n
           IsText(f) == f = [i \in Turns |->
                               Replaced(IF i = 0 THEN names ELSE f[i - 1], InTurn(i))]
           text == CHOOSE f : IsText(f)
           W == [i \in Turns |-> {After(n, i) : n \in names}]
<1>1. MaxSuffix \in Nat BY CloneAssumption
<1>2. ASSUME NEW n PROVE Put(n, MaxSuffix) = After(n, 0)
  BY <1>1, RenamedFits
<1>3. ASSUME NEW n, NEW i \in Turns, i # 0
      PROVE  Put(After(n, i - 1), MaxSuffix - i) = After(n, i)
  <2>1. CASE n \in Renamed /\ n[1] \notin Namespaced
    <3>1. n[2] \in Nat /\ Suffixed(n)[2] = n[2] + 1
      BY <2>1, RenamedFits DEF Suffixed
    <3>2. CASE n[2] >= MaxSuffix - (i - 1)
      <4>1. After(n, i - 1) = Suffixed(n) /\ After(n, i) = Suffixed(n)
        BY <1>1, <2>1, <3>1, <3>2
      <4>2. Suffixed(n)[2] # MaxSuffix - i BY <1>1, <3>1, <3>2
      <4> HIDE DEF After
      <4> QED BY <4>1, <4>2
    <3>3. CASE n[2] = MaxSuffix - i
      BY <1>1, <2>1, <3>1, <3>3
    <3>4. CASE n[2] < MaxSuffix - i
      BY <1>1, <2>1, <3>1, <3>4
    <3> QED BY <1>1, <3>1, <3>2, <3>3, <3>4
  <2>2. CASE ~ (n \in Renamed /\ n[1] \notin Namespaced)
    BY <2>2
  <2> QED BY <2>1, <2>2
<1>4. ASSUME NEW S, NEW k PROVE Replaced(S, k) = {Put(n, k) : n \in S}
  BY DEF Replaced
<1>5. W[0] = Replaced(names, InTurn(0))
  <2>1. W[0] = {Put(n, MaxSuffix) : n \in names}
    <3> HIDE DEF After, Put
    <3> QED BY <1>1, <1>2
  <2>2. InTurn(0) = MaxSuffix BY <1>1 DEF InTurn
  <2> HIDE DEF W
  <2> QED BY <1>4, <2>1, <2>2
<1>6. ASSUME NEW i \in Turns, i # 0 PROVE W[i] = Replaced(W[i - 1], InTurn(i))
  <2>1. i - 1 \in Turns BY <1>1, <1>6
  <2>2. W[i] = {Put(After(n, i - 1), MaxSuffix - i) : n \in names}
    <3> HIDE DEF After, Put
    <3> QED BY <1>3, <1>6
  <2>3. W[i - 1] = {After(n, i - 1) : n \in names} BY <2>1
  <2> HIDE DEF After, Put, W
  <2>4. W[i] = {Put(m, MaxSuffix - i) : m \in W[i - 1]} BY <2>2, <2>3
  <2> QED BY <1>4, <2>4 DEF InTurn
<1>7. IsText(W)
  <2>1. ASSUME NEW i \in Turns
        PROVE  W[i] = Replaced(IF i = 0 THEN names ELSE W[i - 1], InTurn(i))
    <3> HIDE DEF W
    <3> QED BY <1>5, <1>6
  <2>2. W = [i \in Turns |-> W[i]] OBVIOUS
  <2> HIDE DEF W
  <2> QED BY <2>1, <2>2
<1>8. IsText(text)
  <2> HIDE DEF IsText, W
  <2> QED BY <1>7
<1>9. \A i \in Turns : text[i] = W[i]
  <2> HIDE DEF text, W
  <2> DEFINE Same == {k \in Nat : k \in Turns => text[k] = W[k]}
  <2>1. 0 \in Same BY <1>5, <1>8
  <2>2. ASSUME NEW k \in Same PROVE k + 1 \in Same
    <3>1. CASE k + 1 \in Turns
      <4>1. k \in Turns /\ text[k] = W[k] BY <1>1, <3>1
      <4>2. k + 1 # 0 /\ (k + 1) - 1 = k OBVIOUS
      <4>3. text[k + 1] = Replaced(text[k], InTurn(k + 1)) BY <1>8, <3>1, <4>2
      <4>4. W[k + 1] = Replaced(W[k], InTurn(k + 1)) BY <1>6, <3>1, <4>2
      <4> QED BY <4>1, <4>3, <4>4
    <3> QED BY <3>1
  <2>3. Same \in SUBSET Nat OBVIOUS
  <2>4. Same = Nat
    <3> HIDE DEF Same
    <3> QED BY <2>1, <2>2, <2>3, Upward
  <2> QED BY <2>4
<1>10. Rewrite(names) = text[MaxSuffix]
  BY DEF Rewrite
<1>11. W[MaxSuffix] = {After(n, MaxSuffix) : n \in names}
  BY <1>1
<1>12. ASSUME NEW n
       PROVE  After(n, MaxSuffix) =
                IF n \in Renamed /\ n[1] \notin Namespaced THEN Suffixed(n) ELSE n
  BY <1>1, RenamedFits
<1>13. MaxSuffix \in Turns BY <1>1
<1> HIDE DEF After, W, text
<1> QED BY <1>9, <1>10, <1>11, <1>12, <1>13

\* What rewrite_references makes of a text refers to the clones.
LEMMA RewritePlain ==
  ASSUME NEW names
  PROVE  Plain(Rewrite(names)) = {NewName(n) : n \in Plain(names)}
<1> DEFINE To(n) == IF n \in Renamed /\ n[1] \notin Namespaced THEN Suffixed(n) ELSE n
<1>1. \A n : To(n)[1] = n[1] BY DEF Suffixed
<1>2. \A n : n[1] \notin Namespaced => To(n) = NewName(n) BY DEF NewName
<1>3. Rewrite(names) = {To(n) : n \in names} BY RewriteOnce
<1> HIDE DEF To
<1> QED BY <1>1, <1>2, <1>3 DEF Plain

\* The names of a binding are looked up instead.
LEMMA LookedUpPlain ==
  ASSUME NEW names
  PROVE  Plain({NewName(n) : n \in names}) = {NewName(n) : n \in Plain(names)}
<1>1. \A n : NewName(n)[1] = n[1] BY DEF NewName, Suffixed
<1> QED BY <1>1 DEF Plain

-------------------------------------------------------------------------------
(* The steps of a clone *)

LEMMA InitFaith == Init => FaithInv
BY DEF Init, FaithInv, ReadFaithful, StoredFaithful, OkIsClone

\* A call that begins or ends, and what stands still.
LEMMA FaithAround ==
  ASSUME FaithInv, CloneInv,
         \/ Begin \/ Gate \/ (\E o \in Source : Pick(o)) \/ Crash \/ UNCHANGED vars
  PROVE  FaithInv'
<1> USE DEF FaithInv, ReadFaithful, StoredFaithful, OkIsClone, IsCloneOf, Covers, Key
<1>1. CASE Begin BY <1>1 DEF Begin
<1>2. CASE Gate BY <1>2 DEF Gate
<1>3. CASE \E o \in Source : Pick(o) BY <1>3 DEF Pick
<1>4. CASE Crash BY <1>4 DEF Crash
<1>5. CASE UNCHANGED vars BY <1>5 DEF vars
<1> QED BY <1>1, <1>2, <1>3, <1>4, <1>5

\* What is called OK stays so while the target is, and nothing that was lost is found again.
LEMMA StaysClone ==
  ASSUME OkIsClone, UNCHANGED target, unread \subseteq unread',
         \A o \in Source : result'[o] = "OK" => result[o] = "OK"
  PROVE  OkIsClone'
BY DEF OkIsClone, IsCloneOf, Covers, Key

\* Every part is rewritten as it is read; a part that is not read is remembered.
LEMMA FaithRead ==
  ASSUME FaithInv, CloneInv, ReadBinding \/ ReadSource \/ ReadIncludes
  PROVE  FaithInv'
<1>1. at \in Source /\ DOMAIN result = Source /\ "main" \in DOMAIN at.parts
  BY CloneAssumption
  DEF CloneInv, InTurns, AtWork, ReadBinding, ReadSource, ReadIncludes
<1>2. CASE ReadBinding
  <2>1. UNCHANGED <<target, unread>> /\ at.type = "SRVB"
    BY <1>2 DEF ReadBinding
  <2>2. CASE Says("failed")
    <3>1. pc' = "pick" /\ \A o \in Source : result'[o] = "OK" => result[o] = "OK"
      BY <1>1, <2>2 DEF Says
    <3> QED BY <2>1, <3>1, StaysClone DEF FaithInv, ReadFaithful, StoredFaithful
  <2>3. CASE Reads({NewName(n) : n \in at.parts["main"]}, "create")
    <3>1. /\ got' = [p \in {"main"} |-> {NewName(n) : n \in at.parts["main"]}]
          /\ pc' = "create" /\ at' = at /\ result' = result
      BY <2>3 DEF Reads
    <3>2. DOMAIN at.parts = {"main"} BY <1>1, <2>1, CloneAssumption
    <3>3. OkIsClone' BY <2>1, <3>1, StaysClone DEF FaithInv
    <3>4. IsCloneOf(got', at) BY <1>1, <3>1, LookedUpPlain DEF IsCloneOf
    <3>5. Covers(DOMAIN got, at)' BY <3>1, <3>2 DEF Covers
    <3> QED BY <3>1, <3>3, <3>4, <3>5 DEF FaithInv, ReadFaithful, StoredFaithful, IsCloneOf
  <2> QED BY <1>2, <2>2, <2>3 DEF ReadBinding
<1>3. CASE ReadSource
  <2> DEFINE next == IF at.type = "CLAS" THEN "includes" ELSE "create"
  <2>1. UNCHANGED <<target, unread>>
    BY <1>3 DEF ReadSource
  <2>2. CASE Says("failed")
    <3>1. pc' = "pick" /\ \A o \in Source : result'[o] = "OK" => result[o] = "OK"
      BY <1>1, <2>2 DEF Says
    <3> QED BY <2>1, <3>1, StaysClone DEF FaithInv, ReadFaithful, StoredFaithful
  <2>3. CASE Reads(Rewrite(at.parts["main"]), next)
    <3>1. /\ got' = [p \in {"main"} |-> Rewrite(at.parts["main"])]
          /\ pc' = next /\ at' = at /\ result' = result
      BY <2>3 DEF Reads
    <3>2. pc' = "create" => DOMAIN at.parts = {"main"} BY <1>1, <3>1, CloneAssumption
    <3>3. OkIsClone' BY <2>1, <3>1, StaysClone DEF FaithInv
    <3>4. IsCloneOf(got', at) BY <1>1, <3>1, RewritePlain DEF IsCloneOf
    <3>5. pc' = "create" => Covers(DOMAIN got, at)' BY <3>1, <3>2 DEF Covers
    <3>6. pc' \in {"includes", "create"} BY <3>1
    <3> QED BY <3>1, <3>3, <3>4, <3>5, <3>6 DEF FaithInv, ReadFaithful, StoredFaithful, IsCloneOf
  <2> QED BY <1>3, <2>2, <2>3 DEF ReadSource
<1>4. CASE ReadIncludes
  <2>1. PICK lost \in SUBSET (DOMAIN at.parts \ {"main"}) :
          /\ got' = [p \in DOMAIN at.parts \ lost |->
                       IF p = "main" THEN got[p] ELSE Rewrite(at.parts[p])]
          /\ unread' = unread \cup {<<at, p>> : p \in lost}
    BY <1>4 DEF ReadIncludes
  <2>2. pc = "includes" /\ pc' = "create" /\ UNCHANGED <<target, at, result>>
    BY <1>4 DEF ReadIncludes
  <2>3. OkIsClone' BY <2>1, <2>2, StaysClone DEF FaithInv
  <2>4. "main" \in DOMAIN got BY <2>2 DEF CloneInv, AllRead
  <2>5. IsCloneOf(got', at)
    <3>1. Plain(got["main"]) = {NewName(n) : n \in Plain(at.parts["main"])}
      BY <2>2, <2>4 DEF FaithInv, ReadFaithful, IsCloneOf
    <3> QED BY <2>1, <3>1, RewritePlain DEF IsCloneOf
  <2>6. Covers(DOMAIN got, at)' BY <2>1, <2>2 DEF Covers
  <2> QED BY <2>2, <2>3, <2>5, <2>6 DEF FaithInv, ReadFaithful, StoredFaithful, IsCloneOf
<1> QED BY <1>2, <1>3, <1>4

\* The shell is empty, but a binding is complete with it.
LEMMA FaithCreate ==
  ASSUME FaithInv, CloneInv, Create
  PROVE  FaithInv'
<1> DEFINE new == [parts |-> IF at.type = "SRVB" THEN got ELSE NoParts, run |-> run, active |-> FALSE,
                   lacks |-> {p \in DOMAIN at.parts : <<at, p>> \in unread}]
<1>1. /\ pc = "create" /\ at \in Source /\ DOMAIN result = Source /\ UNCHANGED unread
      /\ IsCloneOf(got, at) /\ Covers(DOMAIN got, at) /\ DOMAIN target = Keys
  BY DEF Create, CloneInv, TargetOk, InTurns, AtWork, FaithInv, ReadFaithful
<1>2. Key(at) \in Keys /\ \A o \in Source : o # at => Key(o) # Key(at)
  BY <1>1, KeyIsKey, KeysDiffer
<1>3. UNCHANGED target \/ target' = [target EXCEPT ![Key(at)] = new]
  BY DEF Create
<1>4. \/ pc' = "pick" /\ result' = [result EXCEPT ![at] = "failed"]
      \/ /\ pc' = "pick" /\ result' = [result EXCEPT ![at] = "OK"] /\ at.type = "SRVB"
         /\ target' = [target EXCEPT ![Key(at)] = new]
      \/ /\ pc' = "write" /\ UNCHANGED <<at, got, result>> /\ towrite' = DOMAIN got
         /\ at.type # "SRVB" /\ target' = [target EXCEPT ![Key(at)] = new]
  BY DEF Create, Says
<1>5. at.type = "SRVB" => new.parts = got
  OBVIOUS
<1>6. at.type # "SRVB" => DOMAIN new.parts = {}
  BY DEF NoParts
<1> HIDE DEF new
<1>7. \A o \in Source : o # at => target'[Key(o)] = target[Key(o)]
  BY <1>1, <1>2, <1>3, KeyIsKey
<1>8. OkIsClone'
  <2> SUFFICES ASSUME NEW o \in Source, result'[o] = "OK"
               PROVE  IsCloneOf(target'[Key(o)].parts, o) /\ Covers(DOMAIN target'[Key(o)].parts, o)
    BY <1>1 DEF OkIsClone, IsCloneOf, Covers, Key
  <2>1. CASE o # at
    <3>1. result[o] = "OK" BY <1>1, <1>4, <2>1
    <3> QED BY <1>7, <2>1, <3>1 DEF FaithInv, OkIsClone
  <2>2. CASE o = at /\ pc' = "pick"
    <3>1. target'[Key(o)].parts = got BY <1>1, <1>2, <1>4, <1>5, <2>2
    <3> QED BY <1>1, <2>2, <3>1
  <2>3. CASE o = at /\ pc' = "write"
    <3>1. result[o] = "OK" BY <1>4, <2>3
    <3> QED BY <1>1, <2>3, <3>1 DEF CloneInv, InTurns, AtWork
  <2> QED BY <1>4, <2>1, <2>2, <2>3
<1>9. ReadFaithful'
  BY <1>1, <1>4 DEF ReadFaithful, IsCloneOf, Covers
<1>10. StoredFaithful'
  <2>1. CASE pc' = "pick" BY <2>1 DEF StoredFaithful
  <2>2. CASE pc' = "write"
    <3>1. /\ UNCHANGED <<at, got>> /\ towrite' = DOMAIN got
          /\ at.type # "SRVB" /\ target' = [target EXCEPT ![Key(at)] = new]
      BY <1>4, <2>2
    <3>2. target'[Key(at)] = new BY <1>1, <1>2, <3>1
    <3>3. DOMAIN target'[Key(at)].parts = {} BY <1>6, <3>1, <3>2
    <3> QED BY <1>1, <3>1, <3>3 DEF StoredFaithful, IsCloneOf, Covers, Key
  <2> QED BY <1>4, <2>1, <2>2
<1> QED BY <1>8, <1>9, <1>10 DEF FaithInv

\* A part is stored as it was read; one that the object cannot do without ends the clone
\* when it cannot be stored.
LEMMA FaithWrite ==
  ASSUME FaithInv, CloneInv, NEW p \in ToSet(PartOrder), Write(p)
  PROVE  FaithInv'
<1> DEFINE place == Key(at)
           old == target[place].parts
           new == [q \in DOMAIN old \cup {p} |-> IF q = p THEN got[p] ELSE old[q]]
<1>1. /\ pc = "write" /\ at \in Source /\ DOMAIN result = Source /\ UNCHANGED unread
      /\ p \in towrite /\ DOMAIN target = Keys /\ IsObject(target[place])
      /\ result[at] # "OK"
  BY DEF Write, CloneInv, TargetOk, InTurns, AtWork, AllWritten
<1>2. place \in Keys /\ \A o \in Source : o # at => Key(o) # place
  BY <1>1, KeyIsKey, KeysDiffer
<1>3. /\ IsCloneOf(got, at) /\ Covers(DOMAIN got, at) /\ IsCloneOf(old, at)
      /\ towrite \subseteq DOMAIN got /\ Covers(towrite \cup DOMAIN old, at)
  BY <1>1 DEF FaithInv, ReadFaithful, StoredFaithful
<1>4. Stored(p) = [target EXCEPT ![place] = [target[place] EXCEPT !.parts = new]]
  BY DEF Stored
<1>5. \/ /\ pc' = "pick" /\ result' = [result EXCEPT ![at] = "failed"]
         /\ target' \in {target, Stored(p)}
      \/ /\ UNCHANGED <<pc, at, got, result>> /\ towrite' = towrite \ {p}
         /\ target' = Stored(p) \/ (target' = target /\ p \notin {"main"} \cup Runtime)
  BY DEF Write, Fatal, Says
<1>6. DOMAIN new = DOMAIN old \cup {p} /\ IsCloneOf(new, at)
  <2>1. DOMAIN new = DOMAIN old \cup {p} OBVIOUS
  <2>2. \A q \in DOMAIN new : new[q] = IF q = p THEN got[p] ELSE old[q] OBVIOUS
  <2> HIDE DEF new, old
  <2> QED BY <1>1, <1>3, <2>1, <2>2 DEF IsCloneOf
<1> HIDE DEF place, new
<1>7. target' = Stored(p) => target'[place].parts = new
  BY <1>1, <1>2, <1>4 DEF IsObject
<1>8. \A o \in Source : o # at => target'[Key(o)] = target[Key(o)]
  BY <1>1, <1>2, <1>4, <1>5, KeyIsKey
<1>9. OkIsClone'
  <2> SUFFICES ASSUME NEW o \in Source, result'[o] = "OK"
               PROVE  IsCloneOf(target'[Key(o)].parts, o) /\ Covers(DOMAIN target'[Key(o)].parts, o)
    BY <1>1 DEF OkIsClone, IsCloneOf, Covers, Key
  <2>1. o # at /\ result[o] = "OK" BY <1>1, <1>5
  <2> QED BY <1>8, <2>1 DEF FaithInv, OkIsClone
<1>10. CASE pc' = "pick"
  BY <1>9, <1>10 DEF FaithInv, ReadFaithful, StoredFaithful
<1>11. CASE pc' = "write"
  <2>1. /\ UNCHANGED <<at, got>> /\ towrite' = towrite \ {p}
        /\ target' = Stored(p) \/ (target' = target /\ p \notin {"main"} \cup Runtime)
    BY <1>5, <1>11
  <2>2. ReadFaithful'
    BY <1>1, <1>3, <2>1 DEF ReadFaithful, IsCloneOf, Covers
  <2>3. IsCloneOf(target'[place].parts, at)
    BY <1>3, <1>6, <1>7, <2>1
  <2>4. Covers(towrite' \cup DOMAIN target'[place].parts, at)
    <3>1. CASE target' = Stored(p)
      <4>1. DOMAIN target'[place].parts = DOMAIN old \cup {p} BY <1>6, <1>7, <3>1
      <4>2. towrite' \cup DOMAIN target'[place].parts = towrite \cup DOMAIN old
        BY <1>1, <2>1, <4>1
      <4> QED BY <1>3, <4>2
    <3>2. CASE target' = target /\ p \notin {"main"} \cup Runtime
      <4> HIDE DEF old
      <4>1. target'[place].parts = old BY <3>2 DEF old
      <4> QED BY <1>3, <2>1, <3>2, <4>1 DEF Covers
    <3> QED BY <2>1, <3>1, <3>2
  <2>5. StoredFaithful'
    <3>1. place' = place BY <2>1 DEF place, Key
    <3> QED BY <1>1, <1>3, <2>1, <2>3, <2>4, <3>1 DEF StoredFaithful, IsCloneOf, Covers, place
  <2> QED BY <1>9, <2>2, <2>5 DEF FaithInv
<1> QED BY <1>1, <1>5, <1>10, <1>11

\* With nothing left to write a clone has all its parts.
LEMMA FaithWritten ==
  ASSUME FaithInv, CloneInv, Written
  PROVE  FaithInv'
<1>1. /\ pc = "write" /\ at \in Source /\ DOMAIN result = Source /\ towrite = {}
      /\ UNCHANGED <<target, unread>> /\ pc' = "pick" /\ result' = [result EXCEPT ![at] = "OK"]
  BY DEF Written, Says, CloneInv, InTurns, AtWork
<1>2. IsCloneOf(target[Key(at)].parts, at) /\ Covers(DOMAIN target[Key(at)].parts, at)
  BY <1>1 DEF FaithInv, StoredFaithful
<1>3. OkIsClone'
  <2> SUFFICES ASSUME NEW o \in Source, result'[o] = "OK"
               PROVE  IsCloneOf(target[Key(o)].parts, o) /\ Covers(DOMAIN target[Key(o)].parts, o)
    BY <1>1 DEF OkIsClone, IsCloneOf, Covers, Key
  <2> QED BY <1>1, <1>2 DEF FaithInv, OkIsClone
<1> QED BY <1>1, <1>3 DEF FaithInv, ReadFaithful, StoredFaithful

\* Activation changes no part.
LEMMA FaithActivate ==
  ASSUME FaithInv, CloneInv, Activate
  PROVE  FaithInv'
<1>1. pc' = "idle" /\ UNCHANGED <<result, unread>>
  BY DEF Activate
<1>2. ASSUME NEW o \in Source, result[o] = "OK"
      PROVE  target'[Key(o)].parts = target[Key(o)].parts
  <2>1. CASE UNCHANGED target BY <2>1
  <2>2. CASE target' = [k \in Keys |->
                     IF \E q \in Source : Key(q) = k /\ result[q] = "OK"
                     THEN [target[k] EXCEPT !.active = TRUE] ELSE target[k]]
    <3>1. Key(o) \in Keys BY KeyIsKey
    <3>2. target'[Key(o)] = [target[Key(o)] EXCEPT !.active = TRUE] BY <1>2, <2>2, <3>1
    <3> QED BY <3>2
  <2> QED BY <2>1, <2>2 DEF Activate
<1>3. OkIsClone'
  <2> SUFFICES ASSUME NEW o \in Source, result[o] = "OK"
               PROVE  IsCloneOf(target'[Key(o)].parts, o) /\ Covers(DOMAIN target'[Key(o)].parts, o)
    BY <1>1 DEF OkIsClone, IsCloneOf, Covers, Key
  <2> QED BY <1>2 DEF FaithInv, OkIsClone
<1> QED BY <1>1, <1>3 DEF FaithInv, ReadFaithful, StoredFaithful

LEMMA FaithStep ==
  ASSUME FaithInv, CloneInv, [Next]_vars
  PROVE  FaithInv'
<1>1. CASE Begin \/ Gate \/ (\E o \in Source : Pick(o)) \/ Crash \/ UNCHANGED vars
  BY <1>1, FaithAround
<1>2. CASE ReadBinding \/ ReadSource \/ ReadIncludes BY <1>2, FaithRead
<1>3. CASE Create BY <1>3, FaithCreate
<1>4. CASE \E p \in ToSet(PartOrder) : Write(p) BY <1>4, FaithWrite
<1>5. CASE Written BY <1>5, FaithWritten
<1>6. CASE Activate BY <1>6, FaithActivate
<1> QED BY <1>1, <1>2, <1>3, <1>4, <1>5, <1>6 DEF Next

\* What was read and stored are the parts of the object with the names replaced.
THEOREM FaithInvariance == Spec => []FaithInv
<1>1. CloneInv /\ FaithInv /\ [Next]_vars => FaithInv'
  BY FaithStep
<1> QED BY <1>1, InitFaith, Invariance, PTL DEF Spec

\* What the answer calls OK is there with the local classes that could be read and refers
\* to the clones, whatever the names in the package (adt_client.py:73-82, 2797-2806).
THEOREM OkIsAClone == Spec => []OkIsFaithful
<1>1. FaithInv => OkIsFaithful
  <2> SUFFICES ASSUME OkIsClone PROVE OkIsFaithful
    BY DEF FaithInv
  <2>1. \A n : NewName(n) = IF \E q \in Planned : q.name = n THEN Suffixed(n) ELSE n
    BY DEF NewName, Renamed
  <2> QED BY <2>1 DEF OkIsClone, OkIsFaithful, IsCloneOf, Covers, Plain, Runtime
<1> QED BY <1>1, FaithInvariance, PTL
=============================================================================
