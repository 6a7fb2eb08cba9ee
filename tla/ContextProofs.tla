--------------------------- MODULE ContextProofs ---------------------------
(***************************************************************************)
(* Proofs about Context for any finite set of names, any graph, depth and  *)
(* number of objects.  The recursion of Within is shown to have a solution *)
(* first; what a breadth-first sweep finds then follows from an invariant  *)
(* that compares what was found with Within, level by level.               *)
(***************************************************************************)
EXTENDS Context, SequenceTheorems, FiniteSetTheorems, WellFoundedInduction, TLAPS

\* What n is known to mention where D holds what was read and V the leaves.
Says(D, V, n) == IF n \in V \/ D[n] = Unread THEN {} ELSE D[n]

\* W[k] is what is at most k mentions away from the root.
Spreads(W, D, V) ==
  /\ W[0] = {Root}
  /\ \A k \in Nat : W[k + 1] = W[k] \cup UNION {Says(D, V, n) : n \in W[k]}

\* A set of numbers that has 0 and every successor has them all.
LEMMA Upward ==
  ASSUME NEW I \in SUBSET Nat, 0 \in I, \A k \in I : k + 1 \in I
  PROVE  I = Nat
<1> SUFFICES ASSUME Nat \ I # {} PROVE FALSE
  OBVIOUS
<1>1. PICK i \in Nat \ I : \A j \in Nat \ I : ~ (<<j, i>> \in OpToRel(<, Nat))
  BY WFMin, NatLessThanWellFounded
<1>2. i # 0 /\ i - 1 \in Nat /\ i - 1 < i
  OBVIOUS
<1>3. i - 1 \in I
  BY <1>1, <1>2 DEF OpToRel
<1>4. (i - 1) + 1 \in I
  BY <1>3
<1> QED BY <1>2, <1>4

\* The recursion has a solution, so that Within is one.
LEMMA SpreadsExists ==
  ASSUME NEW D, NEW V, NEW W,
         W = CHOOSE f : f = [k \in Nat |-> IF k = 0 THEN {Root}
                             ELSE f[k - 1] \cup UNION {Says(D, V, n) : n \in f[k - 1]}]
  PROVE  Spreads(W, D, V)
<1> DEFINE Wider(S) == S \cup UNION {Says(D, V, n) : n \in S}
           IsPart(f, m) == f[0] = {Root} /\ \A k \in 1 .. m : f[k] = Wider(f[k - 1])
           IsAll(f) == f = [k \in Nat |-> IF k = 0 THEN {Root} ELSE Wider(f[k - 1])]
           F == [k \in Nat |-> (CHOOSE f : IsPart(f, k))[k]]
<1> HIDE DEF Wider
<1>1. \A m \in Nat : \E f : IsPart(f, m)
  <2> DEFINE I == {m \in Nat : \E f : IsPart(f, m)}
  <2>1. 0 \in I
    <3>1. IsPart([k \in Nat |-> {Root}], 0) OBVIOUS
    <3> QED BY <3>1
  <2>2. ASSUME NEW m \in I PROVE m + 1 \in I
    <3>1. PICK f : IsPart(f, m) OBVIOUS
    <3> DEFINE g == [k \in Nat |-> IF k = m + 1 THEN Wider(f[m]) ELSE f[k]]
    <3>2. IsPart(g, m + 1)
      <4>1. g[0] = {Root} BY <3>1
      <4>2. ASSUME NEW k \in 1 .. m + 1 PROVE g[k] = Wider(g[k - 1])
        <5>1. k \in Nat /\ k - 1 \in Nat /\ k - 1 # m + 1 OBVIOUS
        <5>2. g[k - 1] = f[k - 1] BY <5>1
        <5>3. CASE k = m + 1 BY <5>1, <5>2, <5>3
        <5>4. CASE k # m + 1
          <6>1. k \in 1 .. m BY <5>4
          <6>2. f[k] = Wider(f[k - 1]) BY <3>1, <6>1
          <6>3. g[k] = f[k] BY <5>1, <5>4
          <6> QED BY <5>2, <6>2, <6>3
        <5> QED BY <5>3, <5>4
      <4> HIDE DEF g
      <4> QED BY <4>1, <4>2
    <3> HIDE DEF g
    <3> QED BY <3>2
  <2>3. I = Nat
    <3> HIDE DEF IsPart
    <3> QED BY <2>1, <2>2, Upward
  <2> QED BY <2>3
<1>2. ASSUME NEW m \in Nat, NEW j \in Nat, NEW f, NEW g, IsPart(f, m), IsPart(g, j)
      PROVE  \A k \in Nat : k <= m /\ k <= j => f[k] = g[k]
  <2> DEFINE I == {k \in Nat : k <= m /\ k <= j => f[k] = g[k]}
  <2>1. 0 \in I BY <1>2
  <2>2. ASSUME NEW k \in I PROVE k + 1 \in I
    <3>1. CASE k + 1 <= m /\ k + 1 <= j
      <4>1. f[k] = g[k] BY <3>1
      <4>2. k + 1 \in 1 .. m /\ k + 1 \in 1 .. j /\ (k + 1) - 1 = k BY <3>1
      <4>3. f[k + 1] = Wider(f[k]) /\ g[k + 1] = Wider(g[k]) BY <1>2, <4>2
      <4> QED BY <4>1, <4>3
    <3> QED BY <3>1
  <2>3. I = Nat BY <2>1, <2>2, Upward
  <2> QED BY <2>3
<1>3. \A m \in Nat : IsPart(CHOOSE f : IsPart(f, m), m)
  <2> HIDE DEF IsPart
  <2> QED BY <1>1
<1>4. F[0] = {Root} BY <1>3
<1>5. ASSUME NEW k \in Nat PROVE F[k + 1] = Wider(F[k])
  <2> DEFINE f == CHOOSE h : IsPart(h, k)
             g == CHOOSE h : IsPart(h, k + 1)
  <2>1. F[k] = f[k] /\ F[k + 1] = g[k + 1] OBVIOUS
  <2>2. IsPart(f, k) /\ IsPart(g, k + 1)
    <3> HIDE DEF IsPart
    <3> QED BY <1>3
  <2> HIDE DEF f, g, F
  <2>3. g[k] = f[k]
    <3> HIDE DEF IsPart
    <3> QED BY <1>2, <2>2
  <2>4. k + 1 \in 1 .. k + 1 /\ (k + 1) - 1 = k OBVIOUS
  <2>5. g[k + 1] = Wider(g[k]) BY <2>2, <2>4
  <2> QED BY <2>1, <2>3, <2>5
<1>6. IsAll(F)
  <2>1. ASSUME NEW k \in Nat PROVE F[k] = IF k = 0 THEN {Root} ELSE Wider(F[k - 1])
    <3>1. CASE k = 0 BY <1>4, <3>1
    <3>2. CASE k # 0
      <4>1. k - 1 \in Nat /\ (k - 1) + 1 = k BY <3>2
      <4> HIDE DEF F
      <4>2. F[(k - 1) + 1] = Wider(F[k - 1]) BY <1>5, <4>1
      <4> QED BY <3>2, <4>1, <4>2
    <3> QED BY <3>1, <3>2
  <2>2. F = [k \in Nat |-> F[k]] OBVIOUS
  <2> HIDE DEF F
  <2> QED BY <2>1, <2>2
<1>7. IsAll(W)
  <2>1. W = CHOOSE f : IsAll(f) BY DEF Wider
  <2> HIDE DEF IsAll, F
  <2> QED BY <1>6, <2>1
<1>8. W[0] = {Root} BY <1>7
<1>9. ASSUME NEW k \in Nat PROVE W[k + 1] = Wider(W[k])
  <2>1. k + 1 \in Nat /\ k + 1 # 0 /\ (k + 1) - 1 = k OBVIOUS
  <2> QED BY <1>7, <2>1
<1> QED BY <1>8, <1>9 DEF Spreads, Wider

\* Within is the distance from the root in what has been read, before a step and after it.
LEMMA WithinSpreads ==
  Spreads(Within, deps, leaves) /\ Spreads(Within', deps', leaves')
<1>1. Spreads(Within, deps, leaves)
  BY SpreadsExists DEF Within, Mentions, Says
<1>2. Spreads(Within', deps', leaves')
  BY SpreadsExists DEF Within, Mentions, Says
<1> QED BY <1>1, <1>2

-------------------------------------------------------------------------------
(* Distances in any graph *)

\* What is within reach stays within reach of more steps.
LEMMA Grows ==
  ASSUME NEW D, NEW V, NEW W, Spreads(W, D, V), NEW i \in Nat, NEW j \in Nat, i <= j
  PROVE  W[i] \subseteq W[j]
<1> DEFINE I == {k \in Nat : i <= k => W[i] \subseteq W[k]}
<1>1. 0 \in I OBVIOUS
<1>2. ASSUME NEW k \in I PROVE k + 1 \in I
  <2>1. W[k] \subseteq W[k + 1] BY DEF Spreads
  <2>2. CASE i <= k BY <2>1, <2>2
  <2>3. CASE i = k + 1 BY <2>3
  <2> QED BY <2>2, <2>3
<1>3. I = Nat BY <1>1, <1>2, Upward
<1> QED BY <1>3

\* What mentions nothing outside itself holds all there is.
LEMMA Enclosed ==
  ASSUME NEW D, NEW V, NEW W, Spreads(W, D, V),
         NEW S, Root \in S, \A n \in S : Says(D, V, n) \subseteq S
  PROVE  \A k \in Nat : W[k] \subseteq S
<1> DEFINE I == {k \in Nat : W[k] \subseteq S}
<1>1. 0 \in I BY DEF Spreads
<1>2. ASSUME NEW k \in I PROVE k + 1 \in I
  <2>1. W[k + 1] = W[k] \cup UNION {Says(D, V, n) : n \in W[k]} BY DEF Spreads
  <2> QED BY <2>1
<1>3. I = Nat BY <1>1, <1>2, Upward
<1> QED BY <1>3

\* Nothing moves up to l steps away when nothing nearer changes what it mentions.
LEMMA Undisturbed ==
  ASSUME NEW D, NEW V, NEW W, Spreads(W, D, V), NEW E, NEW U, NEW X, Spreads(X, E, U),
         NEW l \in Nat,
         \A k \in Nat : k < l => \A n \in W[k] : Says(E, U, n) = Says(D, V, n)
  PROVE  \A k \in Nat : k <= l => X[k] = W[k]
<1> DEFINE I == {k \in Nat : k <= l => X[k] = W[k]}
<1>1. 0 \in I BY DEF Spreads
<1>2. ASSUME NEW k \in I PROVE k + 1 \in I
  <2>1. CASE k < l
    <3>1. X[k] = W[k] BY <2>1
    <3>2. \A n \in W[k] : Says(E, U, n) = Says(D, V, n) BY <2>1
    <3>3. W[k + 1] = W[k] \cup UNION {Says(D, V, n) : n \in W[k]} BY DEF Spreads
    <3>4. X[k + 1] = W[k] \cup UNION {Says(E, U, n) : n \in W[k]} BY <3>1 DEF Spreads
    <3>5. X[k + 1] = W[k + 1] BY <3>2, <3>3, <3>4
    <3> QED BY <3>5
  <2> QED BY <2>1
<1>3. I = Nat BY <1>1, <1>2, Upward
<1> QED BY <1>3

\* Nothing moves away when all that is within reach mentions more.
LEMMA Enlarged ==
  ASSUME NEW D, NEW V, NEW W, Spreads(W, D, V), NEW E, NEW U, NEW X, Spreads(X, E, U),
         \A k \in Nat : \A n \in W[k] : Says(D, V, n) \subseteq Says(E, U, n)
  PROVE  \A k \in Nat : W[k] \subseteq X[k]
<1> DEFINE I == {k \in Nat : W[k] \subseteq X[k]}
<1>1. 0 \in I BY DEF Spreads
<1>2. ASSUME NEW k \in I PROVE k + 1 \in I
  <2>1. W[k + 1] = W[k] \cup UNION {Says(D, V, n) : n \in W[k]} BY DEF Spreads
  <2>2. X[k + 1] = X[k] \cup UNION {Says(E, U, n) : n \in X[k]} BY DEF Spreads
  <2> QED BY <2>1, <2>2
<1>3. I = Nat BY <1>1, <1>2, Upward
<1> QED BY <1>3

\* Once a step reaches nothing new, no step does.
LEMMA Stalls ==
  ASSUME NEW D, NEW V, NEW W, Spreads(W, D, V), NEW j \in Nat, W[j + 1] = W[j]
  PROVE  \A k \in Nat : W[k] \subseteq W[j]
<1>1. W[0] \subseteq W[j] BY Grows
<1>2. Root \in W[j] BY <1>1 DEF Spreads
<1>3. W[j] = W[j] \cup UNION {Says(D, V, n) : n \in W[j]} BY DEF Spreads
<1>4. \A n \in W[j] : Says(D, V, n) \subseteq W[j] BY <1>3
<1> QED BY <1>2, <1>4, Enclosed

\* A name that is reached is reached in as many steps as there are names, or fewer.
LEMMA NotFar ==
  ASSUME NEW D, NEW V, NEW W, Spreads(W, D, V), \A i \in Nat : W[i] \subseteq Names,
         NEW k \in Nat, NEW n \in W[k + 1], n \notin W[k]
  PROVE  k + 1 \in 1 .. Cardinality(Names)
<1>1. IsFiniteSet(Names) /\ \A i \in Nat : IsFiniteSet(W[i]) /\ Cardinality(W[i]) \in Nat
  <2>1. IsFiniteSet(Names) BY ContextAssumption, FS_AddElement DEF Names
  <2> QED BY <2>1, FS_Subset, FS_CardinalityType
<1> DEFINE I == {i \in Nat : i <= k + 1 => i < Cardinality(W[i])}
<1>2. 0 \in I
  <2>1. Cardinality({Root}) = 1 BY FS_Singleton
  <2>2. W[0] = {Root} BY DEF Spreads
  <2>3. 0 < Cardinality(W[0]) BY <2>1, <2>2
  <2> QED BY <2>3
<1>3. ASSUME NEW i \in I PROVE i + 1 \in I
  <2>1. CASE i + 1 <= k + 1
    <3>1. W[i] \subseteq W[i + 1] BY Grows
    <3>2. W[i + 1] # W[i]
      <4>1. SUFFICES ASSUME W[i + 1] = W[i] PROVE FALSE OBVIOUS
      <4>2. W[k + 1] \subseteq W[i] BY <4>1, Stalls
      <4>3. W[i] \subseteq W[k] BY <2>1, Grows
      <4> QED BY <4>2, <4>3
    <3>3. Cardinality(W[i]) < Cardinality(W[i + 1]) BY <1>1, <3>1, <3>2, FS_Subset
    <3>4. i < Cardinality(W[i]) BY <2>1
    <3> QED BY <1>1, <3>3, <3>4
  <2> QED BY <2>1
<1>4. I = Nat BY <1>2, <1>3, Upward
<1>5. k + 1 < Cardinality(W[k + 1]) BY <1>4
<1>6. Cardinality(W[k + 1]) <= Cardinality(Names) BY <1>1, FS_Subset
<1>7. Cardinality(Names) \in Nat BY <1>1, FS_CardinalityType
<1> QED BY <1>1, <1>5, <1>6, <1>7

-------------------------------------------------------------------------------
(* The inductive invariant *)

\* The names less than l mentions away.
Nearer(l) == IF l = 0 THEN {} ELSE Within[l - 1]

Settled(n) == n \in leaves \/ deps[n] # Unread

Queued(n) == \E i \in DOMAIN frontier : frontier[i][1] = n

ContextType ==
  /\ asked \in [type : Types, depth : Depths, limit : Limits]
  /\ deps \in [Names -> (SUBSET Names) \cup {Unread}]
  /\ leaves \subseteq Names /\ visited \subseteq Names
  /\ roots \in Seq(Names)
  /\ frontier \in Seq(Names \X Nat)
  /\ at \in [level : Nat, due : SUBSET Names]
  /\ count \in Nat
  /\ added \in Seq(Names)

\* What was added was found, once; a view has no roots, is found from the start, and is
\* left alone once there was one name too many.
OnceInv ==
  /\ Added \subseteq visited
  /\ \A i, j \in DOMAIN added : added[i] = added[j] => i = j
  /\ View => /\ roots = <<>>
             /\ Root \in visited /\ Root \notin Added
             /\ Len(added) <= count /\ Len(added) <= asked.limit
             /\ count > asked.limit => at.due = {}

\* The names found are all those nearer than the level that is being worked on, and some
\* on that level.
FoundInv ==
  /\ visited = {Root} \cup Added
  /\ at.level <= asked.depth
  /\ at.due # {} => at.level > 0
  /\ Nearer(at.level) \subseteq visited
  /\ visited \cup at.due \subseteq Within[at.level]

\* What waits to be read is on this level or the next, each name once, nearest first.
QueueInv ==
  /\ \A i \in DOMAIN frontier :
       /\ frontier[i][2] \in {at.level, at.level + 1} /\ frontier[i][2] \in 1 .. asked.depth
       /\ frontier[i][1] \in visited /\ ~Settled(frontier[i][1])
       /\ frontier[i][1] \in Nearer(frontier[i][2])
       /\ frontier[i][1] \notin Nearer(frontier[i][2] - 1)
  /\ \A i, j \in DOMAIN frontier : i < j =>
       frontier[i][2] <= frontier[j][2] /\ frontier[i][1] # frontier[j][1]

\* What was read or given up had been found, what it mentions is found or due, and what
\* was found is read, given up, waiting or too deep.
ReadInv ==
  /\ \A n \in Names : Settled(n) => n \in visited
  /\ \A n \in Names : Mentions(n) \subseteq visited \cup at.due
  /\ \A n \in visited :
       Settled(n) \/ Queued(n) \/ (at.level = asked.depth /\ n \notin Nearer(asked.depth))

\* As long as no name was one too many.
SweepInv == View /\ count <= asked.limit => FoundInv /\ QueueInv /\ ReadInv

\* Some level is complete and nothing beyond the next was added.
Layered == \E l \in Nat : Nearer(l) \subseteq {Root} \cup Added /\ Added \subseteq Within[l]

\* What is added earlier is no farther.
Ordered ==
  \A i, j \in DOMAIN added : i < j =>
    \A k \in Nat : added[j] \in Within[k] => added[i] \in Within[k]

OrderInv == View => Layered /\ Ordered

ContextInv == ContextType /\ OnceInv /\ SweepInv /\ OrderInv

-------------------------------------------------------------------------------
(* Types, and every name once *)

\* pop(0): the rest of a sequence.
LEMMA PopFirst ==
  ASSUME NEW S, NEW s \in Seq(S), s # <<>>, NEW r, r = RemoveAt(s, Oldest)
  PROVE  /\ r \in Seq(S) /\ Len(s) \in Nat \ {0} /\ DOMAIN s = 1 .. Len(s)
         /\ Len(r) = Len(s) - 1 /\ DOMAIN r = 1 .. (Len(s) - 1)
         /\ \A i \in 1 .. (Len(s) - 1) : r[i] = s[i + 1]
<1>1. Len(s) \in Nat \ {0} /\ DOMAIN s = 1 .. Len(s)
  BY LenProperties, EmptySeq
<1>2. SubSeq(s, 1, 1 - 1) = <<>>
  BY SubSeqEmpty
<1> DEFINE t == SubSeq(s, 2, Len(s))
<1>3. t \in Seq(S) /\ Len(t) = Len(s) - 1 /\ \A i \in 1 .. (Len(s) - 1) : t[i] = s[i + 1]
  <2>1. \A i \in 2 .. Len(s) : s[i] \in S
    BY <1>1, ElementOfSeq
  <2>2. CASE Len(s) = 1
    <3>1. t = <<>> BY <2>2, SubSeqEmpty
    <3> QED BY <2>2, <3>1, EmptySeq
  <2>3. CASE Len(s) # 1
    <3>1. 2 \in 1 .. Len(s) + 1 /\ Len(s) \in 1 .. Len(s) + 1 BY <1>1
    <3> QED BY <1>1, <2>1, <2>3, SubSeqProperties
  <2> QED BY <2>2, <2>3
<1>4. r = <<>> \o t
  BY <1>2 DEF RemoveAt, Oldest
<1> HIDE DEF t
<1>5. r = t
  BY <1>3, <1>4, ConcatEmptySeq
<1>6. DOMAIN t = 1 .. Len(t)
  BY <1>3, LenProperties
<1> QED BY <1>1, <1>3, <1>5, <1>6

\* append: one more, behind the others.
LEMMA PushLast ==
  ASSUME NEW S, NEW s \in Seq(S), NEW e \in S, NEW r, r = Append(s, e)
  PROVE  /\ r \in Seq(S) /\ Len(s) \in Nat /\ DOMAIN s = 1 .. Len(s)
         /\ Len(r) = Len(s) + 1 /\ DOMAIN r = 1 .. (Len(s) + 1)
         /\ \A i \in 1 .. Len(s) : r[i] = s[i]
         /\ r[Len(s) + 1] = e
BY AppendProperties, LenProperties

\* A call starts with well-typed data.
LEMMA InitType == Init => ContextType
<1> SUFFICES ASSUME Init PROVE ContextType OBVIOUS
<1>1. ASSUME NEW n \in Names PROVE <<Root, n>> \in Seq(Names)
  BY <1>1 DEF Names
<1>2. roots \in Seq(Names)
  <2>1. CASE asked.type = "DDLS" BY <2>1, EmptySeq DEF Init
  <2>2. CASE asked.type # "DDLS"
    BY <1>1, <2>2 DEF Init, Entities, Parents, Names
  <2> QED BY <2>1, <2>2
<1>3. frontier \in Seq(Names \X Nat)
  <2>1. <<Root, 1>> \in Names \X Nat BY DEF Names
  <2>2. <<<<Root, 1>>>> \in Seq(Names \X Nat) BY <2>1
  <2> QED BY <2>2, EmptySeq DEF Init
<1> QED BY <1>2, <1>3, EmptySeq DEF Init, ContextType, Nothing, Names

\* Every step keeps the types.
LEMMA TypeStep ==
  ASSUME ContextType, [Next]_vars
  PROVE  ContextType'
<1> USE DEF ContextType
<1>1. ASSUME NEW n \in Names, Again(n) PROVE ContextType'
  BY <1>1 DEF Again
<1>2. ASSUME NEW n \in Names, CutOff(n) PROVE ContextType'
  BY <1>2 DEF CutOff, Nothing
<1>3. ASSUME NEW n \in Names, Add(n) PROVE ContextType'
  <2>1. /\ added' \in Seq(Names) /\ count' \in Nat
        /\ visited' \subseteq Names /\ leaves' \subseteq Names
    BY <1>3, PushLast DEF Add
  <2>2. frontier' \in Seq(Names \X Nat)
    <3>1. <<n, at.level + 1>> \in Names \X Nat OBVIOUS
    <3>2. Append(frontier, <<n, at.level + 1>>) \in Seq(Names \X Nat)
      BY <3>1, PushLast
    <3> QED BY <1>3, <3>2 DEF Add
  <2> QED BY <1>3, <2>1, <2>2 DEF Add
<1>4. ASSUME Expand PROVE ContextType'
  <2>1. frontier # <<>> BY <1>4 DEF Expand, Busy
  <2>2. frontier' \in Seq(Names \X Nat) BY <1>4, <2>1, PopFirst DEF Expand
  <2>3. frontier[1] \in Names \X Nat
    <3>1. 1 \in 1 .. Len(frontier) BY <2>1, PopFirst
    <3> QED BY <3>1, ElementOfSeq
  <2>4. frontier[1][1] \in Names /\ frontier[1][2] \in Nat BY <2>3
  <2>5. /\ deps' \in [Names -> (SUBSET Names) \cup {Unread}]
        /\ at' \in [level : Nat, due : SUBSET Names]
    <3> DEFINE n == frontier[1][1]
               level == frontier[1][2]
    <3>1. ASSUME NEW due \in SUBSET Names
          PROVE  [level |-> level, due |-> due] \in [level : Nat, due : SUBSET Names]
      BY <2>4
    <3>2. deps[n] # Unread => deps[n] \in SUBSET Names BY <2>4
    <3> HIDE DEF level
    <3>3. CASE \E due \in Sources(n) : /\ deps' = [deps EXCEPT ![n] = due]
                                       /\ at' = [level |-> level, due |-> due]
      <4>1. PICK due \in SUBSET Names : /\ deps' = [deps EXCEPT ![n] = due]
                                        /\ at' = [level |-> level, due |-> due]
        BY <3>3 DEF Sources
      <4> QED BY <3>1, <4>1
    <3>4. CASE deps[n] # Unread /\ at' = [level |-> level, due |-> deps[n]] /\ UNCHANGED deps
      BY <3>1, <3>2, <3>4
    <3>5. CASE UNCHANGED <<deps, at>> BY <3>5
    <3> QED BY <1>4, <3>3, <3>4, <3>5 DEF Expand, Oldest, level
  <2>6. leaves' \subseteq Names BY <1>4, <2>4 DEF Expand, Oldest
  <2> QED BY <1>4, <2>2, <2>5, <2>6 DEF Expand
<1>5. ASSUME AddEntity \/ AddOther PROVE ContextType'
  <2>1. roots # <<>> BY <1>5 DEF AddEntity, AddOther, AddBlock
  <2>2. roots' \in Seq(Names) /\ Head(roots) \in Names
    <3>1. roots \in Seq(Names) OBVIOUS
    <3>2. Head(roots) \in Names /\ Tail(roots) \in Seq(Names)
      BY ONLY <2>1, <3>1, HeadTailProperties
    <3> QED BY <1>5, <3>2 DEF AddEntity, AddOther, AddBlock
  <2>3. <<<<Head(roots), 1>>>> \in Seq(Names \X Nat)
    <3>1. <<Head(roots), 1>> \in Names \X Nat BY <2>2
    <3> QED BY <3>1
  <2>4. UNCHANGED <<asked, deps, at, added>> BY <1>5 DEF AddEntity, AddOther, AddBlock
  <2>5. frontier' \in Seq(Names \X Nat) BY <1>5, <2>3 DEF AddEntity, AddOther
  <2>6. visited' \subseteq Names /\ leaves' \subseteq Names /\ count' \in Nat
    BY <1>5, <2>2 DEF AddEntity, AddOther, Mark
  <2> QED BY <2>2, <2>4, <2>5, <2>6
<1>6. CASE UNCHANGED vars BY <1>6 DEF vars
<1> QED BY <1>1, <1>2, <1>3, <1>4, <1>5, <1>6 DEF Next

\* At the start nothing was added.
LEMMA InitOnce == Init => OnceInv
<1> SUFFICES ASSUME Init PROVE OnceInv OBVIOUS
<1>1. added = <<>> /\ DOMAIN added = {} /\ Len(added) = 0 BY EmptySeq DEF Init
<1>2. Added = {} BY <1>1 DEF Added
<1>3. asked.limit \in Nat BY ContextAssumption DEF Init
<1> QED BY <1>1, <1>2, <1>3 DEF Init, OnceInv, View, Nothing

\* What one name more makes of the names added.
LEMMA AddedMore ==
  ASSUME ContextType, NEW n \in Names, added' = Append(added, n)
  PROVE  Added' = Added \cup {n}
<1>1. /\ DOMAIN added = 1 .. Len(added) /\ DOMAIN added' = 1 .. (Len(added) + 1)
      /\ Len(added) \in Nat
      /\ \A i \in 1 .. Len(added) : added'[i] = added[i]
      /\ added'[Len(added) + 1] = n
  BY PushLast DEF ContextType
<1>2. Added' = {added'[i] : i \in 1 .. (Len(added) + 1)} BY <1>1 DEF Added
<1>3. Added = {added[i] : i \in 1 .. Len(added)} BY <1>1 DEF Added
<1>4. 1 .. (Len(added) + 1) = 1 .. Len(added) \cup {Len(added) + 1} BY <1>1
<1> QED BY <1>1, <1>2, <1>3, <1>4

\* A name is added only when it had not been found.
LEMMA OnceStep ==
  ASSUME ContextType, OnceInv, [Next]_vars
  PROVE  OnceInv'
<1> USE DEF OnceInv, View
<1>1. ASSUME NEW n \in Names, Again(n) PROVE OnceInv'
  BY <1>1 DEF Again, Added, ContextType
<1>2. ASSUME NEW n \in Names, CutOff(n) PROVE OnceInv'
  <2>1. Added' = Added BY <1>2 DEF CutOff, Added
  <2>2. Len(added) \in Nat BY LenProperties DEF ContextType
  <2> QED BY <1>2, <2>1, <2>2 DEF CutOff, ContextType, Nothing
<1>3. ASSUME NEW n \in Names, Add(n) PROVE OnceInv'
  <2>1. Added' = Added \cup {n} BY <1>3, AddedMore DEF Add
  <2>2. /\ DOMAIN added = 1 .. Len(added) /\ DOMAIN added' = 1 .. (Len(added) + 1)
        /\ Len(added) \in Nat /\ Len(added') = Len(added) + 1
        /\ \A i \in 1 .. Len(added) : added'[i] = added[i]
        /\ added'[Len(added) + 1] = n
    BY <1>3, PushLast DEF Add, ContextType
  <2>3. n \notin Added /\ (View => n # Root) BY <1>3 DEF Add
  <2>4. \A i \in 1 .. Len(added) : added[i] \in Added BY <2>2 DEF Added
  <2>5. \A i, j \in DOMAIN added' : added'[i] = added'[j] => i = j
    BY <2>2, <2>3, <2>4
  <2>6. asked.limit \in Nat BY ContextAssumption DEF ContextType
  <2> QED BY <1>3, <2>1, <2>2, <2>3, <2>5, <2>6 DEF Add, ContextType
<1>4. ASSUME Expand PROVE OnceInv'
  <2>1. count < asked.limit BY <1>4 DEF Expand, Busy
  <2>2. asked.limit \in Nat /\ count \in Nat BY ContextAssumption DEF ContextType
  <2> QED BY <1>4, <2>1, <2>2 DEF Expand, Added
<1>5. ASSUME AddEntity \/ AddOther PROVE OnceInv'
  <2>1. ~View BY <1>5 DEF AddEntity, AddOther, AddBlock
  <2> QED BY <1>5, <2>1 DEF AddEntity, AddOther, AddBlock, Mark, Added
<1>6. CASE UNCHANGED vars BY <1>6 DEF vars, Added
<1> QED BY <1>1, <1>2, <1>3, <1>4, <1>5, <1>6 DEF Next

-------------------------------------------------------------------------------
(* The sweep, level by level *)

\* Everything is a name.
LEMMA InNames == ContextType => \A k \in Nat : Within[k] \subseteq Names
<1> SUFFICES ASSUME ContextType PROVE \A k \in Nat : Within[k] \subseteq Names OBVIOUS
<1>1. \A n \in Names : Says(deps, leaves, n) \subseteq Names BY DEF Says, ContextType
<1>2. Root \in Names BY DEF Names
<1> QED BY <1>1, <1>2, WithinSpreads, Enclosed

\* A step after which every name mentions what it did moves no name.
LEMMA SameReach ==
  ASSUME ContextType, \A n \in Names : Mentions(n)' = Mentions(n)
  PROVE  \A k \in Nat : Within'[k] = Within[k]
<1>1. \A n \in Names : Says(deps', leaves', n) = Says(deps, leaves, n) BY DEF Mentions, Says
<1> SUFFICES ASSUME NEW k \in Nat PROVE Within'[k] = Within[k] OBVIOUS
<1>2. \A j \in Nat : j < k => \A n \in Within[j] : Says(deps', leaves', n) = Says(deps, leaves, n)
  BY <1>1, InNames
<1>3. \A j \in Nat : j <= k => Within'[j] = Within[j]
  BY <1>2, WithinSpreads, Undisturbed
<1> QED BY <1>3

\* Nothing changes when a dependency turns out to be found already, or nothing happens.
LEMMA SweepStays ==
  ASSUME ContextType, FoundInv /\ QueueInv /\ ReadInv,
         UNCHANGED <<asked, deps, leaves, frontier, visited, added>>, at'.level = at.level,
         at'.due \subseteq at.due, at.due \subseteq visited \cup at'.due
  PROVE  (FoundInv /\ QueueInv /\ ReadInv)'
<1>1. Added' = Added BY DEF Added
<1>2. \A m \in Names : /\ Mentions(m)' = Mentions(m)
                       /\ Settled(m) <=> Settled(m)'
                       /\ Queued(m) <=> Queued(m)'
  BY DEF Mentions, Settled, Queued
<1>3. \A k \in Nat : Within'[k] = Within[k] BY <1>2, SameReach
<1>4. \A l \in Nat : Nearer(l)' = Nearer(l) BY <1>3 DEF Nearer
<1>5. at.level \in Nat /\ asked.depth \in Nat BY ContextAssumption DEF ContextType
<1>6. FoundInv'
  <2>1. Nearer(at.level)' = Nearer(at.level) /\ Within'[at.level] = Within[at.level]
    BY <1>3, <1>5 DEF Nearer
  <2> QED BY <1>1, <2>1 DEF FoundInv
<1>7. QueueInv'
  <2>1. \A i \in DOMAIN frontier : frontier[i][1] \in Names /\ frontier[i][2] \in Nat
    BY ElementOfSeq, LenProperties DEF ContextType
  <2>2. \A i \in DOMAIN frontier : frontier[i][2] - 1 \in Nat BY DEF QueueInv
  <2> QED BY <1>2, <1>4, <2>1, <2>2 DEF QueueInv, Nearer
<1>8. ReadInv'
  <2>1. Nearer(asked.depth)' = Nearer(asked.depth) BY <1>3, <1>5 DEF Nearer
  <2>2. visited \subseteq Names BY DEF ContextType
  <2> QED BY <1>2, <2>1, <2>2 DEF ReadInv
<1> QED BY <1>6, <1>7, <1>8

\* A new dependency is found, and waits, is a leaf or is too deep.
LEMMA SweepAdd ==
  ASSUME ContextType, OnceInv, View, FoundInv /\ QueueInv /\ ReadInv, NEW n \in Names, Add(n)
  PROVE  (FoundInv /\ QueueInv /\ ReadInv)'
<1> DEFINE cur == at.level
<1>1. UNCHANGED <<asked, deps>> /\ visited' = visited \cup {n} /\ Added' = Added \cup {n}
  BY AddedMore DEF Add
<1>2. at'.level = cur /\ at'.due = at.due \ {n} /\ n \in at.due /\ n \notin visited
  BY DEF Add, ContextType
<1>3. ~Settled(n) /\ deps[n] = Unread /\ (leaves' = leaves \/ leaves' = leaves \cup {n})
  BY <1>2 DEF ReadInv, Settled, Add
<1>4. \A m \in Names : /\ Mentions(m)' = Mentions(m)
                       /\ Settled(m) => Settled(m)'
                       /\ m # n => (Settled(m)' <=> Settled(m))
  BY <1>1, <1>3 DEF Mentions, Settled
<1>5. \A k \in Nat : Within'[k] = Within[k]
  BY <1>4, SameReach
<1>6. cur \in Nat /\ asked.depth \in Nat /\ cur > 0 /\ cur <= asked.depth
  BY <1>2, ContextAssumption DEF ContextType, FoundInv
<1>7. \A l \in Nat : Nearer(l)' = Nearer(l)
  BY <1>5 DEF Nearer
<1>8. n \in Within[cur] /\ n \notin Nearer(cur) /\ n # Root
  BY <1>2 DEF FoundInv, OnceInv
<1>9. FoundInv'
  <2>1. Nearer(cur)' = Nearer(cur) /\ Within'[cur] = Within[cur] BY <1>2, <1>5, <1>6 DEF Nearer
  <2> QED BY <1>1, <1>2, <1>6, <2>1 DEF FoundInv
<1>10. \/ frontier' = frontier /\ (n \in leaves' \/ cur = asked.depth)
       \/ frontier' = Append(frontier, <<n, cur + 1>>) /\ leaves' = leaves /\ cur < asked.depth
  BY <1>6 DEF Add, Deeper
<1>11. DOMAIN frontier = 1 .. Len(frontier) /\ Len(frontier) \in Nat
  BY LenProperties DEF ContextType
<1>12. \A i \in DOMAIN frontier : frontier[i][1] # n /\ frontier[i][1] \in Names
  BY <1>2 DEF QueueInv, ContextType
<1>13. CASE frontier' = frontier /\ (n \in leaves' \/ cur = asked.depth)
  <2>1. QueueInv'
    <3>1. \A i \in DOMAIN frontier : frontier[i][2] - 1 \in Nat /\ frontier[i][2] \in Nat
      BY DEF QueueInv
    <3> QED BY <1>1, <1>2, <1>4, <1>7, <1>12, <1>13, <3>1 DEF QueueInv, Nearer
  <2>2. ReadInv'
    <3>1. \A m \in Names : (Queued(m)' <=> Queued(m)) BY <1>13 DEF Queued
    <3>2. Nearer(asked.depth)' = Nearer(asked.depth) BY <1>1, <1>6, <1>7 DEF Nearer
    <3>3. n \in leaves' => Settled(n)' BY DEF Settled
    <3>4. \A m \in visited :
            Settled(m)' \/ Queued(m)' \/ (cur = asked.depth /\ m \notin Nearer(asked.depth))
      BY <1>4, <3>1 DEF ReadInv, ContextType
    <3>5. Settled(n)' \/ (cur = asked.depth /\ n \notin Nearer(asked.depth))
      BY <1>8, <1>13, <3>3
    <3>6. \A m \in Names : Settled(m)' => m \in visited' BY <1>1, <1>4 DEF ReadInv
    <3>7. \A m \in Names : Mentions(m)' \subseteq visited' \cup at'.due
      BY <1>1, <1>2, <1>4 DEF ReadInv
    <3> QED BY <1>1, <1>2, <3>2, <3>4, <3>5, <3>6, <3>7 DEF ReadInv
  <2> QED BY <1>9, <2>1, <2>2
<1>14. CASE frontier' = Append(frontier, <<n, cur + 1>>) /\ leaves' = leaves /\ cur < asked.depth
  <2>1. <<n, cur + 1>> \in Names \X Nat BY <1>6
  <2>2. /\ DOMAIN frontier' = 1 .. (Len(frontier) + 1)
        /\ \A i \in 1 .. Len(frontier) : frontier'[i] = frontier[i]
        /\ frontier'[Len(frontier) + 1] = <<n, cur + 1>>
    BY <1>14, <2>1, PushLast DEF ContextType
  <2>3. ~Settled(n)' BY <1>1, <1>3, <1>14 DEF Settled
  <2>4. QueueInv'
    <3>1. ASSUME NEW i \in DOMAIN frontier', NEW m, NEW l, m = frontier'[i][1], l = frontier'[i][2]
          PROVE /\ l \in {cur, cur + 1} /\ l \in 1 .. asked.depth
                /\ m \in visited' /\ ~Settled(m)'
                /\ m \in Nearer(l)' /\ m \notin Nearer(l - 1)'
      <4>1. CASE i \in 1 .. Len(frontier)
        <5>1. m = frontier[i][1] /\ l = frontier[i][2] /\ i \in DOMAIN frontier
          BY <1>11, <2>2, <3>1, <4>1
        <5>2. /\ l \in {cur, cur + 1} /\ l \in 1 .. asked.depth /\ m \in visited /\ ~Settled(m)
              /\ m \in Nearer(l) /\ m \notin Nearer(l - 1) /\ m # n /\ m \in Names
          BY <1>12, <5>1 DEF QueueInv
        <5>3. l \in Nat /\ l - 1 \in Nat BY <5>2
        <5> HIDE DEF cur
        <5> QED BY <1>1, <1>4, <1>7, <5>2, <5>3
      <4>2. CASE i = Len(frontier) + 1
        <5>1. m = n /\ l = cur + 1 BY <2>2, <3>1, <4>2
        <5>2. n \in Within'[cur] /\ n \notin Within'[cur - 1] BY <1>5, <1>6, <1>8 DEF Nearer
        <5>3. l # 0 /\ l - 1 = cur /\ cur # 0 /\ l \in 1 .. asked.depth BY <1>6, <1>14, <5>1
        <5>4. l \in Nat /\ l - 1 \in Nat BY <5>3
        <5>5. m \in Nearer(l)' /\ m \notin Nearer(l - 1)'
          BY <5>1, <5>2, <5>3 DEF Nearer
        <5>6. m \in visited' /\ ~Settled(m)' BY <1>1, <2>3, <5>1
        <5> QED BY <5>1, <5>3, <5>5, <5>6
      <4> QED BY <1>11, <2>2, <4>1, <4>2
    <3>2. ASSUME NEW i \in DOMAIN frontier', NEW j \in DOMAIN frontier', i < j
          PROVE frontier'[i][2] <= frontier'[j][2] /\ frontier'[i][1] # frontier'[j][1]
      <4>1. i \in 1 .. Len(frontier) /\ frontier'[i] = frontier[i] /\ i \in DOMAIN frontier
        BY <1>11, <2>2, <3>2
      <4>2. CASE j \in 1 .. Len(frontier)
        <5>1. frontier'[j] = frontier[j] /\ j \in DOMAIN frontier BY <1>11, <2>2, <4>2
        <5> QED BY <3>2, <4>1, <5>1 DEF QueueInv
      <4>3. CASE j = Len(frontier) + 1
        <5>1. frontier'[j][1] = n /\ frontier'[j][2] = cur + 1 BY <2>2, <4>3
        <5>2. frontier[i][2] \in {cur, cur + 1} /\ frontier[i][1] # n BY <1>12, <4>1 DEF QueueInv
        <5> QED BY <1>6, <4>1, <5>1, <5>2
      <4> QED BY <1>11, <2>2, <4>2, <4>3
    <3> QED BY <1>1, <1>2, <3>1, <3>2 DEF QueueInv, Settled, Nearer
  <2>5. ReadInv'
    <3>1. \A m \in Names : Queued(m) => Queued(m)' BY <1>11, <2>2 DEF Queued
    <3>2. Queued(n)' BY <1>11, <2>2 DEF Queued
    <3>3. \A m \in visited : Settled(m)' \/ Queued(m)'
      BY <1>4, <1>6, <1>14, <3>1 DEF ReadInv, ContextType
    <3>4. \A m \in Names : Settled(m)' => m \in visited' BY <1>1, <1>4 DEF ReadInv
    <3>5. \A m \in Names : Mentions(m)' \subseteq visited' \cup at'.due
      BY <1>1, <1>2, <1>4 DEF ReadInv
    <3> QED BY <1>1, <3>2, <3>3, <3>4, <3>5 DEF ReadInv
  <2> QED BY <1>9, <2>4, <2>5
<1> QED BY <1>10, <1>13, <1>14

\* All that is nearer than a view waiting first in line has been found.
LEMMA FirstInLine ==
  ASSUME ContextType, FoundInv /\ QueueInv /\ ReadInv, at.due = {},
         NEW n, NEW l, 1 \in DOMAIN frontier, frontier[1][1] = n, frontier[1][2] = l
  PROVE  /\ l \in {at.level, at.level + 1} /\ l \in 1 .. asked.depth
         /\ l \in Nat /\ l - 1 \in Nat
         /\ n \in visited /\ n \in Names /\ ~Settled(n)
         /\ n \in Within[l - 1] /\ n \notin Nearer(l - 1)
         /\ Within[l - 1] \subseteq visited /\ visited \subseteq Within[l]
<1> DEFINE cur == at.level
<1>1. cur \in Nat BY DEF ContextType
<1>2. /\ l \in {cur, cur + 1} /\ l \in 1 .. asked.depth
      /\ n \in visited /\ ~Settled(n) /\ n \in Nearer(l) /\ n \notin Nearer(l - 1)
  BY DEF QueueInv
<1>3. l \in Nat /\ l - 1 \in Nat /\ l # 0 BY <1>2
<1>4. Nearer(l) = Within[l - 1] BY <1>3 DEF Nearer
<1>5. Nearer(cur) \subseteq visited /\ visited \subseteq Within[cur] BY DEF FoundInv
<1>6. CASE l = cur
  BY <1>2, <1>3, <1>4, <1>5, <1>6 DEF ContextType
<1>7. CASE l = cur + 1
  <2>1. Within[cur] \subseteq visited
    <3>1. CASE cur = 0
      <4>1. Within[0] = {Root} BY WithinSpreads DEF Spreads
      <4> QED BY <3>1, <4>1 DEF FoundInv
    <3>2. CASE cur # 0
      <4>1. cur - 1 \in Nat /\ (cur - 1) + 1 = cur BY <1>1, <3>2
      <4>2. Within[cur] = Within[cur - 1] \cup UNION {Says(deps, leaves, m) : m \in Within[cur - 1]}
        BY <4>1, WithinSpreads DEF Spreads
      <4>3. Within[cur - 1] \subseteq visited BY <1>5, <3>2 DEF Nearer
      <4>4. \A m \in Within[cur - 1] : Says(deps, leaves, m) \subseteq visited
        <5>1. \A m \in Names : Mentions(m) \subseteq visited BY DEF ReadInv
        <5> QED BY <4>3, <5>1 DEF Says, Mentions, ContextType
      <4> HIDE DEF cur
      <4> QED BY <4>2, <4>3, <4>4
    <3> QED BY <3>1, <3>2
  <2>2. Within[cur] \subseteq Within[l] BY <1>1, <1>3, <1>7, WithinSpreads, Grows
  <2>3. l - 1 = cur BY <1>1, <1>7
  <2> QED BY <1>2, <1>3, <1>4, <1>5, <2>1, <2>2, <2>3 DEF ContextType
<1> QED BY <1>2, <1>6, <1>7

\* A view that is read adds what it mentions, one step farther and no nearer.
LEMMA ReadReach ==
  ASSUME ContextType, FoundInv /\ QueueInv /\ ReadInv, at.due = {},
         NEW n, NEW l, 1 \in DOMAIN frontier, frontier[1][1] = n, frontier[1][2] = l,
         NEW due \in SUBSET Names, deps' = [deps EXCEPT ![n] = due], leaves' = leaves
  PROVE  /\ \A k \in Nat : k <= l - 1 => Within'[k] = Within[k]
         /\ \A k \in Nat : Within[k] \subseteq Within'[k]
         /\ due \subseteq Within'[l]
         /\ Mentions(n)' = due /\ \A m \in Names : m # n => Mentions(m)' = Mentions(m)
<1>1. /\ l \in Nat /\ l - 1 \in Nat /\ n \in Names /\ ~Settled(n)
      /\ n \in Within[l - 1] /\ n \notin Nearer(l - 1)
  BY FirstInLine
<1>2. /\ Says(deps', leaves', n) = due /\ Says(deps, leaves, n) = {}
      /\ \A m \in Names : m # n => Says(deps', leaves', m) = Says(deps, leaves, m)
  BY <1>1, ContextAssumption DEF Says, Settled, ContextType
<1>3. ASSUME NEW k \in Nat, k < l - 1, NEW m \in Within[k] PROVE m # n
  <2>1. l - 2 \in Nat /\ k <= l - 2 /\ l - 1 # 0 /\ (l - 1) - 1 = l - 2 BY <1>1, <1>3
  <2>2. Within[k] \subseteq Within[l - 2] BY <2>1, WithinSpreads, Grows
  <2>3. n \notin Within[l - 2] BY <1>1, <2>1 DEF Nearer
  <2> QED BY <1>3, <2>2, <2>3
<1>4. \A k \in Nat : k <= l - 1 => Within'[k] = Within[k]
  <2>1. \A k \in Nat : k < l - 1 =>
          \A m \in Within[k] : Says(deps', leaves', m) = Says(deps, leaves, m)
    BY <1>2, <1>3, InNames
  <2> QED BY <1>1, <2>1, WithinSpreads, Undisturbed
<1>5. \A k \in Nat : Within[k] \subseteq Within'[k]
  <2>1. \A m \in Names : Says(deps, leaves, m) \subseteq Says(deps', leaves', m) BY <1>2
  <2>2. \A k \in Nat : \A m \in Within[k] : Says(deps, leaves, m) \subseteq Says(deps', leaves', m)
    BY <2>1, InNames
  <2> QED BY <2>2, WithinSpreads, Enlarged
<1>6. due \subseteq Within'[l]
  <2>1. n \in Within'[l - 1] BY <1>1, <1>4
  <2>2. (l - 1) + 1 = l BY <1>1
  <2>3. Within'[l] = Within'[l - 1] \cup UNION {Says(deps', leaves', m) : m \in Within'[l - 1]}
    BY <1>1, <2>2, WithinSpreads DEF Spreads
  <2> QED BY <1>2, <2>1, <2>3
<1> QED BY <1>2, <1>4, <1>5, <1>6 DEF Mentions, Says

\* The line moves up by one.
LEMMA LineMoves ==
  ASSUME ContextType, QueueInv, frontier # <<>>, frontier' = RemoveAt(frontier, Oldest)
  PROVE  /\ 1 \in DOMAIN frontier
         /\ \A i \in DOMAIN frontier' : /\ i \in Nat /\ 1 < i + 1 /\ i + 1 \in DOMAIN frontier
                                       /\ frontier'[i] = frontier[i + 1]
         /\ \A m \in Names : Queued(m) => m = frontier[1][1] \/ Queued(m)'
<1>1. /\ Len(frontier) \in Nat \ {0} /\ DOMAIN frontier = 1 .. Len(frontier)
      /\ DOMAIN frontier' = 1 .. (Len(frontier) - 1)
      /\ \A i \in 1 .. (Len(frontier) - 1) : frontier'[i] = frontier[i + 1]
  <2>1. frontier \in Seq(Names \X Nat) BY DEF ContextType
  <2> QED BY <2>1, PopFirst
<1>2. ASSUME NEW m \in Names, NEW i \in DOMAIN frontier, frontier[i][1] = m, i # 1
      PROVE  Queued(m)'
  <2>1. i - 1 \in DOMAIN frontier' /\ (i - 1) + 1 = i BY <1>1, <1>2
  <2>2. frontier'[i - 1] = frontier[i] BY <1>1, <2>1
  <2>3. \E j \in DOMAIN frontier' : frontier'[j][1] = m BY <1>2, <2>1, <2>2
  <2> QED BY <2>3 DEF Queued
<1>3. \A m \in Names : Queued(m) => m = frontier[1][1] \/ Queued(m)' BY <1>2 DEF Queued
<1> QED BY <1>1, <1>3

\* The next view is read, or given up.
LEMMA SweepExpand ==
  ASSUME ContextType, FoundInv /\ QueueInv /\ ReadInv, Expand
  PROVE  (FoundInv /\ QueueInv /\ ReadInv)'
<1> DEFINE cur == at.level
<1>1. /\ at.due = {} /\ frontier # <<>> /\ frontier' = RemoveAt(frontier, Oldest)
      /\ UNCHANGED <<asked, roots, visited, count, added, direct>> /\ Added' = Added
  BY DEF Expand, Busy, Added
<1>2. PICK n, l : n = frontier[1][1] /\ l = frontier[1][2] OBVIOUS
<1>3. 1 \in DOMAIN frontier BY <1>1, LineMoves
<1>4. /\ l \in {cur, cur + 1} /\ l \in 1 .. asked.depth
      /\ l \in Nat /\ l - 1 \in Nat
      /\ n \in visited /\ n \in Names /\ ~Settled(n)
      /\ n \in Within[l - 1] /\ n \notin Nearer(l - 1)
      /\ Within[l - 1] \subseteq visited /\ visited \subseteq Within[l]
  BY <1>1, <1>2, <1>3, FirstInLine
<1>5. cur \in Nat /\ asked.depth \in Nat /\ cur <= asked.depth
  BY ContextAssumption DEF ContextType, FoundInv
\* What is behind the first in line.
<1>6. ASSUME NEW i \in DOMAIN frontier', NEW m, NEW k, m = frontier'[i][1], k = frontier'[i][2]
      PROVE  /\ l <= k /\ k \in {cur, cur + 1} /\ k \in 1 .. asked.depth
             /\ m \in visited /\ m \in Names /\ m # n /\ ~Settled(m)
             /\ m \in Nearer(k) /\ m \notin Nearer(k - 1)
  <2>1. i + 1 \in DOMAIN frontier /\ 1 < i + 1 /\ m = frontier[i + 1][1] /\ k = frontier[i + 1][2]
    BY <1>1, <1>6, LineMoves
  <2> HIDE DEF cur
  <2> QED BY <1>2, <1>3, <2>1 DEF QueueInv, ContextType, cur
<1>7. ASSUME NEW i \in DOMAIN frontier', NEW j \in DOMAIN frontier', i < j
      PROVE  frontier'[i][2] <= frontier'[j][2] /\ frontier'[i][1] # frontier'[j][1]
  <2>1. /\ i + 1 \in DOMAIN frontier /\ j + 1 \in DOMAIN frontier /\ i + 1 < j + 1
        /\ frontier'[i] = frontier[i + 1] /\ frontier'[j] = frontier[j + 1]
    <3>1. i \in Nat /\ j \in Nat BY <1>1, LineMoves
    <3> QED BY <1>1, <1>7, <3>1, LineMoves
  <2> QED BY <2>1 DEF QueueInv
<1>8. CASE \E due \in SUBSET Names : deps' = [deps EXCEPT ![n] = due] /\ leaves' = leaves
                                     /\ at' = [level |-> l, due |-> due]
  <2>1. PICK due \in SUBSET Names : deps' = [deps EXCEPT ![n] = due] /\ leaves' = leaves
                                    /\ at' = [level |-> l, due |-> due]
    BY <1>8
  <2>2. /\ \A k \in Nat : k <= l - 1 => Within'[k] = Within[k]
        /\ \A k \in Nat : Within[k] \subseteq Within'[k]
        /\ due \subseteq Within'[l]
        /\ Mentions(n)' = due /\ \A m \in Names : m # n => Mentions(m)' = Mentions(m)
    BY <1>1, <1>2, <1>3, <2>1, ReadReach
  <2>3. Settled(n)' /\ \A m \in Names : m # n => (Settled(m)' <=> Settled(m))
    BY <1>4, <2>1, ContextAssumption DEF Settled, ContextType
  <2>4. at'.level = l /\ at'.due = due BY <2>1
  <2>5. \A k \in Nat : k <= l => Nearer(k)' = Nearer(k)
    BY <1>4, <2>2 DEF Nearer
  <2>6. \A k \in Nat : Nearer(k) \subseteq Nearer(k)' BY <2>2 DEF Nearer
  <2>7. FoundInv'
    <3>1. Nearer(l)' \subseteq visited BY <1>4, <2>2 DEF Nearer
    <3>2. Nearer(at.level)' \subseteq visited BY <2>4, <3>1 DEF Nearer
    <3>3. visited \cup due \subseteq Within'[l] BY <1>4, <2>2
    <3> QED BY <1>1, <1>4, <1>5, <2>4, <3>2, <3>3 DEF FoundInv
  <2>8. QueueInv'
    <3>1. ASSUME NEW i \in DOMAIN frontier', NEW m, NEW k, m = frontier'[i][1], k = frontier'[i][2]
          PROVE  /\ k \in {l, l + 1} /\ k \in 1 .. asked.depth
                 /\ m \in visited' /\ ~Settled(m)'
                 /\ m \in Nearer(k)' /\ m \notin Nearer(k - 1)'
      <4>1. /\ l <= k /\ k \in {cur, cur + 1} /\ k \in 1 .. asked.depth
            /\ m \in visited /\ m \in Names /\ m # n /\ ~Settled(m)
            /\ m \in Nearer(k) /\ m \notin Nearer(k - 1)
        BY <1>6, <3>1
      <4>2. k \in {l, l + 1} /\ k \in Nat /\ k - 1 \in Nat /\ k - 1 <= l
        BY <1>4, <1>5, <4>1
      <4> HIDE DEF cur
      <4> QED BY <1>1, <2>3, <2>5, <2>6, <4>1, <4>2
    <3> QED BY <1>1, <1>7, <2>4, <3>1 DEF QueueInv, Settled, Nearer
  <2>9. ReadInv'
    <3>1. \A m \in Names : Settled(m)' => m \in visited' BY <1>1, <1>4, <2>3 DEF ReadInv
    <3>2. \A m \in Names : Mentions(m)' \subseteq visited' \cup at'.due
      BY <1>1, <2>2, <2>4 DEF ReadInv
    <3>3. ASSUME NEW m \in visited
          PROVE Settled(m)' \/ Queued(m)' \/ (l = asked.depth /\ m \notin Nearer(asked.depth)')
      <4>1. m \in Names BY DEF ContextType
      <4>2. CASE Settled(m) BY <2>3, <4>1, <4>2
      <4>3. CASE Queued(m)
        <5>1. m = n \/ Queued(m)' BY <1>1, <1>2, <4>1, <4>3, LineMoves
        <5> QED BY <2>3, <5>1
      <4>4. CASE cur = asked.depth /\ m \notin Nearer(asked.depth)
        <5>1. l = asked.depth BY <1>4, <1>5, <4>4
        <5>2. Nearer(asked.depth)' = Nearer(asked.depth) BY <1>1, <1>4, <2>2, <5>1 DEF Nearer
        <5> QED BY <4>4, <5>1, <5>2
      <4> QED BY <4>2, <4>3, <4>4 DEF ReadInv
    <3> QED BY <1>1, <2>4, <3>1, <3>2, <3>3 DEF ReadInv
  <2> QED BY <2>7, <2>8, <2>9
<1>9. CASE leaves' = leaves \cup {n} /\ UNCHANGED <<deps, at>>
  <2>1. \A m \in Names : Mentions(m)' = Mentions(m)
    BY <1>4, <1>9 DEF Mentions, Settled
  <2>2. \A k \in Nat : Within'[k] = Within[k] BY <2>1, SameReach
  <2>3. Settled(n)' /\ \A m \in Names : m # n => (Settled(m)' <=> Settled(m))
    BY <1>9 DEF Settled
  <2>4. \A k \in Nat : Nearer(k)' = Nearer(k) BY <2>2 DEF Nearer
  <2>5. FoundInv'
    <3>1. Nearer(at.level)' = Nearer(at.level) /\ Within'[at.level] = Within[at.level]
      BY <1>5, <1>9, <2>2 DEF Nearer
    <3> QED BY <1>1, <1>9, <3>1 DEF FoundInv
  <2>6. QueueInv'
    <3>1. ASSUME NEW i \in DOMAIN frontier', NEW m, NEW k, m = frontier'[i][1], k = frontier'[i][2]
          PROVE  /\ k \in {cur, cur + 1} /\ k \in 1 .. asked.depth
                 /\ m \in visited' /\ ~Settled(m)'
                 /\ m \in Nearer(k)' /\ m \notin Nearer(k - 1)'
      <4>1. /\ k \in {cur, cur + 1} /\ k \in 1 .. asked.depth
            /\ m \in visited /\ m \in Names /\ m # n /\ ~Settled(m)
            /\ m \in Nearer(k) /\ m \notin Nearer(k - 1)
        BY <1>6, <3>1
      <4>2. k \in Nat /\ k - 1 \in Nat BY <4>1
      <4> HIDE DEF cur
      <4> QED BY <1>1, <2>3, <2>4, <4>1, <4>2
    <3> QED BY <1>1, <1>7, <1>9, <3>1 DEF QueueInv, Settled, Nearer
  <2>7. ReadInv'
    <3>1. \A m \in Names : Settled(m)' => m \in visited' BY <1>1, <1>4, <2>3 DEF ReadInv
    <3>2. \A m \in Names : Mentions(m)' \subseteq visited' \cup at'.due
      BY <1>1, <1>9, <2>1 DEF ReadInv
    <3>3. ASSUME NEW m \in visited
          PROVE Settled(m)' \/ Queued(m)' \/ (cur = asked.depth /\ m \notin Nearer(asked.depth)')
      <4>1. m \in Names BY DEF ContextType
      <4>2. Queued(m) => m = n \/ Queued(m)' BY <1>1, <1>2, <4>1, LineMoves
      <4>3. Nearer(asked.depth)' = Nearer(asked.depth) BY <1>1, <1>5, <2>2 DEF Nearer
      <4> QED BY <2>3, <4>1, <4>2, <4>3 DEF ReadInv
    <3> QED BY <1>1, <1>9, <3>1, <3>2, <3>3 DEF ReadInv
  <2> QED BY <2>5, <2>6, <2>7
<1>10. \/ \E due \in SUBSET Names : deps' = [deps EXCEPT ![n] = due] /\ leaves' = leaves
                                    /\ at' = [level |-> l, due |-> due]
       \/ leaves' = leaves \cup {n} /\ UNCHANGED <<deps, at>>
  BY <1>2, <1>4 DEF Expand, Oldest, Sources, Settled
<1> QED BY <1>8, <1>9, <1>10

\* A view starts with itself, waiting.
LEMMA InitSweep == Init => SweepInv
<1> SUFFICES ASSUME Init, View PROVE FoundInv /\ QueueInv /\ ReadInv
  BY DEF SweepInv
<1>1. /\ visited = {Root} /\ added = <<>> /\ frontier = <<<<Root, 1>>>>
      /\ at.level = 0 /\ at.due = {} /\ leaves = {} /\ deps = [n \in Names |-> Unread]
  BY DEF Init, View, Nothing
<1>2. Added = {} BY <1>1 DEF Added
<1>3. Within[0] = {Root} BY WithinSpreads DEF Spreads
<1>4. asked.depth \in Nat \ {0} BY ContextAssumption DEF Init
<1>5. DOMAIN frontier = {1} /\ frontier[1][1] = Root /\ frontier[1][2] = 1 BY <1>1
<1>6. FoundInv BY <1>1, <1>2, <1>3, <1>4 DEF FoundInv, Nearer
<1>7. QueueInv BY <1>1, <1>3, <1>4, <1>5 DEF QueueInv, Nearer, Settled, Names
<1>8. ReadInv
  <2>1. Queued(Root) BY <1>5 DEF Queued
  <2> QED BY <1>1, <2>1 DEF ReadInv, Settled, Mentions
<1> QED BY <1>6, <1>7, <1>8

\* Every step keeps the sweep in order, until a name is one too many.
LEMMA SweepStep ==
  ASSUME ContextType, OnceInv, SweepInv, [Next]_vars
  PROVE  SweepInv'
<1> SUFFICES ASSUME View', count' <= asked'.limit PROVE (FoundInv /\ QueueInv /\ ReadInv)'
  BY DEF SweepInv
<1>1. asked.limit \in Nat /\ count \in Nat BY ContextAssumption DEF ContextType
<1>2. ASSUME NEW n \in Names, Again(n) PROVE (FoundInv /\ QueueInv /\ ReadInv)'
  <2>1. FoundInv /\ QueueInv /\ ReadInv BY <1>2 DEF Again, SweepInv, View
  <2>2. at'.level = at.level /\ at'.due = at.due \ {n} BY <1>2 DEF Again, ContextType
  <2> QED BY <1>2, <2>1, <2>2, SweepStays DEF Again
<1>3. ASSUME NEW n \in Names, CutOff(n) PROVE FALSE BY <1>1, <1>3 DEF CutOff
<1>4. ASSUME NEW n \in Names, Add(n) PROVE (FoundInv /\ QueueInv /\ ReadInv)'
  <2>1. View /\ FoundInv /\ QueueInv /\ ReadInv BY <1>1, <1>4 DEF Add, SweepInv, View
  <2> QED BY <1>4, <2>1, SweepAdd
<1>5. CASE Expand
  <2>1. FoundInv /\ QueueInv /\ ReadInv BY <1>5 DEF Expand, SweepInv, View
  <2> QED BY <1>5, <2>1, SweepExpand
<1>6. CASE AddEntity \/ AddOther
  BY <1>6 DEF AddEntity, AddOther, AddBlock, OnceInv, View
<1>7. CASE UNCHANGED vars
  <2>1. FoundInv /\ QueueInv /\ ReadInv BY <1>7 DEF vars, SweepInv, View
  <2> QED BY <1>7, <2>1, SweepStays DEF vars
<1> QED BY <1>2, <1>3, <1>4, <1>5, <1>6, <1>7 DEF Next

-------------------------------------------------------------------------------
(* Nearest first *)

\* No name, no order.
LEMMA InitOrder == Init => OrderInv
<1> SUFFICES ASSUME Init PROVE Layered /\ Ordered BY DEF OrderInv
<1>1. DOMAIN added = {} BY EmptySeq DEF Init
<1>2. Nearer(0) = {} BY DEF Nearer
<1> QED BY <1>1, <1>2 DEF Layered, Ordered, Added

\* The order of the answer is that of the distances as long as neither changes.
LEMMA OrderStays ==
  ASSUME ContextType, Layered, Ordered, added' = added,
         \A n \in Names : Mentions(n)' = Mentions(n)
  PROVE  (Layered /\ Ordered)'
<1>1. \A k \in Nat : Within'[k] = Within[k] BY SameReach
<1>2. \A l \in Nat : Nearer(l)' = Nearer(l) BY <1>1 DEF Nearer
<1>3. Added' = Added BY DEF Added
<1>4. Layered' BY <1>1, <1>2, <1>3 DEF Layered
<1>5. Ordered' BY <1>1 DEF Ordered
<1> QED BY <1>4, <1>5

\* A new dependency is no nearer than any before it.
LEMMA OrderAdd ==
  ASSUME ContextType, OnceInv, View, FoundInv, ReadInv, Ordered, NEW n \in Names, Add(n)
  PROVE  Ordered'
<1>1. n \in at.due /\ n \notin visited /\ at.level \in Nat BY DEF Add, ContextType
<1>2. deps[n] = Unread BY <1>1 DEF ReadInv, Settled
<1>3. \A m \in Names : Mentions(m)' = Mentions(m) BY <1>2 DEF Add, Mentions
<1>4. \A k \in Nat : Within'[k] = Within[k] BY <1>3, SameReach
<1>5. /\ DOMAIN added = 1 .. Len(added) /\ DOMAIN added' = 1 .. (Len(added) + 1)
      /\ Len(added) \in Nat
      /\ \A i \in 1 .. Len(added) : added'[i] = added[i]
      /\ added'[Len(added) + 1] = n
  BY PushLast DEF Add, ContextType
<1>6. ASSUME NEW k \in Nat, n \in Within[k], NEW m \in visited PROVE m \in Within[k]
  <2>1. n \notin Nearer(at.level) BY <1>1 DEF FoundInv
  <2>2. at.level <= k
    <3>1. SUFFICES ASSUME k < at.level PROVE FALSE BY <1>1
    <3>2. at.level # 0 /\ at.level - 1 \in Nat /\ k <= at.level - 1 BY <1>1, <3>1
    <3>3. Within[k] \subseteq Within[at.level - 1] BY <3>2, WithinSpreads, Grows
    <3> QED BY <1>6, <2>1, <3>2, <3>3 DEF Nearer
  <2>3. Within[at.level] \subseteq Within[k] BY <1>1, <2>2, WithinSpreads, Grows
  <2> QED BY <2>3 DEF FoundInv
<1> SUFFICES ASSUME NEW i \in DOMAIN added', NEW j \in DOMAIN added', i < j,
                    NEW k \in Nat, added'[j] \in Within[k]
             PROVE  added'[i] \in Within[k]
  BY <1>4 DEF Ordered
<1>7. i \in 1 .. Len(added) /\ added'[i] = added[i] BY <1>5
<1>8. CASE j \in 1 .. Len(added) BY <1>5, <1>7, <1>8 DEF Ordered
<1>9. CASE j = Len(added) + 1
  <2>1. n \in Within[k] BY <1>5, <1>9
  <2>2. added[i] \in visited BY <1>5, <1>7 DEF OnceInv, Added
  <2> QED BY <1>6, <1>7, <2>1, <2>2
<1> QED BY <1>5, <1>8, <1>9

\* What a view mentions once it is read is no nearer than what was added.
LEMMA OrderRead ==
  ASSUME ContextType, OnceInv, FoundInv /\ QueueInv /\ ReadInv, Ordered, at.due = {},
         NEW n, NEW l, 1 \in DOMAIN frontier, frontier[1][1] = n, frontier[1][2] = l,
         NEW due \in SUBSET Names, deps' = [deps EXCEPT ![n] = due], leaves' = leaves,
         added' = added
  PROVE  Ordered'
<1>1. l \in Nat /\ l - 1 \in Nat /\ visited \subseteq Within[l] BY FirstInLine
<1>2. /\ \A k \in Nat : k <= l - 1 => Within'[k] = Within[k]
      /\ \A k \in Nat : Within[k] \subseteq Within'[k]
  BY ReadReach
<1> SUFFICES ASSUME NEW i \in DOMAIN added, NEW j \in DOMAIN added, i < j,
                    NEW k \in Nat, added[j] \in Within'[k]
             PROVE  added[i] \in Within'[k]
  BY DEF Ordered
<1>3. CASE k <= l - 1 BY <1>2, <1>3 DEF Ordered
<1>4. CASE l <= k
  <2>1. Within[l] \subseteq Within[k] BY <1>1, <1>4, WithinSpreads, Grows
  <2>2. added[i] \in visited BY DEF OnceInv, Added
  <2> QED BY <1>1, <1>2, <2>1, <2>2
<1> QED BY <1>1, <1>3, <1>4

\* Every step keeps the answer in the order of the distances.
LEMMA OrderStep ==
  ASSUME ContextType, ContextType', OnceInv, SweepInv, SweepInv', OrderInv, [Next]_vars
  PROVE  OrderInv'
<1> SUFFICES ASSUME View' PROVE (Layered /\ Ordered)' BY DEF OrderInv
<1>1. asked.limit \in Nat /\ count \in Nat BY ContextAssumption DEF ContextType
<1>2. ASSUME NEW n \in Names, Again(n) \/ CutOff(n) PROVE (Layered /\ Ordered)'
  <2>1. View /\ added' = added /\ \A m \in Names : Mentions(m)' = Mentions(m)
    BY <1>2 DEF Again, CutOff, View, Mentions
  <2> QED BY <2>1, OrderStays DEF OrderInv
<1>3. ASSUME NEW n \in Names, Add(n) PROVE (Layered /\ Ordered)'
  <2>1. View /\ count <= asked.limit /\ count' <= asked'.limit BY <1>1, <1>3 DEF Add, View
  <2>2. FoundInv /\ ReadInv /\ FoundInv' /\ Ordered BY <2>1 DEF SweepInv, OrderInv
  <2>3. Layered' BY <2>2 DEF ContextType, FoundInv, Layered
  <2> QED BY <1>3, <2>1, <2>2, <2>3, OrderAdd
<1>4. CASE Expand
  <2>1. /\ View /\ count <= asked.limit /\ count' <= asked'.limit
        /\ at.due = {} /\ frontier # <<>> /\ frontier' = RemoveAt(frontier, Oldest)
        /\ added' = added
    BY <1>1, <1>4 DEF Expand, Busy, View
  <2>2. FoundInv /\ QueueInv /\ ReadInv /\ FoundInv' /\ Layered /\ Ordered
    BY <2>1 DEF SweepInv, OrderInv
  <2>3. Layered' BY <2>2 DEF ContextType, FoundInv, Layered
  <2>4. PICK n, l : n = frontier[1][1] /\ l = frontier[1][2] OBVIOUS
  <2>5. 1 \in DOMAIN frontier BY <2>1, <2>2, LineMoves
  <2>6. n \in Names /\ ~Settled(n) BY <2>1, <2>2, <2>4, <2>5, FirstInLine
  <2>7. CASE \E due \in SUBSET Names : deps' = [deps EXCEPT ![n] = due] /\ leaves' = leaves
    BY <2>1, <2>2, <2>3, <2>4, <2>5, <2>7, OrderRead
  <2>8. CASE leaves' = leaves \cup {n} /\ UNCHANGED deps
    <3>1. \A m \in Names : Mentions(m)' = Mentions(m) BY <2>6, <2>8 DEF Mentions, Settled
    <3> QED BY <2>1, <2>2, <3>1, OrderStays
  <2> QED BY <1>4, <2>4, <2>6, <2>7, <2>8 DEF Expand, Oldest, Sources, Settled
<1>5. CASE AddEntity \/ AddOther
  BY <1>5 DEF AddEntity, AddOther, AddBlock, OnceInv, View
<1>6. CASE UNCHANGED vars
  <2>1. View /\ added' = added /\ \A m \in Names : Mentions(m)' = Mentions(m)
    BY <1>6 DEF vars, View, Mentions
  <2> QED BY <2>1, OrderStays DEF OrderInv
<1> QED BY <1>2, <1>3, <1>4, <1>5, <1>6 DEF Next

-------------------------------------------------------------------------------
(* The theorems *)

\* The inductive invariant: types, every name once, the sweep and the order.
THEOREM ContextInvariance == Spec => []ContextInv
<1>1. Init => ContextInv
  BY InitType, InitOnce, InitSweep, InitOrder DEF ContextInv
<1>2. ContextInv /\ [Next]_vars => ContextInv'
  BY TypeStep, OnceStep, SweepStep, OrderStep DEF ContextInv
<1> QED BY <1>1, <1>2, PTL DEF Spec

\* However views, behavior definitions and classes refer to each other, no dependency is
\* in the answer twice, a view is not among its own, and max_objects is not exceeded.
THEOREM NoDuplicates == Spec => []AddedOnce
<1>1. ContextInv => AddedOnce BY DEF ContextInv, OnceInv, AddedOnce
<1> QED BY <1>1, ContextInvariance, PTL

\* An answer that was not cut off has just the names up to the depth asked for.
LEMMA SweptComplete == ContextInv => Complete
<1> SUFFICES ASSUME ContextInv, View, Done, frontier = <<>>, count <= asked.limit
             PROVE  /\ Added = Within[asked.depth] \ {Root}
                    /\ \A n \in Within[asked.depth - 1] : n \in leaves \/ deps[n] # Unread
  BY DEF Complete
<1> DEFINE cur == at.level
           depth == asked.depth
<1>1. ContextType /\ OnceInv /\ FoundInv /\ QueueInv /\ ReadInv BY DEF ContextInv, SweepInv
<1>2. cur \in Nat /\ depth \in Nat \ {0} /\ cur <= depth /\ depth - 1 \in Nat
  BY <1>1, ContextAssumption DEF ContextType, FoundInv
<1>3. at.due = {} BY DEF Done, Busy
<1>4. \A n \in visited : Settled(n) \/ (cur = depth /\ n \notin Within[depth - 1])
  <2>1. DOMAIN frontier = {} BY EmptySeq
  <2>2. \A n : ~Queued(n) BY <2>1 DEF Queued
  <2> QED BY <1>1, <1>2, <2>2 DEF ReadInv, Nearer
<1>5. Root \in visited /\ Root \notin Added /\ visited = {Root} \cup Added
  BY <1>1 DEF OnceInv, FoundInv
<1>6. \A m \in visited : Says(deps, leaves, m) \subseteq visited
  BY <1>1, <1>3 DEF ReadInv, Mentions, Says, ContextType
<1>7. Within[depth] \subseteq visited BY <1>2, <1>5, <1>6, WithinSpreads, Enclosed
<1>8. visited \subseteq Within[depth]
  <2>1. Within[cur] \subseteq Within[depth] BY <1>2, WithinSpreads, Grows
  <2> QED BY <1>1, <2>1 DEF FoundInv
<1>9. Within[depth - 1] \subseteq Within[depth] BY <1>2, WithinSpreads, Grows
<1>10. \A n \in Within[depth - 1] : Settled(n) BY <1>4, <1>7, <1>9
<1> QED BY <1>5, <1>7, <1>8, <1>10 DEF Settled

\* The graph is swept completely and no farther, whatever the graph.
THEOREM SweepComplete == Spec => []Complete
BY SweptComplete, ContextInvariance, PTL

\* A name that is reached has one distance, within the bound of Distance.
LEMMA DistanceOf ==
  ASSUME ContextType, NEW n, n # Root, NEW j \in Nat, n \in Within[j]
  PROVE  /\ Distance(n) \in Nat \ {0}
         /\ n \in Within[Distance(n)] /\ n \notin Within[Distance(n) - 1]
         /\ Distance(n) <= j
<1> DEFINE I == {i \in Nat : n \notin Within[i]}
<1>1. \E k \in Nat : n \notin Within[k] /\ n \in Within[k + 1]
  <2>1. SUFFICES ASSUME \A k \in I : k + 1 \in I PROVE FALSE OBVIOUS
  <2>2. 0 \in I BY WithinSpreads DEF Spreads
  <2>3. I = Nat BY <2>1, <2>2, Upward
  <2> QED BY <2>3
<1>2. PICK k \in Nat : n \notin Within[k] /\ n \in Within[k + 1] BY <1>1
<1>3. k + 1 \in 1 .. Cardinality(Names) BY <1>2, InNames, WithinSpreads, NotFar
<1>4. (k + 1) - 1 = k OBVIOUS
<1>5. \E d \in 1 .. Cardinality(Names) : n \in Within[d] /\ n \notin Within[d - 1]
  BY <1>2, <1>3, <1>4
<1> DEFINE d == Distance(n)
<1>6. d \in 1 .. Cardinality(Names) /\ n \in Within[d] /\ n \notin Within[d - 1]
  BY <1>5 DEF Distance
<1>7. d \in Nat \ {0} /\ d - 1 \in Nat BY <1>6
<1>8. d <= j
  <2>1. SUFFICES ASSUME j <= d - 1 PROVE FALSE BY <1>7
  <2>2. Within[j] \subseteq Within[d - 1] BY <1>7, <2>1, WithinSpreads, Grows
  <2> QED BY <1>6, <2>2
<1> QED BY <1>6, <1>7, <1>8

\* What is added is in the order of its distance, and nothing nearer is left out.
LEMMA OrderedNearest == ContextInv => NearestFirst
<1> SUFFICES ASSUME ContextInv, View
             PROVE  /\ \A i, j \in DOMAIN added : i < j => Distance(added[i]) <= Distance(added[j])
                    /\ \A n \in Within[asked.depth] \ ({Root} \cup Added), m \in Added :
                         Distance(m) <= Distance(n)
  BY DEF NearestFirst
<1>1. ContextType /\ OnceInv /\ Layered /\ Ordered BY DEF ContextInv, OrderInv
<1>2. PICK l \in Nat : Nearer(l) \subseteq {Root} \cup Added /\ Added \subseteq Within[l]
  BY <1>1 DEF Layered
<1>3. \A m \in Added : m # Root /\ m \in Within[l] BY <1>1, <1>2 DEF OnceInv
<1>4. ASSUME NEW i \in DOMAIN added, NEW j \in DOMAIN added, i < j
      PROVE  Distance(added[i]) <= Distance(added[j])
  <2>1. added[i] \in Added /\ added[j] \in Added BY DEF Added
  <2>2. Distance(added[j]) \in Nat /\ added[j] \in Within[Distance(added[j])]
    BY <1>1, <1>3, <2>1, DistanceOf
  <2>3. added[i] \in Within[Distance(added[j])] BY <1>1, <1>4, <2>2 DEF Ordered
  <2> QED BY <1>1, <1>3, <2>1, <2>2, <2>3, DistanceOf
<1>5. ASSUME NEW n \in Within[asked.depth] \ ({Root} \cup Added), NEW m \in Added
      PROVE  Distance(m) <= Distance(n)
  <2>1. asked.depth \in Nat BY <1>1, ContextAssumption DEF ContextType
  <2>2. Distance(n) \in Nat \ {0} /\ n \in Within[Distance(n)] BY <1>1, <2>1, DistanceOf
  <2>3. Distance(m) \in Nat /\ Distance(m) <= l BY <1>1, <1>3, DistanceOf
  <2>4. l <= Distance(n)
    <3>1. SUFFICES ASSUME Distance(n) < l PROVE FALSE BY <2>2
    <3>2. l # 0 /\ l - 1 \in Nat /\ Distance(n) <= l - 1 BY <2>2, <3>1
    <3>3. Within[Distance(n)] \subseteq Within[l - 1] BY <2>2, <3>2, WithinSpreads, Grows
    <3> QED BY <1>2, <2>2, <3>2, <3>3 DEF Nearer
  <2> QED BY <2>2, <2>3, <2>4
<1> QED BY <1>4, <1>5

\* Nearer names come first, and are the ones that stay when max_objects cuts the answer
\* off, whatever the graph.
THEOREM NearestWin == Spec => []NearestFirst
BY OrderedNearest, ContextInvariance, PTL
=============================================================================
