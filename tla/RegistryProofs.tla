--------------------------- MODULE RegistryProofs ---------------------------
(***************************************************************************)
(* Proofs about Registry for any finite set of names, any settings and any *)
(* number of waiting logins.                                               *)
(***************************************************************************)
EXTENDS Registry, SequenceTheorems, FiniteSetTheorems, WellFoundedInduction, TLAPS

\* One record per name.
IsTable(t) ==
  /\ t \in Seq(Records)
  /\ \A i, j \in DOMAIN t : t[i].name = t[j].name => i = j

\* The file is torn, or it is what the user was last told, or wrote.
FileTold == file = Torn \/ file = Dump(answered)

\* The inductive invariant.
RegistryInv ==
  /\ IsTable(table) /\ IsTable(answered)
  /\ FileTold
  /\ login \in [Logins -> Names \cup {NoName}]
  /\ pc \in {"down", "up", "open", "write"}

-------------------------------------------------------------------------------
\* A set of indices has a least one.
LEMMA LeastIndex ==
  ASSUME NEW I, I \subseteq Nat, I # {}
  PROVE  \E i \in I : \A j \in I : i =< j
<1>1. \E i \in I : \A j \in I : ~ (<<j, i>> \in OpToRel(<, Nat))
  BY WFMin, NatLessThanWellFounded
<1>2. PICK i \in I : \A j \in I : ~ (<<j, i>> \in OpToRel(<, Nat))
  BY <1>1
<1>3. \A j \in I : i =< j
  <2> TAKE j \in I
  <2>1. i \in Nat /\ j \in Nat
    OBVIOUS
  <2>2. ~ (j < i)
    BY <1>2, <2>1 DEF OpToRel
  <2> QED BY <2>1, <2>2
<1> QED BY <1>3

\* The search by the exact name finds it, or there is none.
LEMMA ExactSearch ==
  ASSUME NEW t, IsTable(t), NEW n,
         NEW k, k = Find(t, n)
  PROVE  \/ k = 0 /\ \A i \in DOMAIN t : t[i].name # n
         \/ k \in DOMAIN t /\ t[k].name = n
<1> DEFINE I == {i \in 1 .. Len(t) : t[i].name = n}
<1>1. DOMAIN t = 1 .. Len(t) /\ I \subseteq Nat
  BY LenProperties DEF IsTable
<1>2. k = IF I # {} THEN Min(I) ELSE 0
  BY DEF Find, SelectInSeq
<1>3. CASE I = {}
  BY <1>1, <1>2, <1>3
<1>4. CASE I # {}
  <2>1. \E i \in I : \A j \in I : i =< j
    BY <1>1, <1>4, LeastIndex
  <2>2. Min(I) \in I
    BY <2>1 DEF Min
  <2> QED BY <1>1, <1>2, <1>4, <2>2
<1> QED BY <1>3, <1>4

\* So does the search that ignores case.
LEMMA AlikeSearch ==
  ASSUME NEW t, IsTable(t), NEW n,
         NEW k, k = FindAlike(t, n)
  PROVE  \/ k = 0 /\ \A i \in DOMAIN t : ~ SameSystem(t[i].name, n)
         \/ k \in DOMAIN t /\ SameSystem(t[k].name, n)
<1> DEFINE I == {i \in 1 .. Len(t) : SameSystem(t[i].name, n)}
<1>1. DOMAIN t = 1 .. Len(t) /\ I \subseteq Nat
  BY LenProperties DEF IsTable
<1>2. k = IF I # {} THEN Min(I) ELSE 0
  BY DEF FindAlike, SelectInSeq
<1>3. CASE I = {}
  BY <1>1, <1>2, <1>3
<1>4. CASE I # {}
  <2>1. \E i \in I : \A j \in I : i =< j
    BY <1>1, <1>4, LeastIndex
  <2>2. Min(I) \in I
    BY <2>1 DEF Min
  <2> QED BY <1>1, <1>2, <1>4, <2>2
<1> QED BY <1>3, <1>4

\* A record goes through to_dict and from_dict and comes back.
LEMMA RecordComesBack ==
  ASSUME NEW r \in Records
  PROVE  FromDict(ToDict(r)) = r
<1>1. ToDict(r).set = {s \in Settings : r.settings[s]} /\ ToDict(r).name = r.name
  BY DEF ToDict
<1>2. r.settings \in [Settings -> BOOLEAN] /\ r = [name |-> r.name, settings |-> r.settings]
  BY DEF Records
<1>3. ASSUME NEW s \in Settings
      PROVE  (s \in ToDict(r).set) = r.settings[s]
  <2>1. r.settings[s] \in BOOLEAN
    BY <1>2
  <2>2. s \in ToDict(r).set <=> r.settings[s]
    BY <1>1
  <2> QED BY <2>1, <2>2
<1>4. [s \in Settings |-> s \in ToDict(r).set] = r.settings
  BY <1>2, <1>3, Zenon
<1> QED BY <1>1, <1>2, <1>4 DEF FromDict

\* So does a table.
LEMMA TableComesBack ==
  ASSUME NEW t, IsTable(t)
  PROVE  Load(Dump(t)) = t
<1>1. t \in [1 .. Len(t) -> Records] /\ DOMAIN t = 1 .. Len(t)
  BY LenProperties DEF IsTable
<1>2. Dump(t) = [i \in 1 .. Len(t) |-> ToDict(t[i])]
  BY <1>1 DEF Dump
<1>3. Load(Dump(t)) = [i \in 1 .. Len(t) |-> FromDict(ToDict(t[i]))]
  BY <1>2 DEF Load
<1>4. \A i \in 1 .. Len(t) : FromDict(ToDict(t[i])) = t[i]
  BY <1>1, RecordComesBack
<1> QED BY <1>1, <1>3, <1>4

\* A record takes the place of the one with its name, or comes last.
LEMMA PutTable ==
  ASSUME NEW t, IsTable(t), NEW r \in Records
  PROVE  /\ IsTable(Put(t, r))
         /\ \A j \in DOMAIN Put(t, r) :
              \/ Put(t, r)[j] = r
              \/ j \in DOMAIN t /\ Put(t, r)[j] = t[j] /\ t[j].name # r.name
<1> DEFINE k == Find(t, r.name)
<1>1. \/ k = 0 /\ \A i \in DOMAIN t : t[i].name # r.name
      \/ k \in DOMAIN t /\ t[k].name = r.name
  BY ExactSearch
<1>2. Put(t, r) = IF k # 0 THEN [t EXCEPT ![k] = r] ELSE Append(t, r)
  BY DEF Put
<1> HIDE DEF k
<1>3. t \in Seq(Records) /\ DOMAIN t = 1 .. Len(t) /\ Len(t) \in Nat
  BY LenProperties DEF IsTable
<1>4. CASE k = 0
  <2>1. Put(t, r) = Append(t, r) /\ DOMAIN Put(t, r) = 1 .. Len(t) + 1
    BY <1>2, <1>3, <1>4
  <2>2. Put(t, r) \in Seq(Records)
    BY <1>3, <2>1
  <2>3. \A i \in 1 .. Len(t) : Put(t, r)[i] = t[i] /\ t[i].name # r.name
    BY <1>1, <1>3, <1>4, <2>1
  <2>4. Put(t, r)[Len(t) + 1] = r
    BY <1>3, <2>1
  <2> QED BY <1>3, <2>1, <2>2, <2>3, <2>4 DEF IsTable
<1>5. CASE k # 0
  <2>1. Put(t, r) = [t EXCEPT ![k] = r] /\ k \in 1 .. Len(t)
    BY <1>1, <1>2, <1>3, <1>5
  <2>2. /\ Put(t, r) \in Seq(Records) /\ DOMAIN Put(t, r) = DOMAIN t
        /\ \A j \in 1 .. Len(t) : Put(t, r)[j] = IF j = k THEN r ELSE t[j]
    BY <1>3, <2>1, ExceptSeq
  <2>3. \A j \in DOMAIN t : j # k => t[j].name # r.name
    BY <1>1, <1>5 DEF IsTable
  <2> QED BY <1>1, <1>3, <1>5, <2>2, <2>3 DEF IsTable
<1> QED BY <1>4, <1>5

\* What is taken out leaves the others as they are.
LEMMA RemoveTable ==
  ASSUME NEW t, IsTable(t), NEW k \in DOMAIN t
  PROVE  /\ IsTable(RemoveAt(t, k))
         /\ \A j \in DOMAIN RemoveAt(t, k) : \E i \in DOMAIN t : RemoveAt(t, k)[j] = t[i]
<1> DEFINE a == SubSeq(t, 1, k - 1)
           b == SubSeq(t, k + 1, Len(t))
<1>1. t \in Seq(Records) /\ DOMAIN t = 1 .. Len(t) /\ Len(t) \in Nat /\ k \in 1 .. Len(t)
  BY LenProperties DEF IsTable
<1>2. /\ a \in Seq(Records) /\ Len(a) = k - 1
      /\ \A i \in 1 .. k - 1 : a[i] = t[i]
  <2>1. \A i \in 1 .. k - 1 : t[i] \in Records
    BY <1>1, ElementOfSeq
  <2>2. /\ a \in Seq(Records) /\ Len(a) = IF 1 <= k - 1 THEN (k - 1) - 1 + 1 ELSE 0
        /\ \A i \in 1 .. (k - 1) - 1 + 1 : a[i] = t[1 + i - 1]
    BY <1>1, <2>1, SubSeqProperties
  <2> HIDE DEF a
  <2> QED BY <1>1, <2>2
<1>3. /\ b \in Seq(Records) /\ Len(b) = Len(t) - k
      /\ \A i \in 1 .. Len(t) - k : b[i] = t[k + i]
  <2>1. \A i \in k + 1 .. Len(t) : t[i] \in Records
    BY <1>1, ElementOfSeq
  <2>2. /\ b \in Seq(Records) /\ Len(b) = IF k + 1 <= Len(t) THEN Len(t) - (k + 1) + 1 ELSE 0
        /\ \A i \in 1 .. Len(t) - (k + 1) + 1 : b[i] = t[(k + 1) + i - 1]
    BY <1>1, <2>1, SubSeqProperties
  <2>3. Len(t) - (k + 1) + 1 = Len(t) - k /\ (k + 1 <= Len(t) \/ Len(t) - k = 0)
    BY <1>1
  <2>4. \A i \in 1 .. Len(t) - k : (k + 1) + i - 1 = k + i
    BY <1>1
  <2> HIDE DEF b
  <2> QED BY <2>2, <2>3, <2>4
<1>4. RemoveAt(t, k) = a \o b
  BY DEF RemoveAt
<1> HIDE DEF a, b
<1>5. /\ a \o b \in Seq(Records) /\ DOMAIN (a \o b) = 1 .. Len(t) - 1
      /\ \A i \in 1 .. Len(t) - 1 : (a \o b)[i] = IF i < k THEN t[i] ELSE t[i + 1]
  <2>1. /\ a \o b \in Seq(Records)
        /\ Len(a \o b) = Len(t) - 1
        /\ \A i \in 1 .. Len(t) - 1 : (a \o b)[i] = IF i <= k - 1 THEN a[i] ELSE b[i - (k - 1)]
    <3>1. /\ a \o b \in Seq(Records) /\ Len(a \o b) = Len(a) + Len(b)
          /\ \A i \in 1 .. Len(a) + Len(b) :
               (a \o b)[i] = IF i <= Len(a) THEN a[i] ELSE b[i - Len(a)]
      BY <1>2, <1>3, ConcatProperties
    <3>2. Len(a) + Len(b) = Len(t) - 1
      BY <1>1, <1>2, <1>3
    <3> QED BY <1>2, <3>1, <3>2
  <2>2. ASSUME NEW i \in 1 .. Len(t) - 1
        PROVE  (a \o b)[i] = IF i < k THEN t[i] ELSE t[i + 1]
    <3>1. CASE i < k
      BY <1>1, <1>2, <2>1, <3>1
    <3>2. CASE ~ (i < k)
      <4>1. i - (k - 1) \in 1 .. Len(t) - k /\ k + (i - (k - 1)) = i + 1
        BY <1>1, <3>2
      <4>2. b[i - (k - 1)] = t[i + 1]
        BY <1>3, <4>1
      <4> QED BY <1>1, <2>1, <3>2, <4>2
    <3> QED BY <3>1, <3>2
  <2> QED BY <2>1, <2>2, LenProperties
<1>6. ASSUME NEW j \in 1 .. Len(t) - 1
      PROVE  \E i \in DOMAIN t : (a \o b)[j] = t[i]
  <2>1. j \in DOMAIN t /\ j + 1 \in DOMAIN t
    BY <1>1
  <2>2. (a \o b)[j] = t[j] \/ (a \o b)[j] = t[j + 1]
    BY <1>5
  <2> QED BY <2>1, <2>2
<1>7. ASSUME NEW i \in 1 .. Len(t) - 1, NEW j \in 1 .. Len(t) - 1,
             (a \o b)[i].name = (a \o b)[j].name
      PROVE  i = j
  <2> DEFINE at(x) == IF x < k THEN x ELSE x + 1
  <2>1. at(i) \in DOMAIN t /\ at(j) \in DOMAIN t
    BY <1>1
  <2>2. t[at(i)].name = t[at(j)].name
    BY <1>5, <1>7
  <2>3. at(i) = at(j)
    BY <2>1, <2>2 DEF IsTable
  <2> QED BY <1>1, <2>3
<1> QED BY <1>4, <1>5, <1>6, <1>7 DEF IsTable

\* get finds the name as it is spelled, if it is there, else one that is alike.
LEMMA LookupFinds ==
  ASSUME NEW t, IsTable(t), NEW n \in Names,
         NEW k, k = Lookup(t, n)
  PROVE  \/ k = 0 /\ \A i \in DOMAIN t : ~ SameSystem(t[i].name, n)
         \/ /\ k \in DOMAIN t /\ SameSystem(t[k].name, n)
            /\ \A i \in DOMAIN t : t[i].name = n => i = k
<1>1. SameSystem(n, n)
  BY DEF SameSystem, Names
<1>2. 0 \notin DOMAIN t
  BY LenProperties DEF IsTable
<1>3. CASE Find(t, n) # 0
  <2>1. k \in DOMAIN t /\ t[k].name = n
    BY <1>3, ExactSearch DEF Lookup
  <2> QED BY <1>1, <2>1 DEF IsTable
<1>4. CASE Find(t, n) = 0
  <2>1. \A i \in DOMAIN t : t[i].name # n
    BY <1>2, <1>4, ExactSearch
  <2>2. k = FindAlike(t, n)
    BY <1>4 DEF Lookup
  <2> QED BY <2>1, <2>2, AlikeSearch
<1> QED BY <1>3, <1>4

\* Tables have one record per name, and no more records than there are names.
LEMMA TablesAre ==
  ASSUME NEW t
  PROVE  t \in Tables <=> IsTable(t)
<1>1. Cardinality(Names) \in Nat
  BY RegistryAssumption, FS_CardinalityType
<1>2. ASSUME t \in Tables
      PROVE  IsTable(t)
  <2>1. PICK m \in 0 .. Cardinality(Names) : t \in [1 .. m -> Records]
    BY <1>2 DEF Tables, BoundedSeq, SeqOf
  <2>2. t \in Seq(Records)
    BY <1>1, <2>1
  <2> QED BY <1>2, <2>2 DEF Tables, IsTable
<1>3. ASSUME IsTable(t)
      PROVE  t \in Tables
  <2>1. t \in [1 .. Len(t) -> Records] /\ Len(t) \in Nat /\ DOMAIN t = 1 .. Len(t)
    BY <1>3, LenProperties DEF IsTable
  <2> DEFINE f == [i \in 1 .. Len(t) |-> t[i].name]
  <2>2. f \in Injection(1 .. Len(t), Names)
    <3>1. \A i \in 1 .. Len(t) : t[i].name \in Names
      BY <2>1 DEF Records
    <3>2. \A i, j \in 1 .. Len(t) : t[i].name = t[j].name => i = j
      BY <1>3, <2>1 DEF IsTable
    <3> QED BY <3>1, <3>2 DEF Injection, IsInjective
  <2>3. Cardinality(1 .. Len(t)) <= Cardinality(Names)
    BY <2>2, RegistryAssumption, FS_Injection
  <2>4. Cardinality(1 .. Len(t)) = Len(t)
    <3>1. Cardinality(1 .. Len(t)) = IF 1 > Len(t) THEN 0 ELSE Len(t) - 1 + 1
      BY <2>1, FS_Interval
    <3> QED BY <2>1, <3>1
  <2>5. Len(t) \in 0 .. Cardinality(Names)
    BY <1>1, <2>1, <2>3, <2>4
  <2>6. t \in BoundedSeq(Records, Cardinality(Names))
    BY <2>1, <2>5 DEF BoundedSeq, SeqOf
  <2> QED BY <1>3, <2>6 DEF Tables, IsTable
<1> QED BY <1>2, <1>3

-------------------------------------------------------------------------------
LEMMA InitInv == Init => RegistryInv
<1> SUFFICES ASSUME Init PROVE RegistryInv
  OBVIOUS
<1>1. IsTable(table) /\ IsTable(answered)
  BY TablesAre, EmptySeq DEF Init, IsTable
<1>2. login \in [Logins -> Names \cup {NoName}]
  BY DEF Init
<1> QED BY <1>1, <1>2 DEF Init, RegistryInv, FileTold

\* Default settings are settings.
LEMMA DefaultIs == Default \in [Settings -> BOOLEAN]
BY DEF Default

\* A route keeps one record per name.
LEMMA RouteStep ==
  ASSUME RegistryInv, NEW n \in Names, Upsert(n) \/ Delete(n)
  PROVE  IsTable(table')
<1>1. CASE Upsert(n)
  <2> DEFINE old == Lookup(table, n)
             r == [name |-> n, settings |-> IF old # 0 THEN table[old].settings ELSE Default]
  <2>1. old = 0 \/ old \in DOMAIN table
    BY LookupFinds DEF RegistryInv
  <2>2. \A i \in DOMAIN table : table[i] \in Records
    BY LenProperties, ElementOfSeq DEF RegistryInv, IsTable
  <2>3. r \in Records
    BY <2>1, <2>2, DefaultIs DEF Records
  <2>4. table' = Put(table, r)
    BY <1>1 DEF Upsert, Saving
  <2> HIDE DEF r
  <2> QED BY <2>3, <2>4, PutTable DEF RegistryInv
<1>2. CASE Delete(n)
  <2>1. Find(table, n) # 0 => Find(table, n) \in DOMAIN table
    BY ExactSearch DEF RegistryInv
  <2>2. table' = IF Find(table, n) # 0 THEN RemoveAt(table, Find(table, n)) ELSE table
    BY <1>2 DEF Delete, Saving
  <2> QED BY <2>1, <2>2, RemoveTable DEF RegistryInv
<1> QED BY <1>1, <1>2

\* What is saved is what is told; what cannot be read is torn.
LEMMA NextInv ==
  ASSUME RegistryInv, [Next]_vars
  PROVE  RegistryInv'
<1> USE DEF RegistryInv, FileTold
<1>1. ASSUME NEW n \in Names, Upsert(n) \/ Delete(n)
      PROVE  RegistryInv'
  <2>1. IsTable(table')
    BY <1>1, RouteStep
  <2> QED BY <1>1, <2>1 DEF Upsert, Delete, Saving, Dump, IsTable
<1>2. ASSUME NEW l \in Logins, LoginEnd(l)
      PROVE  RegistryInv'
  <2> DEFINE r == [name |-> login[l], settings |-> Default]
  <2>1. r \in Records /\ login[l] \in Names
    BY <1>2, DefaultIs DEF LoginEnd, Records
  <2>2. table' = table \/ table' = Put(table, r)
    BY <1>2 DEF LoginEnd, Saving
  <2> HIDE DEF r
  <2>3. IsTable(table')
    BY <2>1, <2>2, PutTable
  <2>4. UNCHANGED <<file, answered>> /\ pc' \in {pc, "open"} /\ login' = [login EXCEPT ![l] = NoName]
    BY <1>2 DEF LoginEnd, Saving
  <2> QED BY <2>3, <2>4 DEF Dump, IsTable
<1>3. ASSUME NEW l \in Logins, NEW n \in Names, LoginBegin(l, n)
      PROVE  RegistryInv'
  BY <1>3 DEF LoginBegin, Dump, IsTable
<1>4. CASE Open BY <1>4 DEF Open, Dump, IsTable
<1>5. CASE Write BY <1>5 DEF Write, Dump, IsTable
<1>6. CASE Start
  <2>1. table' = answered
    BY <1>6, TableComesBack DEF Start
  <2> QED BY <1>6, <2>1 DEF Start, Dump, IsTable
<1>7. CASE Stop
  <2>1. IsTable(table')
    BY <1>7, EmptySeq DEF Stop, IsTable
  <2> QED BY <1>7, <2>1 DEF Stop, Dump, IsTable
<1>8. CASE HandEdit
  <2>1. IsTable(answered')
    BY <1>8, TablesAre DEF HandEdit
  <2> QED BY <1>8, <2>1 DEF HandEdit, IsTable
<1>9. CASE UNCHANGED vars BY <1>9 DEF vars, Dump, IsTable
<1> QED BY <1>1, <1>2, <1>3, <1>4, <1>5, <1>6, <1>7, <1>8, <1>9 DEF Next

\* Every reachable state satisfies the inductive invariant.
THEOREM Invariance == Spec => []RegistryInv
BY InitInv, NextInv, PTL DEF Spec

\* The table has one record per name and no more than there are names, and a file that is
\* not torn is the dump of such a table.
THEOREM TypeCorrect == Spec => []TypeOK
<1>1. RegistryInv => TypeOK
  BY TablesAre DEF RegistryInv, FileTold, TypeOK
<1> QED BY <1>1, Invariance, PTL

\* A server that starts serves what was last acknowledged, or written by hand since, down
\* to the settings.
THEOREM StartRecovers == Spec => Recovered
<1>1. RegistryInv /\ [Next]_vars => (pc = "down" /\ pc' = "up" => table' = answered)
  <2> SUFFICES ASSUME RegistryInv, [Next]_vars, pc = "down", pc' = "up"
               PROVE  table' = answered
    OBVIOUS
  <2>1. Start
    BY DEF Next, Upsert, Delete, LoginBegin, LoginEnd, Open, Write, Stop, HandEdit, vars
  <2> QED BY <2>1, TableComesBack DEF Start, RegistryInv, FileTold
<1> QED BY <1>1, Invariance, PTL DEF Spec, Recovered

\* The admin form keeps the flags it does not know.
THEOREM FormKeepsFlags == Spec => FlagsKept
<1>1. ASSUME RegistryInv, [Next]_vars, pc = "up", pc' = "open", login' = login,
             NEW i \in DOMAIN table, NEW j \in DOMAIN table',
             \/ table[i].name = table'[j].name
             \/ {k \in DOMAIN table : SameSystem(table[k].name, table'[j].name)} = {i}
      PROVE  table'[j].settings = table[i].settings
  <2>1. PICK n \in Names : Upsert(n) \/ Delete(n)
    <3>1. ASSUME NEW l \in Logins
          PROVE  ~ LoginEnd(l)
      BY <1>1 DEF LoginEnd, RegistryInv
    <3> QED BY <1>1, <3>1 DEF Next, LoginBegin, Open, Write, Start, Stop, HandEdit, vars
  <2>2. IsTable(table) /\ \A k \in DOMAIN table : table[k] \in Records
    BY <1>1, LenProperties, ElementOfSeq DEF RegistryInv, IsTable
  <2>3. \A k \in DOMAIN table : SameSystem(table[k].name, table[k].name)
    BY <2>2 DEF SameSystem, Names, Records
  <2>4. ASSUME NEW k \in DOMAIN table, table'[j] = table[k]
        PROVE  i = k
    BY <1>1, <2>2, <2>3, <2>4 DEF IsTable
  <2>5. CASE Delete(n)
    <3>1. table' = IF Find(table, n) # 0 THEN RemoveAt(table, Find(table, n)) ELSE table
      BY <2>5 DEF Delete, Saving
    <3>2. \E k \in DOMAIN table : table'[j] = table[k]
      BY <1>1, <2>2, <3>1, ExactSearch, RemoveTable
    <3> QED BY <2>4, <3>2
  <2>6. CASE Upsert(n)
    <3> DEFINE old == Lookup(table, n)
               r == [name |-> n, settings |-> IF old # 0 THEN table[old].settings ELSE Default]
    <3>1. \/ old = 0 /\ \A k \in DOMAIN table : ~ SameSystem(table[k].name, n)
          \/ /\ old \in DOMAIN table /\ SameSystem(table[old].name, n)
             /\ \A k \in DOMAIN table : table[k].name = n => k = old
      BY <2>2, LookupFinds
    <3>2. r \in Records
      BY <2>2, <3>1, DefaultIs DEF Records
    <3>3. table' = Put(table, r)
      BY <2>6 DEF Upsert, Saving
    <3>4. table'[j] = r \/ (j \in DOMAIN table /\ table'[j] = table[j])
      BY <1>1, <2>2, <3>2, <3>3, PutTable
    <3>5. CASE table'[j] = r
      <4>1. table'[j].name = n /\ table'[j].settings = IF old # 0 THEN table[old].settings ELSE Default
        BY <3>5
      <4> HIDE DEF r, old
      <4>2. 0 \notin DOMAIN table
        BY <2>2, LenProperties DEF IsTable
      <4>3. old # 0 /\ i = old
        BY <1>1, <2>3, <3>1, <4>1, <4>2
      <4> QED BY <4>1, <4>3
    <3> QED BY <2>4, <3>4, <3>5
  <2> QED BY <2>1, <2>5, <2>6
<1>2. RegistryInv /\ [Next]_vars
        => (pc = "up" /\ pc' = "open" /\ login' = login =>
             \A i \in DOMAIN table, j \in DOMAIN table' :
               \/ table[i].name = table'[j].name
               \/ {k \in DOMAIN table : SameSystem(table[k].name, table'[j].name)} = {i}
               => table'[j].settings = table[i].settings)
  BY <1>1
<1> QED BY <1>2, Invariance, PTL DEF Spec, FlagsKept
=============================================================================
