------------------------------- MODULE Context -------------------------------
(***************************************************************************)
(* get_context (adt_client.py:2289-2393): an object's source with what it  *)
(* depends on; for a CDS view breadth first, up to a depth and a number of *)
(* objects.  A source is reduced to the names it mentions, which are       *)
(* chosen when it is read for them; a leaf is a name that is not expanded: *)
(* a standard one, a table, or one whose source cannot be read.            *)
(***************************************************************************)
EXTENDS Naturals, Sequences, FiniteSets, SequencesExt

CONSTANTS
  Root,         \* the object asked for
  Others,       \* the names it may depend on
  Types,        \* object types that are asked for
  Depths,       \* values of the argument depth
  Limits,       \* values of the argument max_objects
  MaxMentions,  \* bound: names in one source
  Unread

Names == {Root} \cup Others

ASSUME ContextAssumption ==
  /\ Root \notin Others /\ IsFiniteSet(Others)
  /\ \A due \in SUBSET Names : due # Unread
  /\ Types \subseteq {"DDLS", "BDEF", "CLAS"}
  /\ Depths \cup Limits \subseteq Nat \ {0}

VARIABLES
  asked,      \* type, depth and max_objects of the call
  deps,       \* the names in the source of each view, once it was read for them
  leaves,
  roots,      \* entities, or a class's superclass and interfaces, still to be added
  frontier,   \* <<name, level>> whose dependencies are still to be read
  at,         \* the level and the remaining dependencies of the view that was read
  visited,
  count,
  added,      \* the dependencies, in the order of the answer
  direct      \* what was added of roots

vars == <<asked, deps, leaves, roots, frontier, at, visited, count, added, direct>>

-----------------------------------------------------------------------------
\* What a source can mention.
Sources(n) == {due \in SUBSET (Names \ {n}) : Cardinality(due) <= MaxMentions}

\* The entities of a behavior definition, the first of the same name.
Entities == {<<Root, n>> : n \in Others}

\* A class's superclass and interfaces.
Parents == Entities

Nothing == [level |-> 0, due |-> {}]

\* A view is expanded at once; a behavior definition has entities, a class a
\* superclass and interfaces.
Init ==
  /\ asked \in [type : Types, depth : Depths, limit : Limits]
  /\ deps = [n \in Names |-> Unread]
  /\ IF asked.type = "DDLS" THEN roots = <<>> /\ frontier = <<<<Root, 1>>>> /\ visited = {Root}
     ELSE roots \in (IF asked.type = "BDEF" THEN Entities ELSE Parents) /\ frontier = <<>> /\ visited = {}
  /\ leaves = {} /\ at = Nothing /\ count = 0 /\ added = <<>> /\ direct = <<>>

-----------------------------------------------------------------------------
(* _expand_cds_context *)

Busy == at.due # {} \/ (frontier # <<>> /\ count < asked.limit)

\* Mutant of Oldest: the view that was found last.
Newest == Len(frontier)

\* frontier.pop(0)
Oldest == 1

\* cds_dependencies; a view whose source cannot be read any more is passed over.
Expand ==
  /\ at.due = {} /\ Busy
  /\ frontier' = RemoveAt(frontier, Oldest)
  /\ LET n == frontier[Oldest][1]
         level == frontier[Oldest][2]
     IN \/ /\ deps[n] = Unread
           /\ \E due \in Sources(n) :
                /\ deps' = [deps EXCEPT ![n] = due]
                /\ at' = [level |-> level, due |-> due]
           /\ UNCHANGED leaves
        \/ /\ deps[n] # Unread
           /\ at' = [level |-> level, due |-> deps[n]]
           /\ UNCHANGED <<deps, leaves>>
        \/ leaves' = leaves \cup {n} /\ UNCHANGED <<deps, at>>
  /\ UNCHANGED <<asked, roots, visited, count, added, direct>>

\* Mutant of Deeper: one level less.
DeeperLess(level) == level + 1 < asked.depth

Deeper(level) == level < asked.depth

\* The next dependency in the text, which may be any, was seen before.
Again(n) ==
  /\ n \in at.due /\ n \in visited
  /\ at' = [at EXCEPT !.due = @ \ {n}]
  /\ UNCHANGED <<asked, deps, leaves, roots, frontier, visited, count, added, direct>>

\* It is new, but one too many: the loop over the dependencies is left.
CutOff(n) ==
  /\ n \in at.due /\ n \notin visited /\ count = asked.limit
  /\ visited' = visited \cup {n} /\ count' = count + 1
  /\ at' = Nothing
  /\ UNCHANGED <<asked, deps, leaves, roots, frontier, added, direct>>

\* It is added, and kept for expansion if it is a view.
Add(n) ==
  /\ n \in at.due /\ n \notin visited /\ count < asked.limit
  /\ visited' = visited \cup {n} /\ count' = count + 1
  /\ added' = Append(added, n)
  /\ \/ /\ frontier' = IF Deeper(at.level) THEN Append(frontier, <<n, at.level + 1>>) ELSE frontier
        /\ UNCHANGED leaves
     \/ leaves' = leaves \cup {n} /\ UNCHANGED frontier
  /\ at' = [at EXCEPT !.due = @ \ {n}]
  /\ UNCHANGED <<asked, deps, roots, direct>>

-----------------------------------------------------------------------------
(* _expand_bdef_context, _expand_class_context *)

\* Mutant of Mark: each entity is expanded as if it were the only one.
MarkAlone(n) == {n}

\* The names not to be added any more once an entity was.
Mark(n) == visited \cup {n}

\* _add_dep_block: the next of them, whatever has been added before.
AddBlock ==
  /\ ~Busy /\ roots # <<>>
  /\ roots' = Tail(roots)
  /\ direct' = Append(direct, Head(roots))
  /\ UNCHANGED <<asked, deps, at, added>>

\* An entity that could be read is expanded, with a count of its own.
AddEntity ==
  /\ asked.type = "BDEF" /\ AddBlock
  /\ frontier' = <<<<Head(roots), 1>>>> /\ visited' = Mark(Head(roots)) /\ count' = 0
  /\ UNCHANGED leaves

\* One that could not is not, and a class's parents never are.
AddOther ==
  /\ AddBlock
  /\ leaves' = leaves \cup {Head(roots)}
  /\ UNCHANGED <<frontier, visited, count>>

Next ==
  \/ \E n \in Names : Again(n) \/ CutOff(n) \/ Add(n)
  \/ Expand \/ AddEntity \/ AddOther

Spec == Init /\ [][Next]_vars

-----------------------------------------------------------------------------
(* What the answer should be, for a view *)

\* What the source of a view mentions, if it could be read.
Mentions(n) == IF n \in leaves \/ deps[n] = Unread THEN {} ELSE deps[n]

\* The names at most k dependencies away.
Within[k \in Nat] ==
  IF k = 0 THEN {Root} ELSE Within[k - 1] \cup UNION {Mentions(n) : n \in Within[k - 1]}

Distance(n) == CHOOSE k \in 1..Cardinality(Names) : n \in Within[k] /\ n \notin Within[k - 1]

Added == {added[i] : i \in DOMAIN added}
Done == ~Busy /\ roots = <<>>
View == asked.type = "DDLS"

-----------------------------------------------------------------------------
\* A dependency is added once, however many views mention it, in a circle or
\* under several entities, and never the view that is expanded; no expansion
\* adds more than max_objects (adt_client.py:2345-2352, 2374-2380).
AddedOnce ==
  /\ \A i, j \in DOMAIN added : added[i] = added[j] => i = j
  /\ View => Root \notin Added /\ Len(added) <= asked.limit

\* An answer that was not cut off at max_objects has every name up to the depth
\* and no other, however the ways to it differ in length; a view that could not
\* be read hides what is behind it and nothing else (adt_client.py:2338-2369).
Complete ==
  View /\ Done /\ frontier = <<>> /\ count <= asked.limit =>
    /\ Added = Within[asked.depth] \ {Root}
    /\ \A n \in Within[asked.depth - 1] : n \in leaves \/ deps[n] # Unread

\* Nearer names come before farther ones and are the ones that stay when the
\* answer is cut off at max_objects (adt_client.py:2340-2352).
NearestFirst ==
  View =>
    /\ \A i, j \in DOMAIN added : i < j => Distance(added[i]) <= Distance(added[j])
    /\ Done => \A n \in Within[asked.depth] \ ({Root} \cup Added), m \in Added :
                 Distance(m) <= Distance(n)
=============================================================================
