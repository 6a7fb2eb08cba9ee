------------------------------ MODULE Registry ------------------------------
(***************************************************************************)
(* SystemRegistry (registry.py) and the routes of the web admin that       *)
(* change it (server.py:905-988).  The routes run on the event loop, and   *)
(* so does the save each of them ends with; a login is waited for in       *)
(* between.  A system is known by its name and the settings that the admin *)
(* form knows nothing of; url, client and credentials are left out.        *)
(***************************************************************************)
EXTENDS Naturals, Sequences, FiniteSets, SequencesExt

CONSTANTS
  Alike,     \* the names, grouped by what casefold makes of them
  Settings,  \* allow_write, allow_debug, debug_timeout ...: off unless set
  Logins,    \* api_login requests that may be waiting at the same time
  Torn,      \* a systems.json that was opened for writing and not written
  NoName

Names == UNION Alike

SameSystem(m, n) == \E S \in Alike : {m, n} \subseteq S

ASSUME RegistryAssumption ==
  /\ IsFiniteSet(Names)
  /\ \A S, R \in Alike : S = R \/ S \cap R = {}
  /\ NoName \notin Names

VARIABLES
  table,     \* _systems, in the order the names were first stored
  file,      \* systems.json
  pc,        \* where the event loop is
  login,     \* the names the waiting logins are for
  answered   \* what the server last said is stored, or the user wrote by hand

vars == <<table, file, pc, login, answered>>

Records == [name : Names, settings : [Settings -> BOOLEAN]]
Tables == {t \in BoundedSeq(Records, Cardinality(Names)) :
             \A i, j \in DOMAIN t : t[i].name = t[j].name => i = j}

-----------------------------------------------------------------------------
Default == [s \in Settings |-> FALSE]

\* to_dict drops what is off, from_dict takes what is missing for off.
ToDict(r) == [name |-> r.name, set |-> {s \in Settings : r.settings[s]}]

\* Mutant of FromDict: a setting nobody thought of when the system is read.
FromDictForgetful(d) == [name |-> d.name, settings |-> Default]

FromDict(d) == [name |-> d.name, settings |-> [s \in Settings |-> s \in d.set]]

Dump(t) == [i \in DOMAIN t |-> ToDict(t[i])]
Load(f) == [i \in DOMAIN f |-> FromDict(f[i])]

Init ==
  /\ answered \in Tables
  /\ file = Dump(answered)
  /\ table = <<>>
  /\ pc = "down"
  /\ login = [l \in Logins |-> NoName]

\* Where the dictionary has a name, spelled as it is; 0 if it has not.
Find(t, n) == SelectInSeq(t, LAMBDA r : r.name = n)

\* The first name that differs in case at most.
FindAlike(t, n) == SelectInSeq(t, LAMBDA r : SameSystem(r.name, n))

\* Mutant of Lookup: only the name as it was stored.
LookupExact(t, n) == Find(t, n)

\* get: the exact name first; 0 for a KeyError.
Lookup(t, n) ==
  IF Find(t, n) # 0 THEN Find(t, n) ELSE FindAlike(t, n)

\* Mutant of Put: a record that is there already is not looked for.
PutAppended(t, r) == Append(t, r)

Put(t, r) ==
  IF Find(t, r.name) # 0 THEN [t EXCEPT ![Find(t, r.name)] = r] ELSE Append(t, r)

-----------------------------------------------------------------------------
(* _save, at the end of every change *)

Saving(t) == table' = t /\ pc' = "open"

Open ==
  /\ pc = "open"
  /\ \/ file' = Torn /\ pc' = "write"
     \/ pc' = "up" /\ UNCHANGED file
  /\ UNCHANGED <<table, login, answered>>

\* The route answers {"ok": true}, or with the exception: a full disk leaves the file torn.
Write ==
  /\ pc = "write"
  /\ \/ file' = Dump(table) /\ answered' = table
     \/ UNCHANGED <<file, answered>>
  /\ pc' = "up"
  /\ UNCHANGED <<table, login>>

-----------------------------------------------------------------------------
(* The routes *)

\* Mutant of Upsert: the record is what the form says.
UpsertForm(n) ==
  /\ pc = "up"
  /\ Saving(Put(table, [name |-> n, settings |-> Default]))
  /\ UNCHANGED <<file, login, answered>>

\* api_upsert: "carry them over from the stored record".
Upsert(n) ==
  /\ pc = "up"
  /\ LET old == Lookup(table, n)
     IN Saving(Put(table, [name |-> n,
                           settings |-> IF old # 0 THEN table[old].settings ELSE Default]))
  /\ UNCHANGED <<file, login, answered>>

Delete(n) ==
  /\ pc = "up"
  /\ Saving(IF Find(table, n) # 0 THEN RemoveAt(table, Find(table, n)) ELSE table)
  /\ UNCHANGED <<file, login, answered>>

LoginBegin(l, n) ==
  /\ pc = "up" /\ login[l] = NoName
  /\ login' = [login EXCEPT ![l] = n]
  /\ UNCHANGED <<table, file, pc, answered>>

\* api_login: a new record, whatever is stored under the name by now.
LoginEnd(l) ==
  /\ pc = "up" /\ login[l] # NoName
  /\ \/ Saving(Put(table, [name |-> login[l], settings |-> Default]))
     \/ UNCHANGED <<table, pc>>
  /\ login' = [login EXCEPT ![l] = NoName]
  /\ UNCHANGED <<file, answered>>

-----------------------------------------------------------------------------
(* Starts, ends, and the user with an editor *)

\* Mutant of Start: a file that does not parse is taken for none.
StartAnyhow ==
  /\ pc = "down"
  /\ table' = IF file = Torn THEN <<>> ELSE Load(file)
  /\ pc' = "up"
  /\ UNCHANGED <<file, login, answered>>

\* _load: a file that does not parse ends the start.
Start ==
  /\ pc = "down"
  /\ file # Torn
  /\ table' = Load(file)
  /\ pc' = "up"
  /\ UNCHANGED <<file, login, answered>>

\* The process is stopped, or dies.
Stop ==
  /\ pc # "down"
  /\ pc' = "down" /\ table' = <<>>
  /\ login' = [l \in Logins |-> NoName]
  /\ UNCHANGED <<file, answered>>

\* Settings are made by hand, and so is a torn file mended; between two saves as well.
HandEdit ==
  /\ pc \in {"down", "up"}
  /\ answered' \in Tables
  /\ file' = Dump(answered')
  /\ UNCHANGED <<table, pc, login>>

-----------------------------------------------------------------------------
Next ==
  \/ \E n \in Names : Upsert(n) \/ Delete(n)
  \/ \E l \in Logins : LoginEnd(l) \/ \E n \in Names : LoginBegin(l, n)
  \/ Open \/ Write \/ Start \/ Stop \/ HandEdit

Spec == Init /\ [][Next]_vars

-----------------------------------------------------------------------------
\* The table has one record per name, and every file but a torn one is the
\* dump of a table.
TypeOK ==
  /\ table \in Tables
  /\ file \in {Torn} \cup {Dump(t) : t \in Tables}
  /\ pc \in {"down", "up", "open", "write"}
  /\ login \in [Logins -> Names \cup {NoName}]
  /\ answered \in Tables

\* A server that starts serves exactly what was last acknowledged, or written
\* by hand since: settings go through to_dict and from_dict and come back, and
\* what a save left of the file when it died or failed halfway is never taken
\* for an empty registry (registry.py:69-80).
Recovered == [][pc = "down" /\ pc' = "up" => table' = answered]_vars

\* While the server is up, nothing that the admin page does but a login
\* (server.py:978-987) changes the settings of a system, though the form knows
\* none of them: a record that is stored over another has its settings, and so
\* has one stored under a new spelling of a name that had only one: "Rebuilding
\* the System from the form alone would silently switch allow_write/allow_debug
\* back off" (server.py:907-910).
FlagsKept ==
  [][pc = "up" /\ pc' = "open" /\ login' = login =>
       \A i \in DOMAIN table, j \in DOMAIN table' :
         \/ table[i].name = table'[j].name
         \/ {k \in DOMAIN table : SameSystem(table[k].name, table'[j].name)} = {i}
         => table'[j].settings = table[i].settings]_vars
=============================================================================
