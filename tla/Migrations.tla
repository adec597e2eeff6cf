------------------------------ MODULE Migrations ------------------------------
(***************************************************************************)
(* MemoryStore::open (crates/harmony-memory/src/store.rs): the server, the *)
(* command lines and a second editor window open the database of a project *)
(* and bring its schema up to date, each for itself and perhaps at once.   *)
(*                                                                         *)
(* SQLite makes each statement atomic, but no transaction spans a script,  *)
(* and none spans a script and the row that records it: others' statements,*)
(* an error or a crash may come between any two of them.                   *)
(***************************************************************************)
EXTENDS Naturals, Sequences

CONSTANTS
  Openers,      \* who opens the store: the host, command lines
  Scripts,      \* the migrations in order, each a sequence of statements
  OldVersions,  \* migrations an earlier release had left in the database
  MaxFaults     \* bound

Ids == 1 .. Len(Scripts)
Positions(m) == 1 .. Len(Scripts[m])
Object(m, i) == Scripts[m][i].object
Table(m, i) == Scripts[m][i].table
Once(m, i) == Scripts[m][i].once

Objects(m) == {Object(m, i) : i \in Positions(m)}

Before(m, i, n, j) == m < n \/ (m = n /\ i < j)

(* Every object has one statement that makes it, after its table's.        *)
ASSUME ScriptAssumption ==
  /\ Scripts \in Seq(Seq([object : STRING, table : STRING, once : BOOLEAN]))
  /\ \A m, n \in Ids : \A i \in Positions(m), j \in Positions(n) :
       Object(m, i) = Object(n, j) => m = n /\ i = j
  /\ \A n \in Ids : \A j \in Positions(n) :
       \/ Table(n, j) = Object(n, j)
       \/ \E m \in Ids : \E i \in Positions(m) :
            Before(m, i, n, j) /\ Table(n, j) = Object(m, i)

ASSUME OpenAssumption ==
  /\ OldVersions \subseteq 0 .. Len(Scripts)
  /\ MaxFaults \in Nat

VARIABLES
  objects,    \* the tables, indexes and columns in the database
  applied,    \* the rows of schema_version
  pc,         \* where each opener is in open
  migration,  \* the migration it is at
  statement,  \* the statement of its script it is at
  disturbed,  \* history: whether another opened the store in the meantime
  faults      \* how many errors and crashes there were

vars == <<objects, applied, pc, migration, statement, disturbed, faults>>

Opening(p) == pc[p] \in {"query", "execute"}

-----------------------------------------------------------------------------
(* A database is new, or an earlier release has migrated it.               *)
Init ==
  /\ \E v \in OldVersions :
       /\ applied = 1 .. v
       /\ objects = UNION {Objects(m) : m \in 1 .. v}
  /\ pc = [p \in Openers |-> "closed"]
  /\ migration = [p \in Openers |-> 1]
  /\ statement = [p \in Openers |-> 1]
  /\ disturbed = [p \in Openers |-> FALSE]
  /\ faults = 0

(* The folder, the connection, its settings and the table schema_version,  *)
(* none of which minds finding it done already.                            *)
Begin(p) ==
  /\ pc[p] \in {"closed", "failed"}
  /\ pc' = [pc EXCEPT ![p] = "query"]
  /\ migration' = [migration EXCEPT ![p] = 1]
  /\ disturbed' = [q \in Openers |->
       IF q = p THEN \E r \in Openers \ {p} : Opening(r)
                ELSE disturbed[q] \/ Opening(q)]
  /\ UNCHANGED <<objects, applied, statement, faults>>

(* A migration that schema_version has is passed over.                     *)
Skip(p) ==
  /\ pc[p] = "query"
  /\ migration[p] \in Ids
  /\ migration[p] \in applied
  /\ migration' = [migration EXCEPT ![p] = @ + 1]
  /\ UNCHANGED <<objects, applied, pc, statement, disturbed, faults>>

(* Variant: schema_version is not asked. *)
ApplyAlways(p) ==
  /\ pc[p] = "query"
  /\ migration[p] \in Ids
  /\ pc' = [pc EXCEPT ![p] = "execute"]
  /\ statement' = [statement EXCEPT ![p] = 1]
  /\ UNCHANGED <<objects, applied, migration, disturbed, faults>>

(* The others are applied.                                                 *)
Apply(p) ==
  /\ pc[p] = "query"
  /\ migration[p] \in Ids
  /\ migration[p] \notin applied
  /\ pc' = [pc EXCEPT ![p] = "execute"]
  /\ statement' = [statement EXCEPT ![p] = 1]
  /\ UNCHANGED <<objects, applied, migration, disturbed, faults>>

(* Whether SQLite takes the statement.                                     *)
Accepted(m, i) ==
  /\ Table(m, i) \in objects \cup {Object(m, i)}
  /\ Once(m, i) => Object(m, i) \notin objects

(* Variant: the error is logged, and the next migration is tried. *)
ExecuteFailsLogged(p) ==
  /\ pc[p] = "execute"
  /\ statement[p] \in Positions(migration[p])
  /\ ~Accepted(migration[p], statement[p])
  /\ pc' = [pc EXCEPT ![p] = "query"]
  /\ migration' = [migration EXCEPT ![p] = @ + 1]
  /\ UNCHANGED <<objects, applied, statement, disturbed, faults>>

Execute(p) ==
  LET m == migration[p]
      i == statement[p]
  IN /\ pc[p] = "execute"
     /\ i \in Positions(m)
     /\ Accepted(m, i)
     /\ objects' = objects \cup {Object(m, i)}
     /\ statement' = [statement EXCEPT ![p] = @ + 1]
     /\ UNCHANGED <<applied, pc, migration, disturbed, faults>>

ExecuteFails(p) ==
  /\ pc[p] = "execute"
  /\ statement[p] \in Positions(migration[p])
  /\ ~Accepted(migration[p], statement[p])
  /\ pc' = [pc EXCEPT ![p] = "failed"]
  /\ UNCHANGED <<objects, applied, migration, statement, disturbed, faults>>

(* Variant: the row names the next migration. *)
RecordNext(p) ==
  /\ pc[p] = "execute"
  /\ statement[p] \notin Positions(migration[p])
  /\ migration[p] \notin applied
  /\ applied' = applied \cup {migration[p] + 1}
  /\ pc' = [pc EXCEPT ![p] = "query"]
  /\ migration' = [migration EXCEPT ![p] = @ + 1]
  /\ UNCHANGED <<objects, statement, disturbed, faults>>

(* Variant: the row is not inserted while another is at work. *)
RecordFailsBusy(p) ==
  /\ pc[p] = "execute"
  /\ statement[p] \notin Positions(migration[p])
  /\ migration[p] \in applied \/ \E q \in Openers \ {p} : Opening(q)
  /\ pc' = [pc EXCEPT ![p] = "failed"]
  /\ UNCHANGED <<objects, applied, migration, statement, disturbed, faults>>

(* The script is through: migration_id is the primary key of the row.      *)
Record(p) ==
  /\ pc[p] = "execute"
  /\ statement[p] \notin Positions(migration[p])
  /\ migration[p] \notin applied
  /\ applied' = applied \cup {migration[p]}
  /\ pc' = [pc EXCEPT ![p] = "query"]
  /\ migration' = [migration EXCEPT ![p] = @ + 1]
  /\ UNCHANGED <<objects, statement, disturbed, faults>>

RecordFails(p) ==
  /\ pc[p] = "execute"
  /\ statement[p] \notin Positions(migration[p])
  /\ migration[p] \in applied
  /\ pc' = [pc EXCEPT ![p] = "failed"]
  /\ UNCHANGED <<objects, applied, migration, statement, disturbed, faults>>

Finish(p) ==
  /\ pc[p] = "query"
  /\ migration[p] \notin Ids
  /\ pc' = [pc EXCEPT ![p] = "open"]
  /\ UNCHANGED <<objects, applied, migration, statement, disturbed, faults>>

Close(p) ==
  /\ pc[p] = "open"
  /\ pc' = [pc EXCEPT ![p] = "closed"]
  /\ UNCHANGED <<objects, applied, migration, statement, disturbed, faults>>

(* An error of SQLite, and the end of the process, between two statements. *)
Fault(p) ==
  /\ Opening(p)
  /\ faults < MaxFaults
  /\ faults' = faults + 1
  /\ pc' = [pc EXCEPT ![p] = "failed"]
  /\ UNCHANGED <<objects, applied, migration, statement, disturbed>>

OpenStep(p) ==
  \/ Skip(p) \/ Apply(p) \/ Execute(p) \/ ExecuteFails(p)
  \/ Record(p) \/ RecordFails(p) \/ Finish(p)

Next == \E p \in Openers : Begin(p) \/ OpenStep(p) \/ Close(p) \/ Fault(p)

Spec == Init /\ [][Next]_vars

(* Whoever has begun to open the store goes on, one statement after another. *)
FairSpec == Spec /\ \A p \in Openers : WF_vars(OpenStep(p))

-----------------------------------------------------------------------------
TypeOK ==
  /\ objects \subseteq UNION {Objects(m) : m \in Ids}
  /\ applied \subseteq Ids
  /\ pc \in [Openers -> {"closed", "query", "execute", "open", "failed"}]
  /\ migration \in [Openers -> 1 .. Len(Scripts) + 1]
  /\ statement \in [Openers -> Nat \ {0}]
  /\ disturbed \in [Openers -> BOOLEAN]
  /\ faults \in 0 .. MaxFaults

(* open returned the store: then its schema is the whole of it, whatever   *)
(* other openers, errors and crashes there were before ("Runs all pending  *)
(* migrations", store.rs:16). Every query of the program builds on it.     *)
OpenStoreIsWhole ==
  \A p \in Openers : pc[p] = "open" =>
    /\ applied = Ids
    /\ \A m \in Ids : Objects(m) \subseteq objects

(* A column that was added by a migration not recorded makes every later   *)
(* open fail, until somebody repairs the database by hand: the statement   *)
(* cannot be repeated. Without an error or a crash this never lasts: who   *)
(* added the column is still in the script, on its way to the record.      *)
OnlyFaultsWedge ==
  faults = 0 =>
    \A m \in Ids \ applied : \A i \in Positions(m) :
      Once(m, i) /\ Object(m, i) \in objects =>
        \E p \in Openers :
          pc[p] = "execute" /\ migration[p] = m /\ statement[p] > i

(* open fails for a reason: an error, a crash before, or another that      *)
(* opened the store at the same time. Alone, every database opens.         *)
LoneOpenSucceeds ==
  \A p \in Openers : pc[p] = "failed" => disturbed[p] \/ faults > 0

(* Openers that collide make each other fail, but never so that none is    *)
(* left: once one has begun, and nothing else goes wrong, the schema gets  *)
(* complete, and every later open succeeds.                                *)
SchemaCompletes ==
  (\E p \in Openers : Opening(p)) ~> (applied = Ids \/ faults > 0)

=============================================================================
