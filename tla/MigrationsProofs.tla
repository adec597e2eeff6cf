--------------------------- MODULE MigrationsProofs ---------------------------
(***************************************************************************)
(* Proofs about Migrations, for any openers, any scripts in which each     *)
(* object is made once and after its table, and any earlier release.       *)
(*                                                                         *)
(* The invariant: what schema_version records is made (RecordedIsMade), an *)
(* opener has made what its script has behind the statement it is at       *)
(* (PrefixMade) and finds every earlier migration recorded                 *)
(* (EarlierRecorded). An object that cannot be made twice and is made, but *)
(* not recorded, is behind an opener that is still at work                 *)
(* (OnlyFaultsWedge): if one opener fails at it, it is the other's. So one *)
(* of those that collide goes on (HopeInv).                                *)
(***************************************************************************)
EXTENDS Migrations, TLAPS

-----------------------------------------------------------------------------
RecordedIsMade == \A m \in applied : Objects(m) \subseteq objects

ExecutesScript == \A p \in Openers : pc[p] = "execute" => migration[p] \in Ids

PrefixMade ==
  \A p \in Openers : pc[p] = "execute" =>
    \A i \in Positions(migration[p]) :
      i < statement[p] => Object(migration[p], i) \in objects

EarlierRecorded ==
  \A p \in Openers : pc[p] \in {"query", "execute", "open"} =>
    \A m \in Ids : m < migration[p] => m \in applied

OpenIsThrough == \A p \in Openers : pc[p] = "open" => migration[p] \notin Ids

(* Two that open the store at once know it of each other.                  *)
TogetherDisturbed ==
  \A p, q \in Openers : p # q /\ Opening(p) /\ Opening(q) => disturbed[p]

(* A migration is recorded under an opener's hands by another only.        *)
OvertakenDisturbed ==
  \A p \in Openers :
    pc[p] = "execute" /\ migration[p] \in applied => disturbed[p]

TypeInv == TypeOK /\ ExecutesScript

MadeInv == RecordedIsMade /\ PrefixMade /\ EarlierRecorded /\ OpenIsThrough

-----------------------------------------------------------------------------
LEMMA ScriptFacts ==
  /\ Len(Scripts) \in Nat
  /\ \A m \in Ids : Len(Scripts[m]) \in Nat
<1>1. Scripts \in Seq(Seq([object : STRING, table : STRING, once : BOOLEAN]))
  BY ScriptAssumption
<1>2. \A m \in Ids : Scripts[m] \in Seq([object : STRING, table : STRING, once : BOOLEAN])
  BY <1>1 DEF Ids
<1> QED BY <1>1, <1>2

LEMMA ObjectMadeOnce ==
  ASSUME NEW m \in Ids, NEW n \in Ids, NEW i \in Positions(m), NEW j \in Positions(n),
         Object(m, i) = Object(n, j)
  PROVE  m = n /\ i = j
BY ScriptAssumption

-----------------------------------------------------------------------------
(* Types.                                                                  *)

LEMMA TypeInit == Init => TypeInv
<1> SUFFICES ASSUME Init PROVE TypeInv
  OBVIOUS
<1>1. PICK v \in OldVersions : applied = 1 .. v /\ objects = UNION {Objects(m) : m \in 1 .. v}
  BY DEF Init
<1>2. v \in 0 .. Len(Scripts) /\ Len(Scripts) \in Nat
  BY OpenAssumption, ScriptFacts
<1>3. 1 .. v \subseteq Ids
  BY <1>2 DEF Ids
<1>4. applied \subseteq Ids /\ objects \subseteq UNION {Objects(m) : m \in Ids}
  BY <1>1, <1>3
<1>5. 0 \in 0 .. MaxFaults
  BY OpenAssumption
<1>6. TypeOK
  BY <1>2, <1>4, <1>5 DEF Init, TypeOK
<1> QED BY <1>6 DEF Init, TypeInv, ExecutesScript

LEMMA TypeNext == TypeInv /\ [Next]_vars => TypeInv'
<1> SUFFICES ASSUME TypeInv, [Next]_vars PROVE TypeInv'
  OBVIOUS
<1> USE ScriptFacts DEF TypeInv
<1>1. CASE UNCHANGED vars
  BY <1>1 DEF vars, TypeOK, ExecutesScript
<1>2. ASSUME NEW p \in Openers, Begin(p) PROVE TypeInv'
  <2>1. disturbed' \in [Openers -> BOOLEAN]
    BY <1>2 DEF Begin, TypeOK
  <2>2. migration' \in [Openers -> 1 .. Len(Scripts) + 1]
    BY <1>2 DEF Begin, TypeOK
  <2> QED BY <1>2, <2>1, <2>2 DEF Begin, TypeOK, ExecutesScript
<1>3. ASSUME NEW p \in Openers, Skip(p) PROVE TypeInv'
  <2>1. migration' \in [Openers -> 1 .. Len(Scripts) + 1]
    BY <1>3 DEF Skip, TypeOK, Ids
  <2> QED BY <1>3, <2>1 DEF Skip, TypeOK, ExecutesScript
<1>4. ASSUME NEW p \in Openers, Apply(p) PROVE TypeInv'
  BY <1>4 DEF Apply, TypeOK, ExecutesScript
<1>5. ASSUME NEW p \in Openers, Execute(p) PROVE TypeInv'
  <2>1. statement' \in [Openers -> Nat \ {0}]
    BY <1>5 DEF Execute, TypeOK
  <2>2. migration[p] \in Ids /\ statement[p] \in Positions(migration[p])
    BY <1>5 DEF Execute, ExecutesScript
  <2>3. Object(migration[p], statement[p]) \in UNION {Objects(m) : m \in Ids}
    BY <2>2 DEF Objects
  <2> QED BY <1>5, <2>1, <2>3 DEF Execute, TypeOK, ExecutesScript
<1>6. ASSUME NEW p \in Openers, ExecuteFails(p) PROVE TypeInv'
  BY <1>6 DEF ExecuteFails, TypeOK, ExecutesScript
<1>7. ASSUME NEW p \in Openers, Record(p) PROVE TypeInv'
  <2>1. migration[p] \in Ids
    BY <1>7 DEF Record, ExecutesScript
  <2>2. migration' \in [Openers -> 1 .. Len(Scripts) + 1]
    BY <1>7, <2>1 DEF Record, TypeOK, Ids
  <2> QED BY <1>7, <2>1, <2>2 DEF Record, TypeOK, ExecutesScript
<1>8. ASSUME NEW p \in Openers, RecordFails(p) PROVE TypeInv'
  BY <1>8 DEF RecordFails, TypeOK, ExecutesScript
<1>9. ASSUME NEW p \in Openers, Finish(p) PROVE TypeInv'
  BY <1>9 DEF Finish, TypeOK, ExecutesScript
<1>10. ASSUME NEW p \in Openers, Close(p) PROVE TypeInv'
  BY <1>10 DEF Close, TypeOK, ExecutesScript
<1>11. ASSUME NEW p \in Openers, Fault(p) PROVE TypeInv'
  <2>1. faults' \in 0 .. MaxFaults
    BY <1>11, OpenAssumption DEF Fault, TypeOK
  <2> QED BY <1>11, <2>1 DEF Fault, TypeOK, ExecutesScript
<1> QED
  BY <1>1, <1>2, <1>3, <1>4, <1>5, <1>6, <1>7, <1>8, <1>9, <1>10, <1>11
  DEF Next, OpenStep

(* Every variable has its type, and an opener only executes migrations     *)
(* that there are (schema.rs 5-17, store.rs 27-57).                        *)
THEOREM TypeCorrect == Spec => []TypeOK
<1>1. TypeInv => TypeOK
  BY DEF TypeInv
<1> QED BY <1>1, TypeInit, TypeNext, PTL DEF Spec

-----------------------------------------------------------------------------
(* What is recorded is made.                                               *)

LEMMA MadeInit == Init => MadeInv
<1> SUFFICES ASSUME Init PROVE MadeInv
  OBVIOUS
<1>1. PICK v \in OldVersions : applied = 1 .. v /\ objects = UNION {Objects(m) : m \in 1 .. v}
  BY DEF Init
<1>2. RecordedIsMade
  BY <1>1 DEF RecordedIsMade
<1> QED BY <1>2 DEF Init, MadeInv, PrefixMade, EarlierRecorded, OpenIsThrough

(* An opener that changes neither table, nor comes to a script.            *)
LEMMA MadeFrame ==
  ASSUME TypeInv, MadeInv, UNCHANGED <<objects, applied, migration, statement>>,
         NEW p \in Openers, NEW at \in {"closed", "failed"},
         pc' = [pc EXCEPT ![p] = at]
  PROVE  MadeInv'
BY DEF MadeInv, RecordedIsMade, PrefixMade, EarlierRecorded, OpenIsThrough, TypeInv, TypeOK

LEMMA MadeNext == TypeInv /\ TypeInv' /\ MadeInv /\ [Next]_vars => MadeInv'
<1> SUFFICES ASSUME TypeInv, TypeInv', MadeInv, [Next]_vars PROVE MadeInv'
  OBVIOUS
<1> USE ScriptFacts
<1>1. CASE UNCHANGED vars
  BY <1>1 DEF vars, MadeInv, RecordedIsMade, PrefixMade, EarlierRecorded, OpenIsThrough
<1>2. ASSUME NEW p \in Openers, Begin(p) PROVE MadeInv'
  <2>1. RecordedIsMade'
    BY <1>2 DEF Begin, MadeInv, RecordedIsMade
  <2>2. PrefixMade'
    BY <1>2 DEF Begin, MadeInv, PrefixMade, TypeInv, TypeOK
  <2>3. EarlierRecorded'
    BY <1>2 DEF Begin, MadeInv, EarlierRecorded, TypeInv, TypeOK, Ids
  <2>4. OpenIsThrough'
    BY <1>2 DEF Begin, MadeInv, OpenIsThrough, TypeInv, TypeOK
  <2> QED BY <2>1, <2>2, <2>3, <2>4 DEF MadeInv
<1>3. ASSUME NEW p \in Openers, Skip(p) PROVE MadeInv'
  <2>1. RecordedIsMade'
    BY <1>3 DEF Skip, MadeInv, RecordedIsMade
  <2>2. PrefixMade'
    BY <1>3 DEF Skip, MadeInv, PrefixMade, TypeInv, TypeOK
  <2>3. EarlierRecorded'
    BY <1>3 DEF Skip, MadeInv, EarlierRecorded, TypeInv, TypeOK, Ids
  <2>4. OpenIsThrough'
    BY <1>3 DEF Skip, MadeInv, OpenIsThrough, TypeInv, TypeOK
  <2> QED BY <2>1, <2>2, <2>3, <2>4 DEF MadeInv
<1>4. ASSUME NEW p \in Openers, Apply(p) PROVE MadeInv'
  <2>1. RecordedIsMade'
    BY <1>4 DEF Apply, MadeInv, RecordedIsMade
  <2>2. PrefixMade'
    BY <1>4 DEF Apply, MadeInv, PrefixMade, TypeInv, TypeOK, Positions
  <2>3. EarlierRecorded'
    BY <1>4 DEF Apply, MadeInv, EarlierRecorded, TypeInv, TypeOK
  <2>4. OpenIsThrough'
    BY <1>4 DEF Apply, MadeInv, OpenIsThrough, TypeInv, TypeOK
  <2> QED BY <2>1, <2>2, <2>3, <2>4 DEF MadeInv
<1>5. ASSUME NEW p \in Openers, Execute(p) PROVE MadeInv'
  <2>1. RecordedIsMade'
    BY <1>5 DEF Execute, MadeInv, RecordedIsMade
  <2>2. PrefixMade'
    <3> SUFFICES ASSUME NEW q \in Openers, pc[q] = "execute",
                        NEW i \in Positions(migration[q]), i < statement'[q]
                 PROVE  Object(migration[q], i) \in objects'
      BY <1>5 DEF Execute, PrefixMade
    <3>1. CASE i < statement[q]
      BY <1>5, <3>1 DEF Execute, MadeInv, PrefixMade
    <3>2. CASE ~(i < statement[q])
      <4>1. q = p /\ i = statement[p]
        BY <1>5, <3>2 DEF Execute, TypeInv, TypeOK, Positions
      <4> QED BY <1>5, <4>1 DEF Execute
    <3> QED BY <3>1, <3>2
  <2>3. EarlierRecorded'
    BY <1>5 DEF Execute, MadeInv, EarlierRecorded
  <2>4. OpenIsThrough'
    BY <1>5 DEF Execute, MadeInv, OpenIsThrough
  <2> QED BY <2>1, <2>2, <2>3, <2>4 DEF MadeInv
<1>6. ASSUME NEW p \in Openers, ExecuteFails(p) PROVE MadeInv'
  BY <1>6, MadeFrame DEF ExecuteFails
<1>7. ASSUME NEW p \in Openers, Record(p) PROVE MadeInv'
  <2>1. RecordedIsMade'
    <3> SUFFICES ASSUME NEW m \in applied', NEW i \in Positions(m)
                 PROVE  Object(m, i) \in objects
      BY <1>7 DEF Record, RecordedIsMade, Objects
    <3>1. CASE m \in applied
      BY <3>1 DEF MadeInv, RecordedIsMade, Objects
    <3>2. CASE m = migration[p]
      <4>1. m \in Ids
        BY <1>7, <3>2 DEF Record, TypeInv, ExecutesScript
      <4>2. i < statement[p]
        BY <1>7, <3>2, <4>1 DEF Record, Positions, TypeInv, TypeOK
      <4> QED BY <1>7, <3>2, <4>2 DEF Record, MadeInv, PrefixMade
    <3> QED BY <1>7, <3>1, <3>2 DEF Record
  <2>2. PrefixMade'
    BY <1>7 DEF Record, MadeInv, PrefixMade, TypeInv, TypeOK
  <2>3. EarlierRecorded'
    <3> SUFFICES ASSUME NEW q \in Openers, pc'[q] \in {"query", "execute", "open"},
                        NEW m \in Ids, m < migration'[q]
                 PROVE  m \in applied'
      BY DEF EarlierRecorded
    <3>1. CASE q # p
      BY <1>7, <3>1 DEF Record, MadeInv, EarlierRecorded, TypeInv, TypeOK
    <3>2. CASE q = p
      <4>1. m < migration[p] \/ m = migration[p]
        BY <1>7, <3>2 DEF Record, TypeInv, TypeOK, Ids
      <4> QED BY <1>7, <4>1 DEF Record, MadeInv, EarlierRecorded
    <3> QED BY <3>1, <3>2
  <2>4. OpenIsThrough'
    BY <1>7 DEF Record, MadeInv, OpenIsThrough, TypeInv, TypeOK
  <2> QED BY <2>1, <2>2, <2>3, <2>4 DEF MadeInv
<1>8. ASSUME NEW p \in Openers, RecordFails(p) PROVE MadeInv'
  BY <1>8, MadeFrame DEF RecordFails
<1>9. ASSUME NEW p \in Openers, Finish(p) PROVE MadeInv'
  BY <1>9 DEF Finish, MadeInv, RecordedIsMade, PrefixMade, EarlierRecorded, OpenIsThrough, TypeInv, TypeOK
<1>10. ASSUME NEW p \in Openers, Close(p) PROVE MadeInv'
  BY <1>10, MadeFrame DEF Close
<1>11. ASSUME NEW p \in Openers, Fault(p) PROVE MadeInv'
  BY <1>11, MadeFrame DEF Fault
<1> QED
  BY <1>1, <1>2, <1>3, <1>4, <1>5, <1>6, <1>7, <1>8, <1>9, <1>10, <1>11
  DEF Next, OpenStep

(* Whoever gets the store back from open finds the whole schema, after any *)
(* number of crashes and with any number of others opening it at once      *)
(* (store.rs 27-57).                                                       *)
THEOREM OpenIsWhole == Spec => []OpenStoreIsWhole
<1>1. TypeInv /\ MadeInv => OpenStoreIsWhole
  <2> SUFFICES ASSUME TypeInv, MadeInv, NEW p \in Openers, pc[p] = "open"
               PROVE  applied = Ids /\ \A m \in Ids : Objects(m) \subseteq objects
    BY DEF OpenStoreIsWhole
  <2>1. \A m \in Ids : m < migration[p]
    BY ScriptFacts DEF MadeInv, OpenIsThrough, TypeInv, TypeOK, Ids
  <2>2. applied = Ids
    BY <2>1 DEF MadeInv, EarlierRecorded, TypeInv, TypeOK
  <2> QED BY <2>2 DEF MadeInv, RecordedIsMade
<1> QED BY <1>1, TypeInit, TypeNext, MadeInit, MadeNext, PTL DEF Spec

-----------------------------------------------------------------------------
(* What stays unrecorded for good.                                         *)

(* The table a statement needs is there, or is what the statement makes.   *)
LEMMA TableThere ==
  ASSUME TypeInv, MadeInv, NEW p \in Openers, pc[p] = "execute",
         statement[p] \in Positions(migration[p])
  PROVE  Table(migration[p], statement[p])
           \in objects \cup {Object(migration[p], statement[p])}
<1> DEFINE n == migration[p]
           j == statement[p]
<1>1. n \in Ids /\ j \in Positions(n)
  BY DEF TypeInv, ExecutesScript
<1>2. CASE Table(n, j) = Object(n, j)
  BY <1>2
<1>3. CASE \E m \in Ids : \E i \in Positions(m) :
             Before(m, i, n, j) /\ Table(n, j) = Object(m, i)
  <2>0. PICK m \in Ids : \E i \in Positions(m) :
          Before(m, i, n, j) /\ Table(n, j) = Object(m, i)
    BY <1>3
  <2>1. PICK i \in Positions(m) : Before(m, i, n, j) /\ Table(n, j) = Object(m, i)
    BY <2>0
  <2>2. CASE m < n
    <3>1. m \in applied
      BY <1>1, <2>2 DEF MadeInv, EarlierRecorded
    <3> QED BY <2>1, <3>1 DEF MadeInv, RecordedIsMade, Objects
  <2>3. CASE m = n /\ i < j
    BY <2>1, <2>3 DEF MadeInv, PrefixMade
  <2> QED BY <2>1, <2>2, <2>3 DEF Before
<1>4. \/ Table(n, j) = Object(n, j)
      \/ \E m \in Ids : \E i \in Positions(m) :
           Before(m, i, n, j) /\ Table(n, j) = Object(m, i)
  BY <1>1, ScriptAssumption
<1> QED BY <1>2, <1>3, <1>4

(* A refused statement has been executed already.                          *)
LEMMA RefusedIsMade ==
  ASSUME TypeInv, MadeInv, NEW p \in Openers, ExecuteFails(p)
  PROVE  /\ migration[p] \in Ids
         /\ statement[p] \in Positions(migration[p])
         /\ Once(migration[p], statement[p])
         /\ Object(migration[p], statement[p]) \in objects
<1>1. pc[p] = "execute" /\ statement[p] \in Positions(migration[p])
      /\ ~Accepted(migration[p], statement[p])
  BY DEF ExecuteFails
<1>2. migration[p] \in Ids
  BY <1>1 DEF TypeInv, ExecutesScript
<1>3. Table(migration[p], statement[p])
        \in objects \cup {Object(migration[p], statement[p])}
  BY <1>1, TableThere
<1> QED BY <1>1, <1>2, <1>3 DEF Accepted

LEMMA WedgeInit == Init => OnlyFaultsWedge
<1> SUFFICES ASSUME Init, NEW m \in Ids \ applied, NEW i \in Positions(m),
                    Object(m, i) \in objects
             PROVE  FALSE
  BY DEF OnlyFaultsWedge
<1>1. PICK v \in OldVersions : applied = 1 .. v /\ objects = UNION {Objects(n) : n \in 1 .. v}
  BY DEF Init
<1>2. 1 .. v \subseteq Ids
  BY OpenAssumption, ScriptFacts DEF Ids
<1>3. PICK n \in 1 .. v : Object(m, i) \in Objects(n)
  BY <1>1
<1>4. PICK j \in Positions(n) : Object(m, i) = Object(n, j)
  BY <1>3 DEF Objects
<1>5. m = n
  BY <1>2, <1>4, ObjectMadeOnce
<1> QED BY <1>1, <1>5

(* Who was behind a statement still is, unless it was p.                   *)
LEMMA WedgeKept ==
  ASSUME TypeInv, OnlyFaultsWedge, faults' = 0, faults = 0,
         objects' = objects, applied \subseteq applied', NEW p \in Openers,
         \A q \in Openers \ {p} : pc'[q] = pc[q] /\ migration'[q] = migration[q]
                                   /\ statement'[q] = statement[q],
         pc[p] = "execute" => migration[p] \in applied'
  PROVE  OnlyFaultsWedge'
<1> SUFFICES ASSUME NEW m \in Ids \ applied', NEW i \in Positions(m),
                    Once(m, i), Object(m, i) \in objects
             PROVE  \E q \in Openers :
                      pc'[q] = "execute" /\ migration'[q] = m /\ statement'[q] > i
  BY DEF OnlyFaultsWedge
<1>1. PICK q \in Openers : pc[q] = "execute" /\ migration[q] = m /\ statement[q] > i
  BY DEF OnlyFaultsWedge
<1>2. q # p
  BY <1>1
<1> QED BY <1>1, <1>2

LEMMA WedgeNext ==
  TypeInv /\ MadeInv /\ OnlyFaultsWedge /\ [Next]_vars => OnlyFaultsWedge'
<1> SUFFICES ASSUME TypeInv, MadeInv, OnlyFaultsWedge, [Next]_vars, faults' = 0
             PROVE  OnlyFaultsWedge'
  BY DEF OnlyFaultsWedge
<1>1. CASE UNCHANGED vars
  BY <1>1 DEF vars, OnlyFaultsWedge
<1>2. ASSUME NEW p \in Openers, Begin(p) PROVE OnlyFaultsWedge'
  BY <1>2, WedgeKept DEF Begin, TypeInv, TypeOK
<1>3. ASSUME NEW p \in Openers, Skip(p) PROVE OnlyFaultsWedge'
  BY <1>3, WedgeKept DEF Skip, TypeInv, TypeOK
<1>4. ASSUME NEW p \in Openers, Apply(p) PROVE OnlyFaultsWedge'
  BY <1>4, WedgeKept DEF Apply, TypeInv, TypeOK
<1>5. ASSUME NEW p \in Openers, Execute(p) PROVE OnlyFaultsWedge'
  <2> SUFFICES ASSUME NEW m \in Ids \ applied, NEW i \in Positions(m),
                      Once(m, i), Object(m, i) \in objects'
               PROVE  \E q \in Openers :
                        pc'[q] = "execute" /\ migration'[q] = m /\ statement'[q] > i
    BY <1>5 DEF OnlyFaultsWedge, Execute
  <2>1. CASE Object(m, i) \in objects
    <3>1. PICK q \in Openers : pc[q] = "execute" /\ migration[q] = m /\ statement[q] > i
      BY <1>5, <2>1 DEF OnlyFaultsWedge, Execute
    <3>2. statement'[q] > i
      BY <1>5, <3>1, ScriptFacts DEF Execute, TypeInv, TypeOK, Positions
    <3> QED BY <1>5, <3>1, <3>2 DEF Execute
  <2>2. CASE Object(m, i) = Object(migration[p], statement[p])
    <3>1. migration[p] \in Ids /\ statement[p] \in Positions(migration[p])
      BY <1>5 DEF Execute, TypeInv, ExecutesScript
    <3>2. m = migration[p] /\ i = statement[p]
      BY <2>2, <3>1, ObjectMadeOnce
    <3>3. statement'[p] > i
      BY <1>5, <3>2 DEF Execute, TypeInv, TypeOK
    <3> QED BY <1>5, <3>2, <3>3 DEF Execute
  <2> QED BY <1>5, <2>1, <2>2 DEF Execute
<1>6. ASSUME NEW p \in Openers, ExecuteFails(p) PROVE OnlyFaultsWedge'
  <2> SUFFICES ASSUME NEW m \in Ids \ applied, NEW i \in Positions(m),
                      Once(m, i), Object(m, i) \in objects
               PROVE  \E q \in Openers :
                        pc'[q] = "execute" /\ migration'[q] = m /\ statement'[q] > i
    BY <1>6 DEF OnlyFaultsWedge, ExecuteFails
  <2>1. PICK q \in Openers : pc[q] = "execute" /\ migration[q] = m /\ statement[q] > i
    BY <1>6 DEF OnlyFaultsWedge, ExecuteFails
  <2>2. CASE q # p
    BY <1>6, <2>1, <2>2 DEF ExecuteFails, TypeInv, TypeOK
  <2>3. CASE q = p
    <3>1. PICK r \in Openers :
            pc[r] = "execute" /\ migration[r] = m /\ statement[r] > statement[p]
      BY <1>6, <2>1, <2>3, RefusedIsMade DEF OnlyFaultsWedge, ExecuteFails
    <3>2. r # p
      BY <3>1 DEF TypeInv, TypeOK
    <3>3. statement[r] > i
      BY <2>1, <2>3, <3>1, ScriptFacts DEF TypeInv, TypeOK, Positions
    <3> QED BY <1>6, <3>1, <3>2, <3>3 DEF ExecuteFails, TypeInv, TypeOK
  <2> QED BY <2>2, <2>3
<1>7. ASSUME NEW p \in Openers, Record(p) PROVE OnlyFaultsWedge'
  BY <1>7, WedgeKept DEF Record, TypeInv, TypeOK
<1>8. ASSUME NEW p \in Openers, RecordFails(p) PROVE OnlyFaultsWedge'
  BY <1>8, WedgeKept DEF RecordFails, TypeInv, TypeOK
<1>9. ASSUME NEW p \in Openers, Finish(p) PROVE OnlyFaultsWedge'
  BY <1>9, WedgeKept DEF Finish, TypeInv, TypeOK
<1>10. ASSUME NEW p \in Openers, Close(p) PROVE OnlyFaultsWedge'
  BY <1>10, WedgeKept DEF Close, TypeInv, TypeOK
<1>11. ASSUME NEW p \in Openers, Fault(p) PROVE OnlyFaultsWedge'
  BY <1>11 DEF Fault, TypeInv, TypeOK
<1> QED
  BY <1>1, <1>2, <1>3, <1>4, <1>5, <1>6, <1>7, <1>8, <1>9, <1>10, <1>11
  DEF Next, OpenStep

(* Openers that collide never leave a column behind that no one records:   *)
(* only an error or a crash between ALTER TABLE and the row does           *)
(* (store.rs 39-53, schema.rs 131-141).                                    *)
THEOREM CollisionsDoNotWedge == Spec => []OnlyFaultsWedge
BY TypeInit, TypeNext, MadeInit, MadeNext, WedgeInit, WedgeNext, PTL DEF Spec

-----------------------------------------------------------------------------
(* Alone, every database opens.                                            *)

AloneInv == TogetherDisturbed /\ OvertakenDisturbed /\ LoneOpenSucceeds

LEMMA AloneInit == Init => AloneInv
BY DEF Init, AloneInv, TogetherDisturbed, OvertakenDisturbed, LoneOpenSucceeds, Opening

(* Steps of one opener that is opening and stays so, or ends it in peace.  *)
LEMMA AloneFrame ==
  ASSUME TypeInv, AloneInv, UNCHANGED <<applied, disturbed>>, faults' >= faults, faults' \in Nat,
         NEW p \in Openers,
         \A q \in Openers \ {p} : pc'[q] = pc[q] /\ migration'[q] = migration[q],
         Opening(p)' => Opening(p),
         pc'[p] = "execute" /\ migration'[p] \in applied => disturbed[p],
         pc'[p] = "failed" => disturbed[p] \/ faults' > 0
  PROVE  AloneInv'
<1>1. TogetherDisturbed'
  BY DEF AloneInv, TogetherDisturbed, Opening
<1>2. OvertakenDisturbed'
  BY DEF AloneInv, OvertakenDisturbed
<1>3. LoneOpenSucceeds'
  BY DEF AloneInv, LoneOpenSucceeds, TypeInv, TypeOK
<1> QED BY <1>1, <1>2, <1>3 DEF AloneInv

LEMMA AloneNext ==
  TypeInv /\ TypeInv' /\ MadeInv /\ OnlyFaultsWedge /\ AloneInv /\ [Next]_vars => AloneInv'
<1> SUFFICES ASSUME TypeInv, TypeInv', MadeInv, OnlyFaultsWedge, AloneInv, [Next]_vars
             PROVE  AloneInv'
  OBVIOUS
<1>0. faults \in Nat /\ faults' \in Nat
  BY OpenAssumption DEF TypeInv, TypeOK
<1>1. CASE UNCHANGED vars
  BY <1>1 DEF vars, AloneInv, TogetherDisturbed, OvertakenDisturbed, LoneOpenSucceeds, Opening
<1>2. ASSUME NEW p \in Openers, Begin(p) PROVE AloneInv'
  <2>0. \A q \in Openers : q # p => pc'[q] = pc[q] /\ migration'[q] = migration[q]
    BY <1>2 DEF Begin, TypeInv, TypeOK
  <2>1. TogetherDisturbed'
    <3> SUFFICES ASSUME NEW q \in Openers, NEW r \in Openers, q # r,
                        Opening(q)', Opening(r)'
                 PROVE  disturbed'[q]
      BY DEF TogetherDisturbed
    <3>1. CASE q = p
      <4>1. Opening(r)
        BY <2>0, <3>1 DEF Opening
      <4> QED BY <1>2, <3>1, <4>1 DEF Begin
    <3>2. CASE q # p
      <4>1. Opening(q)
        BY <2>0, <3>2 DEF Opening
      <4> QED BY <1>2, <3>2, <4>1 DEF Begin
    <3> QED BY <3>1, <3>2
  <2>2. OvertakenDisturbed'
    <3> SUFFICES ASSUME NEW q \in Openers, pc'[q] = "execute", migration'[q] \in applied'
                 PROVE  disturbed'[q]
      BY DEF OvertakenDisturbed
    <3>1. q # p
      BY <1>2 DEF Begin, TypeInv, TypeOK
    <3>2. Opening(q)
      BY <2>0, <3>1 DEF Opening
    <3> QED BY <1>2, <3>1, <3>2 DEF Begin
  <2>3. LoneOpenSucceeds'
    <3> SUFFICES ASSUME NEW q \in Openers, pc'[q] = "failed"
                 PROVE  disturbed'[q] \/ faults' > 0
      BY DEF LoneOpenSucceeds
    <3>1. q # p
      BY <1>2 DEF Begin, TypeInv, TypeOK
    <3>2. disturbed[q] \/ faults > 0
      BY <2>0, <3>1 DEF AloneInv, LoneOpenSucceeds
    <3> QED BY <1>2, <3>1, <3>2 DEF Begin
  <2> QED BY <2>1, <2>2, <2>3 DEF AloneInv
<1>3. ASSUME NEW p \in Openers, Skip(p) PROVE AloneInv'
  BY <1>0, <1>3, AloneFrame DEF Skip, TypeInv, TypeOK, Opening
<1>4. ASSUME NEW p \in Openers, Apply(p) PROVE AloneInv'
  BY <1>0, <1>4, AloneFrame DEF Apply, TypeInv, TypeOK, Opening
<1>5. ASSUME NEW p \in Openers, Execute(p) PROVE AloneInv'
  BY <1>5 DEF Execute, AloneInv, TogetherDisturbed, OvertakenDisturbed, LoneOpenSucceeds, Opening
<1>6. ASSUME NEW p \in Openers, ExecuteFails(p) PROVE AloneInv'
  <2>1. Opening(p) /\ pc[p] = "execute"
    BY <1>6 DEF ExecuteFails, Opening
  <2>2. disturbed[p] \/ faults > 0
    <3>1. CASE migration[p] \in applied
      BY <2>1, <3>1 DEF AloneInv, OvertakenDisturbed
    <3>2. CASE migration[p] \notin applied /\ faults = 0
      <4>1. PICK q \in Openers :
              pc[q] = "execute" /\ migration[q] = migration[p] /\ statement[q] > statement[p]
        BY <1>6, <3>2, RefusedIsMade DEF OnlyFaultsWedge
      <4>2. q # p
        BY <4>1 DEF TypeInv, TypeOK
      <4>3. Opening(q)
        BY <4>1 DEF Opening
      <4> QED BY <2>1, <4>2, <4>3 DEF AloneInv, TogetherDisturbed
    <3> QED BY <1>0, <3>1, <3>2
  <2>3. pc'[p] = "failed" /\ ~Opening(p)'
    BY <1>6 DEF ExecuteFails, TypeInv, TypeOK, Opening
  <2> QED BY <1>0, <1>6, <2>2, <2>3, AloneFrame DEF ExecuteFails, TypeInv, TypeOK
<1>7. ASSUME NEW p \in Openers, Record(p) PROVE AloneInv'
  <2>0. \A q \in Openers : q # p => pc'[q] = pc[q] /\ migration'[q] = migration[q]
    BY <1>7 DEF Record, TypeInv, TypeOK
  <2>1. Opening(p) /\ pc'[p] = "query" /\ disturbed' = disturbed /\ faults' = faults
    BY <1>7 DEF Record, TypeInv, TypeOK, Opening
  <2>2. TogetherDisturbed'
    BY <2>0, <2>1 DEF AloneInv, TogetherDisturbed, Opening
  <2>3. OvertakenDisturbed'
    <3> SUFFICES ASSUME NEW q \in Openers, pc'[q] = "execute", migration'[q] \in applied'
                 PROVE  disturbed[q]
      BY <2>1 DEF OvertakenDisturbed
    <3>1. q # p
      BY <2>1
    <3>2. Opening(q)
      BY <2>0, <3>1 DEF Opening
    <3> QED BY <2>1, <3>1, <3>2 DEF AloneInv, TogetherDisturbed
  <2>4. LoneOpenSucceeds'
    BY <2>0, <2>1 DEF AloneInv, LoneOpenSucceeds
  <2> QED BY <2>2, <2>3, <2>4 DEF AloneInv
<1>8. ASSUME NEW p \in Openers, RecordFails(p) PROVE AloneInv'
  <2>1. disturbed[p]
    BY <1>8 DEF RecordFails, AloneInv, OvertakenDisturbed
  <2>2. pc'[p] = "failed" /\ ~Opening(p)'
    BY <1>8 DEF RecordFails, TypeInv, TypeOK, Opening
  <2> QED BY <1>0, <1>8, <2>1, <2>2, AloneFrame DEF RecordFails, TypeInv, TypeOK
<1>9. ASSUME NEW p \in Openers, Finish(p) PROVE AloneInv'
  BY <1>0, <1>9, AloneFrame DEF Finish, TypeInv, TypeOK, Opening
<1>10. ASSUME NEW p \in Openers, Close(p) PROVE AloneInv'
  BY <1>0, <1>10, AloneFrame DEF Close, TypeInv, TypeOK, Opening
<1>11. ASSUME NEW p \in Openers, Fault(p) PROVE AloneInv'
  <2>1. pc'[p] = "failed" /\ ~Opening(p)' /\ faults' > 0 /\ faults' >= faults
    BY <1>0, <1>11 DEF Fault, TypeInv, TypeOK, Opening
  <2> QED BY <1>0, <1>11, <2>1, AloneFrame DEF Fault, TypeInv, TypeOK
<1> QED
  BY <1>1, <1>2, <1>3, <1>4, <1>5, <1>6, <1>7, <1>8, <1>9, <1>10, <1>11
  DEF Next, OpenStep

(* open fails for a reason only: an error, a crash, or another opener at   *)
(* the same time. A database of any release opens for whoever is alone     *)
(* (store.rs 27-57).                                                       *)
THEOREM AloneOpens == Spec => []LoneOpenSucceeds
<1>1. AloneInv => LoneOpenSucceeds
  BY DEF AloneInv
<1> QED
  BY <1>1, TypeInit, TypeNext, MadeInit, MadeNext, WedgeInit, WedgeNext,
     AloneInit, AloneNext, PTL DEF Spec

-----------------------------------------------------------------------------
(* Openers that collide do not all fail.                                   *)

(* This opener will not fail for what is recorded already.                 *)
Hopeful(p) == Opening(p) /\ (pc[p] = "execute" => migration[p] \notin applied)

HopeInv ==
  faults = 0 /\ applied # Ids /\ (\E p \in Openers : pc[p] \in {"query", "execute", "failed"}) =>
    \E q \in Openers : Hopeful(q)

(* An opener at p's side, or p itself, is hopeful after the step.          *)
LEMMA HopeKept ==
  ASSUME HopeInv, UNCHANGED <<applied, faults>>, NEW p \in Openers,
         pc[p] \in {"query", "execute", "failed"},
         \A q \in Openers \ {p} : pc'[q] = pc[q] /\ migration'[q] = migration[q],
         Hopeful(p) => \E q \in Openers : Hopeful(q)'
  PROVE  HopeInv'
<1> SUFFICES ASSUME faults = 0, applied # Ids PROVE \E q \in Openers : Hopeful(q)'
  BY DEF HopeInv
<1>1. PICK q \in Openers : Hopeful(q)
  BY DEF HopeInv
<1>2. CASE q = p
  BY <1>1, <1>2
<1>3. CASE q # p
  BY <1>1, <1>3 DEF Hopeful, Opening
<1> QED BY <1>2, <1>3

LEMMA HopeNext ==
  TypeInv /\ MadeInv /\ OnlyFaultsWedge /\ HopeInv /\ [Next]_vars => HopeInv'
<1> SUFFICES ASSUME TypeInv, MadeInv, OnlyFaultsWedge, HopeInv, [Next]_vars
             PROVE  HopeInv'
  OBVIOUS
<1>1. CASE UNCHANGED vars
  BY <1>1 DEF vars, HopeInv, Hopeful, Opening
<1>2. ASSUME NEW p \in Openers, Begin(p) PROVE HopeInv'
  <2>1. Hopeful(p)'
    BY <1>2 DEF Begin, Hopeful, Opening, TypeInv, TypeOK
  <2> QED BY <2>1 DEF HopeInv
<1>3. ASSUME NEW p \in Openers, Skip(p) PROVE HopeInv'
  <2>1. Hopeful(p)'
    BY <1>3 DEF Skip, Hopeful, Opening
  <2> QED BY <2>1 DEF HopeInv
<1>4. ASSUME NEW p \in Openers, Apply(p) PROVE HopeInv'
  <2>1. Hopeful(p)'
    BY <1>4 DEF Apply, Hopeful, Opening, TypeInv, TypeOK
  <2> QED BY <2>1 DEF HopeInv
<1>5. ASSUME NEW p \in Openers, Execute(p) PROVE HopeInv'
  BY <1>5 DEF Execute, HopeInv, Hopeful, Opening
<1>6. ASSUME NEW p \in Openers, ExecuteFails(p) PROVE HopeInv'
  <2>1. ASSUME Hopeful(p), faults = 0 PROVE \E q \in Openers : Hopeful(q)'
    <3>1. migration[p] \in Ids \ applied
      BY <1>6, <2>1, RefusedIsMade DEF ExecuteFails, Hopeful
    <3>2. PICK q \in Openers :
            pc[q] = "execute" /\ migration[q] = migration[p] /\ statement[q] > statement[p]
      BY <1>6, <2>1, <3>1, RefusedIsMade DEF OnlyFaultsWedge
    <3>3. q # p
      BY <3>2 DEF TypeInv, TypeOK
    <3>4. Hopeful(q)'
      BY <1>6, <3>1, <3>2, <3>3 DEF ExecuteFails, Hopeful, Opening, TypeInv, TypeOK
    <3> QED BY <3>4
  <2>2. /\ pc[p] = "execute" /\ UNCHANGED <<applied, faults>>
        /\ \A q \in Openers \ {p} : pc'[q] = pc[q] /\ migration'[q] = migration[q]
    BY <1>6 DEF ExecuteFails, TypeInv, TypeOK
  <2>3. CASE faults = 0
    BY <2>1, <2>2, <2>3, HopeKept
  <2>4. CASE faults # 0
    BY <2>2, <2>4 DEF HopeInv
  <2> QED BY <2>3, <2>4
<1>7. ASSUME NEW p \in Openers, Record(p) PROVE HopeInv'
  <2>1. Hopeful(p)'
    BY <1>7 DEF Record, Hopeful, Opening, TypeInv, TypeOK
  <2> QED BY <2>1 DEF HopeInv
<1>8. ASSUME NEW p \in Openers, RecordFails(p) PROVE HopeInv'
  <2>1. ~Hopeful(p)
    BY <1>8 DEF RecordFails, Hopeful
  <2>2. /\ pc[p] = "execute" /\ UNCHANGED <<applied, faults>>
        /\ \A q \in Openers \ {p} : pc'[q] = pc[q] /\ migration'[q] = migration[q]
    BY <1>8 DEF RecordFails, TypeInv, TypeOK
  <2> QED BY <2>1, <2>2, HopeKept
<1>9. ASSUME NEW p \in Openers, Finish(p) \/ Close(p) PROVE HopeInv'
  <2>1. \A m \in Ids : m < migration[p]
    BY <1>9, ScriptFacts DEF Finish, Close, MadeInv, OpenIsThrough, TypeInv, TypeOK, Ids
  <2>2. applied = Ids /\ applied' = applied
    BY <1>9, <2>1 DEF Finish, Close, MadeInv, EarlierRecorded, TypeInv, TypeOK
  <2> QED BY <2>2 DEF HopeInv
<1>10. ASSUME NEW p \in Openers, Fault(p) PROVE HopeInv'
  <2>1. faults' # 0
    BY <1>10, OpenAssumption DEF Fault, TypeInv, TypeOK
  <2> QED BY <2>1 DEF HopeInv
<1> QED
  BY <1>1, <1>2, <1>3, <1>4, <1>5, <1>6, <1>7, <1>8, <1>9, <1>10 DEF Next, OpenStep

(* If an open failed and nothing but other openers was in its way, the     *)
(* schema is whole, or somebody is still at work on it.                    *)
CollisionsLeaveOne ==
  faults = 0 /\ (\E p \in Openers : pc[p] = "failed") =>
    applied = Ids \/ \E q \in Openers : Opening(q)

(* The safety half of SchemaCompletes: openers that collide never all fail *)
(* before the schema is whole (store.rs 27-57).                            *)
THEOREM CollisionsLeaveOneAtWork == Spec => []CollisionsLeaveOne
<1>1. Init => HopeInv
  BY DEF Init, HopeInv
<1>2. HopeInv => CollisionsLeaveOne
  BY DEF HopeInv, CollisionsLeaveOne, Hopeful
<1> QED
  BY <1>1, <1>2, TypeInit, TypeNext, MadeInit, MadeNext, WedgeInit, WedgeNext,
     HopeNext, PTL DEF Spec
=============================================================================
