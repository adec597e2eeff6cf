---------------------------- MODULE AgentSyncProofs ----------------------------
(***************************************************************************)
(* Theorems about AgentSync, for any callers, files, kinds, lists and      *)
(* bounds.                                                                 *)
(***************************************************************************)
EXTENDS AgentSync, TLAPS

-----------------------------------------------------------------------------
(* The inductive invariant, part by part. *)

(* A version that f has, or had before the one it has. *)
Past(f, version) ==
  /\ version <= edits
  /\ Absent(f) \/ version <= disk[f].version

(* A remembered signature stands for a report of that version or a later.  *)
Covered(f, version) == \E v \in Version : version <= v /\ <<f, v>> \in reported

Remembers(files) ==
  \A f \in Files :
    /\ Past(f, files[f])
    /\ files[f] # 0 => Covered(f, files[f])

(* What all callers share. *)
SharedOK ==
  /\ \A f \in Files : disk[f].version <= edits
  /\ \A f \in Files, v \in Version : <<f, v>> \in reported => Past(f, v)
  /\ Remembers(stateFile.files)

(* The file a call is at: its signature is no older than its listing, its  *)
(* content no older than its signature.                                    *)
CurrentOK(s) ==
  /\ pc[s] \in {"read", "record"} =>
       /\ Past(current[s], signature[s])
       /\ listed[s][current[s]] <= signature[s]
  /\ pc[s] = "record" =>
       /\ Past(current[s], content[s])
       /\ signature[s] <= content[s]

(* A candidate that a call is done with, and that is as it was listed, is  *)
(* in the provenance.                                                      *)
MustBeReported(s, f) ==
  /\ pc[s] \in {"files", "read", "record", "save"}
  /\ f \notin failed[s] /\ f \notin todo[s] /\ f # current[s]
  /\ ~Absent(f) /\ listed[s][f] = disk[f].version /\ disk[f].kind = "text"

DoneOK(s) ==
  /\ \A f \in Files : MustBeReported(s, f) => <<f, disk[f].version>> \in reported
  /\ pc[s] = "save" => todo[s] = {}

CallOK(s) ==
  /\ Remembers(known[s])
  /\ \A f \in Files : Past(f, listed[s][f])
  /\ CurrentOK(s)
  /\ DoneOK(s)

SyncInv == TypeOK /\ SharedOK /\ \A s \in Syncers : CallOK(s)

(* As long as nothing disturbs them, calls follow each other and hand all  *)
(* that was reported on.                                                   *)
UpTo(files) == \A f \in Files, v \in Version : <<f, v>> \in reported => v <= files[f]
AllIdle == \A s \in Syncers : pc[s] = "idle"

OneAtATime ==
  /\ twice = {}
  /\ \A s, t \in Syncers : (pc[s] # "idle" /\ pc[t] # "idle") => s = t
  /\ AllIdle => UpTo(stateFile.files) /\ stateFile.form = "whole"
  /\ \A s \in Syncers :
       /\ pc[s] # "idle" => UpTo(known[s])
       /\ pc[s] \in {"read", "record"} => known[s][current[s]] < signature[s]
       /\ pc[s] = "record" => content[s] = signature[s]
       /\ pc[s] = "save" => stateFile = Broken("empty")

OnceInv == SyncInv /\ (~disturbed => OneAtATime)

-----------------------------------------------------------------------------
(* Type correctness. *)

(* What the types say of the variables of the calls. *)
LocalsOK ==
  /\ pc \in [Syncers -> Steps]
  /\ known \in [Syncers -> Signatures]
  /\ todo \in [Syncers -> SUBSET Files]
  /\ current \in [Syncers -> Files \cup {NoFile}]
  /\ \A s \in Syncers : pc[s] \in {"read", "record"} <=> current[s] # NoFile
  /\ signature \in [Syncers -> Version]
  /\ content \in [Syncers -> Version]
  /\ listed \in [Syncers -> Signatures]
  /\ failed \in [Syncers -> SUBSET Files]

LEMMA InitTypes == AgentSyncAssumption => (Init => TypeOK)
<1> SUFFICES ASSUME AgentSyncAssumption, Init PROVE TypeOK
  OBVIOUS
<1>1. Nothing \in Signatures
  BY DEF Nothing, Signatures, Version
<1>2. stateFile \in StateFile
  BY <1>1 DEF Init, Whole, StateFile
<1>3. disk \in [Files -> File]
  BY DEF Init, File, Version
<1>4. known \in [Syncers -> Signatures] /\ listed \in [Syncers -> Signatures]
  BY <1>1 DEF Init
<1>5. QED
  BY <1>2, <1>3, <1>4 DEF Init, TypeOK, Version, Steps

(* A call that ends leaves nothing behind. *)
LEMMA EndCallTypes ==
  ASSUME TypeOK, NEW s \in Syncers, EndCall(s)
  PROVE  LocalsOK'
<1>1. Nothing \in Signatures
  BY DEF Nothing, Signatures, Version
<1>2. pc' \in [Syncers -> Steps] /\ current' \in [Syncers -> Files \cup {NoFile}]
  BY DEF TypeOK, EndCall, Steps
<1>3. \A t \in Syncers : pc'[t] \in {"read", "record"} <=> current'[t] # NoFile
  BY DEF TypeOK, EndCall, Steps
<1>4. /\ known' \in [Syncers -> Signatures]
      /\ listed' \in [Syncers -> Signatures]
  BY <1>1 DEF TypeOK, EndCall
<1>5. /\ todo' \in [Syncers -> SUBSET Files]
      /\ signature' \in [Syncers -> Version]
      /\ content' \in [Syncers -> Version]
      /\ failed' \in [Syncers -> SUBSET Files]
  BY DEF TypeOK, EndCall, Version
<1>6. QED
  BY <1>2, <1>3, <1>4, <1>5 DEF LocalsOK

LEMMA NextFileTypes ==
  ASSUME TypeOK, NEW s \in Syncers, NextFile(s)
  PROVE  /\ pc' \in [Syncers -> Steps]
         /\ current' \in [Syncers -> Files \cup {NoFile}]
         /\ \A t \in Syncers : pc'[t] \in {"read", "record"} <=> current'[t] # NoFile
         /\ signature' \in [Syncers -> Version]
         /\ content' \in [Syncers -> Version]
BY DEF TypeOK, NextFile, Goto, Steps, Version

LEMMA CallStepTypes ==
  ASSUME AgentSyncAssumption, TypeOK, NEW s \in Syncers, CallStep(s)
  PROVE  TypeOK'
<1>1. CASE Load(s)
  BY <1>1 DEF Load, Goto, TypeOK, StateFile, Steps
<1>2. CASE \E files \in FileLists \cup {RecentFiles} : ListCandidates(s, files)
  <2>1. PICK files \in FileLists \cup {RecentFiles} : ListCandidates(s, files)
    BY <1>2
  <2>2. files \subseteq Files
    BY DEF AgentSyncAssumption, RecentFiles
  <2>3. [f \in Files |-> IF f \in files THEN disk[f].version ELSE 0] \in Signatures
    BY DEF TypeOK, File, Signatures, Version
  <2>4. listed' \in [Syncers -> Signatures]
    BY <2>1, <2>3 DEF ListCandidates, TypeOK
  <2>5. QED
    BY <2>1, <2>2, <2>4 DEF ListCandidates, Goto, TypeOK, Steps
<1>3. CASE \E f \in Files : Skip(s, f)
  BY <1>3 DEF Skip, TypeOK
<1>4. CASE \E f \in Files : Sign(s, f)
  <2>1. PICK f \in Files : Sign(s, f)
    BY <1>4
  <2>2. disk[f].version \in Version /\ f # NoFile
    BY DEF TypeOK, File, AgentSyncAssumption
  <2>3. QED
    BY <2>1, <2>2 DEF Sign, Goto, TypeOK, Steps
<1>5. CASE Read(s)
  <2>1. current[s] \in Files
    BY <1>5 DEF Read, TypeOK
  <2>2. disk[current[s]].version \in Version
    BY <2>1 DEF TypeOK, File
  <2>3. QED
    BY <1>5, <2>2 DEF Read, Goto, TypeOK, Steps
<1>6. CASE ReadFails(s)
  BY <1>6, NextFileTypes DEF ReadFails, TypeOK
<1>7. CASE Record(s)
  <2>1. current[s] \in Files /\ content[s] \in Version /\ signature[s] \in Version
    BY <1>7 DEF Record, TypeOK
  <2>2. known' \in [Syncers -> Signatures]
    BY <1>7, <2>1 DEF Record, TypeOK, Signatures
  <2>3. reported' \subseteq Files \X Version /\ twice' \subseteq reported'
    BY <1>7, <2>1 DEF Record, TypeOK
  <2>4. QED
    BY <1>7, <2>2, <2>3, NextFileTypes DEF Record, TypeOK
<1>8. CASE Truncate(s)
  <2>1. Broken("empty") \in StateFile
    BY DEF Broken, StateFile, Nothing, Signatures, Version
  <2>2. QED
    BY <1>8, <2>1 DEF Truncate, Goto, TypeOK, Steps
<1>9. CASE Save(s)
  <2>1. stateFile' \in StateFile
    BY <1>9 DEF Save, TypeOK, Broken, Whole, StateFile, Nothing, Signatures, Version
  <2>2. QED
    BY <1>9, <2>1, EndCallTypes DEF Save, LocalsOK, TypeOK
<1>10. QED
  BY <1>1, <1>2, <1>3, <1>4, <1>5, <1>6, <1>7, <1>8, <1>9 DEF CallStep

LEMMA OtherStepTypes ==
  ASSUME AgentSyncAssumption, TypeOK
  PROVE  /\ (\E s \in Syncers : FaultStep(s)) => TypeOK'
         /\ (\E f \in Files : Remove(f) \/ \E kind \in Kinds : Write(f, kind)) => TypeOK'
         /\ Tick => TypeOK'
<1>1. ASSUME NEW s \in Syncers, RecordFails(s) PROVE TypeOK'
  <2>1. current[s] \in Files
    BY <1>1 DEF RecordFails, TypeOK
  <2>2. failed' \in [Syncers -> SUBSET Files]
    BY <1>1, <2>1 DEF RecordFails, TypeOK
  <2>3. QED
    BY <1>1, <2>2, NextFileTypes DEF RecordFails, Fault, TypeOK
<1>2. ASSUME NEW s \in Syncers, ListFails(s) PROVE TypeOK'
  BY <1>2, EndCallTypes DEF ListFails, Fault, LocalsOK, TypeOK
<1>2a. ASSUME NEW s \in Syncers, SaveFails(s) PROVE TypeOK'
  BY <1>2a, EndCallTypes DEF SaveFails, Fault, LocalsOK, TypeOK
<1>3. ASSUME NEW s \in Syncers, Crash(s) PROVE TypeOK'
  BY <1>3, EndCallTypes DEF Crash, Fault, LocalsOK, TypeOK
<1>4. ASSUME NEW f \in Files, NEW kind \in Kinds, Write(f, kind) PROVE TypeOK'
  <2>1. [version |-> edits + 1, kind |-> kind, modified |-> now] \in File
    <3>1. edits + 1 \in Version /\ now \in Nat
      BY DEF TypeOK, Version
    <3>2. kind \in {"text", "binary", "large"}
      BY DEF AgentSyncAssumption
    <3>3. QED
      BY <3>1, <3>2 DEF File
  <2>2. QED
    BY <1>4, <2>1 DEF Write, locals, TypeOK
<1>5. ASSUME NEW f \in Files, Remove(f) PROVE TypeOK'
  <2>1. [disk[f] EXCEPT !.version = 0] \in File
    BY DEF TypeOK, File, Version
  <2>2. disk' = [disk EXCEPT ![f] = [disk[f] EXCEPT !.version = 0]]
    BY <1>5 DEF Remove
  <2>3. QED
    BY <1>5, <2>1, <2>2 DEF Remove, locals, TypeOK
<1>6. ASSUME Tick PROVE TypeOK'
  BY <1>6 DEF Tick, locals, TypeOK
<1>7. QED
  BY <1>1, <1>2, <1>2a, <1>3, <1>4, <1>5, <1>6 DEF FaultStep

LEMMA NextTypes == AgentSyncAssumption /\ TypeOK /\ [Next]_vars => TypeOK'
<1> SUFFICES ASSUME AgentSyncAssumption, TypeOK, [Next]_vars PROVE TypeOK'
  OBVIOUS
<1>1. CASE UNCHANGED vars
  BY <1>1 DEF vars, locals, TypeOK
<1>2. CASE Next
  BY <1>2, CallStepTypes, OtherStepTypes DEF Next
<1>3. QED
  BY <1>1, <1>2

(* The variables keep their types, and a call has a current file exactly   *)
(* while it is between its signature and its report.                       *)
THEOREM TypeCorrect == Spec => []TypeOK
<1>1. Init => TypeOK
  BY InitTypes, AgentSyncAssumption
<1>2. TypeOK /\ [Next]_vars => TypeOK'
  BY NextTypes, AgentSyncAssumption
<1>3. QED
  BY <1>1, <1>2, PTL DEF Spec

-----------------------------------------------------------------------------
(* What a step leaves alone. *)

SameCall(s) ==
  /\ pc'[s] = pc[s] /\ known'[s] = known[s] /\ todo'[s] = todo[s]
  /\ current'[s] = current[s] /\ signature'[s] = signature[s]
  /\ content'[s] = content[s] /\ listed'[s] = listed[s] /\ failed'[s] = failed[s]

(* A call changes neither the project nor another call. *)
LEMMA CallsApart ==
  ASSUME TypeOK, NEW s \in Syncers, CallStep(s) \/ FaultStep(s)
  PROVE  /\ disk' = disk /\ edits' = edits /\ reported \subseteq reported'
         /\ \A t \in Syncers \ {s} : SameCall(t)
<1>1. CASE Load(s)
  BY <1>1 DEF Load, Goto, SameCall, TypeOK
<1>2. CASE \E files \in FileLists \cup {RecentFiles} : ListCandidates(s, files)
  BY <1>2 DEF ListCandidates, Goto, SameCall, TypeOK
<1>3. CASE \E f \in Files : Skip(s, f)
  BY <1>3 DEF Skip, SameCall, TypeOK
<1>4. CASE \E f \in Files : Sign(s, f)
  BY <1>4 DEF Sign, Goto, SameCall, TypeOK
<1>5. CASE Read(s)
  BY <1>5 DEF Read, Goto, SameCall, TypeOK
<1>6. CASE ReadFails(s)
  BY <1>6 DEF ReadFails, NextFile, Goto, SameCall, TypeOK
<1>7. CASE Record(s)
  BY <1>7 DEF Record, NextFile, Goto, SameCall, TypeOK
<1>8. CASE Truncate(s)
  BY <1>8 DEF Truncate, Goto, SameCall, TypeOK
<1>9. CASE Save(s)
  BY <1>9 DEF Save, EndCall, SameCall, TypeOK
<1>10. CASE RecordFails(s)
  BY <1>10 DEF RecordFails, Fault, NextFile, Goto, SameCall, TypeOK
<1>11. CASE ListFails(s) \/ SaveFails(s)
  BY <1>11 DEF ListFails, SaveFails, Fault, EndCall, SameCall, TypeOK
<1>12. CASE Crash(s)
  BY <1>12 DEF Crash, Fault, EndCall, SameCall, TypeOK
<1>13. QED
  BY <1>1, <1>2, <1>3, <1>4, <1>5, <1>6, <1>7, <1>8, <1>9, <1>10, <1>11, <1>12
  DEF CallStep, FaultStep

(* An edit gives a file a newer version than any, or removes it; it changes*)
(* nothing but the project.                                                *)
Edit ==
  \/ \E f \in Files : Remove(f) \/ \E kind \in Kinds : Write(f, kind)
  \/ Tick
  \/ UNCHANGED vars

LEMMA StepKinds ==
  ASSUME [Next]_vars
  PROVE  (\E s \in Syncers : CallStep(s) \/ FaultStep(s)) \/ Edit
BY DEF Next, Edit

LEMMA EditFrame ==
  ASSUME Edit
  PROVE  UNCHANGED <<stateFile, locals, reported, twice, disturbed>>
BY DEF Edit, Remove, Write, Tick, vars, locals

LEMMA EditFacts ==
  ASSUME TypeOK, SharedOK, Edit, NEW f \in Files
  PROVE  /\ edits <= edits' /\ disk'[f].version <= edits'
         /\ \/ disk'[f] = disk[f]
            \/ disk'[f].version = 0
            \/ disk'[f].version > edits
<1>0. disk[f].version \in Nat /\ disk[f].version <= edits /\ edits \in Nat
  BY DEF TypeOK, File, Version, SharedOK
<1>1. ASSUME NEW g \in Files, Remove(g)
      PROVE  /\ edits' = edits + 1
             /\ disk'[f] = disk[f] \/ disk'[f].version = 0
  BY <1>1 DEF Remove, TypeOK, File
<1>2. ASSUME NEW g \in Files, NEW kind \in Kinds, Write(g, kind)
      PROVE  /\ edits' = edits + 1
             /\ disk'[f] = disk[f] \/ disk'[f].version = edits + 1
  BY <1>2 DEF Write, TypeOK
<1>3. CASE Tick \/ UNCHANGED vars
  BY <1>0, <1>3 DEF Tick, vars
<1>4. QED
  BY <1>0, <1>1, <1>2, <1>3 DEF Edit

(* What is past stays so; what is covered stays so. *)
LEMMA PastStays ==
  ASSUME TypeOK, SharedOK, [Next]_vars, NEW f \in Files, NEW v \in Version, Past(f, v)
  PROVE  Past(f, v)'
<1>0. v \in Nat /\ edits \in Nat /\ disk[f].version \in Nat
  BY DEF TypeOK, File, Version
<1>1. CASE \E s \in Syncers : CallStep(s) \/ FaultStep(s)
  BY <1>1, CallsApart DEF Past, Absent
<1>2. CASE Edit
  <2>1. edits' \in Nat \/ edits' = edits
    BY <1>0, <1>2 DEF Edit, Remove, Write, Tick, vars
  <2>2. v <= edits /\ edits <= edits'
    BY <1>2, EditFacts DEF Past
  <2>3. v <= edits'
    BY <1>0, <2>1, <2>2
  <2>4. CASE disk'[f] = disk[f]
    BY <2>3, <2>4 DEF Past, Absent
  <2>5. CASE disk'[f].version = 0
    BY <2>3, <2>5 DEF Past, Absent
  <2>6. CASE disk'[f].version > edits
    <3>1. disk'[f].version \in Nat
      BY NextTypes, AgentSyncAssumption DEF TypeOK, File, Version
    <3>2. v <= disk'[f].version
      BY <1>0, <2>2, <2>6, <3>1
    <3>3. QED
      BY <2>3, <3>2 DEF Past
  <2>7. QED
    BY <1>2, <2>4, <2>5, <2>6, EditFacts
<1>3. QED
  BY <1>1, <1>2, StepKinds

LEMMA ReportsStay ==
  ASSUME TypeOK, [Next]_vars
  PROVE  reported \subseteq reported'
BY StepKinds, EditFrame, CallsApart

LEMMA RememberedStays ==
  ASSUME TypeOK, SharedOK, [Next]_vars, NEW files \in Signatures, Remembers(files)
  PROVE  \A f \in Files :
           /\ Past(f, files[f])'
           /\ files[f] # 0 => \E v \in Version : files[f] <= v /\ <<f, v>> \in reported'
<1> TAKE f \in Files
<1>1. files[f] \in Version
  BY DEF Signatures
<1>2. QED
  BY <1>1, PastStays, ReportsStay DEF Remembers, Covered

-----------------------------------------------------------------------------
(* The parts of SyncInv, one by one. *)

(* A state that remembers nothing remembers nothing wrong. *)
LEMMA NothingRemembered ==
  ASSUME TypeOK
  PROVE  Remembers(Nothing) /\ \A f \in Files : Past(f, Nothing[f])
BY DEF Remembers, Nothing, Past, TypeOK, File, Version

LEMMA ReportsArePast ==
  ASSUME SyncInv, [Next]_vars
  PROVE  \A f \in Files, v \in Version : <<f, v>> \in reported' => Past(f, v)'
<1> SUFFICES ASSUME NEW f \in Files, NEW v \in Version, <<f, v>> \in reported'
             PROVE  Past(f, v)'
  OBVIOUS
<1>1. CASE <<f, v>> \in reported
  BY <1>1, PastStays DEF SyncInv, SharedOK
<1>2. CASE <<f, v>> \notin reported
  <2>1. PICK s \in Syncers : Record(s)
    <3>1. \E s \in Syncers : CallStep(s) \/ FaultStep(s)
      BY <1>2, StepKinds, EditFrame
    <3>2. QED
      BY <1>2, <3>1 DEF CallStep, FaultStep, Load, ListCandidates, Skip, Sign, Read, ReadFails,
                        Truncate, Save, ListFails, RecordFails, SaveFails, Crash
  <2>2. f = current[s] /\ v = content[s]
    BY <1>2, <2>1 DEF Record
  <2>3. Past(f, v)
    BY <2>1, <2>2 DEF Record, SyncInv, CallOK, CurrentOK
  <2>4. QED
    BY <2>3, PastStays DEF SyncInv
<1>3. QED
  BY <1>1, <1>2

LEMMA SharedStays == SyncInv /\ [Next]_vars => SharedOK'
<1> SUFFICES ASSUME SyncInv, [Next]_vars PROVE SharedOK'
  OBVIOUS
<1>0. TypeOK /\ SharedOK /\ TypeOK'
  BY NextTypes, AgentSyncAssumption DEF SyncInv
<1>1. \A f \in Files : disk'[f].version <= edits'
  <2>1. CASE \E s \in Syncers : CallStep(s) \/ FaultStep(s)
    BY <1>0, <2>1, CallsApart DEF SharedOK
  <2>2. CASE Edit
    BY <1>0, <2>2, EditFacts
  <2>3. QED
    BY <2>1, <2>2, StepKinds
<1>2. Remembers(stateFile.files)'
  <2>1. CASE stateFile' = stateFile
    <3>1. stateFile.files \in Signatures
      BY <1>0 DEF TypeOK, StateFile
    <3>2. QED
      BY <1>0, <2>1, <3>1, RememberedStays DEF SharedOK, Remembers, Covered
  <2>2. CASE \E s \in Syncers : stateFile' = Whole(known[s])
    <3>1. PICK s \in Syncers : stateFile' = Whole(known[s])
      BY <2>2
    <3>2. known[s] \in Signatures /\ Remembers(known[s])
      BY <1>0 DEF TypeOK, SyncInv, CallOK
    <3>3. stateFile'.files = known[s]
      BY <3>1 DEF Whole
    <3>4. QED
      BY <1>0, <3>2, <3>3, RememberedStays DEF Remembers, Covered
  <2>3. CASE stateFile' \in {Broken("empty"), Broken("garbled")}
    <3>1. stateFile'.files = Nothing
      BY <2>3 DEF Broken
    <3>2. \A f \in Files : Nothing[f] = 0
      BY DEF Nothing
    <3>3. \A f \in Files : Past(f, 0)'
      BY <1>0 DEF Past, TypeOK, File, Version
    <3>4. QED
      BY <3>1, <3>2, <3>3 DEF Remembers
  <2>4. stateFile' # stateFile => \E s \in Syncers : Truncate(s) \/ Save(s)
    <3>1. Edit => stateFile' = stateFile
      BY EditFrame
    <3>2. ASSUME NEW s \in Syncers, CallStep(s) \/ FaultStep(s), stateFile' # stateFile
          PROVE  Truncate(s) \/ Save(s)
      BY <3>2 DEF CallStep, FaultStep, Load, ListCandidates, Skip, Sign, Read, ReadFails,
                  Record, ListFails, RecordFails, SaveFails, Crash
    <3>3. QED
      BY <3>1, <3>2, StepKinds
  <2>5. QED
    BY <2>1, <2>2, <2>3, <2>4 DEF Truncate, Save
<1>3. QED
  BY <1>1, <1>2, ReportsArePast DEF SharedOK

(* A call that another one, an edit or the clock overtakes. *)
LEMMA OvertakenCall ==
  ASSUME SyncInv, [Next]_vars, NEW s \in Syncers, SameCall(s)
  PROVE  CallOK(s)'
<1>0. TypeOK /\ SharedOK /\ CallOK(s) /\ TypeOK'
  BY NextTypes, AgentSyncAssumption DEF SyncInv
<1>1. Remembers(known[s])'
  <2>1. known[s] \in Signatures
    BY <1>0 DEF TypeOK
  <2>2. QED
    BY <1>0, <2>1, RememberedStays DEF SameCall, CallOK, Remembers, Covered
<1>2. \A f \in Files : Past(f, listed[s][f])'
  <2>1. \A f \in Files : listed[s][f] \in Version
    BY <1>0 DEF TypeOK, Signatures
  <2>2. QED
    BY <1>0, <2>1, PastStays DEF SameCall, CallOK, Past, Absent
<1>3. CurrentOK(s)'
  <2>1. signature[s] \in Version /\ content[s] \in Version
    BY <1>0 DEF TypeOK
  <2>2. pc[s] \in {"read", "record"} => current[s] \in Files
    BY <1>0 DEF TypeOK
  <2>3. pc[s] \in {"read", "record"} => Past(current[s], signature[s])'
    BY <1>0, <2>1, <2>2, PastStays DEF SameCall, CallOK, CurrentOK, Past, Absent
  <2>4. pc[s] = "record" => Past(current[s], content[s])'
    BY <1>0, <2>1, <2>2, PastStays DEF SameCall, CallOK, CurrentOK, Past, Absent
  <2>5. QED
    BY <1>0, <2>3, <2>4 DEF SameCall, CallOK, CurrentOK
<1>4. DoneOK(s)'
  <2>1. ASSUME NEW f \in Files, MustBeReported(s, f)'
        PROVE  disk'[f] = disk[f]
    <3>1. CASE \E t \in Syncers : CallStep(t) \/ FaultStep(t)
      BY <1>0, <3>1, CallsApart
    <3>2. CASE Edit
      <4>1. listed[s][f] \in Nat /\ edits \in Nat /\ listed[s][f] <= edits
        BY <1>0 DEF CallOK, Past, TypeOK, Signatures, Version
      <4>2. disk'[f].version = listed[s][f] /\ disk'[f].version # 0
        BY <2>1 DEF MustBeReported, SameCall, Absent
      <4>3. ~(disk'[f].version > edits)
        BY <4>1, <4>2
      <4>4. QED
        BY <1>0, <3>2, <4>2, <4>3, EditFacts
    <3>3. QED
      BY <3>1, <3>2, StepKinds
  <2>2. ASSUME NEW f \in Files, MustBeReported(s, f)'
        PROVE  <<f, disk[f].version>>' \in reported'
    <3>1. disk'[f] = disk[f]
      BY <2>1, <2>2
    <3>2. MustBeReported(s, f)
      BY <2>2, <3>1 DEF MustBeReported, SameCall, Absent
    <3>3. QED
      BY <1>0, <3>1, <3>2, ReportsStay DEF CallOK, DoneOK
  <2>3. QED
    BY <1>0, <2>2 DEF CallOK, DoneOK, SameCall
<1>5. QED
  BY <1>1, <1>2, <1>3, <1>4 DEF CallOK

(* A call that ends. *)
LEMMA EndedCall ==
  ASSUME SyncInv, [Next]_vars, NEW s \in Syncers, EndCall(s)
  PROVE  CallOK(s)'
<1>0. TypeOK /\ TypeOK'
  BY NextTypes, AgentSyncAssumption DEF SyncInv
<1>1. pc'[s] = "idle" /\ known'[s] = Nothing /\ listed'[s] = Nothing
  BY <1>0 DEF EndCall, TypeOK
<1>2. \A f \in Files : Nothing[f] = 0 /\ Past(f, 0)'
  BY <1>0 DEF Nothing, Past, TypeOK, File, Version
<1>3. Remembers(known[s])' /\ \A f \in Files : Past(f, listed[s][f])'
  BY <1>1, <1>2 DEF Remembers
<1>4. CurrentOK(s)' /\ DoneOK(s)'
  BY <1>1 DEF CurrentOK, DoneOK, MustBeReported
<1>5. QED
  BY <1>3, <1>4 DEF CallOK

(* What a call knows, where its steps leave that alone. *)
LEMMA KnownStays ==
  ASSUME SyncInv, [Next]_vars, NEW s \in Syncers,
         CallStep(s) \/ FaultStep(s), known'[s] = known[s]
  PROVE  Remembers(known[s])'
<1>1. TypeOK /\ SharedOK /\ known[s] \in Signatures /\ Remembers(known[s])
  BY DEF SyncInv, TypeOK, CallOK
<1>2. QED
  BY <1>1, RememberedStays DEF Remembers, Covered

LEMMA ListedStays ==
  ASSUME SyncInv, [Next]_vars, NEW s \in Syncers,
         CallStep(s) \/ FaultStep(s), listed'[s] = listed[s]
  PROVE  \A f \in Files : Past(f, listed[s][f])'
<1>1. TypeOK /\ CallOK(s)
  BY DEF SyncInv
<1>2. disk' = disk /\ edits' = edits
  BY <1>1, CallsApart
<1>3. QED
  BY <1>1, <1>2 DEF CallOK, Past, Absent

(* A candidate given up: it is gone, or no text, or its report failed. *)
LEMMA GivenUp ==
  ASSUME SyncInv, [Next]_vars, NEW s \in Syncers, ReadFails(s) \/ RecordFails(s)
  PROVE  CallOK(s)'
<1>0. TypeOK /\ CallOK(s) /\ (CallStep(s) \/ FaultStep(s))
  BY DEF SyncInv, CallStep, FaultStep
<1>1. /\ pc[s] \in {"read", "record"} /\ pc'[s] = "files" /\ current'[s] = NoFile
      /\ known' = known /\ listed' = listed /\ todo' = todo /\ reported' = reported
      /\ disk' = disk
  BY <1>0 DEF ReadFails, RecordFails, NextFile, Goto, TypeOK
<1>2. \/ failed'[s] = failed[s] /\ (Absent(current[s]) \/ disk[current[s]].kind = "binary")
      \/ failed'[s] = failed[s] \cup {current[s]}
  BY <1>0 DEF ReadFails, RecordFails, TypeOK
<1>3. ASSUME NEW f \in Files, MustBeReported(s, f)'
      PROVE  <<f, disk[f].version>>' \in reported'
  <2>1. f # current[s]
    BY <1>1, <1>2, <1>3 DEF MustBeReported, Absent
  <2>2. MustBeReported(s, f)
    BY <1>1, <1>2, <1>3, <2>1 DEF MustBeReported, Absent
  <2>3. QED
    BY <1>0, <1>1, <2>2 DEF CallOK, DoneOK
<1>4. CurrentOK(s)' /\ DoneOK(s)'
  BY <1>1, <1>3 DEF CurrentOK, DoneOK
<1>5. QED
  BY <1>0, <1>1, <1>4, KnownStays, ListedStays DEF CallOK

LEMMA ReportedCall ==
  ASSUME SyncInv, [Next]_vars, NEW s \in Syncers, Record(s)
  PROVE  CallOK(s)'
<1>0. TypeOK /\ SharedOK /\ CallOK(s) /\ CallStep(s) /\ TypeOK'
  BY NextTypes, AgentSyncAssumption DEF SyncInv, CallStep
<1> DEFINE c == current[s]
<1>1. /\ pc[s] = "record" /\ pc'[s] = "files" /\ current'[s] = NoFile
      /\ listed' = listed /\ todo' = todo /\ failed' = failed
      /\ disk' = disk /\ edits' = edits
      /\ reported' = reported \cup {<<c, content[s]>>}
  BY <1>0 DEF Record, NextFile, Goto, TypeOK
<1>2. c \in Files /\ content[s] \in Version /\ signature[s] \in Version
  BY <1>0, <1>1 DEF TypeOK
<1>3. /\ Past(c, signature[s]) /\ listed[s][c] <= signature[s]
      /\ Past(c, content[s]) /\ signature[s] <= content[s]
  BY <1>0, <1>1 DEF CallOK, CurrentOK
<1>4. Remembers(known[s])'
  <2>1. known'[s] = [known[s] EXCEPT ![c] = signature[s]]
    BY <1>0 DEF Record, TypeOK
  <2>2. known[s] \in Signatures
    BY <1>0 DEF TypeOK
  <2>3. ASSUME NEW f \in Files
        PROVE  /\ Past(f, known[s][f])'
               /\ known'[s][f] # 0 => Covered(f, known[s][f])'
    <3>1. CASE f = c
      <4>1. known'[s][f] = signature[s]
        BY <2>1, <2>2, <3>1, <1>2 DEF Signatures
      <4>2. <<f, content[s]>> \in reported'
        BY <1>1, <3>1
      <4>3. QED
        BY <1>1, <1>2, <1>3, <3>1, <4>1, <4>2 DEF Past, Absent, Covered
    <3>2. CASE f # c
      <4>1. known'[s][f] = known[s][f]
        BY <2>1, <2>2, <3>2 DEF Signatures
      <4>2. Past(f, known[s][f]) /\ (known[s][f] # 0 => Covered(f, known[s][f]))
        BY <1>0 DEF CallOK, Remembers
      <4>3. QED
        BY <1>1, <4>1, <4>2 DEF Past, Absent, Covered
    <3>3. QED
      BY <3>1, <3>2
  <2>4. QED
    BY <2>3 DEF Remembers
<1>5. ASSUME NEW f \in Files, MustBeReported(s, f)'
      PROVE  <<f, disk[f].version>>' \in reported'
  <2>1. CASE f = c
    <3>1. listed[s][c] = disk[c].version /\ ~Absent(c)
      BY <1>1, <1>5, <2>1 DEF MustBeReported, Absent
    <3>2. content[s] <= disk[c].version
      BY <1>3, <3>1 DEF Past
    <3>3. disk[c].version \in Nat
      BY <1>0, <1>2 DEF TypeOK, File, Version
    <3>4. content[s] = disk[c].version
      BY <1>2, <1>3, <3>1, <3>2, <3>3 DEF Version
    <3>5. QED
      BY <1>1, <2>1, <3>4
  <2>2. CASE f # c
    <3>1. MustBeReported(s, f)
      BY <1>1, <1>5, <2>2 DEF MustBeReported, Absent
    <3>2. QED
      BY <1>0, <1>1, <3>1 DEF CallOK, DoneOK
  <2>3. QED
    BY <2>1, <2>2
<1>6. CurrentOK(s)' /\ DoneOK(s)'
  BY <1>1, <1>5 DEF CurrentOK, DoneOK
<1>7. QED
  BY <1>0, <1>1, <1>4, <1>6, ListedStays DEF CallOK

(* Any other step of a call. *)
LEMMA ContinuedCall ==
  ASSUME SyncInv, [Next]_vars, NEW s \in Syncers, CallStep(s)
  PROVE  CallOK(s)'
<1>0. TypeOK /\ SharedOK /\ CallOK(s) /\ TypeOK'
  BY NextTypes, AgentSyncAssumption DEF SyncInv
<1>1. CASE Load(s)
  <2>1. /\ known'[s] = stateFile.files /\ stateFile.files \in Signatures
        /\ listed' = listed /\ pc'[s] = "list"
    BY <1>0, <1>1 DEF Load, Goto, TypeOK, StateFile
  <2>2. Remembers(known[s])'
    BY <1>0, <2>1, RememberedStays DEF SharedOK, Remembers, Covered
  <2>3. CurrentOK(s)' /\ DoneOK(s)'
    BY <2>1 DEF CurrentOK, DoneOK, MustBeReported
  <2>4. QED
    BY <2>1, <2>2, <2>3, ListedStays DEF CallOK
<1>2. CASE \E files \in FileLists \cup {RecentFiles} : ListCandidates(s, files)
  <2>1. PICK files \in FileLists \cup {RecentFiles} : ListCandidates(s, files)
    BY <1>2
  <2>2. /\ known' = known /\ disk' = disk /\ edits' = edits /\ reported' = reported
        /\ pc'[s] = "files" /\ todo'[s] = files
        /\ \A f \in Files : listed'[s][f] = IF f \in files THEN disk[f].version ELSE 0
    BY <1>0, <2>1 DEF ListCandidates, Goto, TypeOK
  <2>3. \A f \in Files : Past(f, listed[s][f])'
    BY <1>0, <2>2 DEF SharedOK, TypeOK, File, Version, Past, Absent
  <2>4. \A f \in Files : ~MustBeReported(s, f)'
    BY <2>2 DEF MustBeReported, Absent
  <2>5. CurrentOK(s)' /\ DoneOK(s)'
    BY <2>2, <2>4 DEF CurrentOK, DoneOK
  <2>6. QED
    BY <2>2, <2>3, <2>5, KnownStays DEF CallOK
<1>3. CASE \E f \in Files : Skip(s, f)
  <2>1. PICK f \in Files : Skip(s, f)
    BY <1>3
  <2>2. /\ UNCHANGED <<pc, known, current, listed, failed, disk, reported>>
        /\ pc[s] = "files" /\ todo'[s] = todo[s] \ {f}
    BY <1>0, <2>1 DEF Skip, TypeOK
  <2>3. ~Absent(f) => <<f, disk[f].version>> \in reported
    <3>1. SUFFICES ASSUME ~Absent(f) PROVE <<f, disk[f].version>> \in reported
      OBVIOUS
    <3>2. disk[f].version \in Nat /\ disk[f].version # 0 /\ known[s][f] = disk[f].version
      BY <1>0, <2>1, <3>1 DEF Skip, Absent, TypeOK, File, Version
    <3>3. PICK v \in Version : disk[f].version <= v /\ <<f, v>> \in reported
      BY <1>0, <3>2 DEF CallOK, Remembers, Covered
    <3>4. v <= disk[f].version
      BY <1>0, <3>1, <3>3 DEF SharedOK, Past
    <3>5. v = disk[f].version
      BY <3>2, <3>3, <3>4 DEF Version
    <3>6. QED
      BY <3>3, <3>5
  <2>4. ASSUME NEW g \in Files, MustBeReported(s, g)'
        PROVE  <<g, disk[g].version>>' \in reported'
    <3>1. CASE g = f
      BY <2>2, <2>3, <2>4, <3>1 DEF MustBeReported, Absent
    <3>2. CASE g # f
      BY <1>0, <2>2, <2>4, <3>2 DEF MustBeReported, Absent, CallOK, DoneOK
    <3>3. QED
      BY <3>1, <3>2
  <2>5. CurrentOK(s)' /\ DoneOK(s)'
    BY <2>2, <2>4 DEF CurrentOK, DoneOK
  <2>6. QED
    BY <2>2, <2>5, KnownStays, ListedStays DEF CallOK
<1>4. CASE \E f \in Files : Sign(s, f)
  <2>1. PICK f \in Files : Sign(s, f)
    BY <1>4
  <2>2. /\ UNCHANGED <<known, listed, failed, disk, edits, reported>>
        /\ pc[s] = "files" /\ pc'[s] = "read" /\ todo'[s] = todo[s] \ {f}
        /\ current[s] = NoFile /\ current'[s] = f /\ signature'[s] = disk[f].version
        /\ ~Absent(f)
    BY <1>0, <2>1 DEF Sign, Goto, TypeOK
  <2>3. Past(f, disk[f].version) /\ listed[s][f] <= disk[f].version
    BY <1>0, <2>2 DEF SharedOK, CallOK, Past, TypeOK, File, Version
  <2>4. CurrentOK(s)'
    BY <2>2, <2>3 DEF CurrentOK, Past, Absent
  <2>5. ASSUME NEW g \in Files, MustBeReported(s, g)'
        PROVE  <<g, disk[g].version>>' \in reported'
    <3>1. g # NoFile
      BY AgentSyncAssumption DEF AgentSyncAssumption
    <3>2. MustBeReported(s, g)
      BY <2>2, <2>5, <3>1 DEF MustBeReported, Absent
    <3>3. QED
      BY <1>0, <2>2, <3>2 DEF CallOK, DoneOK
  <2>6. DoneOK(s)'
    BY <2>2, <2>5 DEF DoneOK
  <2>7. QED
    BY <2>2, <2>4, <2>6, KnownStays, ListedStays DEF CallOK
<1>5. CASE Read(s)
  <2>1. /\ UNCHANGED <<known, todo, current, signature, listed, failed, disk, edits, reported>>
        /\ pc[s] = "read" /\ pc'[s] = "record" /\ content'[s] = disk[current[s]].version
        /\ ~Absent(current[s])
    BY <1>0, <1>5 DEF Read, Goto, TypeOK
  <2>2. current[s] \in Files
    BY <1>0, <2>1 DEF TypeOK
  <2>3. /\ Past(current[s], disk[current[s]].version)
        /\ signature[s] <= disk[current[s]].version
    BY <1>0, <2>1, <2>2 DEF SharedOK, CallOK, CurrentOK, Past, TypeOK, File, Version
  <2>4. CurrentOK(s)'
    BY <1>0, <2>1, <2>3 DEF CallOK, CurrentOK, Past, Absent
  <2>5. DoneOK(s)'
    BY <1>0, <2>1 DEF CallOK, DoneOK, MustBeReported, Absent
  <2>6. QED
    BY <2>1, <2>4, <2>5, KnownStays, ListedStays, <1>5 DEF CallOK
<1>6. CASE ReadFails(s)
  BY <1>6, GivenUp
<1>7. CASE Record(s)
  BY <1>7, ReportedCall
<1>8. CASE Truncate(s)
  <2>1. /\ UNCHANGED <<known, todo, current, listed, failed, disk, reported>>
        /\ pc[s] = "files" /\ pc'[s] = "save" /\ todo[s] = {}
    BY <1>0, <1>8 DEF Truncate, Goto, TypeOK
  <2>2. CurrentOK(s)' /\ DoneOK(s)'
    BY <1>0, <2>1 DEF CallOK, CurrentOK, DoneOK, MustBeReported, Absent
  <2>3. QED
    BY <2>1, <2>2, KnownStays, ListedStays DEF CallOK
<1>9. CASE Save(s)
  BY <1>9, EndedCall DEF Save
<1>10. QED
  BY <1>1, <1>2, <1>3, <1>4, <1>5, <1>6, <1>7, <1>8, <1>9 DEF CallStep

LEMMA InitSync == Init => SyncInv
<1> SUFFICES ASSUME Init PROVE SyncInv
  OBVIOUS
<1>1. TypeOK
  BY InitTypes, AgentSyncAssumption
<1>2. SharedOK
  <2>1. stateFile.files = Nothing
    BY DEF Init, Whole
  <2>2. QED
    BY <1>1, <2>1, NothingRemembered DEF Init, SharedOK
<1>3. ASSUME NEW s \in Syncers PROVE CallOK(s)
  <2>1. known[s] = Nothing /\ listed[s] = Nothing /\ pc[s] = "idle"
    BY DEF Init
  <2>2. QED
    BY <1>1, <2>1, NothingRemembered DEF CallOK, CurrentOK, DoneOK, MustBeReported
<1>4. QED
  BY <1>1, <1>2, <1>3 DEF SyncInv

LEMMA NextSync == SyncInv /\ [Next]_vars => SyncInv'
<1> SUFFICES ASSUME SyncInv, [Next]_vars PROVE SyncInv'
  OBVIOUS
<1>1. TypeOK /\ TypeOK'
  BY NextTypes, AgentSyncAssumption DEF SyncInv
<1>2. ASSUME NEW s \in Syncers PROVE CallOK(s)'
  <2>1. CASE CallStep(s)
    BY <2>1, ContinuedCall
  <2>2. CASE FaultStep(s)
    BY <2>2, GivenUp, EndedCall DEF FaultStep, ListFails, SaveFails, Crash
  <2>3. CASE \E t \in Syncers \ {s} : CallStep(t) \/ FaultStep(t)
    BY <1>1, <2>3, CallsApart, OvertakenCall
  <2>4. CASE Edit
    BY <2>4, EditFrame, OvertakenCall DEF locals, SameCall
  <2>5. QED
    BY <2>1, <2>2, <2>3, <2>4, StepKinds
<1>3. QED
  BY <1>1, <1>2, SharedStays DEF SyncInv

(* What is remembered and as it was then has been reported as it is. *)
LEMMA NothingForgotten == SyncInv => NoEditForgotten
<1> SUFFICES ASSUME SyncInv, NEW files \in Remembered, NEW f \in Files,
                    ~Absent(f), files[f] = disk[f].version
             PROVE  <<f, disk[f].version>> \in reported
  BY DEF NoEditForgotten
<1>1. Remembers(files)
  BY DEF SyncInv, SharedOK, CallOK, Remembered
<1>2. disk[f].version \in Nat /\ disk[f].version # 0
  BY DEF SyncInv, TypeOK, File, Version, Absent
<1>3. PICK v \in Version : disk[f].version <= v /\ <<f, v>> \in reported
  BY <1>1, <1>2 DEF Remembers, Covered
<1>4. v <= disk[f].version
  BY <1>3 DEF SyncInv, SharedOK, Past
<1>5. v = disk[f].version
  BY <1>2, <1>3, <1>4 DEF Version
<1>6. QED
  BY <1>3, <1>5

LEMMA CandidatesDone == SyncInv => CandidatesAreReported
<1> SUFFICES ASSUME SyncInv, NEW s \in Syncers, pc[s] = "save",
                    NEW f \in Files \ failed[s],
                    ~Absent(f), listed[s][f] = disk[f].version, disk[f].kind = "text"
             PROVE  <<f, disk[f].version>> \in reported
  BY DEF CandidatesAreReported
<1>1. CallOK(s) /\ current[s] = NoFile /\ f # NoFile
  BY AgentSyncAssumption DEF SyncInv, TypeOK, AgentSyncAssumption
<1>2. MustBeReported(s, f)
  BY <1>1 DEF CallOK, DoneOK, MustBeReported
<1>3. QED
  BY <1>1, <1>2 DEF CallOK, DoneOK

(* No file is passed over as synced unless it was reported as it is now,   *)
(* whatever happens during the calls.                                      *)
THEOREM EditsRemembered == Spec => []NoEditForgotten
<1>1. Init => SyncInv
  BY InitSync
<1>2. SyncInv /\ [Next]_vars => SyncInv'
  BY NextSync
<1>3. SyncInv => NoEditForgotten
  BY NothingForgotten
<1>4. QED
  BY <1>1, <1>2, <1>3, PTL DEF Spec

(* A call ends with all its unchanged candidates in the provenance. *)
THEOREM CandidatesReported == Spec => []CandidatesAreReported
<1>1. Init => SyncInv
  BY InitSync
<1>2. SyncInv /\ [Next]_vars => SyncInv'
  BY NextSync
<1>3. SyncInv => CandidatesAreReported
  BY CandidatesDone
<1>4. QED
  BY <1>1, <1>2, <1>3, PTL DEF Spec

-----------------------------------------------------------------------------
(* Calls that nothing disturbs. *)

LEMMA DisturbedStays ==
  ASSUME TypeOK, [Next]_vars, disturbed
  PROVE  disturbed'
<1>1. CASE Edit
  BY <1>1, EditFrame
<1>2. ASSUME NEW s \in Syncers, CallStep(s) PROVE disturbed'
  BY <1>2 DEF CallStep, Load, ListCandidates, Skip, Sign, Read, ReadFails, Record, Truncate,
              Save
<1>3. ASSUME NEW s \in Syncers, FaultStep(s) PROVE disturbed'
  BY <1>3 DEF FaultStep, Fault, ListFails, RecordFails, SaveFails, Crash
<1>4. QED
  BY <1>1, <1>2, <1>3, StepKinds

LEMMA UndisturbedStep ==
  ASSUME SyncInv, [Next]_vars, OneAtATime, ~disturbed',
         NEW s \in Syncers, CallStep(s)
  PROVE  OneAtATime'
<1>0. TypeOK /\ SharedOK /\ CallOK(s) /\ TypeOK' /\ ~disturbed
  BY NextTypes, AgentSyncAssumption, DisturbedStays DEF SyncInv
<1>1. \A t \in Syncers \ {s} : pc[t] = "idle" /\ pc'[t] = "idle"
  <2>1. \A t \in Syncers \ {s} : pc[t] = "idle"
    <3>1. CASE pc[s] # "idle"
      BY <3>1 DEF OneAtATime
    <3>2. CASE pc[s] = "idle"
      BY <3>2 DEF CallStep, Load, ListCandidates, Skip, Sign, Read, ReadFails, Record,
                  Truncate, Save
    <3>3. QED
      BY <3>1, <3>2
  <2>2. QED
    BY <1>0, <2>1, CallsApart DEF SameCall
<1> DEFINE After ==
      /\ twice' = {}
      /\ pc'[s] # "idle" => UpTo(known[s])'
      /\ pc'[s] = "idle" => UpTo(stateFile.files)' /\ stateFile'.form = "whole"
      /\ pc'[s] \in {"read", "record"} => known'[s][current'[s]] < signature'[s]
      /\ pc'[s] = "record" => content'[s] = signature'[s]
      /\ pc'[s] = "save" => stateFile' = Broken("empty")'
<1>2. SUFFICES After
  BY <1>1 DEF OneAtATime, AllIdle
<1>3. CASE Load(s)
  <2>1. AllIdle
    BY <1>1, <1>3 DEF Load, AllIdle
  <2>2. /\ known'[s] = stateFile.files /\ pc'[s] = "list"
        /\ reported' = reported /\ twice' = twice
    BY <1>0, <1>3 DEF Load, Goto, TypeOK
  <2>3. QED
    BY <2>1, <2>2 DEF OneAtATime, UpTo
<1>4. CASE \E files \in FileLists \cup {RecentFiles} : ListCandidates(s, files)
  <2>1. /\ known' = known /\ pc[s] = "list" /\ pc'[s] = "files"
        /\ reported' = reported /\ twice' = twice
    BY <1>0, <1>4 DEF ListCandidates, Goto, TypeOK
  <2>2. QED
    BY <2>1 DEF OneAtATime, UpTo
<1>5. CASE \E f \in Files : Skip(s, f)
  <2>1. /\ known' = known /\ pc[s] = "files" /\ pc' = pc
        /\ reported' = reported /\ twice' = twice
    BY <1>5 DEF Skip
  <2>2. QED
    BY <2>1 DEF OneAtATime, UpTo
<1>6. CASE \E f \in Files : Sign(s, f)
  <2>1. PICK f \in Files : Sign(s, f)
    BY <1>6
  <2>2. /\ known' = known /\ pc[s] = "files" /\ pc'[s] = "read"
        /\ current'[s] = f /\ signature'[s] = disk[f].version
        /\ reported' = reported /\ twice' = twice
    BY <1>0, <2>1 DEF Sign, Goto, TypeOK
  <2>3. known[s][f] <= disk[f].version /\ known[s][f] # disk[f].version
    BY <1>0, <2>1 DEF Sign, CallOK, Remembers, Past
  <2>4. known[s][f] \in Nat /\ disk[f].version \in Nat
    BY <1>0 DEF TypeOK, Signatures, File, Version
  <2>5. known[s][f] < disk[f].version
    BY <2>3, <2>4
  <2>6. QED
    BY <2>2, <2>5 DEF OneAtATime, UpTo
<1>7. CASE Read(s)
  <2>1. /\ known' = known /\ signature' = signature /\ current' = current
        /\ pc[s] = "read" /\ pc'[s] = "record"
        /\ content'[s] = disk[current[s]].version
        /\ reported' = reported /\ twice' = twice
    BY <1>0, <1>7 DEF Read, Goto, TypeOK
  <2>2. disk[current[s]].version = signature[s]
    BY <1>7 DEF Read
  <2>3. QED
    BY <2>1, <2>2 DEF OneAtATime, UpTo
<1>8. CASE ReadFails(s)
  <2>1. /\ known' = known /\ pc[s] = "read" /\ pc'[s] = "files"
        /\ reported' = reported /\ twice' = twice
    BY <1>0, <1>8 DEF ReadFails, NextFile, Goto, TypeOK
  <2>2. QED
    BY <2>1 DEF OneAtATime, UpTo
<1>9. CASE Record(s)
  <2> DEFINE c == current[s]
             w == content[s]
  <2>1. /\ pc[s] = "record" /\ pc'[s] = "files"
        /\ known'[s] = [known[s] EXCEPT ![c] = signature[s]]
        /\ reported' = reported \cup {<<c, w>>}
        /\ twice' = IF <<c, w>> \in reported THEN twice \cup {<<c, w>>} ELSE twice
    BY <1>0, <1>9 DEF Record, NextFile, Goto, TypeOK
  <2>2. /\ c \in Files /\ w \in Nat /\ known[s] \in [Files -> Nat]
    BY <1>0, <2>1 DEF TypeOK, Signatures, Version
  <2>3. w = signature[s] /\ known[s][c] < w /\ UpTo(known[s])
    BY <2>1 DEF OneAtATime
  <2>4. <<c, w>> \notin reported
    BY <2>2, <2>3 DEF UpTo, Version
  <2>5. twice' = {}
    BY <2>1, <2>4 DEF OneAtATime
  <2>6. ASSUME NEW f \in Files, NEW v \in Version, <<f, v>> \in reported'
        PROVE  v <= known'[s][f]
    <3>1. CASE <<f, v>> \in reported
      <4>1. v <= known[s][f]
        BY <2>3, <3>1 DEF UpTo
      <4>2. known[s][f] <= known'[s][f]
        BY <2>1, <2>2, <2>3
      <4>3. known'[s][f] \in Nat /\ known[s][f] \in Nat /\ v \in Nat
        BY <2>1, <2>2, <2>3 DEF Version
      <4>4. QED
        BY <4>1, <4>2, <4>3
    <3>2. CASE f = c /\ v = w
      BY <2>1, <2>2, <2>3, <3>2
    <3>3. QED
      BY <2>1, <2>6, <3>1, <3>2
  <2>7. UpTo(known[s])'
    BY <2>6 DEF UpTo
  <2>8. QED
    BY <2>1, <2>5, <2>7
<1>10. CASE Truncate(s)
  <2>1. /\ known' = known /\ pc[s] = "files" /\ pc'[s] = "save"
        /\ stateFile' = Broken("empty")
        /\ reported' = reported /\ twice' = twice
    BY <1>0, <1>10 DEF Truncate, Goto, TypeOK
  <2>2. QED
    BY <2>1 DEF OneAtATime, UpTo, Broken
<1>11. CASE Save(s)
  <2>1. stateFile = Broken("empty") /\ UpTo(known[s])
    BY <1>11 DEF Save, OneAtATime
  <2>2. /\ stateFile' = Whole(known[s]) /\ pc'[s] = "idle"
        /\ reported' = reported /\ twice' = twice
    BY <1>0, <1>11, <2>1 DEF Save, EndCall, TypeOK
  <2>3. stateFile'.files = known[s] /\ stateFile'.form = "whole"
    BY <2>2 DEF Whole
  <2>4. QED
    BY <2>1, <2>2, <2>3 DEF OneAtATime, UpTo
<1>12. QED
  BY <1>3, <1>4, <1>5, <1>6, <1>7, <1>8, <1>9, <1>10, <1>11 DEF CallStep

LEMMA NextOnce == OnceInv /\ [Next]_vars => OnceInv'
<1> SUFFICES ASSUME OnceInv, [Next]_vars, ~disturbed' PROVE OneAtATime'
  BY NextSync DEF OnceInv
<1>1. SyncInv /\ OneAtATime
  BY DisturbedStays DEF OnceInv, SyncInv
<1>2. CASE \E s \in Syncers : CallStep(s)
  BY <1>1, <1>2, UndisturbedStep
<1>3. CASE \E s \in Syncers : FaultStep(s)
  BY <1>3 DEF FaultStep, ListFails, RecordFails, SaveFails, Crash, Fault
<1>4. CASE Edit
  BY <1>1, <1>4, EditFrame DEF locals, OneAtATime, AllIdle, UpTo, Broken
<1>5. QED
  BY <1>2, <1>3, <1>4, StepKinds

(* Undisturbed calls never report one version of a file twice. *)
THEOREM ReportedOnce == Spec => []SyncedOnce
<1>1. Init => OnceInv
  <2>1. Init => OneAtATime
    BY DEF Init, OneAtATime, AllIdle, UpTo, Whole
  <2>2. QED
    BY <2>1, InitSync DEF OnceInv
<1>2. OnceInv /\ [Next]_vars => OnceInv'
  BY NextOnce
<1>3. OnceInv => SyncedOnce
  BY DEF OnceInv, OneAtATime, SyncedOnce
<1>4. QED
  BY <1>1, <1>2, <1>3, PTL DEF Spec

=============================================================================
