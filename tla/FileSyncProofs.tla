---------------------------- MODULE FileSyncProofs ----------------------------
(***************************************************************************)
(* Theorems about FileSync, for any machines, paths, contents and bounds:  *)
(* its types, what its cursors pass over, and that machines without        *)
(* editors are the log replayed.                                           *)
(***************************************************************************)
EXTENDS FileSync, TLAPS

-----------------------------------------------------------------------------
(* The operators of ProjectTree: what each returns, and that each takes a  *)
(* tree to a tree.                                                         *)

(* Five stamps are enough to find one that four places do not hold. *)
LEMMA FifthStamp ==
  ASSUME NEW a, NEW b, NEW c, NEW d
  PROVE  \E s \in Stamps : s \notin {a, b, c, d}
<1>1. SUFFICES ASSUME \A s \in 1 .. 5 : s = a \/ s = b \/ s = c \/ s = d
               PROVE  FALSE
  BY DEF Stamps
<1>2. /\ 1 \in {a, b, c, d} /\ 2 \in {a, b, c, d} /\ 3 \in {a, b, c, d}
      /\ 4 \in {a, b, c, d} /\ 5 \in {a, b, c, d}
  BY <1>1
<1>3. QED
  BY <1>2

LEMMA WithFoldersType ==
  ASSUME NEW tree \in [Paths -> Node], NEW ps
  PROVE  WithFolders(tree, ps) \in [Paths -> Node]
BY DEF WithFolders, Node, Folder, Kinds

LEMMA WithFileType ==
  ASSUME NEW tree \in [Paths -> Node], NEW p \in Paths,
         NEW c \in Contents \cup {NoContent}, NEW s \in Stamps
  PROVE  WithFile(tree, p, c, s) \in [Paths -> Node]
<1>1. WithFolders(tree, Ancestors[p]) \in [Paths -> Node]
  BY WithFoldersType
<1>2. FileOf(c, s) \in Node
  BY DEF FileOf, Node, Kinds
<1>3. QED
  BY <1>1, <1>2 DEF WithFile

LEMMA AfterDeletionType ==
  ASSUME NEW tree \in [Paths -> Node], NEW p \in Paths, NEW kind
  PROVE  AfterDeletion(tree, p, kind) \in [Paths -> Node]
BY DEF AfterDeletion, Without, Node, Absent, Kinds

LEMMA ScanType ==
  ASSUME NEW tree \in [Paths -> Node]
  PROVE  ScanOf(tree) \in [Paths -> Entry]
BY DEF ScanOf, EntryOf, Entry, Node

LEMMA NothingType ==
  /\ EmptyTree \in [Paths -> Node]
  /\ NoEntries \in [Paths -> Entry]
BY DEF EmptyTree, Absent, Node, NoEntries, NoEntry, Entry, Kinds

-----------------------------------------------------------------------------
(* Each operation takes a tree to a tree.                                  *)

LEMMA NotItsOwnAncestor ==
  ASSUME NEW p \in Paths
  PROVE  p \notin Ancestors[p]
<1>0. NumPaths \in Nat
  BY TreeAssumption
<1>1. p \in Nat
  BY <1>0 DEF Paths
<1>2. p \in Ancestors[p] => p < p
  BY TreeAssumption
<1>3. QED
  BY <1>1, <1>2

LEMMA WithFoldersTree ==
  ASSUME NEW tree \in [Paths -> Node], IsTree(tree), NEW p \in Paths, CanHold(tree, p),
         NEW ps, ps = Ancestors[p] \/ (ps = Ancestors[p] \cup {p} /\ tree[p].kind # "File")
  PROVE  IsTree(WithFolders(tree, ps)) /\ \A a \in Ancestors[p] : WithFolders(tree, ps)[a].kind = "Directory"
<1> DEFINE new == WithFolders(tree, ps)
<1>1. \A q \in Paths : Ancestors[q] \subseteq Paths
  BY TreeAssumption
<1>2. \A q \in ps : q \in Paths /\ Ancestors[q] \subseteq Ancestors[p] /\ tree[q].kind # "File"
  BY <1>1, TreeAssumption DEF CanHold
<1>3. \A q \in Paths : new[q] = IF q \in ps /\ tree[q].kind = "Absent" THEN Folder ELSE tree[q]
  BY DEF WithFolders
<1>4. \A q \in ps : new[q].kind = "Directory"
  <2>1. \A q \in Paths : tree[q].kind \in Kinds
    BY DEF Node
  <2>2. QED
    BY <1>2, <1>3, <2>1 DEF Kinds, Folder
<1>5. \A a \in Ancestors[p] : new[a].kind = "Directory"
  BY <1>4
<1>6. ASSUME NEW q \in Paths, new[q].kind # "Absent", NEW a \in Ancestors[q]
      PROVE  new[a].kind = "Directory"
  <2>1. a \in Paths
    BY <1>1
  <2>2. CASE q \in ps
    BY <1>2, <1>5, <2>2
  <2>3. CASE q \notin ps
    <3>1. tree[q].kind # "Absent"
      BY <1>3, <1>6, <2>3
    <3>2. tree[a].kind = "Directory"
      BY <3>1 DEF IsTree
    <3>3. QED
      BY <1>3, <2>1, <3>2
  <2>4. QED
    BY <2>2, <2>3
<1>7. QED
  BY <1>5, <1>6 DEF IsTree

(* Folders of which each comes with those above it, and none replaces a    *)
(* file.                                                                   *)
LEMMA SomeFoldersTree ==
  ASSUME NEW tree \in [Paths -> Node], IsTree(tree), NEW ps \in SUBSET Paths,
         \A q \in ps : Ancestors[q] \subseteq ps /\ tree[q].kind # "File"
  PROVE  IsTree(WithFolders(tree, ps))
<1> DEFINE new == WithFolders(tree, ps)
<1>1. \A q \in Paths : Ancestors[q] \subseteq Paths /\ tree[q].kind \in Kinds
  BY TreeAssumption DEF Node
<1>2. \A q \in Paths : new[q] = IF q \in ps /\ tree[q].kind = "Absent" THEN Folder ELSE tree[q]
  BY DEF WithFolders
<1>3. \A q \in ps : new[q].kind = "Directory"
  BY <1>1, <1>2 DEF Kinds, Folder
<1>4. ASSUME NEW q \in Paths, new[q].kind # "Absent", NEW a \in Ancestors[q]
      PROVE  new[a].kind = "Directory"
  <2>1. CASE q \in ps
    BY <1>3, <1>4, <2>1
  <2>2. CASE q \notin ps
    <3>1. tree[a].kind = "Directory"
      BY <1>2, <1>4, <2>2 DEF IsTree
    <3>2. QED
      BY <1>1, <1>2, <1>4, <3>1
  <2>3. QED
    BY <2>1, <2>2
<1>5. QED
  BY <1>4 DEF IsTree

LEMMA WithFileTree ==
  ASSUME NEW tree \in [Paths -> Node], IsTree(tree), NEW p \in Paths,
         CanWriteFile(tree, p), NEW c, NEW s
  PROVE  IsTree(WithFile(tree, p, c, s))
<1> DEFINE dirs == WithFolders(tree, Ancestors[p])
           new == WithFile(tree, p, c, s)
<1>1. CanHold(tree, p) /\ tree[p].kind # "Directory"
  BY DEF CanWriteFile
<1>2. IsTree(dirs) /\ \A a \in Ancestors[p] : dirs[a].kind = "Directory"
  BY <1>1, WithFoldersTree
<1>3. p \notin Ancestors[p] /\ \A q \in Paths : Ancestors[q] \subseteq Paths
  BY NotItsOwnAncestor, TreeAssumption
<1>4. \A q \in Paths : new[q] = IF q = p THEN FileOf(c, s) ELSE dirs[q]
  BY DEF WithFile, WithFolders
<1>5. dirs[p].kind # "Directory"
  BY <1>1, <1>3 DEF WithFolders
<1>6. ASSUME NEW q \in Paths, new[q].kind # "Absent", NEW a \in Ancestors[q]
      PROVE  new[a].kind = "Directory"
  <2>1. dirs[a].kind = "Directory"
    BY <1>2, <1>4, <1>6 DEF IsTree
  <2>2. a # p
    BY <1>5, <2>1
  <2>3. QED
    BY <1>3, <1>4, <2>1, <2>2
<1>7. QED
  BY <1>6 DEF IsTree

LEMMA AfterDeletionTree ==
  ASSUME NEW tree \in [Paths -> Node], IsTree(tree), NEW p \in Paths, NEW kind
  PROVE  IsTree(AfterDeletion(tree, p, kind))
<1> DEFINE new == AfterDeletion(tree, p, kind)
<1>1. CASE tree[p].kind # kind
  BY <1>1 DEF AfterDeletion
<1>2. CASE tree[p].kind = kind
  <2> DEFINE gone == {p} \cup (IF kind = "Directory" THEN Below(p) ELSE {})
  <2>1. \A q \in Paths : new[q] = IF q \in gone THEN Absent ELSE tree[q]
    BY <1>2 DEF AfterDeletion, Without
  <2>2. \A q \in Paths : Ancestors[q] \subseteq Paths
                         /\ \A a \in Ancestors[q] : Ancestors[a] \subseteq Ancestors[q]
    BY TreeAssumption
  <2>3. ASSUME NEW q \in Paths, new[q].kind # "Absent", NEW a \in Ancestors[q]
        PROVE  new[a].kind = "Directory"
    <3>1. q \notin gone /\ tree[q].kind # "Absent"
      BY <2>1, <2>3 DEF Absent
    <3>2. tree[a].kind = "Directory" /\ a \in Paths
      BY <2>2, <3>1 DEF IsTree
    <3>3. a \notin gone
      <4>1. CASE kind = "Directory"
        BY <2>2, <3>1, <4>1 DEF Below
      <4>2. CASE kind # "Directory"
        BY <1>2, <3>2, <4>2
      <4>3. QED
        BY <4>1, <4>2
    <3>4. QED
      BY <2>1, <3>2, <3>3
  <2>4. QED
    BY <2>3 DEF IsTree
<1>3. QED
  BY <1>1, <1>2

-----------------------------------------------------------------------------
LoopOrCrash(m) == Loop(m) \/ Crash(m) \/ CrashInSave(m)

LEMMA FreshStampIsFresh ==
  ASSUME NEW m \in Machines, NEW p \in Paths
  PROVE  /\ FreshStamp(m, p) \in Stamps
         /\ FreshStamp(m, p) # disk[m][p].stamp
         /\ FreshStamp(m, p) # entries[m][p].stamp
         /\ FreshStamp(m, p) # saved[m].entries[p].stamp
         /\ FreshStamp(m, p) # scan[m][p].stamp
<1>1. \E s \in Stamps : s \notin {disk[m][p].stamp, entries[m][p].stamp,
                                  saved[m].entries[p].stamp, scan[m][p].stamp}
  BY FifthStamp
<1>2. QED
  BY <1>1 DEF FreshStamp

(* The changes found by a scan are events of the machine that scanned.     *)
LEMMA LocalChangesType ==
  ASSUME NEW old \in [Paths -> Entry], NEW new \in [Paths -> Entry],
         NEW m \in Machines
  PROVE  LocalChanges(old, new, m) \subseteq {e \in Event : e.origin = m}
<1> DEFINE mine == {e \in Event : e.origin = m}
           Change(p, what, kind) == [path |-> p, change |-> what, entry |-> kind,
                                     content |-> NoContent, origin |-> m]
           gone == {p \in Paths : old[p].kind # "Absent" /\ new[p].kind # old[p].kind}
           arrived == {p \in Paths : new[p].kind # "Absent" /\ new[p].kind # old[p].kind}
           edited == {p \in Paths : /\ old[p].kind = "File" /\ new[p].kind = "File"
                                    /\ old[p].stamp # new[p].stamp}
<1>1. LocalChanges(old, new, m) =
           {Change(p, "Deleted", old[p].kind) : p \in gone}
      \cup {Change(p, "Created", new[p].kind) : p \in arrived}
      \cup {Change(p, "Updated", "File") : p \in edited}
  BY DEF LocalChanges
<1>2. ASSUME NEW p \in Paths, NEW what \in {"Created", "Updated", "Deleted"},
             NEW kind \in {"File", "Directory"}
      PROVE  Change(p, what, kind) \in mine
  BY DEF Event
<1>3. \A p \in Paths : old[p].kind \in Kinds /\ new[p].kind \in Kinds
  BY DEF Entry
<1>4. {Change(p, "Deleted", old[p].kind) : p \in gone} \subseteq mine
  <2>1. \A p \in gone : old[p].kind \in {"File", "Directory"}
    BY <1>3 DEF Kinds
  <2> HIDE DEF mine, Change
  <2>2. QED
    BY <1>2, <2>1
<1>5. {Change(p, "Created", new[p].kind) : p \in arrived} \subseteq mine
  <2>1. \A p \in arrived : new[p].kind \in {"File", "Directory"}
    BY <1>3 DEF Kinds
  <2> HIDE DEF mine, Change
  <2>2. QED
    BY <1>2, <2>1
<1>6. {Change(p, "Updated", "File") : p \in edited} \subseteq mine
  <2> HIDE DEF mine, Change
  <2>1. QED
    BY <1>2
<1> HIDE DEF mine, Change, gone, arrived, edited
<1>7. QED
  BY <1>1, <1>4, <1>5, <1>6 DEF mine

-----------------------------------------------------------------------------
(* Type correctness. *)

LEMMA FreshStateType == FreshState \in SyncState
BY NothingType DEF FreshState, SyncState

LEMMA InitTypes == Init => Types
BY NothingType, FreshStateType DEF Init, Types, Phases


LEMMA EditTypes ==
  ASSUME Types, NEW m \in Machines, NEW tree \in [Paths -> Node], Edit(m, tree),
         raced' \subseteq Machines \X Paths
  PROVE  Types'
BY DEF Types, Edit, cycle

LEMMA UserTypes ==
  ASSUME Types, UserStep
  PROVE  Types'
<1>1. PICK m \in Machines, p \in Paths :
        \/ \E content \in Contents : UserWrites(m, p, content)
        \/ UserMakesFolder(m, p)
        \/ UserRemoves(m, p)
  BY DEF UserStep
<1>2. disk[m] \in [Paths -> Node]
  BY DEF Types
<1>3. CASE \E content \in Contents : UserWrites(m, p, content)
  <2>1. PICK content \in Contents : UserWrites(m, p, content)
    BY <1>3
  <2>2. WithFile(disk[m], p, content, FreshStamp(m, p)) \in [Paths -> Node]
    BY <1>2, WithFileType, FreshStampIsFresh
  <2>3. raced' \subseteq Machines \X Paths
    BY <2>1 DEF UserWrites, Types
  <2>4. QED
    BY <2>1, <2>2, <2>3, EditTypes DEF UserWrites
<1>4. CASE UserMakesFolder(m, p)
  <2>1. WithFolders(disk[m], Ancestors[p] \cup {p}) \in [Paths -> Node]
    BY <1>2, WithFoldersType
  <2>2. raced' \subseteq Machines \X Paths
    BY <1>4 DEF UserMakesFolder, Types
  <2>3. QED
    BY <1>4, <2>1, <2>2, EditTypes DEF UserMakesFolder
<1>5. CASE UserRemoves(m, p)
  <2>1. AfterDeletion(disk[m], p, disk[m][p].kind) \in [Paths -> Node]
    BY <1>2, AfterDeletionType
  <2>2. raced' \subseteq Machines \X Paths
    BY <1>5 DEF UserRemoves, Types
  <2>3. QED
    BY <1>5, <2>1, <2>2, EditTypes DEF UserRemoves
<1>6. QED
  BY <1>1, <1>3, <1>4, <1>5

LEMMA EndCycleTypes ==
  ASSUME Types, NEW m \in Machines, NEW phase \in Phases, EndCycle(m, phase)
  PROVE  /\ pc' \in [Machines -> Phases]
         /\ scan' \in [Machines -> [Paths -> Entry]]
         /\ outbox' \in [Machines -> SUBSET Event]
         /\ inbox' \in [Machines -> SUBSET Nat]
         /\ writing' \in [Machines -> Paths \cup {0}]
BY NothingType DEF EndCycle, Types

(* What a machine takes from its inbox is a row of the log. *)
LEMMA TakenIsEvent ==
  ASSUME TypeOK, NEW m \in Machines, NEW s, NextToApply(m, s)
  PROVE  s \in 1 .. Len(log) /\ log[s] \in Event /\ last[m] < s
BY DEF TypeOK, Types, CycleOK, NextToApply

LEMMA FolderTypes ==
  ASSUME NEW tree \in [Paths -> Node], NEW known \in [Paths -> Entry], NEW p \in Paths
  PROVE  [known EXCEPT ![p] = EntryOf(Folder)] \in [Paths -> Entry]
BY DEF EntryOf, Folder, Entry, Kinds

(* A fault is recorded in the history. *)
LEMMA FaultTypes ==
  ASSUME Types, NEW m \in Machines, NEW kind, Fault(kind, m)
  PROVE  \E f \in AllFaults \X Machines :
           /\ f = <<kind, m>> /\ faults' = Append(faults, f)
           /\ faults' \in Seq(AllFaults \X Machines)
<1>1. kind \in AllFaults
  BY SyncAssumption DEF Fault
<1>2. PICK f : f = <<kind, m>>
  OBVIOUS
<1>3. PICK S : S = AllFaults \X Machines
  OBVIOUS
<1>4. f \in S
  BY <1>1, <1>2, <1>3
<1>5. faults \in Seq(S) /\ faults' = Append(faults, f)
  BY <1>2, <1>3 DEF Fault, Types
<1>6. faults' \in Seq(S)
  BY <1>4, <1>5
<1>7. QED
  BY <1>2, <1>3, <1>4, <1>5, <1>6

(* The folders made before an application failed. *)
LEMMA HalfMadeFolders ==
  ASSUME TypeOK, NEW m \in Machines, NEW s \in inbox[m], ApplyFails(m, s)
  PROVE  \/ disk' = disk
         \/ \E made \in SUBSET Paths :
              /\ disk' = [disk EXCEPT ![m] = WithFolders(disk[m], made)]
              /\ \A q \in made : Ancestors[q] \subseteq made /\ disk[m][q].kind # "File"
              /\ made \subseteq Ancestors[log[s].path]
                              \cup (IF log[s].entry = "File" THEN {} ELSE {log[s].path})
              /\ "apply" \in FaultKinds
<1> DEFINE p == log[s].path
<1>1. log[s] \in Event /\ p \in Paths
  BY TakenIsEvent DEF ApplyFails, TakeRemote, Take, Event
<1>2. CASE disk' # disk
  <2>1. /\ ~RuledOut(m, s) /\ "apply" \in FaultKinds
        /\ \E made \in HalfMade(log[s]) :
             disk' = [disk EXCEPT ![m] = WithFolders(disk[m], made)]
    BY <1>2 DEF ApplyFails, Fault
  <2>2. PICK made \in HalfMade(log[s]) :
          disk' = [disk EXCEPT ![m] = WithFolders(disk[m], made)]
    BY <2>1
  <2>3. /\ made \subseteq Ancestors[p] \cup (IF log[s].entry = "File" THEN {} ELSE {p})
        /\ \A q \in made : Ancestors[q] \subseteq made
    BY <2>2 DEF HalfMade
  <2>4. Ancestors[p] \subseteq Paths
    BY <1>1, TreeAssumption
  <2>5. /\ CanHold(disk[m], p)
        /\ log[s].entry # "File" => disk[m][p].kind # "File"
    BY <2>1 DEF RuledOut, CanWriteFile, CanMakeFolder
  <2>6. \A q \in made : disk[m][q].kind # "File"
    BY <2>3, <2>5 DEF CanHold
  <2>7. QED
    BY <1>1, <2>1, <2>2, <2>3, <2>4, <2>6
<1>3. QED
  BY <1>2

LEMMA LoopTypes ==
  ASSUME TypeOK, NEW m \in Machines, LoopOrCrash(m)
  PROVE  Types'
<1> USE DEF TypeOK
<1>0. /\ "down" \in Phases /\ "idle" \in Phases /\ "scanned" \in Phases
      /\ "pushing" \in Phases /\ "applying" \in Phases /\ "recording" \in Phases
  BY DEF Phases
<1>1. CASE Start(m)
  <2>1. saved[m].last \in Nat /\ saved[m].entries \in [Paths -> Entry]
    BY DEF Types, SyncState
  <2>2. QED
    BY <1>0, <1>1, <2>1 DEF Start, Types, cycle
<1>2. CASE Crash(m)
  BY <1>0, <1>2, EndCycleTypes, NothingType, FaultTypes DEF Crash, Types
<1>3. CASE CrashInSave(m)
  BY <1>0, <1>3, EndCycleTypes, NothingType, FreshStateType, FaultTypes DEF CrashInSave, Types
<1>4. CASE Scan(m)
  <2>1. ScanOf(disk[m]) \in [Paths -> Entry]
    BY ScanType DEF Types
  <2>2. LocalChanges(entries[m], ScanOf(disk[m]), m) \subseteq Event
    BY <2>1, LocalChangesType DEF Types
  <2>3. QED
    BY <1>0, <1>4, <2>1, <2>2 DEF Scan, Types
<1>5. CASE ReadChanges(m)
  <2>1. \A c \in outbox[m] : WithContent(m, c) \in Event
    <3>1. ASSUME NEW c \in outbox[m]
          PROVE  WithContent(m, c) \in Event
      <4>1. c \in Event /\ disk[m][c.path].content \in Contents \cup {NoContent}
        BY DEF Types, Event, Node
      <4>2. QED
        BY <4>1 DEF WithContent, Event
    <3>2. QED
      BY <3>1
  <2>2. QED
    BY <1>0, <1>5, <2>1 DEF ReadChanges, Types
<1>6. CASE ReadFails(m)
  BY <1>0, <1>6, EndCycleTypes DEF ReadFails, Types
<1>7. CASE Push(m)
  <2>1. log' \in Seq(Event) /\ outbox' \in [Machines -> SUBSET Event]
    BY <1>7 DEF Push, NextToPush, Types
  <2>2. last' \in [Machines -> Nat]
    BY <1>7, <2>1 DEF Push, Later, Types
  <2>3. QED
    BY <1>7, <2>1, <2>2 DEF Push, Types
<1>8. CASE PushRefused(m)
  BY <1>0, <1>8, EndCycleTypes, FaultTypes DEF PushRefused, Types
<1>9. CASE PushUnanswered(m)
  <2>1. log' \in Seq(Event)
    BY <1>9 DEF PushUnanswered, NextToPush, Types
  <2>2. QED
    BY <1>0, <1>9, <2>1, EndCycleTypes, FaultTypes DEF PushUnanswered, Types
<1>10. CASE Fetch(m)
  <2>1. EventsSince(last[m]) \subseteq Nat
    BY DEF EventsSince
  <2>2. QED
    BY <1>0, <1>10, <2>1 DEF Fetch, Types
<1>11. CASE FetchFails(m)
  BY <1>0, <1>11, EndCycleTypes, FaultTypes DEF FetchFails, Types
<1>12. ASSUME NEW s \in inbox[m], Take(m, s)
       PROVE  last' \in [Machines -> Nat]
  BY <1>12 DEF Take, Later, Types
<1>13. ASSUME NEW s \in inbox[m], SkipOwn(m, s)
       PROVE  Types'
  BY <1>12, <1>13 DEF SkipOwn, Types
<1>14. ASSUME NEW s \in inbox[m], Applies(m, s)
       PROVE  /\ last' \in [Machines -> Nat]
              /\ inbox' \in [Machines -> SUBSET Nat]
              /\ applied' \in [Machines -> SUBSET Nat]
              /\ log[s] \in Event /\ log[s].path \in Paths
  <2>1. log[s] \in Event
    BY <1>14, TakenIsEvent DEF Applies, TakeRemote, Take
  <2>2. QED
    BY <1>12, <1>14, <2>1 DEF Applies, TakeRemote, Types, Event
<1>15. ASSUME NEW s \in inbox[m], ApplyFolder(m, s)
       PROVE  Types'
  <2> DEFINE p == log[s].path
  <2>1. Applies(m, s)
    BY <1>15 DEF ApplyFolder
  <2>2. WithFolders(disk[m], Ancestors[p] \cup {p}) \in [Paths -> Node]
    BY WithFoldersType DEF Types
  <2>3. [entries[m] EXCEPT ![p] = EntryOf(Folder)] \in [Paths -> Entry]
    BY <2>1, <1>14, FolderTypes DEF Types
  <2>4. /\ disk' = [disk EXCEPT ![m] = WithFolders(@, Ancestors[p] \cup {p})]
        /\ entries' = [entries EXCEPT ![m][p] = EntryOf(Folder)]
    BY <1>15 DEF ApplyFolder
  <2>5. disk' \in [Machines -> [Paths -> Node]] /\ entries' \in [Machines -> [Paths -> Entry]]
    BY <2>2, <2>3, <2>4 DEF Types
  <2>6. QED
    BY <1>14, <1>15, <2>1, <2>5 DEF ApplyFolder, Applies, Types
<1>16. ASSUME NEW s \in inbox[m], ApplyFile(m, s)
       PROVE  Types'
  <2> DEFINE p == log[s].path
  <2>1. Applies(m, s)
    BY <1>16 DEF ApplyFile
  <2>2. p \in Paths /\ log[s].content \in Contents \cup {NoContent}
    BY <2>1, <1>14 DEF Event
  <2>3. WithFile(disk[m], p, log[s].content, FreshStamp(m, p)) \in [Paths -> Node]
    BY <2>2, WithFileType, FreshStampIsFresh DEF Types
  <2>4. disk' \in [Machines -> [Paths -> Node]] /\ writing' \in [Machines -> Paths \cup {0}]
    BY <1>16, <2>2, <2>3 DEF ApplyFile, Types
  <2>5. QED
    BY <1>0, <1>14, <1>16, <2>1, <2>4 DEF ApplyFile, Applies, Types
<1>17. ASSUME NEW s \in inbox[m], ApplyDeletion(m, s)
       PROVE  Types'
  <2> DEFINE p == log[s].path
             gone == {p} \cup (IF log[s].entry = "Directory" THEN Below(p) ELSE {})
  <2>1. Applies(m, s)
    BY <1>17 DEF ApplyDeletion
  <2>2. p \in Paths
    BY <2>1, <1>14
  <2>3. AfterDeletion(disk[m], p, log[s].entry) \in [Paths -> Node]
    BY <2>2, AfterDeletionType DEF Types
  <2>4. disk' \in [Machines -> [Paths -> Node]]
    BY <1>17, <2>3 DEF ApplyDeletion, Types
  <2>5. Without(entries[m], gone, NoEntry) \in [Paths -> Entry]
    BY DEF Types, Without, NoEntry, Entry, Kinds
  <2>6. entries' \in [Machines -> [Paths -> Entry]]
    BY <1>17, <2>5 DEF ApplyDeletion, Types
  <2>7. faults' \in Seq(AllFaults \X Machines)
    BY <1>17, FaultTypes DEF ApplyDeletion, Types
  <2>8. QED
    BY <1>14, <1>17, <2>1, <2>4, <2>6, <2>7 DEF ApplyDeletion, Applies, Types
<1>18. ASSUME NEW s \in inbox[m], ApplyFails(m, s)
       PROVE  Types'
  <2>1. Take(m, s) /\ EndCycle(m, "idle")
    BY <1>18 DEF ApplyFails, TakeRemote
  <2>2. failed' \in [Machines -> SUBSET Nat]
    BY <1>18 DEF ApplyFails, Types
  <2>3. faults' \in Seq(AllFaults \X Machines)
    BY <1>18, FaultTypes DEF ApplyFails, Types
  <2>4. UNCHANGED <<log, saved, entries, applied, raced, edits>>
    BY <1>18 DEF ApplyFails
  <2>5. disk' \in [Machines -> [Paths -> Node]]
    <3>1. disk[m] \in [Paths -> Node] /\ disk \in [Machines -> [Paths -> Node]]
      BY DEF Types
    <3>2. ASSUME NEW made, disk' = [disk EXCEPT ![m] = WithFolders(disk[m], made)]
          PROVE  disk' \in [Machines -> [Paths -> Node]]
      BY <3>1, <3>2, WithFoldersType
    <3>3. QED
      BY <1>18, <3>1, <3>2, HalfMadeFolders
  <2>6. QED
    BY <1>0, <1>12, <2>1, <2>2, <2>3, <2>4, <2>5, EndCycleTypes DEF Types
<1>19. CASE RecordFile(m)
  <2>1. [kind |-> "File", stamp |-> disk[m][writing[m]].stamp] \in Entry
    <3>1. disk[m][writing[m]] \in Node
      BY <1>19 DEF RecordFile, Types, CycleOK
    <3>2. QED
      BY <3>1 DEF Node, Entry, Kinds
  <2>2. entries' \in [Machines -> [Paths -> Entry]]
    BY <1>19, <2>1 DEF RecordFile, Types
  <2>3. QED
    BY <1>0, <1>19, <2>2 DEF RecordFile, Types
<1>20. CASE RecordFails(m)
  BY <1>0, <1>20, EndCycleTypes DEF RecordFails, Types
<1>21. CASE Save(m)
  <2>1. [last |-> last[m], entries |-> entries[m]] \in SyncState
    BY DEF Types, SyncState
  <2>2. QED
    BY <1>0, <1>21, <2>1, EndCycleTypes DEF Save, Types
<1>22. CASE SaveFails(m)
  BY <1>0, <1>22, EndCycleTypes, FaultTypes DEF SaveFails, Types
<1>23. QED
  BY <1>1, <1>2, <1>3, <1>4, <1>5, <1>6, <1>7, <1>8, <1>9, <1>10, <1>11, <1>13,
     <1>15, <1>16, <1>17, <1>18, <1>19, <1>20, <1>21, <1>22
     DEF LoopOrCrash, Loop, PushPhase, ApplyPhase

-----------------------------------------------------------------------------
(* What a step leaves alone. *)

(* Nothing happened to n's tree, state file or loop. *)
Untouched(n) ==
  /\ disk'[n] = disk[n] /\ saved'[n] = saved[n] /\ pc'[n] = pc[n]
  /\ last'[n] = last[n] /\ entries'[n] = entries[n] /\ scan'[n] = scan[n]
  /\ outbox'[n] = outbox[n] /\ inbox'[n] = inbox[n] /\ writing'[n] = writing[n]
  /\ applied'[n] = applied[n] /\ failed'[n] = failed[n]

(* A step of the loop of one machine touches no other's.                   *)
LEMMA OthersUntouched ==
  ASSUME Types, NEW m \in Machines, LoopOrCrash(m), NEW n \in Machines, n # m
  PROVE  Untouched(n)
<1>1. CASE Start(m) \/ Scan(m) \/ ReadChanges(m) \/ Push(m) \/ Fetch(m) \/ RecordFile(m)
  BY <1>1 DEF Start, Scan, ReadChanges, Push, Fetch, RecordFile, Untouched, Types, cycle
<1>2. CASE Crash(m) \/ CrashInSave(m) \/ ReadFails(m) \/ PushRefused(m) \/ PushUnanswered(m)
           \/ FetchFails(m) \/ RecordFails(m) \/ Save(m) \/ SaveFails(m)
  BY <1>2 DEF Crash, CrashInSave, ReadFails, PushRefused, PushUnanswered, FetchFails,
              RecordFails, Save, SaveFails, EndCycle, Untouched, Types
<1>3. CASE \E s \in inbox[m] : SkipOwn(m, s) \/ ApplyFails(m, s)
  BY <1>3 DEF SkipOwn, ApplyFails, TakeRemote, Take, EndCycle, Untouched, Types
<1>4. CASE \E s \in inbox[m] : ApplyFolder(m, s) \/ ApplyFile(m, s) \/ ApplyDeletion(m, s)
  BY <1>4 DEF ApplyFolder, ApplyFile, ApplyDeletion, Applies, TakeRemote, Take,
              Untouched, Types
<1>5. QED
  BY <1>1, <1>2, <1>3, <1>4 DEF LoopOrCrash, Loop, PushPhase, ApplyPhase

(* The log only grows, by an event of the outbox of the machine that steps.*)
LEMMA LogGrows ==
  ASSUME Types, NEW m \in Machines, LoopOrCrash(m)
  PROVE  \/ log' = log
         \/ /\ Push(m) \/ PushUnanswered(m)
            /\ \E e \in outbox[m] : NextToPush(m, e) /\ log' = Append(log, e)
<1>1. CASE Push(m) \/ PushUnanswered(m)
  BY <1>1 DEF Push, PushUnanswered, NextToPush
<1>2. CASE Start(m) \/ Scan(m) \/ ReadChanges(m) \/ Fetch(m) \/ RecordFile(m)
           \/ Crash(m) \/ CrashInSave(m) \/ ReadFails(m) \/ PushRefused(m)
           \/ FetchFails(m) \/ RecordFails(m) \/ Save(m) \/ SaveFails(m)
  BY <1>2 DEF Start, Scan, ReadChanges, Fetch, RecordFile, Crash, CrashInSave, ReadFails,
              PushRefused, FetchFails, RecordFails, Save, SaveFails
<1>3. CASE \E s \in inbox[m] : SkipOwn(m, s) \/ ApplyFails(m, s) \/ ApplyFolder(m, s)
                               \/ ApplyFile(m, s) \/ ApplyDeletion(m, s)
  BY <1>3 DEF SkipOwn, ApplyFails, ApplyFolder, ApplyFile, ApplyDeletion, Applies
<1>4. QED
  BY <1>1, <1>2, <1>3 DEF LoopOrCrash, Loop, PushPhase, ApplyPhase

LEMMA LogPrefix ==
  ASSUME Types, NEW m \in Machines, LoopOrCrash(m)
  PROVE  /\ Len(log) \in Nat /\ Len(log') \in Nat
         /\ Len(log) <= Len(log')
         /\ \A s \in 1 .. Len(log) : s \in 1 .. Len(log') /\ log'[s] = log[s]
<1>1. CASE log' = log
  BY <1>1 DEF Types
<1>2. ASSUME NEW e \in outbox[m], log' = Append(log, e)
      PROVE  /\ Len(log') = Len(log) + 1
             /\ \A s \in 1 .. Len(log) : log'[s] = log[s]
  BY <1>2 DEF Types
<1>3. Len(log) \in Nat
  BY DEF Types
<1>4. QED
  BY <1>1, <1>2, <1>3, LogGrows

-----------------------------------------------------------------------------
(* Trees stay trees, and the phase of a cycle goes with its variables.     *)

LEMMA UserTrees ==
  ASSUME TypeOK, UserStep, NEW n \in Machines
  PROVE  IsTree(disk'[n])
<1>1. PICK m \in Machines, p \in Paths :
        \/ \E content \in Contents : UserWrites(m, p, content)
        \/ UserMakesFolder(m, p)
        \/ UserRemoves(m, p)
  BY DEF UserStep
<1>2. disk[m] \in [Paths -> Node] /\ IsTree(disk[m]) /\ IsTree(disk[n])
  BY DEF TypeOK, Types
<1>3. ASSUME NEW tree, IsTree(tree), disk' = [disk EXCEPT ![m] = tree]
      PROVE  IsTree(disk'[n])
  BY <1>2, <1>3 DEF TypeOK, Types
<1>4. CASE \E content \in Contents : UserWrites(m, p, content)
  BY <1>2, <1>3, <1>4, WithFileTree DEF UserWrites, Edit
<1>5. CASE UserMakesFolder(m, p)
  <2>1. IsTree(WithFolders(disk[m], Ancestors[p] \cup {p}))
    BY <1>2, <1>5, WithFoldersTree DEF UserMakesFolder
  <2>2. QED
    BY <1>3, <1>5, <2>1 DEF UserMakesFolder, Edit
<1>6. CASE UserRemoves(m, p)
  BY <1>2, <1>3, <1>6, AfterDeletionTree DEF UserRemoves, Edit
<1>7. QED
  BY <1>1, <1>4, <1>5, <1>6

LEMMA LoopTrees ==
  ASSUME TypeOK, NEW m \in Machines, LoopOrCrash(m), NEW n \in Machines
  PROVE  IsTree(disk'[n])
<1>1. disk[m] \in [Paths -> Node] /\ IsTree(disk[m]) /\ IsTree(disk[n])
  BY DEF TypeOK, Types
<1>2. ASSUME NEW tree, IsTree(tree), disk' = [disk EXCEPT ![m] = tree]
      PROVE  IsTree(disk'[n])
  BY <1>1, <1>2 DEF TypeOK, Types
<1>3. ASSUME NEW s \in inbox[m], Applies(m, s)
      PROVE  log[s].path \in Paths
  BY <1>3, TakenIsEvent DEF Applies, TakeRemote, Take, Event
<1>4. ASSUME NEW s \in inbox[m], ApplyFolder(m, s)
      PROVE  IsTree(disk'[n])
  <2> DEFINE p == log[s].path
  <2>1. p \in Paths
    BY <1>3, <1>4 DEF ApplyFolder
  <2>2. CanHold(disk[m], p) /\ disk[m][p].kind # "File"
    BY <1>4 DEF ApplyFolder, CanMakeFolder
  <2>3. IsTree(WithFolders(disk[m], Ancestors[p] \cup {p}))
    BY <1>1, <2>1, <2>2, WithFoldersTree
  <2>4. disk' = [disk EXCEPT ![m] = WithFolders(disk[m], Ancestors[p] \cup {p})]
    BY <1>4 DEF ApplyFolder
  <2>5. QED
    BY <1>2, <2>3, <2>4
<1>5. ASSUME NEW s \in inbox[m], ApplyFile(m, s)
      PROVE  IsTree(disk'[n])
  <2> DEFINE p == log[s].path
             tree == WithFile(disk[m], p, log[s].content, FreshStamp(m, p))
  <2>1. p \in Paths
    BY <1>3, <1>5 DEF ApplyFile
  <2>2. CanWriteFile(disk[m], p) /\ disk' = [disk EXCEPT ![m] = tree]
    BY <1>5 DEF ApplyFile
  <2>3. IsTree(tree)
    BY <1>1, <2>1, <2>2, WithFileTree
  <2>4. QED
    BY <1>2, <2>2, <2>3
<1>6. ASSUME NEW s \in inbox[m], ApplyDeletion(m, s)
      PROVE  IsTree(disk'[n])
  <2> DEFINE tree == AfterDeletion(disk[m], log[s].path, log[s].entry)
  <2>1. log[s].path \in Paths
    BY <1>3, <1>6 DEF ApplyDeletion
  <2>2. disk' = [disk EXCEPT ![m] = tree] \/ disk' = disk
    BY <1>6 DEF ApplyDeletion
  <2>3. IsTree(tree)
    BY <1>1, <2>1, AfterDeletionTree
  <2>4. QED
    BY <1>1, <1>2, <2>2, <2>3
<1>7. CASE Start(m) \/ Scan(m) \/ ReadChanges(m) \/ Fetch(m) \/ RecordFile(m)
           \/ Crash(m) \/ CrashInSave(m) \/ ReadFails(m) \/ PushRefused(m)
           \/ FetchFails(m) \/ RecordFails(m) \/ Save(m) \/ SaveFails(m)
           \/ Push(m) \/ PushUnanswered(m)
           \/ \E s \in inbox[m] : SkipOwn(m, s)
  <2>1. disk' = disk
    BY <1>7 DEF Start, Scan, ReadChanges, Fetch, RecordFile, Crash, CrashInSave, ReadFails,
                PushRefused, FetchFails, RecordFails, Save, SaveFails, Push, PushUnanswered,
                SkipOwn
  <2>2. QED
    BY <1>1, <2>1
<1>8. ASSUME NEW s \in inbox[m], ApplyFails(m, s)
      PROVE  IsTree(disk'[n])
  BY <1>1, <1>2, <1>8, HalfMadeFolders, SomeFoldersTree
<1>9. QED
  BY <1>4, <1>5, <1>6, <1>7, <1>8 DEF LoopOrCrash, Loop, PushPhase, ApplyPhase

(* A machine whose cycle ended keeps nothing of it.                        *)
LEMMA EndedCycleOK ==
  ASSUME TypeOK, Types', NEW m \in Machines, NEW phase \in {"idle", "down"},
         EndCycle(m, phase), last'[m] \in 0 .. Len(log'), saved'[m].last \in 0 .. Len(log')
  PROVE  CycleOK(m)'
BY DEF TypeOK, Types, EndCycle, CycleOK

LEMMA LoopCycles ==
  ASSUME TypeOK, Types', NEW m \in Machines, LoopOrCrash(m)
  PROVE  CycleOK(m)'
<1> USE DEF TypeOK
<1>1. /\ CycleOK(m)
      /\ last[m] \in 0 .. Len(log) /\ saved[m].last \in 0 .. Len(log)
      /\ Len(log) \in Nat
  BY DEF Types, CycleOK, SyncState
<1>2. CASE Start(m)
  BY <1>1, <1>2 DEF Start, Types, CycleOK, cycle
<1>3. CASE Crash(m)
  BY <1>1, <1>3, EndedCycleOK DEF Crash, Types
<1>4. CASE CrashInSave(m)
  <2>1. EndCycle(m, "down") /\ last'[m] = 0 /\ saved'[m].last = 0 /\ log' = log
    BY <1>4 DEF CrashInSave, Types, FreshState
  <2>2. QED
    BY <1>1, <2>1, EndedCycleOK
<1>5. CASE Scan(m)
  <2>1. \A e \in outbox'[m] : e.origin = m
    <3>1. ScanOf(disk[m]) \in [Paths -> Entry]
      BY ScanType DEF Types
    <3>2. LocalChanges(entries[m], ScanOf(disk[m]), m) \subseteq {e \in Event : e.origin = m}
      BY <3>1, LocalChangesType DEF Types
    <3>3. QED
      BY <1>5, <3>2 DEF Scan, Types
  <2>2. QED
    BY <1>1, <1>5, <2>1 DEF Scan, Types, CycleOK
<1>6. CASE ReadChanges(m)
  <2>1. \A e \in outbox'[m] : e.origin = m
    <3>1. \A c \in outbox[m] : WithContent(m, c).origin = m
      BY <1>1 DEF WithContent, CycleOK, Types, Event
    <3>2. QED
      BY <1>6, <3>1 DEF ReadChanges, Types
  <2>2. QED
    BY <1>1, <1>6, <2>1 DEF ReadChanges, Types, CycleOK
<1>7. CASE Push(m)
  <2>1. Len(log') = Len(log) + 1
    BY <1>7 DEF Push, NextToPush, Types
  <2>2. last'[m] = Len(log')
    BY <1>1, <1>7, <2>1 DEF Push, Later, Types
  <2>3. inbox'[m] = {} /\ outbox'[m] \subseteq outbox[m]
    BY <1>1, <1>7 DEF Push, Types, CycleOK
  <2>4. saved'[m] = saved[m] /\ pc'[m] = pc[m] /\ writing'[m] = writing[m] /\ pc[m] = "pushing"
    BY <1>7 DEF Push
  <2>5. QED
    BY <1>1, <2>1, <2>2, <2>3, <2>4 DEF CycleOK
<1>8. CASE PushUnanswered(m)
  <2>1. Len(log') = Len(log) + 1
    BY <1>8 DEF PushUnanswered, NextToPush, Types
  <2>2. QED
    BY <1>1, <1>8, <2>1, EndedCycleOK DEF PushUnanswered
<1>9. CASE ReadFails(m) \/ PushRefused(m) \/ FetchFails(m) \/ RecordFails(m) \/ SaveFails(m)
  BY <1>1, <1>9, EndedCycleOK DEF ReadFails, PushRefused, FetchFails, RecordFails, SaveFails
<1>10. CASE Save(m)
  BY <1>1, <1>10, EndedCycleOK DEF Save, Types
<1>11. CASE Fetch(m)
  <2>1. EventsSince(last[m]) \subseteq (last[m] + 1) .. Len(log)
    BY <1>1 DEF EventsSince
  <2>2. QED
    BY <1>1, <1>11, <2>1 DEF Fetch, Types, CycleOK
<1>12. CASE RecordFile(m)
  BY <1>1, <1>12 DEF RecordFile, Types, CycleOK
<1>13. ASSUME NEW s \in inbox[m], Take(m, s)
       PROVE  /\ last'[m] = s /\ s \in 1 .. Len(log) /\ outbox[m] = {} /\ writing[m] = 0
              /\ inbox[m] \ {s} \subseteq (s + 1) .. Len(log)
              /\ pc[m] = "applying"
  BY <1>1, <1>13, TakenIsEvent DEF Take, NextToApply, Later, Types, CycleOK
<1>14. CASE \E s \in inbox[m] : SkipOwn(m, s)
  BY <1>1, <1>13, <1>14 DEF SkipOwn, Types, CycleOK
<1>15. CASE \E s \in inbox[m] : ApplyFails(m, s)
  <2>1. PICK s \in inbox[m] : ApplyFails(m, s)
    BY <1>15
  <2>2. /\ Take(m, s) /\ EndCycle(m, "idle") /\ log' = log /\ saved' = saved
    BY <2>1 DEF ApplyFails, TakeRemote
  <2>3. last'[m] \in 0 .. Len(log')
    BY <1>1, <1>13, <2>2
  <2>4. QED
    BY <1>1, <2>2, <2>3, EndedCycleOK
<1>16. ASSUME NEW s \in inbox[m], Applies(m, s),
              \/ pc'[m] = "applying" /\ writing'[m] = 0
              \/ pc'[m] = "recording" /\ writing'[m] # 0
       PROVE  CycleOK(m)'
  <2>1. Take(m, s)
    BY <1>16 DEF Applies, TakeRemote
  <2>2. /\ inbox'[m] = inbox[m] \ {s} /\ log' = log /\ outbox' = outbox /\ saved' = saved
    BY <1>16 DEF Applies, Types
  <2>3. QED
    BY <1>1, <1>13, <1>16, <2>1, <2>2 DEF CycleOK
<1>17. CASE \E s \in inbox[m] : ApplyFolder(m, s) \/ ApplyDeletion(m, s)
  <2>1. PICK s \in inbox[m] : Applies(m, s) /\ pc' = pc /\ writing' = writing
    BY <1>17 DEF ApplyFolder, ApplyDeletion
  <2>2. QED
    BY <1>13, <1>16, <2>1 DEF Applies, TakeRemote
<1>18. CASE \E s \in inbox[m] : ApplyFile(m, s)
  <2>1. PICK s \in inbox[m] : ApplyFile(m, s)
    BY <1>18
  <2>2. Applies(m, s)
    BY <2>1 DEF ApplyFile
  <2>3. log[s].path \in Paths
    BY <2>2, TakenIsEvent DEF Applies, TakeRemote, Take, Event
  <2>4. log[s].path # 0
    BY <2>3 DEF Paths
  <2>5. pc'[m] = "recording" /\ writing'[m] # 0
    BY <2>1, <2>4 DEF ApplyFile, Types
  <2>6. QED
    BY <1>16, <2>2, <2>5
<1>19. QED
  BY <1>2, <1>3, <1>4, <1>5, <1>6, <1>7, <1>8, <1>9, <1>10, <1>11, <1>12, <1>14,
     <1>15, <1>17, <1>18 DEF LoopOrCrash, Loop, PushPhase, ApplyPhase

(* A longer log is as good.                                                *)
LEMMA UntouchedCycleOK ==
  ASSUME Types, NEW n \in Machines, CycleOK(n), Untouched(n),
         Len(log') \in Nat, Len(log) <= Len(log')
  PROVE  CycleOK(n)'
BY DEF Types, SyncState, CycleOK, Untouched

-----------------------------------------------------------------------------
LEMMA TypeOKInit == Init => TypeOK
<1> SUFFICES ASSUME Init PROVE TypeOK
  OBVIOUS
<1>1. Types
  BY InitTypes
<1>2. \A m \in Machines : CycleOK(m)
  BY DEF Init, CycleOK, FreshState
<1>3. \A m \in Machines : IsTree(disk[m])
  BY DEF Init, IsTree, EmptyTree, Absent
<1>4. QED
  BY <1>1, <1>2, <1>3 DEF TypeOK

LEMMA TypeOKStep == TypeOK /\ [Next]_vars => TypeOK'
<1> SUFFICES ASSUME TypeOK, [Next]_vars PROVE TypeOK'
  OBVIOUS
<1>1. Types
  BY DEF TypeOK
<1>2. CASE UserStep
  <2>1. Types'
    BY <1>1, <1>2, UserTypes
  <2>2. UNCHANGED <<log, saved, pc, last, cycle>>
    BY <1>2 DEF UserStep, UserWrites, UserMakesFolder, UserRemoves, Edit
  <2>3. \A n \in Machines : CycleOK(n)'
    BY <2>2 DEF TypeOK, CycleOK, cycle
  <2>4. QED
    BY <1>2, <2>1, <2>3, UserTrees DEF TypeOK
<1>3. ASSUME NEW m \in Machines, LoopOrCrash(m)
      PROVE  TypeOK'
  <2>1. Types'
    BY <1>3, LoopTypes
  <2>2. ASSUME NEW n \in Machines
        PROVE  CycleOK(n)'
    <3>1. CASE n = m
      BY <1>3, <2>1, <3>1, LoopCycles
    <3>2. CASE n # m
      <4>1. Untouched(n)
        BY <1>1, <1>3, <3>2, OthersUntouched
      <4>2. Len(log') \in Nat /\ Len(log) <= Len(log')
        BY <1>1, <1>3, LogPrefix
      <4>3. QED
        BY <1>1, <4>1, <4>2, UntouchedCycleOK DEF TypeOK
    <3>3. QED
      BY <3>1, <3>2
  <2>3. QED
    BY <1>3, <2>1, <2>2, LoopTrees DEF TypeOK
<1>4. CASE UNCHANGED vars
  BY <1>1, <1>4 DEF TypeOK, Types, CycleOK, IsTree, vars, cycle
<1>5. QED
  BY <1>2, <1>3, <1>4 DEF Next, LoopOrCrash

(* The variables of the loops keep their types, a cycle's variables go     *)
(* with its phase, a cursor and the events to apply stay within the log,   *)
(* and every tree stays a tree: nothing is left standing in a folder that  *)
(* was removed, and no file turns into a folder that holds something.      *)
THEOREM TypeCorrect == Spec => []TypeOK
BY TypeOKInit, TypeOKStep, PTL DEF Spec

-----------------------------------------------------------------------------
(* What the cursor, last_remote_seq, says of the events a machine has      *)
(* looked at.                                                              *)

(* MissedOnlyBehindOwnPush, of a cursor at n.                              *)
SeenUpTo(m, n) ==
  \A s \in Remote(m) :
    s <= n /\ s \notin applied[m] \cup failed[m] => \E t \in Own(m) : s < t

(* The events to apply are all of those between the cursor and the last of *)
(* them: applying them in order skips none.                                *)
NoGap(m) ==
  \A s \in inbox[m], n \in 1 .. Len(log) : last[m] < n /\ n < s => n \in inbox[m]

(* A restart takes the cursor from the state file, so it holds there too.  *)
CursorInv ==
  \A m \in Machines :
    SeenUpTo(m, last[m]) /\ SeenUpTo(m, saved[m].last) /\ NoGap(m)

-----------------------------------------------------------------------------
(* How a step changes what the log says of a machine's own and remote      *)
(* events: an event of m is new to the log, or none is.                    *)
LEMMA RemoteKept ==
  ASSUME TypeOK, NEW m \in Machines, LoopOrCrash(m), NEW n \in Machines
  PROVE  /\ Own(n) \subseteq Own(n)'
         /\ \A s \in Remote(n)' : s <= Len(log) => s \in Remote(n)
         /\ log' # log => Len(log') = Len(log) + 1 /\ Len(log') \in Own(m)'
<1>1. /\ Len(log) \in Nat /\ Len(log') \in Nat /\ Len(log) <= Len(log')
      /\ \A s \in 1 .. Len(log) : s \in 1 .. Len(log') /\ log'[s] = log[s]
  BY LogPrefix DEF TypeOK
<1>2. Own(n) \subseteq Own(n)' /\ \A s \in Remote(n)' : s <= Len(log) => s \in Remote(n)
  BY <1>1 DEF Own, Remote
<1>3. ASSUME log' # log
      PROVE  Len(log') = Len(log) + 1 /\ Len(log') \in Own(m)'
  <2>1. PICK e \in outbox[m] : log' = Append(log, e)
    BY <1>3, LogGrows DEF TypeOK
  <2>2. e.origin = m /\ log \in Seq(Event)
    BY DEF TypeOK, Types, CycleOK
  <2>3. Len(log') = Len(log) + 1 /\ log'[Len(log) + 1] = e
    BY <2>1, <2>2
  <2>4. QED
    BY <1>1, <2>2, <2>3 DEF Own
<1>4. QED
  BY <1>2, <1>3

(* What was seen up to a cursor within the log stays seen.                 *)
LEMMA SeenStays ==
  ASSUME TypeOK, NEW m \in Machines, LoopOrCrash(m), NEW n \in Machines,
         NEW k, k \in 0 .. Len(log), SeenUpTo(n, k),
         applied[n] \cup failed[n] \subseteq applied'[n] \cup failed'[n]
  PROVE  \A s \in Remote(n)' :
           s <= k /\ s \notin applied'[n] \cup failed'[n] => \E t \in Own(n)' : s < t
<1>1. Len(log) \in Nat
  BY DEF TypeOK, Types
<1>2. ASSUME NEW s \in Remote(n)', s <= k, s \notin applied'[n] \cup failed'[n]
      PROVE  \E t \in Own(n)' : s < t
  <2>1. s \in Nat /\ s <= Len(log)
    BY <1>1, <1>2 DEF Remote
  <2>2. s \in Remote(n)
    BY <1>2, <2>1, RemoteKept
  <2>3. \E t \in Own(n) : s < t
    BY <1>2, <2>2 DEF SeenUpTo
  <2>4. QED
    BY <2>3, RemoteKept
<1>3. QED
  BY <1>2

(* Nothing looked at is forgotten. *)
LEMMA LookedAtStays ==
  ASSUME Types, NEW m \in Machines, LoopOrCrash(m), NEW n \in Machines
  PROVE  applied[n] \subseteq applied'[n] /\ failed[n] \subseteq failed'[n]
<1>1. CASE Start(m) \/ Scan(m) \/ ReadChanges(m) \/ Fetch(m) \/ RecordFile(m)
           \/ Crash(m) \/ CrashInSave(m) \/ ReadFails(m) \/ PushRefused(m)
           \/ FetchFails(m) \/ RecordFails(m) \/ Save(m) \/ SaveFails(m)
           \/ Push(m) \/ PushUnanswered(m)
           \/ \E s \in inbox[m] : SkipOwn(m, s)
  BY <1>1 DEF Start, Scan, ReadChanges, Fetch, RecordFile, Crash, CrashInSave, ReadFails,
              PushRefused, FetchFails, RecordFails, Save, SaveFails, Push, PushUnanswered,
              SkipOwn
<1>2. CASE \E s \in inbox[m] : ApplyFails(m, s)
  BY <1>2 DEF ApplyFails, Types
<1>3. CASE \E s \in inbox[m] : ApplyFolder(m, s) \/ ApplyFile(m, s) \/ ApplyDeletion(m, s)
  <2>1. PICK s \in inbox[m] : Applies(m, s)
    BY <1>3 DEF ApplyFolder, ApplyFile, ApplyDeletion
  <2>2. QED
    BY <2>1 DEF Applies, Types
<1>4. QED
  BY <1>1, <1>2, <1>3 DEF LoopOrCrash, Loop, PushPhase, ApplyPhase

-----------------------------------------------------------------------------
(* Taking the next event leaves no gap and passes only what is looked at.  *)
LEMMA TakeSees ==
  ASSUME TypeOK, CursorInv, NEW m \in Machines, LoopOrCrash(m),
         NEW s \in inbox[m], Take(m, s), log' = log, saved' = saved,
         inbox'[m] = inbox[m] \ {s} \/ inbox'[m] = {},
         log[s].origin = m \/ s \in applied'[m] \cup failed'[m]
  PROVE  SeenUpTo(m, last[m])' /\ NoGap(m)'
<1>1. /\ s \in 1 .. Len(log) /\ last[m] < s /\ last[m] \in Nat /\ Len(log) \in Nat
      /\ inbox[m] \subseteq Nat
  BY TakenIsEvent DEF TypeOK, Types, Take
<1>2. last'[m] = s
  BY <1>1 DEF Take, Later, TypeOK, Types
<1>3. \A n \in 1 .. Len(log) : last[m] < n => s <= n
  BY <1>1 DEF Take, NextToApply, CursorInv, NoGap
<1>4. SeenUpTo(m, last[m])'
  <2>1. ASSUME NEW n \in Remote(m)', n <= s, n \notin applied'[m] \cup failed'[m]
        PROVE  \E t \in Own(m)' : n < t
    <3>1. n \in 1 .. Len(log) /\ log[n].origin # m
      BY <2>1 DEF Remote
    <3>2. n # s
      BY <2>1, <3>1
    <3>3. n <= last[m]
      BY <1>1, <1>3, <2>1, <3>1, <3>2
    <3>4. n \in Remote(m) /\ n \notin applied[m] \cup failed[m]
      BY <2>1, <3>1, LookedAtStays DEF Remote, TypeOK
    <3>5. \E t \in Own(m) : n < t
      BY <3>3, <3>4 DEF CursorInv, SeenUpTo
    <3>6. QED
      BY <3>5 DEF Own
  <2>2. QED
    BY <1>2, <2>1 DEF SeenUpTo
<1>5. NoGap(m)'
  <2>1. ASSUME NEW i \in inbox'[m], NEW n \in 1 .. Len(log), s < n, n < i
        PROVE  n \in inbox'[m]
    <3>1. i \in inbox[m] /\ inbox'[m] = inbox[m] \ {s}
      BY <2>1
    <3>2. last[m] < n
      BY <1>1, <2>1
    <3>3. n \in inbox[m]
      BY <2>1, <3>1, <3>2 DEF CursorInv, NoGap
    <3>4. n # s
      BY <1>1, <2>1
    <3>5. QED
      BY <3>1, <3>3, <3>4
  <2>2. QED
    BY <1>2, <2>1 DEF NoGap
<1>6. QED
  BY <1>4, <1>5

(* The other steps of a loop move the cursor behind an event of the        *)
(* machine's own, back to where the state file has it, or not at all.      *)
LEMMA OtherwiseSees ==
  ASSUME TypeOK, CursorInv, NEW m \in Machines, LoopOrCrash(m),
         \/ last'[m] \in {last[m], saved[m].last, 0}
         \/ last'[m] = Len(log') /\ log' # log
  PROVE  SeenUpTo(m, last[m])'
<1>1. /\ last[m] \in 0 .. Len(log) /\ saved[m].last \in 0 .. Len(log)
      /\ SeenUpTo(m, last[m]) /\ SeenUpTo(m, saved[m].last)
      /\ Len(log) \in Nat
  BY DEF TypeOK, Types, SyncState, CycleOK, CursorInv
<1>2. applied[m] \cup failed[m] \subseteq applied'[m] \cup failed'[m]
  BY LookedAtStays DEF TypeOK
<1>3. CASE last'[m] \in {last[m], saved[m].last}
  BY <1>1, <1>2, <1>3, SeenStays DEF SeenUpTo
<1>4. CASE last'[m] = 0
  BY <1>4 DEF SeenUpTo, Remote
<1>5. CASE last'[m] = Len(log') /\ log' # log
  <2>1. Len(log') = Len(log) + 1 /\ Len(log') \in Own(m)'
    BY <1>5, RemoteKept
  <2>2. ASSUME NEW s \in Remote(m)', s <= Len(log')
        PROVE  s < Len(log')
    BY <2>1, <2>2, <1>1 DEF Own, Remote
  <2>3. QED
    BY <1>5, <2>1, <2>2 DEF SeenUpTo
<1>6. QED
  BY <1>3, <1>4, <1>5

LEMMA NoGapStays ==
  ASSUME TypeOK, CursorInv, NEW m \in Machines, LoopOrCrash(m), NEW n \in Machines,
         (inbox'[n] = inbox[n] /\ last'[n] = last[n]) \/ inbox'[n] = {}
  PROVE  NoGap(n)'
<1>1. CASE inbox'[n] = {}
  BY <1>1 DEF NoGap
<1>2. CASE inbox'[n] = inbox[n] /\ last'[n] = last[n]
  <2>1. Len(log) \in Nat /\ inbox[n] \subseteq 1 .. Len(log) /\ Len(log') \in Nat
    BY LogPrefix DEF TypeOK, Types, CycleOK
  <2>2. ASSUME NEW s \in inbox'[n], NEW k \in 1 .. Len(log'), last'[n] < k, k < s
        PROVE  k \in inbox'[n]
    <3>1. k \in 1 .. Len(log)
      BY <1>2, <2>1, <2>2
    <3>2. QED
      BY <1>2, <2>2, <3>1 DEF CursorInv, NoGap
  <2>3. QED
    BY <2>2 DEF NoGap
<1>3. QED
  BY <1>1, <1>2

LEMMA LoopCursor ==
  ASSUME TypeOK, TypeOK', CursorInv, NEW m \in Machines, LoopOrCrash(m)
  PROVE  SeenUpTo(m, last[m])' /\ NoGap(m)'
<1>1. /\ last[m] \in 0 .. Len(log) /\ inbox[m] \subseteq Nat /\ Len(log) \in Nat
      /\ last'[m] \in 0 .. Len(log')
      /\ SeenUpTo(m, last[m]) /\ NoGap(m)
  BY DEF TypeOK, Types, CycleOK, CursorInv
<1>2. CASE Start(m)
  <2>1. last'[m] = saved[m].last /\ inbox'[m] = {}
    BY <1>2 DEF Start, TypeOK, Types, CycleOK, cycle
  <2>2. QED
    BY <2>1, OtherwiseSees, NoGapStays
<1>3. CASE Crash(m) \/ CrashInSave(m)
  <2>1. last'[m] = 0 /\ inbox'[m] = {}
    BY <1>3 DEF Crash, CrashInSave, EndCycle, TypeOK, Types
  <2>2. QED
    BY <2>1, OtherwiseSees, NoGapStays
<1>4. CASE Scan(m) \/ ReadChanges(m) \/ ReadFails(m) \/ PushRefused(m) \/ PushUnanswered(m)
           \/ FetchFails(m) \/ RecordFile(m) \/ RecordFails(m) \/ Save(m) \/ SaveFails(m)
  <2>1. last'[m] = last[m] /\ inbox'[m] \in {inbox[m], {}}
    BY <1>4 DEF Scan, ReadChanges, ReadFails, PushRefused, PushUnanswered, FetchFails,
                RecordFile, RecordFails, Save, SaveFails, EndCycle, TypeOK, Types
  <2>2. QED
    BY <2>1, OtherwiseSees, NoGapStays
<1>5. CASE Push(m)
  <2>1. log' # log /\ inbox'[m] = {}
    <3>1. PICK e \in outbox[m] : log' = Append(log, e)
      BY <1>5 DEF Push
    <3>2. Len(Append(log, e)) # Len(log)
      BY <1>1 DEF TypeOK, Types
    <3>3. inbox'[m] = {}
      BY <1>5 DEF Push, TypeOK, CycleOK
    <3>4. QED
      BY <3>1, <3>2, <3>3
  <2>2. Len(log') = Len(log) + 1
    BY <2>1, RemoteKept
  <2>3. last'[m] = Len(log')
    BY <1>1, <1>5, <2>2 DEF Push, Later, TypeOK, Types
  <2>4. QED
    BY <2>1, <2>3, OtherwiseSees, NoGapStays
<1>6. CASE Fetch(m)
  <2>1. log' = log /\ last'[m] = last[m] /\ inbox'[m] = EventsSince(last[m])
    BY <1>6 DEF Fetch, TypeOK, Types
  <2>2. NoGap(m)'
    <3>1. FetchLimit \in Nat
      BY SyncAssumption
    <3>2. QED
      BY <1>1, <2>1, <3>1 DEF EventsSince, NoGap
  <2>3. QED
    BY <2>1, <2>2, OtherwiseSees
<1>7. CASE \E s \in inbox[m] : SkipOwn(m, s)
  <2>1. PICK s \in inbox[m] : SkipOwn(m, s)
    BY <1>7
  <2>2. /\ Take(m, s) /\ log[s].origin = m /\ log' = log /\ saved' = saved
        /\ inbox'[m] = inbox[m] \ {s}
    BY <2>1 DEF SkipOwn, TypeOK, Types
  <2>3. QED
    BY <2>2, TakeSees
<1>8. CASE \E s \in inbox[m] : ApplyFails(m, s)
  <2>1. PICK s \in inbox[m] : ApplyFails(m, s)
    BY <1>8
  <2>2. Take(m, s) /\ log' = log /\ saved' = saved /\ inbox'[m] = {} /\ s \in failed'[m]
    BY <2>1 DEF ApplyFails, TakeRemote, EndCycle, TypeOK, Types
  <2>3. QED
    BY <2>2, TakeSees
<1>9. CASE \E s \in inbox[m] : ApplyFolder(m, s) \/ ApplyFile(m, s) \/ ApplyDeletion(m, s)
  <2>1. PICK s \in inbox[m] : Applies(m, s)
    BY <1>9 DEF ApplyFolder, ApplyFile, ApplyDeletion
  <2>2. /\ Take(m, s) /\ log' = log /\ saved' = saved
        /\ inbox'[m] = inbox[m] \ {s} /\ s \in applied'[m]
    BY <2>1 DEF Applies, TakeRemote, TypeOK, Types
  <2>3. QED
    BY <2>2, TakeSees
<1>10. QED
  BY <1>2, <1>3, <1>4, <1>5, <1>6, <1>7, <1>8, <1>9
     DEF LoopOrCrash, Loop, PushPhase, ApplyPhase

(* The state file keeps an old cursor, the present one or the first.       *)
LEMMA SavedCursor ==
  ASSUME TypeOK, CursorInv, NEW m \in Machines, LoopOrCrash(m)
  PROVE  saved'[m].last \in {saved[m].last, last[m], 0}
<1>1. CASE Save(m) \/ CrashInSave(m)
  BY <1>1 DEF Save, CrashInSave, FreshState, TypeOK, Types
<1>2. CASE Start(m) \/ Scan(m) \/ ReadChanges(m) \/ Fetch(m) \/ RecordFile(m)
           \/ Crash(m) \/ ReadFails(m) \/ PushRefused(m)
           \/ FetchFails(m) \/ RecordFails(m) \/ SaveFails(m) \/ Push(m) \/ PushUnanswered(m)
           \/ \E s \in inbox[m] : SkipOwn(m, s) \/ ApplyFails(m, s) \/ ApplyFolder(m, s)
                                  \/ ApplyFile(m, s) \/ ApplyDeletion(m, s)
  <2>1. saved' = saved
    BY <1>2 DEF Start, Scan, ReadChanges, Fetch, RecordFile, Crash, ReadFails,
                PushRefused, FetchFails, RecordFails, SaveFails, Push, PushUnanswered,
                SkipOwn, ApplyFails, ApplyFolder, ApplyFile, ApplyDeletion, Applies
  <2>2. QED
    BY <2>1
<1>3. QED
  BY <1>1, <1>2 DEF LoopOrCrash, Loop, PushPhase, ApplyPhase

-----------------------------------------------------------------------------
LEMMA CursorInvInit == Init => CursorInv
BY DEF Init, CursorInv, SeenUpTo, NoGap, Remote, FreshState

LEMMA CursorInvStep == TypeOK /\ TypeOK' /\ CursorInv /\ [Next]_vars => CursorInv'
<1> SUFFICES ASSUME TypeOK, TypeOK', CursorInv, [Next]_vars PROVE CursorInv'
  OBVIOUS
<1>1. CASE UserStep \/ UNCHANGED vars
  <2>1. UNCHANGED <<log, saved, last, inbox, applied, failed>>
    BY <1>1 DEF UserStep, UserWrites, UserMakesFolder, UserRemoves, Edit, vars, cycle
  <2>2. QED
    BY <2>1 DEF CursorInv, SeenUpTo, NoGap, Own, Remote
<1>2. ASSUME NEW m \in Machines, LoopOrCrash(m), NEW n \in Machines
      PROVE  SeenUpTo(n, last[n])' /\ SeenUpTo(n, saved[n].last)' /\ NoGap(n)'
  <2>1. /\ applied[n] \cup failed[n] \subseteq applied'[n] \cup failed'[n]
        /\ last[n] \in 0 .. Len(log) /\ saved[n].last \in 0 .. Len(log)
        /\ SeenUpTo(n, last[n]) /\ SeenUpTo(n, saved[n].last)
    <3>1. applied[n] \subseteq applied'[n] /\ failed[n] \subseteq failed'[n]
      BY <1>2, LookedAtStays DEF TypeOK
    <3>2. last[n] \in 0 .. Len(log) /\ saved[n].last \in 0 .. Len(log)
      BY DEF TypeOK, Types, SyncState, CycleOK
    <3>3. QED
      BY <3>1, <3>2 DEF CursorInv
  <2>2. \A k \in {last[n], saved[n].last, 0} :
          \A s \in Remote(n)' :
            s <= k /\ s \notin applied'[n] \cup failed'[n] => \E t \in Own(n)' : s < t
    <3>1. \A s \in Remote(n)' : ~(s <= 0)
      BY DEF Remote
    <3>2. QED
      BY <1>2, <2>1, <3>1, SeenStays
  <2>3. CASE n = m
    <3>1. SeenUpTo(n, saved[n].last)'
      BY <1>2, <2>2, <2>3, SavedCursor DEF SeenUpTo
    <3>2. QED
      BY <1>2, <2>3, <3>1, LoopCursor
  <2>4. CASE n # m
    <3>1. Untouched(n)
      BY <1>2, <2>4, OthersUntouched DEF TypeOK
    <3>2. NoGap(n)'
      BY <1>2, <3>1, NoGapStays DEF Untouched
    <3>3. last'[n] = last[n] /\ saved'[n].last = saved[n].last
      BY <3>1 DEF Untouched
    <3>4. QED
      BY <2>2, <3>2, <3>3 DEF SeenUpTo
  <2>5. QED
    BY <2>3, <2>4
<1>3. QED
  BY <1>1, <1>2 DEF Next, LoopOrCrash, CursorInv

LEMMA AlwaysCursorInv == Spec => []CursorInv
BY TypeCorrect, CursorInvInit, CursorInvStep, PTL DEF Spec

(* For any number of machines, paths and faults: an event of another       *)
(* machine that the cursor passed unseen lies before one the machine       *)
(* itself pushed. fetch_remote_events and the loop over its answer lose    *)
(* nothing; only push_local_event, moving the cursor to the seq of what it *)
(* pushed (file_sync.rs:163-170), does.                                    *)
THEOREM MissedOnlyBehindPush == Spec => []MissedOnlyBehindOwnPush
<1>1. CursorInv => MissedOnlyBehindOwnPush
  BY DEF CursorInv, SeenUpTo, MissedOnlyBehindOwnPush
<1>2. QED
  BY AlwaysCursorInv, <1>1, PTL

(* So a machine that never published anything missed nothing: NothingMissed*)
(* fails only of machines whose own files are published.                   *)
COROLLARY ReceiversMissNothing ==
  Spec => [](\A m \in Machines :
               Own(m) = {} => \A s \in Remote(m) :
                                s <= last[m] => s \in applied[m] \cup failed[m])
<1>1. MissedOnlyBehindOwnPush =>
        \A m \in Machines :
          Own(m) = {} => \A s \in Remote(m) :
                           s <= last[m] => s \in applied[m] \cup failed[m]
  BY DEF MissedOnlyBehindOwnPush
<1>2. QED
  BY MissedOnlyBehindPush, <1>1, PTL

-----------------------------------------------------------------------------
(* The log replayed. Replay is a recursive function on the events of the   *)
(* log, so it is reasoned about along the growth of the log: there is one  *)
(* function that satisfies its definition, and each event extends it.      *)

IsReplay(f, l) ==
  f = [n \in 0 .. Len(l) |-> IF n = 0 THEN EmptyTree ELSE After(f[n - 1], l[n])]

OneReplay(l) ==
  /\ \E f : IsReplay(f, l)
  /\ \A f, g : IsReplay(f, l) /\ IsReplay(g, l) => f = g

LEMMA ReplayExtends ==
  ASSUME NEW l \in Seq(Event), NEW e \in Event, NEW f, IsReplay(f, l)
  PROVE  IsReplay([n \in 0 .. Len(l) + 1 |->
                     IF n = Len(l) + 1 THEN After(f[Len(l)], e) ELSE f[n]], Append(l, e))
<1> DEFINE k == Append(l, e)
           g == [n \in 0 .. Len(l) + 1 |-> IF n = Len(l) + 1 THEN After(f[Len(l)], e) ELSE f[n]]
<1>1. /\ Len(l) \in Nat /\ Len(k) = Len(l) + 1 /\ k[Len(l) + 1] = e
      /\ \A n \in 1 .. Len(l) : k[n] = l[n]
  OBVIOUS
<1>2. \A n \in 0 .. Len(l) : f[n] = IF n = 0 THEN EmptyTree ELSE After(f[n - 1], l[n])
  BY DEF IsReplay
<1>3. ASSUME NEW n \in 0 .. Len(l) + 1
      PROVE  g[n] = IF n = 0 THEN EmptyTree ELSE After(g[n - 1], k[n])
  <2>1. CASE n = 0
    BY <1>1, <1>2, <2>1
  <2>2. CASE n \in 1 .. Len(l)
    <3>1. n - 1 \in 0 .. Len(l) /\ n - 1 # Len(l) + 1 /\ n # 0 /\ n # Len(l) + 1
      BY <1>1, <2>2
    <3>2. g[n - 1] = f[n - 1] /\ g[n] = f[n]
      BY <1>1, <2>2, <3>1
    <3>3. QED
      BY <1>1, <1>2, <2>2, <3>1, <3>2
  <2>3. CASE n = Len(l) + 1
    <3>1. n - 1 = Len(l) /\ g[n - 1] = f[Len(l)] /\ n # 0
      BY <1>1, <2>3
    <3>2. QED
      BY <1>1, <2>3, <3>1
  <2>4. QED
    BY <1>1, <2>1, <2>2, <2>3
<1>4. g = [n \in 0 .. Len(k) |-> IF n = 0 THEN EmptyTree ELSE After(g[n - 1], k[n])]
  BY <1>1, <1>3
<1>5. QED
  BY <1>4 DEF IsReplay

LEMMA ReplayRestricts ==
  ASSUME NEW l \in Seq(Event), NEW e \in Event, NEW g, IsReplay(g, Append(l, e))
  PROVE  /\ IsReplay([n \in 0 .. Len(l) |-> g[n]], l)
         /\ g[Len(l) + 1] = After(g[Len(l)], e)
<1> DEFINE k == Append(l, e)
           f == [n \in 0 .. Len(l) |-> g[n]]
<1>1. /\ Len(l) \in Nat /\ Len(k) = Len(l) + 1 /\ k[Len(l) + 1] = e
      /\ \A n \in 1 .. Len(l) : k[n] = l[n]
  OBVIOUS
<1>2. \A n \in 0 .. Len(l) + 1 : g[n] = IF n = 0 THEN EmptyTree ELSE After(g[n - 1], k[n])
  BY <1>1 DEF IsReplay
<1>3. ASSUME NEW n \in 0 .. Len(l)
      PROVE  f[n] = IF n = 0 THEN EmptyTree ELSE After(f[n - 1], l[n])
  <2>1. CASE n = 0
    BY <1>1, <1>2, <2>1
  <2>2. CASE n # 0
    <3>1. n - 1 \in 0 .. Len(l) /\ n \in 1 .. Len(l) /\ n \in 0 .. Len(l) + 1
      BY <1>1, <2>2
    <3>2. QED
      BY <1>1, <1>2, <2>2, <3>1
  <2>3. QED
    BY <2>1, <2>2
<1>4. g[Len(l) + 1] = After(g[Len(l)], e)
  <2>1. Len(l) + 1 \in 0 .. Len(l) + 1 /\ Len(l) + 1 # 0 /\ (Len(l) + 1) - 1 = Len(l)
    BY <1>1
  <2>2. QED
    BY <1>1, <1>2, <2>1
<1>5. QED
  BY <1>3, <1>4 DEF IsReplay

LEMMA OneReplayExtends ==
  ASSUME NEW l \in Seq(Event), NEW e \in Event, OneReplay(l)
  PROVE  OneReplay(Append(l, e))
<1>1. \E f : IsReplay(f, Append(l, e))
  BY ReplayExtends DEF OneReplay
<1>2. ASSUME NEW f, NEW g, IsReplay(f, Append(l, e)), IsReplay(g, Append(l, e))
      PROVE  f = g
  <2>1. [n \in 0 .. Len(l) |-> f[n]] = [n \in 0 .. Len(l) |-> g[n]]
    <3> DEFINE F == [n \in 0 .. Len(l) |-> f[n]]
               G == [n \in 0 .. Len(l) |-> g[n]]
    <3>1. IsReplay(F, l) /\ IsReplay(G, l)
      BY <1>2, ReplayRestricts
    <3> HIDE DEF F, G
    <3>2. F = G
      BY <3>1 DEF OneReplay
    <3>3. QED
      BY <3>2 DEF F, G
  <2>2. Len(l) \in Nat /\ Len(Append(l, e)) = Len(l) + 1
    OBVIOUS
  <2>3. \A n \in 0 .. Len(l) : f[n] = g[n]
    BY <2>1, Zenon
  <2>4. f[Len(l) + 1] = g[Len(l) + 1]
    <3>1. /\ f[Len(l) + 1] = After(f[Len(l)], e)
          /\ g[Len(l) + 1] = After(g[Len(l)], e)
      BY <1>2, ReplayRestricts
    <3>2. f[Len(l)] = g[Len(l)]
      BY <2>2, <2>3
    <3>3. QED
      BY <3>1, <3>2
  <2>5. \A n \in 0 .. Len(l) + 1 : f[n] = g[n]
    BY <2>2, <2>3, <2>4
  <2>6. /\ f = [n \in 0 .. Len(l) + 1 |-> f[n]]
        /\ g = [n \in 0 .. Len(l) + 1 |-> g[n]]
    BY <1>2, <2>2 DEF IsReplay
  <2>7. QED
    BY <2>5, <2>6
<1>3. QED
  BY <1>1, <1>2 DEF OneReplay

LEMMA OneReplayInit == Init => OneReplay(log)
<1> SUFFICES ASSUME Init
             PROVE  OneReplay(log)
  OBVIOUS
<1>1. Len(log) = 0 /\ 0 .. Len(log) = {0}
  BY DEF Init
<1>2. IsReplay([n \in {0} |-> EmptyTree], log)
  BY <1>1 DEF IsReplay
<1>3. \A f, g : IsReplay(f, log) /\ IsReplay(g, log) => f = g
  BY <1>1 DEF IsReplay
<1>4. QED
  BY <1>2, <1>3 DEF OneReplay

(* The log only grows, by an event the machine that pushed it had waiting. *)
LEMMA LogExtends ==
  ASSUME TypeOK, [Next]_vars
  PROVE  \/ log' = log
         \/ \E e \in Event : \E m \in Machines :
              /\ log' = Append(log, e) /\ e.origin = m
              /\ e \in outbox[m] /\ NextToPush(m, e)
              /\ Push(m) \/ PushUnanswered(m)
<1>1. CASE UserStep
  BY <1>1 DEF UserStep, UserWrites, UserMakesFolder, UserRemoves, Edit
<1>2. ASSUME NEW m \in Machines, LoopOrCrash(m)
      PROVE  \/ log' = log
             \/ \E e \in outbox[m] :
                  NextToPush(m, e) /\ log' = Append(log, e) /\ (Push(m) \/ PushUnanswered(m))
  BY <1>2, LogGrows DEF TypeOK
<1>3. \A m \in Machines : \A e \in outbox[m] : e \in Event /\ e.origin = m
  BY DEF TypeOK, Types, CycleOK
<1>4. CASE UNCHANGED vars
  BY <1>4 DEF vars
<1>5. QED
  BY <1>1, <1>2, <1>3, <1>4 DEF Next, LoopOrCrash

LEMMA OneReplayStep == TypeOK /\ OneReplay(log) /\ [Next]_vars => OneReplay(log)'
<1> SUFFICES ASSUME TypeOK, OneReplay(log), [Next]_vars
             PROVE  OneReplay(log)'
  OBVIOUS
<1>1. CASE log' = log
  BY <1>1
<1>2. ASSUME NEW e \in Event, log' = Append(log, e)
      PROVE  OneReplay(log)'
  BY <1>2, OneReplayExtends DEF TypeOK, Types
<1>3. QED
  BY <1>1, <1>2, LogExtends

LEMMA ReplayOfLog ==
  ASSUME OneReplay(log)
  PROVE  IsReplay(Replay, log)
<1>1. PICK f : IsReplay(f, log)
  BY DEF OneReplay
<1>2. QED
  BY <1>1 DEF Replay, IsReplay

LEMMA NextReplayOfLog ==
  ASSUME OneReplay(log)'
  PROVE  IsReplay(Replay', log')
<1>1. PICK f : IsReplay(f, log')
  BY DEF OneReplay
<1>2. QED
  BY <1>1 DEF Replay, IsReplay

(* An event more: the trees before it stay what they were.                 *)
LEMMA ReplayStays ==
  ASSUME TypeOK, OneReplay(log), OneReplay(log)', [Next]_vars
  PROVE  \A n \in 0 .. Len(log) : Replay'[n] = Replay[n]
<1>1. PICK f : f = Replay
  OBVIOUS
<1>2. PICK g : g = Replay'
  OBVIOUS
<1>3. IsReplay(f, log) /\ IsReplay(g, log')
  BY <1>1, <1>2, ReplayOfLog, NextReplayOfLog
<1>4. CASE log' = log
  <2>1. f = g
    BY <1>3, <1>4 DEF OneReplay
  <2>2. QED
    BY <1>1, <1>2, <2>1
<1>5. ASSUME NEW e \in Event, log' = Append(log, e)
      PROVE  \A n \in 0 .. Len(log) : Replay'[n] = Replay[n]
  <2> DEFINE h == [n \in 0 .. Len(log) |-> g[n]]
  <2>1. IsReplay(g, Append(log, e)) /\ log \in Seq(Event)
    BY <1>3, <1>5 DEF TypeOK, Types
  <2>2. IsReplay(h, log)
    BY <2>1, ReplayRestricts
  <2>3. \A n \in 0 .. Len(log) : h[n] = g[n]
    OBVIOUS
  <2> HIDE DEF h
  <2>4. h = f
    BY <1>3, <2>2 DEF OneReplay
  <2>5. QED
    BY <1>1, <1>2, <2>3, <2>4
<1>6. QED
  BY <1>4, <1>5, LogExtends

(* The tree after an event is that event's doing.                          *)
LEMMA ReplayAt ==
  ASSUME TypeOK, OneReplay(log), NEW s \in 1 .. Len(log)
  PROVE  Replay[0] = EmptyTree /\ Replay[s] = After(Replay[s - 1], log[s])
<1>1. Len(log) \in Nat
  BY DEF TypeOK, Types
<1>2. s \in 0 .. Len(log) /\ s # 0 /\ 0 \in 0 .. Len(log)
  BY <1>1
<1>3. QED
  BY <1>2, ReplayOfLog DEF IsReplay

-----------------------------------------------------------------------------
(* Trees that look the same stay so under the same event, whatever their   *)
(* signatures.                                                             *)
LEMMA ViewIs ==
  ASSUME NEW t, NEW u
  PROVE  View(t) = View(u) <=>
           \A q \in Paths : t[q].kind = u[q].kind /\ t[q].content = u[q].content
<1> DEFINE Of(x, q) == <<x[q].kind, x[q].content>>
<1>1. View(t) = [q \in Paths |-> Of(t, q)] /\ View(u) = [q \in Paths |-> Of(u, q)]
  BY DEF View
<1>2. \A q \in Paths : Of(t, q) = Of(u, q) <=>
        t[q].kind = u[q].kind /\ t[q].content = u[q].content
  OBVIOUS
<1> HIDE DEF Of
<1>3. View(t) = View(u) <=> \A q \in Paths : Of(t, q) = Of(u, q)
  BY <1>1
<1>4. QED
  BY <1>2, <1>3

LEMMA SameFolders ==
  ASSUME NEW t, NEW u, View(t) = View(u), NEW ps
  PROVE  View(WithFolders(t, ps)) = View(WithFolders(u, ps))
BY ViewIs DEF WithFolders, Folder

LEMMA SameFile ==
  ASSUME NEW t, NEW u, View(t) = View(u), NEW p \in Paths, NEW c, NEW r, NEW s
  PROVE  View(WithFile(t, p, c, r)) = View(WithFile(u, p, c, s))
<1> DEFINE v == WithFolders(t, Ancestors[p])
           w == WithFolders(u, Ancestors[p])
<1>1. View(v) = View(w)
  BY SameFolders
<1>2. /\ WithFile(t, p, c, r) = [v EXCEPT ![p] = FileOf(c, r)]
      /\ WithFile(u, p, c, s) = [w EXCEPT ![p] = FileOf(c, s)]
  BY DEF WithFile
<1>3. DOMAIN v = Paths /\ DOMAIN w = Paths
  BY DEF WithFolders
<1>4. FileOf(c, r).kind = FileOf(c, s).kind /\ FileOf(c, r).content = FileOf(c, s).content
  BY DEF FileOf
<1> HIDE DEF v, w
<1>5. ASSUME NEW q \in Paths
      PROVE  /\ WithFile(t, p, c, r)[q] = IF q = p THEN FileOf(c, r) ELSE v[q]
             /\ WithFile(u, p, c, s)[q] = IF q = p THEN FileOf(c, s) ELSE w[q]
  BY <1>2, <1>3
<1>6. QED
  BY <1>1, <1>4, <1>5, ViewIs

LEMMA SameDeletion ==
  ASSUME NEW t, NEW u, View(t) = View(u), NEW p \in Paths, NEW kind
  PROVE  View(AfterDeletion(t, p, kind)) = View(AfterDeletion(u, p, kind))
BY ViewIs DEF AfterDeletion, Without, Absent

LEMMA SameGuards ==
  ASSUME NEW t, NEW u, View(t) = View(u), NEW p \in Paths
  PROVE  /\ CanWriteFile(t, p) <=> CanWriteFile(u, p)
         /\ CanMakeFolder(t, p) <=> CanMakeFolder(u, p)
<1>1. \A q \in Paths : t[q].kind = u[q].kind
  BY ViewIs
<1>2. Ancestors[p] \subseteq Paths
  BY TreeAssumption
<1>3. QED
  BY <1>1, <1>2 DEF CanWriteFile, CanMakeFolder, CanHold

(* What the replay does with an event, by its kind.                        *)
LEMMA AfterIs ==
  ASSUME NEW t, NEW e \in Event
  PROVE  /\ e.change = "Deleted" => After(t, e) = AfterDeletion(t, e.path, e.entry)
         /\ NeedsContent(e) => After(t, e) = IF CanWriteFile(t, e.path)
                                             THEN WithFile(t, e.path, e.content, 0) ELSE t
         /\ e.change # "Deleted" /\ e.entry = "Directory" =>
              After(t, e) = IF CanMakeFolder(t, e.path)
                            THEN WithFolders(t, Ancestors[e.path] \cup {e.path}) ELSE t
BY DEF After, NeedsContent, Event

(* What a machine does with an event is what the replay does with it.      *)
LEMMA ApplyReplays ==
  ASSUME TypeOK, "remove" \notin FaultKinds, NEW m \in Machines, NEW s \in inbox[m],
         ApplyFolder(m, s) \/ ApplyFile(m, s) \/ ApplyDeletion(m, s),
         NEW tree, View(disk[m]) = View(tree)
  PROVE  View(disk'[m]) = View(After(tree, log[s]))
<1> DEFINE e == log[s]
<1>1. e \in Event /\ e.path \in Paths
  BY TakenIsEvent DEF ApplyFolder, ApplyFile, ApplyDeletion, Applies, TakeRemote, Take, Event
<1>2. CASE ApplyFolder(m, s)
  <2>1. /\ disk'[m] = WithFolders(disk[m], Ancestors[e.path] \cup {e.path})
        /\ CanMakeFolder(disk[m], e.path) /\ e.change # "Deleted" /\ e.entry = "Directory"
    BY <1>2 DEF ApplyFolder, TypeOK, Types
  <2>2. After(tree, e) = WithFolders(tree, Ancestors[e.path] \cup {e.path})
    BY <1>1, <2>1, SameGuards, AfterIs
  <2>3. QED
    BY <2>1, <2>2, SameFolders
<1>3. CASE ApplyFile(m, s)
  <2>1. /\ disk'[m] = WithFile(disk[m], e.path, e.content, FreshStamp(m, e.path))
        /\ CanWriteFile(disk[m], e.path) /\ NeedsContent(e)
    BY <1>3 DEF ApplyFile, TypeOK, Types
  <2>2. After(tree, e) = WithFile(tree, e.path, e.content, 0)
    BY <1>1, <2>1, SameGuards, AfterIs
  <2>3. QED
    BY <1>1, <2>1, <2>2, SameFile
<1>4. CASE ApplyDeletion(m, s)
  <2>1. disk'[m] = AfterDeletion(disk[m], e.path, e.entry) /\ e.change = "Deleted"
    BY <1>4 DEF ApplyDeletion, Fault, TypeOK, Types
  <2>2. After(tree, e) = AfterDeletion(tree, e.path, e.entry)
    BY <1>1, <2>1, AfterIs
  <2>3. QED
    BY <1>1, <2>1, <2>2, SameDeletion
<1>5. QED
  BY <1>2, <1>3, <1>4

(* And one that is ruled out on the machine is ruled out in the replay.    *)
LEMMA RuledOutReplays ==
  ASSUME TypeOK, "apply" \notin FaultKinds, NEW m \in Machines, NEW s \in inbox[m],
         ApplyFails(m, s), NEW tree, View(disk[m]) = View(tree)
  PROVE  disk' = disk /\ After(tree, log[s]) = tree
<1> DEFINE e == log[s]
<1>1. e \in Event /\ e.path \in Paths
  BY TakenIsEvent DEF ApplyFails, TakeRemote, Take, Event
<1>2. /\ disk' = disk /\ e.change # "Deleted"
      /\ IF e.entry = "File" THEN ~CanWriteFile(disk[m], e.path)
                             ELSE ~CanMakeFolder(disk[m], e.path)
  BY DEF ApplyFails, RuledOut, Fault
<1>3. e.entry \in {"File", "Directory"}
  BY <1>1 DEF Event
<1>4. CASE e.entry = "File"
  BY <1>1, <1>2, <1>4, SameGuards, AfterIs DEF NeedsContent
<1>5. CASE e.entry = "Directory"
  BY <1>1, <1>2, <1>5, SameGuards, AfterIs
<1>6. QED
  BY <1>2, <1>3, <1>4, <1>5

-----------------------------------------------------------------------------
(* A machine without editors: the log replayed up to its cursor.           *)
ReplicaOf(m) ==
  /\ pc[m] # "down" => View(disk[m]) = View(Replay[last[m]])
  /\ pc[m] = "down" => disk[m] = EmptyTree /\ saved[m] = FreshState

ReplicaInv == \A m \in Machines \ Editors : ReplicaOf(m)

(* It looks at the events one after the other, none left out.              *)
LEMMA TakesTheNext ==
  ASSUME TypeOK, CursorInv, NEW m \in Machines, NEW s \in inbox[m], Take(m, s)
  PROVE  s \in 1 .. Len(log) /\ last[m] = s - 1 /\ last'[m] = s
<1>1. /\ s \in 1 .. Len(log) /\ last[m] < s /\ last[m] \in Nat /\ Len(log) \in Nat
      /\ \A t \in inbox[m] : t \in Nat /\ s <= t
  BY TakenIsEvent DEF Take, NextToApply, TypeOK, Types
<1>2. ~ last[m] + 1 < s
  <2> SUFFICES ASSUME last[m] + 1 < s
               PROVE  FALSE
    OBVIOUS
  <2>1. last[m] + 1 \in 1 .. Len(log) /\ last[m] < last[m] + 1
    BY <1>1
  <2>2. last[m] + 1 \in inbox[m]
    BY <2>1 DEF CursorInv, NoGap
  <2>3. QED
    BY <1>1, <2>2
<1>3. last'[m] = s
  BY <1>1 DEF Take, Later, TypeOK, Types
<1>4. QED
  BY <1>1, <1>2, <1>3

(* Nothing fails but pushes, answers, fetches and saves, and no machine    *)
(* without editors publishes.                                              *)
SureHands == FaultKinds \cap {"crash", "apply", "remove"} = {}

(* A step of its own loop.                                                 *)
LEMMA OwnReplica ==
  ASSUME SureHands, TypeOK, CursorInv, OneReplay(log), OneReplay(log)',
         ReceiversNeverPublish, ReceiversNeverPublish',
         NEW m \in Machines \ Editors, ReplicaOf(m), Loop(m)
  PROVE  ReplicaOf(m)'
<1>0. /\ last[m] \in 0 .. Len(log) /\ Len(log) \in Nat
      /\ \A n \in 0 .. Len(log) : Replay'[n] = Replay[n]
      /\ pc'[m] # "down"
  <2>1. [Next]_vars
    BY DEF Next
  <2>2. pc'[m] # "down"
    BY DEF Loop, PushPhase, ApplyPhase, Start, Scan, ReadChanges, ReadFails, Push, PushRefused,
       PushUnanswered, Fetch, FetchFails, SkipOwn, ApplyFolder, ApplyFile, ApplyDeletion,
       ApplyFails, Applies, TakeRemote, Take, NextToApply, RecordFile, RecordFails, Save,
       SaveFails, EndCycle, TypeOK, Types
  <2>3. QED
    BY <2>1, <2>2, ReplayStays DEF TypeOK, Types, CycleOK
<1>1. CASE Start(m)
  <2>1. disk'[m] = EmptyTree /\ last'[m] = 0
    BY <1>1 DEF Start, ReplicaOf, FreshState, TypeOK, Types
  <2>2. Replay'[0] = EmptyTree
    <3>1. 0 \in 0 .. Len(log)
      BY <1>0
    <3>2. Replay[0] = EmptyTree
      BY <3>1, ReplayOfLog DEF IsReplay
    <3>3. QED
      BY <1>0, <3>1, <3>2
  <2>3. QED
    BY <1>0, <2>1, <2>2 DEF ReplicaOf
<1>2. CASE disk'[m] = disk[m] /\ last'[m] = last[m] /\ pc[m] # "down"
  BY <1>0, <1>2 DEF ReplicaOf
<1>3. CASE Push(m) \/ PushUnanswered(m)
  <2>1. PICK e \in outbox[m] : log' = Append(log, e)
    BY <1>3 DEF Push, PushUnanswered
  <2>2. e.origin = m /\ e \in Event /\ log \in Seq(Event)
    BY DEF TypeOK, Types, CycleOK
  <2>3. Len(log) + 1 \in 1 .. Len(log') /\ log'[Len(log) + 1].origin = m
    BY <1>0, <2>1, <2>2
  <2>4. QED
    BY <2>3 DEF ReceiversNeverPublish
<1>4. ASSUME NEW s \in inbox[m], SkipOwn(m, s)
      PROVE  FALSE
  BY <1>4, TakenIsEvent DEF SkipOwn, Take, ReceiversNeverPublish
<1>5. ASSUME NEW s \in inbox[m],
             ApplyFolder(m, s) \/ ApplyFile(m, s) \/ ApplyDeletion(m, s) \/ ApplyFails(m, s)
      PROVE  ReplicaOf(m)'
  <2>1. Take(m, s) /\ pc[m] = "applying"
    BY <1>5 DEF ApplyFolder, ApplyFile, ApplyDeletion, ApplyFails, Applies, TakeRemote, Take,
                NextToApply
  <2>2. s \in 1 .. Len(log) /\ last[m] = s - 1 /\ last'[m] = s
    BY <2>1, TakesTheNext
  <2>3. Replay[s] = After(Replay[s - 1], log[s]) /\ Replay'[s] = Replay[s]
    BY <1>0, <2>2, ReplayAt
  <2>4. View(disk[m]) = View(Replay[s - 1])
    BY <2>1, <2>2 DEF ReplicaOf
  <2>5. View(disk'[m]) = View(After(Replay[s - 1], log[s]))
    BY <1>5, <2>4, ApplyReplays, RuledOutReplays DEF SureHands
  <2>6. QED
    BY <1>0, <2>2, <2>3, <2>5 DEF ReplicaOf
<1>6. CASE Scan(m) \/ ReadChanges(m) \/ ReadFails(m) \/ PushRefused(m) \/ Fetch(m)
           \/ FetchFails(m) \/ RecordFile(m) \/ RecordFails(m) \/ Save(m) \/ SaveFails(m)
  <2>1. disk' = disk /\ last' = last /\ pc[m] # "down"
    BY <1>6 DEF Scan, ReadChanges, ReadFails, PushRefused, Fetch, FetchFails,
                RecordFile, RecordFails, Save, SaveFails
  <2>2. QED
    BY <1>2, <2>1
<1>7. QED
  BY <1>1, <1>3, <1>4, <1>5, <1>6 DEF Loop, PushPhase, ApplyPhase

LEMMA ReplicaInit == Init => ReplicaInv
BY DEF Init, ReplicaInv, ReplicaOf

(* A step of anybody.                                                      *)
LEMMA ReplicaStep ==
  ASSUME SureHands
  PROVE  /\ TypeOK /\ CursorInv /\ OneReplay(log) /\ OneReplay(log)'
         /\ ReceiversNeverPublish /\ ReceiversNeverPublish'
         /\ ReplicaInv /\ [Next]_vars
         => ReplicaInv'
<1> SUFFICES ASSUME TypeOK, CursorInv, OneReplay(log), OneReplay(log)',
                    ReceiversNeverPublish, ReceiversNeverPublish', ReplicaInv, [Next]_vars,
                    NEW n \in Machines \ Editors
             PROVE  ReplicaOf(n)'
  BY DEF ReplicaInv
<1>1. /\ ReplicaOf(n) /\ last[n] \in 0 .. Len(log)
      /\ \A k \in 0 .. Len(log) : Replay'[k] = Replay[k]
  BY ReplayStays DEF ReplicaInv, TypeOK, Types, CycleOK
<1>2. CASE /\ disk'[n] = disk[n] /\ saved'[n] = saved[n]
           /\ pc'[n] = pc[n] /\ last'[n] = last[n]
  BY <1>1, <1>2 DEF ReplicaOf
<1>3. CASE UserStep
  <2>1. PICK m \in Machines, p \in Paths :
          \/ \E content \in Contents : UserWrites(m, p, content)
          \/ UserMakesFolder(m, p)
          \/ UserRemoves(m, p)
    BY <1>3 DEF UserStep
  <2>2. m \in Editors
    BY <2>1 DEF UserWrites, UserMakesFolder, UserRemoves, CanEdit
  <2>3. /\ disk'[n] = disk[n] /\ saved' = saved /\ pc' = pc /\ last' = last
    BY <2>1, <2>2 DEF UserWrites, UserMakesFolder, UserRemoves, Edit, TypeOK, Types
  <2>4. QED
    BY <1>2, <2>3
<1>4. ASSUME NEW m \in Machines, LoopOrCrash(m), n # m
      PROVE  ReplicaOf(n)'
  BY <1>2, <1>4, OthersUntouched DEF Untouched, TypeOK
<1>5. CASE Loop(n)
  BY <1>1, <1>5, OwnReplica
<1>6. ~Crash(n) /\ ~CrashInSave(n)
  BY DEF Crash, CrashInSave, Fault, SureHands
<1>7. CASE UNCHANGED vars
  BY <1>2, <1>7 DEF vars
<1>8. QED
  BY <1>3, <1>4, <1>5, <1>6, <1>7 DEF Next, LoopOrCrash

LEMMA AlwaysOneReplay == Spec => []OneReplay(log)
BY TypeCorrect, OneReplayInit, OneReplayStep, PTL DEF Spec

(* For any number of machines and editors and any tree: as long as no      *)
(* process dies and the disks do what they are asked, a machine whose users*)
(* edit nothing is, at every moment, the host's log replayed up to its     *)
(* cursor, if machines without editors publish nothing. Pushes may be      *)
(* refused, answers lost, fetches and saves fail.                          *)
THEOREM ReceiversReplay ==
  ASSUME SureHands
  PROVE  Spec /\ []ReceiversNeverPublish => []ReceiverReplaysLog
<1>1. ReplicaInv => ReceiverReplaysLog
  BY DEF ReplicaInv, ReplicaOf, ReceiverReplaysLog
<1>2. QED
  BY TypeCorrect, AlwaysCursorInv, AlwaysOneReplay, ReplicaInit, ReplicaStep, <1>1, PTL
     DEF Spec

=============================================================================
