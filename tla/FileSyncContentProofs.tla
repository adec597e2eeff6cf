------------------------- MODULE FileSyncContentProofs -------------------------
(***************************************************************************)
(* What the signatures a machine of FileSync remembers say of its files:   *)
(* their bytes are in the host's log, whatever fails and whoever edits in  *)
(* the middle of a cycle; they are the newest the machine knows of; where  *)
(* no user edits they match the disk, so that nothing is published; and    *)
(* where one machine edits, what it remembers arrives at all the others.   *)
(***************************************************************************)
EXTENDS FileSyncProofs

(* The running cycle is still to push the file at p, with the bytes that   *)
(* are there once it has read them.                                        *)
Pending(m, p) ==
  \E e \in outbox[m] :
    /\ e.path = p /\ NeedsContent(e)
    /\ pc[m] = "pushing" => e.content = disk[m][p].content

InLog(m, p) == Published(p, disk[m][p].content)

(* RememberedFilesArePublished, and what keeps it: the same of the scan of *)
(* the cycle, which becomes the remembered state when all is pushed, and   *)
(* of a file the loop has just written, whose signature is remembered next.*)
ContentOf(m, p) ==
  <<m, p>> \notin raced =>
    /\ InSync(m, p, entries[m]) => InLog(m, p)
    /\ InSync(m, p, saved[m].entries) => InLog(m, p)
    /\ InSync(m, p, scan[m]) => InLog(m, p) \/ Pending(m, p)
    /\ writing[m] = p /\ disk[m][p].kind = "File" => InLog(m, p)

ContentInv == \A m \in Machines : \A p \in Paths : ContentOf(m, p)

-----------------------------------------------------------------------------
(* What any step does to the node at a path: nothing, or no file is there  *)
(* after it, or a file with a signature nobody remembers.                  *)
Renewed(m, p) ==
  \/ disk'[m][p] = disk[m][p]
  \/ disk'[m][p].kind # "File"
  \/ disk'[m][p].stamp \notin {entries[m][p].stamp, saved[m].entries[p].stamp, scan[m][p].stamp}

LEMMA WithFoldersRenews ==
  ASSUME NEW tree \in [Paths -> Node], NEW ps, NEW q \in Paths
  PROVE  WithFolders(tree, ps)[q] = tree[q] \/ WithFolders(tree, ps)[q].kind # "File"
BY DEF WithFolders, Folder

LEMMA WithFileRenews ==
  ASSUME NEW tree \in [Paths -> Node], NEW p \in Paths, NEW c, NEW s, NEW q \in Paths
  PROVE  \/ WithFile(tree, p, c, s)[q] = tree[q]
         \/ WithFile(tree, p, c, s)[q].kind # "File"
         \/ q = p /\ WithFile(tree, p, c, s)[q] = FileOf(c, s)
<1>1. WithFile(tree, p, c, s)[q] = IF q = p THEN FileOf(c, s)
                                   ELSE WithFolders(tree, Ancestors[p])[q]
  BY DEF WithFile, WithFolders
<1>2. QED
  BY <1>1, WithFoldersRenews

LEMMA AfterDeletionRenews ==
  ASSUME NEW tree \in [Paths -> Node], NEW p \in Paths, NEW kind, NEW q \in Paths
  PROVE  AfterDeletion(tree, p, kind)[q] = tree[q] \/ AfterDeletion(tree, p, kind)[q].kind # "File"
BY DEF AfterDeletion, Without, Absent

(* What a machine remembers and has not renewed was in sync before.        *)
LEMMA InSyncBefore ==
  ASSUME NEW m \in Machines, NEW p \in Paths, Renewed(m, p), NEW known,
         known[p].stamp \in {entries[m][p].stamp, saved[m].entries[p].stamp, scan[m][p].stamp},
         disk'[m][p].kind = "File", known[p] = EntryOf(disk'[m][p])
  PROVE  disk'[m][p] = disk[m][p] /\ InSync(m, p, known)
BY DEF Renewed, EntryOf, InSync

(* A user's edit: <<m, p>> is raced if it is of a file being recorded.     *)
LEMMA UserRenews ==
  ASSUME TypeOK, UserStep, NEW n \in Machines, NEW q \in Paths
  PROVE  /\ Renewed(n, q)
         /\ writing[n] = q => \/ disk'[n][q] = disk[n][q]
                              \/ disk'[n][q].kind # "File"
                              \/ <<n, q>> \in raced'
         /\ raced \subseteq raced'
         /\ UNCHANGED <<log, saved, pc, entries, cycle>>
<1>1. PICK m \in Machines, p \in Paths :
        \/ \E content \in Contents : UserWrites(m, p, content)
        \/ UserMakesFolder(m, p)
        \/ UserRemoves(m, p)
  BY DEF UserStep
<1>2. disk[m] \in [Paths -> Node] /\ DOMAIN disk = Machines
  BY DEF TypeOK, Types
<1>3. UNCHANGED <<log, saved, pc, entries, cycle>> /\ raced \subseteq raced'
  BY <1>1 DEF UserWrites, UserMakesFolder, UserRemoves, Edit
<1>4. ASSUME NEW content \in Contents, UserWrites(m, p, content)
      PROVE  Renewed(n, q) /\ (writing[n] = q => \/ disk'[n][q] = disk[n][q]
                                                  \/ disk'[n][q].kind # "File"
                                                  \/ <<n, q>> \in raced')
  <2> DEFINE stamp == FreshStamp(m, p)
  <2>1. disk' = [disk EXCEPT ![m] = WithFile(disk[m], p, content, stamp)]
    BY <1>4 DEF UserWrites, Edit
  <2>2. CASE n # m
    BY <2>1, <2>2 DEF Renewed, TypeOK, Types
  <2>3. CASE n = m
    <3>1. \/ disk'[n][q] = disk[n][q]
          \/ disk'[n][q].kind # "File"
          \/ q = p /\ disk'[n][q] = FileOf(content, stamp)
      BY <1>2, <2>1, <2>3, WithFileRenews
    <3>2. q = p /\ writing[n] = q => <<n, q>> \in raced'
      BY <1>4, <2>3 DEF UserWrites
    <3>3. stamp \notin {entries[m][p].stamp, saved[m].entries[p].stamp, scan[m][p].stamp}
      BY FreshStampIsFresh
    <3>4. FileOf(content, stamp).stamp = stamp
      BY DEF FileOf
    <3>5. QED
      BY <2>3, <3>1, <3>2, <3>3, <3>4 DEF Renewed
  <2>4. QED
    BY <2>2, <2>3
<1>5. CASE UserMakesFolder(m, p)
  <2>1. disk' = [disk EXCEPT ![m] = WithFolders(disk[m], Ancestors[p] \cup {p})]
    BY <1>5 DEF UserMakesFolder, Edit
  <2>2. disk'[n][q] = disk[n][q] \/ disk'[n][q].kind # "File"
    BY <1>2, <2>1, WithFoldersRenews
  <2>3. QED
    BY <1>3, <2>2 DEF Renewed
<1>6. CASE UserRemoves(m, p)
  <2>1. disk' = [disk EXCEPT ![m] = AfterDeletion(disk[m], p, disk[m][p].kind)]
    BY <1>6 DEF UserRemoves, Edit
  <2>2. disk'[n][q] = disk[n][q] \/ disk'[n][q].kind # "File"
    BY <1>2, <2>1, AfterDeletionRenews
  <2>3. QED
    BY <1>3, <2>2 DEF Renewed
<1>7. QED
  BY <1>1, <1>3, <1>4, <1>5, <1>6

(* A step of the loop. It touches a tree only while it applies.            *)
LEMMA LoopRenews ==
  ASSUME TypeOK, NEW m \in Machines, LoopOrCrash(m), NEW q \in Paths
  PROVE  /\ Renewed(m, q)
         /\ disk'[m][q] # disk[m][q] => pc[m] = "applying" /\ outbox[m] = {}
         /\ raced' = raced
<1>1. disk[m] \in [Paths -> Node] /\ DOMAIN disk = Machines
  BY DEF TypeOK, Types
<1>2. ASSUME NEW s \in inbox[m], Applies(m, s)
      PROVE  log[s].path \in Paths /\ pc[m] = "applying" /\ outbox[m] = {} /\ raced' = raced
  BY <1>2, TakenIsEvent DEF Applies, TakeRemote, Take, NextToApply, Event, TypeOK, CycleOK
<1>3. ASSUME NEW s \in inbox[m], ApplyFolder(m, s)
      PROVE  Renewed(m, q) /\ Applies(m, s)
  <2> DEFINE p == log[s].path
  <2>1. disk' = [disk EXCEPT ![m] = WithFolders(disk[m], Ancestors[p] \cup {p})]
    BY <1>3 DEF ApplyFolder
  <2>2. disk'[m][q] = disk[m][q] \/ disk'[m][q].kind # "File"
    BY <1>1, <2>1, WithFoldersRenews
  <2>3. QED
    BY <1>3, <2>2 DEF Renewed, ApplyFolder
<1>4. ASSUME NEW s \in inbox[m], ApplyFile(m, s)
      PROVE  Renewed(m, q) /\ Applies(m, s)
  <2> DEFINE p == log[s].path
             stamp == FreshStamp(m, p)
  <2>1. Applies(m, s) /\ disk' = [disk EXCEPT ![m] = WithFile(disk[m], p, log[s].content, stamp)]
    BY <1>4 DEF ApplyFile
  <2>2. p \in Paths
    BY <1>2, <2>1
  <2>3. \/ disk'[m][q] = disk[m][q]
        \/ disk'[m][q].kind # "File"
        \/ q = p /\ disk'[m][q] = FileOf(log[s].content, stamp)
    BY <1>1, <2>1, <2>2, WithFileRenews
  <2>4. stamp \notin {entries[m][p].stamp, saved[m].entries[p].stamp, scan[m][p].stamp}
    BY <2>2, FreshStampIsFresh
  <2>5. FileOf(log[s].content, stamp).stamp = stamp
    BY DEF FileOf
  <2>6. QED
    BY <2>1, <2>3, <2>4, <2>5 DEF Renewed
<1>5. ASSUME NEW s \in inbox[m], ApplyDeletion(m, s)
      PROVE  Renewed(m, q) /\ Applies(m, s)
  <2>1. Applies(m, s) /\ \/ disk' = [disk EXCEPT ![m] = AfterDeletion(disk[m], log[s].path, log[s].entry)]
                         \/ disk' = disk
    BY <1>5 DEF ApplyDeletion
  <2>2. disk'[m][q] = disk[m][q] \/ disk'[m][q].kind # "File"
    BY <1>1, <1>2, <2>1, AfterDeletionRenews
  <2>3. QED
    BY <2>1, <2>2 DEF Renewed
<1>6. CASE Start(m) \/ Scan(m) \/ ReadChanges(m) \/ Fetch(m) \/ RecordFile(m)
           \/ Crash(m) \/ CrashInSave(m) \/ ReadFails(m) \/ PushRefused(m)
           \/ FetchFails(m) \/ RecordFails(m) \/ Save(m) \/ SaveFails(m)
           \/ Push(m) \/ PushUnanswered(m)
           \/ \E s \in inbox[m] : SkipOwn(m, s)
  <2>1. disk' = disk /\ raced' = raced
    BY <1>6 DEF Start, Scan, ReadChanges, Fetch, RecordFile, Crash, CrashInSave, ReadFails,
                PushRefused, FetchFails, RecordFails, Save, SaveFails, Push, PushUnanswered,
                SkipOwn
  <2>2. QED
    BY <2>1 DEF Renewed
<1>7. ASSUME NEW s \in inbox[m], ApplyFails(m, s)
      PROVE  Renewed(m, q) /\ pc[m] = "applying" /\ outbox[m] = {} /\ raced' = raced
  <2>1. pc[m] = "applying" /\ outbox[m] = {} /\ raced' = raced
    BY <1>7 DEF ApplyFails, TakeRemote, Take, NextToApply, TypeOK, CycleOK
  <2>2. disk'[m][q] = disk[m][q] \/ disk'[m][q].kind # "File"
    BY <1>1, <1>7, HalfMadeFolders, WithFoldersRenews
  <2>3. QED
    BY <2>1, <2>2 DEF Renewed
<1>8. QED
  BY <1>2, <1>3, <1>4, <1>5, <1>6, <1>7 DEF LoopOrCrash, Loop, PushPhase, ApplyPhase

(* What is in the log stays there. *)
LEMMA PublishedStays ==
  ASSUME Types, NEW m \in Machines, LoopOrCrash(m), NEW p, NEW c, Published(p, c)
  PROVE  Published(p, c)'
BY LogPrefix DEF Published, Publishes, NeedsContent

LEMMA InLogStays ==
  ASSUME TypeOK, NEW m \in Machines, LoopOrCrash(m), NEW n \in Machines, NEW p \in Paths,
         disk'[n][p] = disk[n][p], InLog(n, p)
  PROVE  InLog(n, p)'
<1> DEFINE c == disk[n][p].content
<1>1. Published(p, c)
  BY DEF InLog
<1>2. Published(p, c)'
  BY <1>1, PublishedStays DEF TypeOK
<1>3. QED
  BY <1>2 DEF InLog, Published, Publishes

-----------------------------------------------------------------------------
(* A step of the loop of m, seen at a path where nobody raced.             *)

(* What was remembered and still matches is in the log.                    *)
LEMMA KnownStays ==
  ASSUME TypeOK, ContentInv, NEW m \in Machines, LoopOrCrash(m), NEW p \in Paths,
         <<m, p>> \notin raced,
         NEW entry, entry \in {entries[m][p], saved[m].entries[p]},
         disk'[m][p].kind = "File", entry = EntryOf(disk'[m][p])
  PROVE  InLog(m, p)'
<1>1. disk'[m][p] = disk[m][p]
  <2>1. Renewed(m, p)
    BY LoopRenews
  <2>2. entry.stamp = disk'[m][p].stamp
    BY DEF EntryOf
  <2>3. QED
    BY <2>1, <2>2 DEF Renewed
<1>2. InLog(m, p)
  BY <1>1 DEF ContentInv, ContentOf, InSync
<1>3. QED
  BY <1>1, <1>2, InLogStays

(* What was scanned and still matches is in the log, or about to be.       *)
LEMMA ScannedStays ==
  ASSUME TypeOK, ContentInv, NEW m \in Machines, LoopOrCrash(m), NEW p \in Paths,
         <<m, p>> \notin raced,
         disk'[m][p].kind = "File", scan[m][p] = EntryOf(disk'[m][p])
  PROVE  disk'[m][p] = disk[m][p] /\ (InLog(m, p)' \/ Pending(m, p))
<1>1. disk'[m][p] = disk[m][p]
  <2>1. Renewed(m, p)
    BY LoopRenews
  <2>2. scan[m][p].stamp = disk'[m][p].stamp
    BY DEF EntryOf
  <2>3. QED
    BY <2>1, <2>2 DEF Renewed
<1>2. InLog(m, p) \/ Pending(m, p)
  BY <1>1 DEF ContentInv, ContentOf, InSync
<1>3. QED
  BY <1>1, <1>2, InLogStays

LEMMA EntriesContent ==
  ASSUME TypeOK, ContentInv, NEW m \in Machines, LoopOrCrash(m), NEW p \in Paths,
         <<m, p>> \notin raced,
         disk'[m][p].kind = "File", entries'[m][p] = EntryOf(disk'[m][p])
  PROVE  InLog(m, p)'
<1>0. entries'[m][p].kind = "File"
  BY DEF EntryOf
<1>1. CASE Start(m)
  <2>1. entries'[m] = saved[m].entries
    BY <1>1 DEF Start, TypeOK, Types
  <2>2. QED
    BY <2>1, KnownStays
<1>2. CASE Crash(m) \/ CrashInSave(m)
  <2>1. entries'[m] = NoEntries
    BY <1>2 DEF Crash, CrashInSave, TypeOK, Types
  <2>2. QED
    BY <1>0, <2>1 DEF NoEntries, NoEntry
<1>3. CASE Fetch(m) \/ FetchFails(m)
  <2>1. entries'[m] = scan[m] /\ outbox[m] = {}
    BY <1>3 DEF Fetch, FetchFails, TypeOK, Types
  <2>2. QED
    BY <2>1, ScannedStays DEF Pending
<1>4. CASE RecordFile(m)
  <2>1. /\ disk' = disk /\ writing[m] \in Paths
        /\ entries' = [entries EXCEPT ![m][writing[m]] =
                         [kind |-> "File", stamp |-> disk[m][writing[m]].stamp]]
    BY <1>4 DEF RecordFile, TypeOK, Types, CycleOK
  <2>2. CASE p = writing[m]
    <3>1. InLog(m, p)
      BY <2>1, <2>2 DEF ContentInv, ContentOf
    <3>2. QED
      BY <2>1, <3>1, InLogStays
  <2>3. CASE p # writing[m]
    <3>1. entries'[m][p] = entries[m][p]
      BY <2>1, <2>3 DEF TypeOK, Types
    <3>2. QED
      BY <3>1, KnownStays
  <2>4. QED
    BY <2>2, <2>3
<1>5. CASE \E s \in inbox[m] : ApplyFolder(m, s)
  <2>1. PICK s \in inbox[m] : ApplyFolder(m, s)
    BY <1>5
  <2>2. entries' = [entries EXCEPT ![m][log[s].path] = EntryOf(Folder)]
    BY <2>1 DEF ApplyFolder
  <2>3. EntryOf(Folder).kind # "File"
    BY DEF EntryOf, Folder
  <2>4. entries'[m][p] = entries[m][p]
    BY <1>0, <2>2, <2>3 DEF TypeOK, Types
  <2>5. QED
    BY <2>4, KnownStays
<1>6. CASE \E s \in inbox[m] : ApplyDeletion(m, s)
  <2>1. PICK s \in inbox[m] : ApplyDeletion(m, s)
    BY <1>6
  <2>2. \E gone : entries' = [entries EXCEPT ![m] = Without(entries[m], gone, NoEntry)]
    BY <2>1 DEF ApplyDeletion
  <2>3. entries'[m][p] \in {entries[m][p], NoEntry}
    BY <2>2 DEF Without, TypeOK, Types
  <2>4. entries'[m][p] = entries[m][p]
    BY <1>0, <2>3 DEF NoEntry
  <2>5. QED
    BY <2>4, KnownStays
<1>7. CASE Scan(m) \/ ReadChanges(m) \/ ReadFails(m) \/ PushRefused(m) \/ RecordFails(m)
           \/ Save(m) \/ SaveFails(m) \/ Push(m) \/ PushUnanswered(m)
           \/ \E s \in inbox[m] : SkipOwn(m, s) \/ ApplyFails(m, s) \/ ApplyFile(m, s)
  <2>1. entries' = entries
    BY <1>7 DEF Scan, ReadChanges, ReadFails, PushRefused, RecordFails, Save, SaveFails,
                Push, PushUnanswered, SkipOwn, ApplyFails, ApplyFile
  <2>2. QED
    BY <2>1, KnownStays
<1>8. QED
  BY <1>1, <1>2, <1>3, <1>4, <1>5, <1>6, <1>7 DEF LoopOrCrash, Loop, PushPhase, ApplyPhase

LEMMA SavedContent ==
  ASSUME TypeOK, ContentInv, NEW m \in Machines, LoopOrCrash(m), NEW p \in Paths,
         <<m, p>> \notin raced,
         disk'[m][p].kind = "File", saved'[m].entries[p] = EntryOf(disk'[m][p])
  PROVE  InLog(m, p)'
<1>1. CASE Save(m)
  <2>1. saved'[m].entries = entries[m]
    BY <1>1 DEF Save, TypeOK, Types
  <2>2. QED
    BY <2>1, KnownStays
<1>2. CASE CrashInSave(m)
  <2>1. saved'[m].entries = NoEntries
    BY <1>2 DEF CrashInSave, FreshState, TypeOK, Types
  <2>2. QED
    BY <2>1 DEF NoEntries, NoEntry, EntryOf
<1>3. CASE Start(m) \/ Scan(m) \/ ReadChanges(m) \/ Fetch(m) \/ RecordFile(m)
           \/ Crash(m) \/ ReadFails(m) \/ PushRefused(m)
           \/ FetchFails(m) \/ RecordFails(m) \/ SaveFails(m) \/ Push(m) \/ PushUnanswered(m)
           \/ \E s \in inbox[m] : SkipOwn(m, s) \/ ApplyFails(m, s) \/ ApplyFolder(m, s)
                                  \/ ApplyFile(m, s) \/ ApplyDeletion(m, s)
  <2>1. saved' = saved
    BY <1>3 DEF Start, Scan, ReadChanges, Fetch, RecordFile, Crash, ReadFails,
                PushRefused, FetchFails, RecordFails, SaveFails, Push, PushUnanswered,
                SkipOwn, ApplyFails, ApplyFolder, ApplyFile, ApplyDeletion, Applies
  <2>2. QED
    BY <2>1, KnownStays
<1>4. QED
  BY <1>1, <1>2, <1>3 DEF LoopOrCrash, Loop, PushPhase, ApplyPhase

(* A file that is not as it was remembered is found by the scan, and its   *)
(* event is filled with the bytes that are there when it is read.          *)
LEMMA ScanFinds ==
  ASSUME TypeOK, NEW m \in Machines, Scan(m), NEW p \in Paths,
         disk[m][p].kind = "File", entries[m][p] # EntryOf(disk[m][p])
  PROVE  Pending(m, p)'
<1>1. /\ disk' = disk /\ pc'[m] = "scanned"
      /\ outbox'[m] = LocalChanges(entries[m], ScanOf(disk[m]), m)
  BY DEF Scan, TypeOK, Types
<1>2. ScanOf(disk[m])[p] = EntryOf(disk[m][p]) /\ EntryOf(disk[m][p]).kind = "File"
  BY DEF ScanOf, EntryOf
<1>3. entries[m][p] \in Entry /\ EntryOf(disk[m][p]) \in Entry
  <2>1. ScanOf(disk[m]) \in [Paths -> Entry] /\ entries[m] \in [Paths -> Entry]
    BY ScanType DEF TypeOK, Types
  <2>2. QED
    BY <1>2, <2>1
<1>4. \/ entries[m][p].kind # "File"
      \/ entries[m][p].kind = "File" /\ entries[m][p].stamp # EntryOf(disk[m][p]).stamp
  BY <1>2, <1>3 DEF Entry
<1>5. \E what \in {"Created", "Updated"} :
        [path |-> p, change |-> what, entry |-> "File",
         content |-> NoContent, origin |-> m] \in outbox'[m]
  BY <1>1, <1>2, <1>4 DEF LocalChanges
<1>6. QED
  BY <1>1, <1>5 DEF Pending, NeedsContent

LEMMA ReadingFills ==
  ASSUME TypeOK, NEW m \in Machines, ReadChanges(m), NEW p \in Paths, Pending(m, p)
  PROVE  Pending(m, p)'
<1>1. disk' = disk /\ outbox'[m] = {WithContent(m, c) : c \in outbox[m]}
  BY DEF ReadChanges, TypeOK, Types
<1>2. PICK e \in outbox[m] : e.path = p /\ NeedsContent(e)
  BY DEF Pending
<1>3. e \in Event
  BY DEF TypeOK, Types
<1>4. /\ WithContent(m, e).path = p /\ NeedsContent(WithContent(m, e))
      /\ WithContent(m, e).content = disk[m][p].content
  BY <1>2, <1>3 DEF WithContent, NeedsContent, Event
<1>5. QED
  BY <1>1, <1>4 DEF Pending, NeedsContent

LEMMA ScanContent ==
  ASSUME TypeOK, ContentInv, NEW m \in Machines, LoopOrCrash(m), NEW p \in Paths,
         <<m, p>> \notin raced,
         disk'[m][p].kind = "File", scan'[m][p] = EntryOf(disk'[m][p])
  PROVE  InLog(m, p)' \/ Pending(m, p)'
<1>0. scan'[m][p] # NoEntry
  BY DEF EntryOf, NoEntry
<1>1. CASE Scan(m)
  <2>1. /\ disk' = disk /\ entries' = entries /\ pc'[m] = "scanned"
        /\ outbox'[m] = LocalChanges(entries[m], ScanOf(disk[m]), m)
    BY <1>1 DEF Scan, TypeOK, Types
  <2>2. CASE entries[m][p] = EntryOf(disk[m][p])
    BY <2>1, <2>2, KnownStays
  <2>3. CASE entries[m][p] # EntryOf(disk[m][p])
    BY <1>1, <2>1, <2>3, ScanFinds
  <2>4. QED
    BY <2>2, <2>3
<1>2. CASE ReadChanges(m)
  <2>1. /\ disk' = disk /\ scan' = scan /\ pc[m] = "scanned"
        /\ outbox'[m] = {WithContent(m, c) : c \in outbox[m]}
    BY <1>2 DEF ReadChanges, TypeOK, Types
  <2>2. QED
    BY <1>2, <2>1, ReadingFills, ScannedStays
<1>3. CASE Push(m)
  <2>1. disk' = disk /\ scan' = scan /\ pc' = pc /\ pc[m] = "pushing"
    BY <1>3 DEF Push
  <2>2. PICK e \in outbox[m] : log' = Append(log, e) /\ outbox'[m] = outbox[m] \ {e}
    BY <1>3 DEF Push, TypeOK, Types
  <2>3. ASSUME Pending(m, p)
        PROVE  InLog(m, p)' \/ Pending(m, p)'
    <3>1. PICK f \in outbox[m] : f.path = p /\ NeedsContent(f) /\ f.content = disk[m][p].content
      BY <2>1, <2>3 DEF Pending
    <3>2. CASE f = e
      <4>1. Len(log) + 1 \in 1 .. Len(log') /\ log'[Len(log) + 1] = e
        BY <2>2 DEF TypeOK, Types
      <4>2. QED
        BY <2>1, <3>1, <3>2, <4>1 DEF InLog, Published, Publishes, NeedsContent
    <3>3. CASE f # e
      BY <2>1, <2>2, <3>1, <3>3 DEF Pending, NeedsContent
    <3>4. QED
      BY <3>2, <3>3
  <2>4. QED
    BY <2>1, <2>3, ScannedStays
<1>4. CASE Start(m)
  <2>1. disk' = disk /\ scan' = scan /\ outbox[m] = {}
    BY <1>4 DEF Start, cycle, TypeOK, CycleOK
  <2>2. QED
    BY <2>1, ScannedStays DEF Pending
<1>5. CASE Fetch(m) \/ RecordFile(m) \/ \E s \in inbox[m] : SkipOwn(m, s)
           \/ ApplyFolder(m, s) \/ ApplyFile(m, s) \/ ApplyDeletion(m, s)
  <2>1. scan' = scan
    BY <1>5 DEF Fetch, RecordFile, SkipOwn, ApplyFolder, ApplyFile, ApplyDeletion, Applies
  <2>2. outbox[m] = {}
    BY <1>5 DEF Fetch, RecordFile, SkipOwn, ApplyFolder, ApplyFile, ApplyDeletion, Applies,
                TakeRemote, Take, NextToApply, TypeOK, CycleOK
  <2>3. QED
    BY <2>1, <2>2, ScannedStays DEF Pending
<1>6. CASE Crash(m) \/ CrashInSave(m) \/ ReadFails(m) \/ PushRefused(m)
           \/ PushUnanswered(m) \/ FetchFails(m) \/ RecordFails(m) \/ Save(m) \/ SaveFails(m)
           \/ \E s \in inbox[m] : ApplyFails(m, s)
  <2>1. \E phase : EndCycle(m, phase)
    BY <1>6 DEF Crash, CrashInSave, ReadFails, PushRefused, PushUnanswered, FetchFails,
                RecordFails, Save, SaveFails, ApplyFails
  <2>2. scan'[m] = NoEntries
    BY <2>1 DEF EndCycle, TypeOK, Types
  <2>3. QED
    BY <1>0, <2>2 DEF NoEntries
<1>7. QED
  BY <1>1, <1>2, <1>3, <1>4, <1>5, <1>6 DEF LoopOrCrash, Loop, PushPhase, ApplyPhase

LEMMA WritingContent ==
  ASSUME TypeOK, ContentInv, NEW m \in Machines, LoopOrCrash(m), NEW p \in Paths,
         <<m, p>> \notin raced, writing'[m] = p, disk'[m][p].kind = "File"
  PROVE  InLog(m, p)'
<1>0. p # 0
  BY DEF Paths
<1>1. CASE \E s \in inbox[m] : ApplyFile(m, s)
  <2>1. PICK s \in inbox[m] : ApplyFile(m, s)
    BY <1>1
  <2>2. /\ s \in 1 .. Len(log) /\ log' = log /\ log[s].path = p /\ NeedsContent(log[s])
        /\ disk' = [disk EXCEPT ![m] = WithFile(disk[m], p, log[s].content, FreshStamp(m, p))]
    <3>1. Applies(m, s) /\ log' = log /\ NeedsContent(log[s])
      BY <2>1 DEF ApplyFile, Applies
    <3>2. writing'[m] = log[s].path
      BY <2>1 DEF ApplyFile, TypeOK, Types
    <3>3. s \in 1 .. Len(log)
      BY <3>1, TakenIsEvent DEF Applies, TakeRemote, Take
    <3>4. QED
      BY <2>1, <3>1, <3>2, <3>3 DEF ApplyFile
  <2>3. WithFile(disk[m], p, log[s].content, FreshStamp(m, p))[p]
          = FileOf(log[s].content, FreshStamp(m, p))
    BY DEF WithFile, WithFolders
  <2>4. disk'[m][p].content = log[s].content
    BY <2>2, <2>3 DEF TypeOK, Types, FileOf
  <2>5. QED
    BY <2>2, <2>4 DEF InLog, Published, Publishes, NeedsContent
<1>2. CASE Start(m) \/ Scan(m) \/ ReadChanges(m) \/ Push(m) \/ Fetch(m)
  <2>1. disk' = disk /\ writing' = writing
    BY <1>2 DEF Start, Scan, ReadChanges, Push, Fetch, cycle
  <2>2. QED
    BY <2>1, InLogStays DEF ContentInv, ContentOf
<1>3. CASE \E s \in inbox[m] : SkipOwn(m, s) \/ ApplyFolder(m, s) \/ ApplyDeletion(m, s)
  <2>1. writing' = writing /\ writing[m] = 0
    BY <1>3 DEF SkipOwn, ApplyFolder, ApplyDeletion, Applies, TakeRemote, Take, NextToApply,
                TypeOK, CycleOK
  <2>2. QED
    BY <1>0, <2>1
<1>4. CASE Crash(m) \/ CrashInSave(m) \/ ReadFails(m) \/ PushRefused(m) \/ RecordFile(m)
           \/ PushUnanswered(m) \/ FetchFails(m) \/ RecordFails(m) \/ Save(m) \/ SaveFails(m)
           \/ \E s \in inbox[m] : ApplyFails(m, s)
  <2>1. writing'[m] = 0
    BY <1>4 DEF Crash, CrashInSave, ReadFails, PushRefused, PushUnanswered, FetchFails,
                RecordFails, Save, SaveFails, ApplyFails, RecordFile, EndCycle, TypeOK, Types
  <2>2. QED
    BY <1>0, <2>1
<1>5. QED
  BY <1>1, <1>2, <1>3, <1>4 DEF LoopOrCrash, Loop, PushPhase, ApplyPhase

-----------------------------------------------------------------------------
LEMMA ContentInvInit == Init => ContentInv
BY DEF Init, ContentInv, ContentOf, InSync, EmptyTree, Absent, Paths

LEMMA UserContent ==
  ASSUME TypeOK, ContentInv, UserStep, NEW n \in Machines, NEW p \in Paths
  PROVE  ContentOf(n, p)'
<1> SUFFICES ASSUME <<n, p>> \notin raced'
             PROVE  /\ InSync(n, p, entries[n])' => InLog(n, p)'
                    /\ InSync(n, p, saved[n].entries)' => InLog(n, p)'
                    /\ InSync(n, p, scan[n])' => InLog(n, p)' \/ Pending(n, p)'
                    /\ writing'[n] = p /\ disk'[n][p].kind = "File" => InLog(n, p)'
  BY DEF ContentOf
<1>1. /\ Renewed(n, p) /\ <<n, p>> \notin raced
      /\ writing[n] = p => disk'[n][p] = disk[n][p] \/ disk'[n][p].kind # "File"
      /\ log' = log /\ saved' = saved /\ pc' = pc /\ entries' = entries
      /\ scan' = scan /\ outbox' = outbox /\ writing' = writing
  BY UserRenews DEF cycle
<1>2. ContentOf(n, p)
  BY DEF ContentInv
<1>3. CASE disk'[n][p] = disk[n][p]
  <2>1. (InLog(n, p) => InLog(n, p)') /\ (Pending(n, p) => Pending(n, p)')
    BY <1>1, <1>3 DEF InLog, Pending, Published, Publishes, NeedsContent
  <2>2. QED
    BY <1>1, <1>2, <1>3, <2>1 DEF ContentOf, InSync
<1>4. CASE disk'[n][p] # disk[n][p]
  <2>1. \A known : known[p] \in {entries[n][p], saved[n].entries[p], scan[n][p]} =>
          ~(disk'[n][p].kind = "File" /\ known[p] = EntryOf(disk'[n][p]))
    BY <1>1, <1>4 DEF Renewed, EntryOf
  <2>2. QED
    BY <1>1, <1>4, <2>1 DEF InSync
<1>5. QED
  BY <1>3, <1>4

LEMMA LoopContent ==
  ASSUME TypeOK, ContentInv, NEW m \in Machines, LoopOrCrash(m),
         NEW n \in Machines, NEW p \in Paths
  PROVE  ContentOf(n, p)'
<1> SUFFICES ASSUME <<n, p>> \notin raced
             PROVE  /\ InSync(n, p, entries[n])' => InLog(n, p)'
                    /\ InSync(n, p, saved[n].entries)' => InLog(n, p)'
                    /\ InSync(n, p, scan[n])' => InLog(n, p)' \/ Pending(n, p)'
                    /\ writing'[n] = p /\ disk'[n][p].kind = "File" => InLog(n, p)'
  BY LoopRenews DEF ContentOf
<1>1. CASE n = m
  BY <1>1, EntriesContent, SavedContent, ScanContent, WritingContent DEF InSync
<1>2. CASE n # m
  <2>1. Untouched(n)
    BY <1>2, OthersUntouched DEF TypeOK
  <2>2. (InLog(n, p) => InLog(n, p)') /\ (Pending(n, p) => Pending(n, p)')
    BY <2>1, InLogStays DEF Untouched, Pending, NeedsContent
  <2>3. ContentOf(n, p)
    BY DEF ContentInv
  <2>4. QED
    BY <2>1, <2>2, <2>3 DEF Untouched, ContentOf, InSync
<1>3. QED
  BY <1>1, <1>2

LEMMA ContentInvStep == TypeOK /\ ContentInv /\ [Next]_vars => ContentInv'
<1> SUFFICES ASSUME TypeOK, ContentInv, [Next]_vars PROVE ContentInv'
  OBVIOUS
<1>1. CASE UserStep
  BY <1>1, UserContent DEF ContentInv
<1>2. ASSUME NEW m \in Machines, LoopOrCrash(m)
      PROVE  ContentInv'
  BY <1>2, LoopContent DEF ContentInv
<1>3. CASE UNCHANGED vars
  BY <1>3 DEF vars, cycle, ContentInv, ContentOf, InSync, InLog, Pending, Published,
              Publishes, NeedsContent
<1>4. QED
  BY <1>1, <1>2, <1>3 DEF Next, LoopOrCrash

LEMMA AlwaysContentInv == Spec => [](TypeOK /\ ContentInv)
BY TypeCorrect, ContentInvInit, ContentInvStep, PTL DEF Spec

(* For any number of machines, any tree, any faults and any edits: a file  *)
(* whose signature a machine remembers holds bytes that are in the log, so *)
(* that build_local_events may go by the signature alone.                  *)
THEOREM RememberedIsPublished == Spec => []RememberedFilesArePublished
<1>1. ContentInv => RememberedFilesArePublished
  BY DEF ContentInv, ContentOf, InLog, RememberedFilesArePublished
<1>2. QED
  BY AlwaysContentInv, <1>1, PTL

(* And the loop takes a file's bytes away only if they are in the log, or  *)
(* were written since the scan of the cycle.                               *)
THEOREM OverwritesOnlyPublished == Spec => OverwritesPublishedOrUnscanned
<1> DEFINE Takes(m, p) == /\ edits' = edits /\ <<m, p>> \notin raced
                          /\ disk[m][p].kind = "File" /\ disk'[m][p] # disk[m][p]
           MayTake(m, p) == \/ Published(p, disk[m][p].content)
                            \/ scan[m][p] # EntryOf(disk[m][p])
           Safe == \A m \in Machines : \A p \in Paths : Takes(m, p) => MayTake(m, p)
<1>1. TypeOK /\ ContentInv /\ [Next]_vars => [Safe]_vars
  <2> SUFFICES ASSUME TypeOK, ContentInv, Next, NEW m \in Machines, NEW p \in Paths, Takes(m, p)
               PROVE  MayTake(m, p)
    OBVIOUS
  <2>1. ~UserStep
    <3>1. edits \in Nat /\ (UserStep => edits' = edits + 1)
      BY DEF TypeOK, Types, UserStep, UserWrites, UserMakesFolder, UserRemoves, Edit
    <3>2. QED
      BY <3>1
  <2>2. PICK n \in Machines : LoopOrCrash(n)
    BY <2>1 DEF Next, LoopOrCrash
  <2>3. n = m
    BY <2>2, OthersUntouched DEF Untouched, TypeOK
  <2>4. outbox[m] = {}
    BY <2>2, <2>3, LoopRenews
  <2>5. InSync(m, p, scan[m]) => InLog(m, p)
    BY <2>4 DEF ContentInv, ContentOf, Pending
  <2>6. QED
    BY <2>5 DEF InSync, InLog
<1>2. QED
  BY AlwaysContentInv, <1>1, PTL DEF Spec, OverwritesPublishedOrUnscanned

-----------------------------------------------------------------------------
(* InSyncFileIsNewestKnown: what a machine takes for replicated is the     *)
(* newest of what it pushed and applied.                                   *)

Known(m) == Own(m) \cup applied[m]

IsNewest(m, p) ==
  \E s \in Known(m) :
    /\ Publishes(s, p, disk[m][p].content)
    /\ \A t \in Known(m) : log[t].path = p => t <= s

(* The running cycle has still something to push about p. *)
Unsent(m, p) == \E e \in outbox[m] : e.path = p

(* The same of the scan, until what it found is pushed, and of the file    *)
(* just written.                                                           *)
NewestOf(m, p) ==
  <<m, p>> \notin raced =>
    /\ InSync(m, p, entries[m]) => IsNewest(m, p) /\ ~Unsent(m, p)
    /\ pc[m] \in {"scanned", "pushing"} /\ InSync(m, p, scan[m]) =>
         Pending(m, p) \/ (IsNewest(m, p) /\ ~Unsent(m, p))
    /\ writing[m] = p /\ disk[m][p].kind = "File" => IsNewest(m, p)

(* The cursor is past everything a machine pushed or applied, so what it   *)
(* applies next is newer. Only a machine that never started is down.       *)
CursorPast(m) ==
  /\ Known(m) \subseteq 1 .. last[m]
  /\ pc[m] = "down" => Known(m) = {} /\ saved[m] = FreshState

NewestOn(m) == CursorPast(m) /\ \A p \in Paths : NewestOf(m, p)

NewestInv == \A m \in Machines : Unsure(m) \/ NewestOn(m)

(* What a step of the loop adds to what is known: nothing, what it pushed, *)
(* or what it applied. Crashes and lost answers are left out.              *)
LEMMA LoopKnows ==
  ASSUME TypeOK, NEW m \in Machines, NewestOn(m), Loop(m), ~PushUnanswered(m)
  PROVE  \/ Known(m)' = Known(m) /\ log' = log
         \/ /\ Push(m)
            /\ \E e \in outbox[m] :
                 /\ NextToPush(m, e) /\ log' = Append(log, e)
                 /\ log'[Len(log')] = e /\ Len(log') = Len(log) + 1
                 /\ Known(m)' = Known(m) \cup {Len(log')}
                 /\ \A s \in Known(m) : log'[s] = log[s]
         \/ \E s \in inbox[m] :
              /\ Applies(m, s) /\ log' = log
              /\ Known(m)' = Known(m) \cup {s}
<1>1. CASE Push(m)
  <2>1. PICK e \in outbox[m] : NextToPush(m, e) /\ log' = Append(log, e)
    BY <1>1 DEF Push
  <2>2. /\ log \in Seq(Event) /\ e \in Event /\ e.origin = m /\ Len(log) \in Nat
        /\ last[m] \in Nat /\ last[m] <= Len(log)
    BY DEF TypeOK, Types, CycleOK
  <2>3. /\ log'[Len(log')] = e /\ Len(log') = Len(log) + 1
        /\ \A s \in 1 .. Len(log) : log'[s] = log[s]
    BY <2>1, <2>2
  <2>4. Known(m) \subseteq 1 .. Len(log)
    BY <2>2 DEF NewestOn, CursorPast
  <2>5. Own(m)' = Own(m) \cup {Len(log')}
    BY <2>2, <2>3 DEF Own
  <2>6. applied' = applied
    BY <1>1 DEF Push
  <2>7. Known(m)' = Known(m) \cup {Len(log')}
    BY <2>5, <2>6 DEF Known
  <2>8. QED
    BY <1>1, <2>1, <2>3, <2>4, <2>7
<1>2. CASE \E s \in inbox[m] : Applies(m, s)
  <2>1. PICK s \in inbox[m] : Applies(m, s)
    BY <1>2
  <2>2. log' = log /\ applied'[m] = applied[m] \cup {s}
    BY <2>1 DEF Applies, TypeOK, Types
  <2>3. Known(m)' = Known(m) \cup {s}
    BY <2>2 DEF Known, Own
  <2>4. QED
    BY <2>1, <2>2, <2>3
<1>3. CASE log' = log /\ applied' = applied
  BY <1>3 DEF Known, Own
<1>4. CASE Start(m) \/ Scan(m) \/ ReadChanges(m) \/ ReadFails(m) \/ PushRefused(m) \/ Fetch(m)
           \/ FetchFails(m) \/ RecordFile(m) \/ RecordFails(m) \/ Save(m) \/ SaveFails(m)
           \/ \E s \in inbox[m] : SkipOwn(m, s) \/ ApplyFails(m, s)
  BY <1>3, <1>4 DEF Start, Scan, ReadChanges, ReadFails, PushRefused, Fetch, FetchFails,
                RecordFile, RecordFails, Save, SaveFails, SkipOwn, ApplyFails
<1>5. QED
  BY <1>1, <1>2, <1>4 DEF Loop, PushPhase, ApplyPhase, ApplyFolder, ApplyFile, ApplyDeletion

(* The newest stays the newest when nothing about p becomes known.         *)
LEMMA NewestStays ==
  ASSUME NEW n \in Machines, NEW p \in Paths, IsNewest(n, p), disk'[n][p] = disk[n][p],
         Known(n) \subseteq Known(n)',
         \A s \in Known(n) : log'[s] = log[s],
         \A s \in Known(n)' : s \in Known(n) \/ log'[s].path # p
  PROVE  IsNewest(n, p)'
<1>1. PICK s \in Known(n) :
        /\ Publishes(s, p, disk[n][p].content)
        /\ \A t \in Known(n) : log[t].path = p => t <= s
  BY DEF IsNewest
<1>2. Publishes(s, p, disk[n][p].content)'
  BY <1>1 DEF Publishes, NeedsContent
<1>3. \A t \in Known(n)' : log'[t].path = p => t <= s
  BY <1>1
<1>4. QED
  BY <1>1, <1>2, <1>3 DEF IsNewest

(* The cursor stays past what is known.                                    *)
LEMMA LoopCursorPast ==
  ASSUME TypeOK, TypeOK', NEW m \in Machines, NewestOn(m), Loop(m), ~PushUnanswered(m)
  PROVE  CursorPast(m)'
<1>1. /\ Known(m) \subseteq 1 .. last[m] /\ last[m] \in Nat /\ last'[m] \in Nat
      /\ pc[m] = "down" => Known(m) = {} /\ saved[m] = FreshState
      /\ Len(log) \in Nat /\ last[m] <= Len(log)
  BY DEF NewestOn, CursorPast, TypeOK, Types, CycleOK
<1>2. pc'[m] # "down"
  BY DEF Loop, PushPhase, ApplyPhase, Start, Scan, ReadChanges, ReadFails, Push, PushRefused,
         PushUnanswered, Fetch, FetchFails, SkipOwn, ApplyFolder, ApplyFile, ApplyDeletion,
         ApplyFails, Applies, TakeRemote, Take, NextToApply, RecordFile, RecordFails, Save,
         SaveFails, EndCycle, TypeOK, Types
<1>3. CASE Start(m)
  <2>1. Known(m)' = {}
    BY <1>1, <1>3 DEF Start, Known, Own
  <2>2. QED
    BY <1>2, <2>1 DEF CursorPast
<1>4. CASE Push(m)
  <2>1. Known(m)' = Known(m) \cup {Len(log')} /\ Len(log') = Len(log) + 1
    <3>1. ~ \E s \in inbox[m] : Applies(m, s)
      BY <1>4 DEF Push, Applies, TakeRemote, Take, NextToApply
    <3>2. log' # log
      <4>1. PICK e \in outbox[m] : log' = Append(log, e)
        BY <1>4 DEF Push
      <4>2. Len(log') = Len(log) + 1
        BY <4>1 DEF TypeOK, Types
      <4>3. QED
        BY <1>1, <4>2
    <3>3. QED
      BY <3>1, <3>2, LoopKnows
  <2>2. last'[m] = Len(log')
    BY <1>1, <1>4, <2>1 DEF Push, Later, TypeOK, Types
  <2>3. QED
    BY <1>1, <1>2, <2>1, <2>2 DEF CursorPast
<1>5. CASE \E s \in inbox[m] : Take(m, s)
  <2>1. PICK s \in inbox[m] : Take(m, s)
    BY <1>5
  <2>2. s \in Nat /\ last[m] < s
    BY <2>1, TakenIsEvent DEF Take
  <2>3. last'[m] = s
    BY <1>1, <2>1, <2>2 DEF Take, Later, TypeOK, Types
  <2>4. \A t \in inbox[m] : Take(m, t) => t = s
    BY <2>1, <2>2 DEF Take, NextToApply, TypeOK, Types
  <2>5. ~Push(m)
    BY <2>1 DEF Take, NextToApply, Push
  <2>6. Known(m)' \subseteq Known(m) \cup {s}
    BY <2>4, <2>5, LoopKnows DEF Applies, TakeRemote
  <2>7. QED
    BY <1>1, <1>2, <2>2, <2>3, <2>6 DEF CursorPast
<1>6. CASE Scan(m) \/ ReadChanges(m) \/ ReadFails(m) \/ PushRefused(m) \/ Fetch(m)
           \/ FetchFails(m) \/ RecordFile(m) \/ RecordFails(m) \/ Save(m) \/ SaveFails(m)
  <2>1. last' = last /\ log' = log /\ applied' = applied
    BY <1>6 DEF Scan, ReadChanges, ReadFails, PushRefused, Fetch, FetchFails,
                RecordFile, RecordFails, Save, SaveFails
  <2>2. Known(m)' = Known(m)
    BY <2>1 DEF Known, Own
  <2>3. QED
    BY <1>1, <1>2, <2>1, <2>2 DEF CursorPast
<1>7. QED
  BY <1>3, <1>4, <1>5, <1>6 DEF Loop, PushPhase, ApplyPhase, SkipOwn, ApplyFolder, ApplyFile,
     ApplyDeletion, ApplyFails, Applies, TakeRemote

-----------------------------------------------------------------------------
(* What m applies is newer than all it knows, and one event at a time.     *)
LEMMA AppliedIsNew ==
  ASSUME TypeOK, NEW m \in Machines, NewestOn(m), NEW s \in inbox[m], Applies(m, s)
  PROVE  /\ \A t \in Known(m) : t < s
         /\ applied' # applied
         /\ \A t \in inbox[m] : Applies(m, t) => t = s
<1>1. s \in Nat /\ last[m] \in Nat /\ last[m] < s
  BY TakenIsEvent DEF Applies, TakeRemote, Take, TypeOK, Types
<1>2. \A t \in Known(m) : t < s
  BY <1>1 DEF NewestOn, CursorPast
<1>3. s \notin applied[m]
  BY <1>1, <1>2 DEF Known
<1>4. s \in applied'[m]
  BY DEF Applies, TypeOK, Types
<1>5. \A t \in inbox[m] : Applies(m, t) => t = s
  BY DEF Applies, TakeRemote, Take, NextToApply, TypeOK, Types
<1>6. QED
  BY <1>2, <1>3, <1>4, <1>5

(* A step of the loop of m, seen at a path where nobody raced.             *)

(* A step that changes nothing about p.                                    *)
LEMMA KnowsNothingNew ==
  ASSUME TypeOK, NEW m \in Machines, NewestOn(m), Loop(m), ~PushUnanswered(m),
         NEW p \in Paths, IsNewest(m, p), disk'[m][p] = disk[m][p],
         \A e \in outbox[m] : log' = Append(log, e) => e.path # p,
         \A s \in inbox[m] : Applies(m, s) => log[s].path # p
  PROVE  IsNewest(m, p)'
<1>1. CASE Known(m)' = Known(m) /\ log' = log
  BY <1>1, NewestStays
<1>2. CASE \E e \in outbox[m] :
             /\ log' = Append(log, e)
             /\ log'[Len(log')] = e
             /\ Known(m)' = Known(m) \cup {Len(log')}
             /\ \A s \in Known(m) : log'[s] = log[s]
  BY <1>2, NewestStays
<1>3. CASE \E s \in inbox[m] :
             Applies(m, s) /\ log' = log /\ Known(m)' = Known(m) \cup {s}
  BY <1>3, NewestStays
<1>4. QED
  BY <1>1, <1>2, <1>3, LoopKnows

(* Of a remembered file that is still the same nothing was waiting to be   *)
(* pushed, so a step adds nothing about it unless it applies an event.     *)
LEMMA InSyncStays ==
  ASSUME TypeOK, NEW m \in Machines, NewestOn(m), Loop(m), ~PushUnanswered(m),
         NEW p \in Paths, <<m, p>> \notin raced,
         disk'[m][p].kind = "File", entries[m][p] = EntryOf(disk'[m][p]),
         \A s \in inbox[m] : Applies(m, s) => log[s].path # p
  PROVE  InSync(m, p, entries[m]) /\ ~Unsent(m, p) /\ IsNewest(m, p)'
<1>1. disk'[m][p] = disk[m][p]
  <2>1. Renewed(m, p)
    BY LoopRenews DEF LoopOrCrash
  <2>2. entries[m][p].stamp = disk'[m][p].stamp
    BY DEF EntryOf
  <2>3. QED
    BY <2>1, <2>2 DEF Renewed
<1>2. InSync(m, p, entries[m])
  BY <1>1 DEF InSync
<1>3. IsNewest(m, p) /\ ~Unsent(m, p)
  BY <1>2 DEF NewestOn, NewestOf
<1>4. IsNewest(m, p)'
  BY <1>1, <1>3, KnowsNothingNew DEF Unsent
<1>5. QED
  BY <1>2, <1>3, <1>4

(* What is remembered after a step.                                        *)
LEMMA EntriesNewest ==
  ASSUME TypeOK, TypeOK', NEW m \in Machines, NewestOn(m), Loop(m), ~PushUnanswered(m),
         NEW p \in Paths, <<m, p>> \notin raced,
         disk'[m][p].kind = "File", entries'[m][p] = EntryOf(disk'[m][p])
  PROVE  IsNewest(m, p)' /\ ~Unsent(m, p)'
<1>0. entries'[m][p].kind = "File"
  BY DEF EntryOf
<1>1. CASE Start(m)
  <2>1. entries'[m] = NoEntries
    BY <1>1 DEF Start, TypeOK, Types, NewestOn, CursorPast, FreshState
  <2>2. QED
    BY <1>0, <2>1 DEF NoEntries, NoEntry
<1>2. CASE Scan(m)
  <2>1. /\ disk' = disk /\ entries' = entries
        /\ outbox'[m] = LocalChanges(entries[m], ScanOf(disk[m]), m)
    BY <1>2 DEF Scan, TypeOK, Types
  <2>2. ~Unsent(m, p)'
    <3>1. entries[m][p] = ScanOf(disk[m])[p]
      BY <2>1 DEF ScanOf
    <3>2. QED
      BY <2>1, <3>1 DEF Unsent, LocalChanges
  <2>3. \A s \in inbox[m] : ~Applies(m, s)
    BY <1>2 DEF Scan, Applies, TakeRemote, Take, NextToApply
  <2>4. QED
    BY <2>1, <2>2, <2>3, InSyncStays
<1>3. CASE ReadChanges(m)
  <2>1. /\ disk' = disk /\ entries' = entries
        /\ outbox'[m] = {WithContent(m, c) : c \in outbox[m]}
    BY <1>3 DEF ReadChanges, TypeOK, Types
  <2>2. \A c \in outbox[m] : WithContent(m, c).path = c.path
    BY DEF WithContent, TypeOK, Types, Event
  <2>3. \A s \in inbox[m] : ~Applies(m, s)
    BY <1>3 DEF ReadChanges, Applies, TakeRemote, Take, NextToApply
  <2>4. ~Unsent(m, p) /\ IsNewest(m, p)'
    BY <2>1, <2>3, InSyncStays
  <2>5. QED
    BY <2>1, <2>2, <2>4 DEF Unsent
<1>4. CASE Push(m)
  <2>1. entries' = entries /\ outbox'[m] \subseteq outbox[m]
    BY <1>4 DEF Push, TypeOK, Types
  <2>2. \A s \in inbox[m] : ~Applies(m, s)
    BY <1>4 DEF Push, Applies, TakeRemote, Take, NextToApply
  <2>3. ~Unsent(m, p) /\ IsNewest(m, p)'
    BY <2>1, <2>2, InSyncStays
  <2>4. QED
    BY <2>1, <2>3 DEF Unsent
<1>5. CASE Fetch(m) \/ FetchFails(m)
  <2>1. /\ disk' = disk /\ log' = log /\ applied' = applied
        /\ entries'[m] = scan[m] /\ outbox[m] = {} /\ outbox'[m] = {} /\ pc[m] = "pushing"
    BY <1>5 DEF Fetch, FetchFails, EndCycle, TypeOK, Types
  <2>2. InSync(m, p, scan[m])
    BY <2>1 DEF InSync
  <2>3. IsNewest(m, p)
    BY <2>1, <2>2 DEF NewestOn, NewestOf, Pending
  <2>4. Known(m)' = Known(m)
    BY <2>1 DEF Known, Own
  <2>5. QED
    BY <2>1, <2>3, <2>4, NewestStays DEF Unsent
<1>6. CASE ReadFails(m) \/ PushRefused(m) \/ RecordFails(m) \/ Save(m) \/ SaveFails(m)
           \/ \E s \in inbox[m] : SkipOwn(m, s) \/ ApplyFails(m, s)
  <2>1. entries' = entries /\ outbox'[m] \subseteq outbox[m] /\ applied' = applied
    BY <1>6 DEF ReadFails, PushRefused, RecordFails, Save, SaveFails, SkipOwn, ApplyFails,
                EndCycle, TypeOK, Types
  <2>2. \A s \in inbox[m] : ~Applies(m, s)
    BY <2>1, AppliedIsNew
  <2>3. QED
    BY <2>1, <2>2, InSyncStays DEF Unsent
<1>7. ASSUME NEW s \in inbox[m], ApplyFolder(m, s) \/ ApplyFile(m, s) \/ ApplyDeletion(m, s)
      PROVE  IsNewest(m, p)' /\ ~Unsent(m, p)'
  <2> DEFINE q == log[s].path
  <2>1. /\ Applies(m, s) /\ q \in Paths /\ outbox'[m] = outbox[m]
        /\ disk[m] \in [Paths -> Node] /\ entries[m] \in [Paths -> Entry]
    BY <1>7, TakenIsEvent DEF ApplyFolder, ApplyFile, ApplyDeletion, Applies, TakeRemote, Take,
                              Event, TypeOK, Types
  <2>2. q # p /\ entries'[m][p] = entries[m][p]
    <3>1. CASE ApplyFolder(m, s)
      <4>1. entries'[m] = [entries[m] EXCEPT ![q] = EntryOf(Folder)]
        BY <3>1 DEF ApplyFolder, TypeOK, Types
      <4>2. EntryOf(Folder).kind # "File"
        BY DEF EntryOf, Folder
      <4>3. QED
        BY <1>0, <2>1, <4>1, <4>2
    <3>2. CASE ApplyFile(m, s)
      <4>1. /\ entries' = entries
            /\ disk'[m] = WithFile(disk[m], q, log[s].content, FreshStamp(m, q))
        BY <3>2 DEF ApplyFile, TypeOK, Types
      <4>2. disk'[m][q].stamp = FreshStamp(m, q)
        BY <2>1, <4>1 DEF WithFile, WithFolders, FileOf
      <4>3. QED
        BY <2>1, <4>1, <4>2, FreshStampIsFresh DEF EntryOf
    <3>3. CASE ApplyDeletion(m, s)
      <4>1. PICK ps : q \in ps /\ entries'[m] = Without(entries[m], ps, NoEntry)
        BY <3>3 DEF ApplyDeletion, TypeOK, Types
      <4>2. NoEntry.kind # "File"
        BY DEF NoEntry
      <4>3. QED
        BY <1>0, <4>1, <4>2 DEF Without
    <3>4. QED
      BY <1>7, <3>1, <3>2, <3>3
  <2>3. ~Unsent(m, p) /\ IsNewest(m, p)'
    BY <2>1, <2>2, AppliedIsNew, InSyncStays
  <2>4. QED
    BY <2>1, <2>3 DEF Unsent
<1>8. CASE RecordFile(m)
  <2>1. /\ disk' = disk /\ log' = log /\ applied' = applied
        /\ outbox'[m] = {} /\ outbox[m] = {}
        /\ entries'[m] = [entries[m] EXCEPT ![writing[m]] =
                            [kind |-> "File", stamp |-> disk[m][writing[m]].stamp]]
    BY <1>8 DEF RecordFile, TypeOK, Types, CycleOK
  <2>2. IsNewest(m, p)
    <3>1. CASE writing[m] = p
      BY <2>1, <3>1 DEF NewestOn, NewestOf
    <3>2. CASE writing[m] # p
      BY <2>1, <3>2 DEF NewestOn, NewestOf, InSync, TypeOK, Types
    <3>3. QED
      BY <3>1, <3>2
  <2>3. Known(m)' = Known(m)
    BY <2>1 DEF Known, Own
  <2>4. QED
    BY <2>1, <2>2, <2>3, NewestStays DEF Unsent
<1>9. QED
  BY <1>1, <1>2, <1>3, <1>4, <1>5, <1>6, <1>7, <1>8 DEF Loop, PushPhase, ApplyPhase

(* What the scan holds after a step.                                       *)
LEMMA ScanNewest ==
  ASSUME TypeOK, TypeOK', NEW m \in Machines, NewestOn(m), Loop(m), ~PushUnanswered(m),
         NEW p \in Paths, <<m, p>> \notin raced, pc'[m] \in {"scanned", "pushing"},
         disk'[m][p].kind = "File", scan'[m][p] = EntryOf(disk'[m][p])
  PROVE  Pending(m, p)' \/ (IsNewest(m, p)' /\ ~Unsent(m, p)')
<1>1. CASE Scan(m)
  <2>1. disk' = disk /\ entries' = entries
    BY <1>1 DEF Scan
  <2>2. CASE entries[m][p] = EntryOf(disk[m][p])
    BY <2>1, <2>2, EntriesNewest
  <2>3. CASE entries[m][p] # EntryOf(disk[m][p])
    BY <1>1, <2>1, <2>3, ScanFinds
  <2>4. QED
    BY <2>2, <2>3
<1>2. CASE ReadChanges(m)
  <2>1. /\ disk' = disk /\ scan' = scan /\ log' = log /\ applied' = applied
        /\ pc[m] = "scanned" /\ outbox'[m] = {WithContent(m, c) : c \in outbox[m]}
    BY <1>2 DEF ReadChanges, TypeOK, Types
  <2>2. Pending(m, p) \/ (IsNewest(m, p) /\ ~Unsent(m, p))
    BY <2>1 DEF NewestOn, NewestOf, InSync
  <2>3. CASE Pending(m, p)
    BY <1>2, <2>3, ReadingFills
  <2>4. CASE IsNewest(m, p) /\ ~Unsent(m, p)
    <3>1. Known(m)' = Known(m)
      BY <2>1 DEF Known, Own
    <3>2. IsNewest(m, p)'
      BY <2>1, <2>4, <3>1, NewestStays
    <3>3. \A c \in outbox[m] : WithContent(m, c).path = c.path
      BY DEF WithContent, TypeOK, Types, Event
    <3>4. ~Unsent(m, p)'
      BY <2>1, <2>4, <3>3 DEF Unsent
    <3>5. QED
      BY <3>2, <3>4
  <2>5. QED
    BY <2>2, <2>3, <2>4
<1>3. CASE Push(m)
  <2>1. /\ disk' = disk /\ scan' = scan /\ applied' = applied /\ pc' = pc
        /\ pc[m] = "pushing"
    BY <1>3 DEF Push
  <2>2. PICK e \in outbox[m] :
          /\ NextToPush(m, e) /\ log' = Append(log, e)
          /\ outbox' = [outbox EXCEPT ![m] = outbox[m] \ {e}]
    BY <1>3 DEF Push
  <2>3. outbox'[m] = outbox[m] \ {e}
    BY <2>2 DEF TypeOK, Types
  <2>4. /\ Len(log) \in Nat /\ Len(log') = Len(log) + 1 /\ log'[Len(log')] = e
        /\ \A s \in 1 .. Len(log) : log'[s] = log[s]
        /\ e \in Event /\ e.origin = m
    BY <2>2 DEF TypeOK, Types, CycleOK
  <2>5. Known(m) \subseteq 1 .. Len(log)
    BY <2>4 DEF NewestOn, CursorPast, TypeOK, Types, CycleOK
  <2>6. Known(m)' = Known(m) \cup {Len(log')}
    <3>1. Own(m)' = Own(m) \cup {Len(log')}
      BY <2>4 DEF Own
    <3>2. QED
      BY <2>1, <3>1 DEF Known
  <2>7. Pending(m, p) \/ (IsNewest(m, p) /\ ~Unsent(m, p))
    BY <2>1 DEF NewestOn, NewestOf, InSync
  <2>8. CASE IsNewest(m, p) /\ ~Unsent(m, p)
    <3>1. IsNewest(m, p)'
      BY <2>1, <2>2, <2>4, <2>5, <2>6, <2>8, NewestStays DEF Unsent
    <3>2. QED
      BY <2>3, <2>8, <3>1 DEF Unsent
  <2>9. CASE Pending(m, p)
    <3>1. PICK f \in outbox[m] :
            f.path = p /\ NeedsContent(f) /\ f.content = disk[m][p].content
      BY <2>1, <2>9 DEF Pending
    <3>2. CASE f # e
      BY <2>1, <2>3, <3>1, <3>2 DEF Pending
    <3>3. CASE f = e
      <4>1. PICK s : s = Len(log')
        OBVIOUS
      <4>2. Publishes(s, p, disk[m][p].content)'
        BY <2>1, <2>4, <3>1, <3>3, <4>1 DEF Publishes, NeedsContent
      <4>3. s \in Known(m)' /\ \A t \in Known(m)' : t <= s
        BY <2>4, <2>5, <2>6, <4>1
      <4>4. IsNewest(m, p)'
        BY <4>2, <4>3 DEF IsNewest
      <4>5. \A g \in outbox[m] \ {e} : g.path # p
        BY <2>2, <2>4, <3>1, <3>3 DEF NextToPush, Before, NeedsContent, Event, Paths
      <4>6. QED
        BY <2>3, <4>4, <4>5 DEF Unsent
    <3>4. QED
      BY <3>2, <3>3
  <2>10. QED
    BY <2>7, <2>8, <2>9
<1>4. QED
  <2>1. ASSUME NEW s \in inbox[m], Take(m, s)
        PROVE  pc[m] = "applying"
    BY <2>1 DEF Take, NextToApply
  <2>2. pc'[m] \in {"scanned", "pushing"} => Scan(m) \/ ReadChanges(m) \/ Push(m)
    BY <2>1 DEF Loop, PushPhase, ApplyPhase, Start, ReadFails, PushRefused, PushUnanswered,
       Fetch, FetchFails, SkipOwn, ApplyFolder, ApplyFile, ApplyDeletion, ApplyFails,
       Applies, TakeRemote, RecordFile, RecordFails, Save, SaveFails, EndCycle, TypeOK, Types
  <2>3. QED
    BY <1>1, <1>2, <1>3, <2>2

(* The file just written holds the newest.                                 *)
LEMMA WritingNewest ==
  ASSUME TypeOK, TypeOK', NEW m \in Machines, NewestOn(m), Loop(m), ~PushUnanswered(m),
         NEW p \in Paths, writing'[m] = p
  PROVE  IsNewest(m, p)'
<1>1. pc'[m] = "recording"
  BY DEF TypeOK, CycleOK, Paths
<1>2. PICK s \in inbox[m] : ApplyFile(m, s)
  BY <1>1 DEF Loop, PushPhase, ApplyPhase, Start, Scan, ReadChanges, ReadFails, Push,
       PushRefused, PushUnanswered, Fetch, FetchFails, SkipOwn, ApplyFolder, ApplyDeletion,
       ApplyFails, Applies, TakeRemote, Take, NextToApply, RecordFile, RecordFails, Save,
       SaveFails, EndCycle, TypeOK, Types
<1>3. /\ Applies(m, s) /\ log' = log /\ NeedsContent(log[s]) /\ log[s].path \in Paths
      /\ disk[m] \in [Paths -> Node]
  BY <1>2, TakenIsEvent DEF ApplyFile, Applies, TakeRemote, Take, Event, TypeOK, Types
<1>4. /\ writing'[m] = log[s].path
      /\ disk'[m] = WithFile(disk[m], log[s].path, log[s].content, FreshStamp(m, log[s].path))
  BY <1>2 DEF ApplyFile, TypeOK, Types
<1>5. disk'[m][p].content = log[s].content
  BY <1>3, <1>4 DEF WithFile, WithFolders, FileOf
<1>6. Publishes(s, p, disk[m][p].content)'
  BY <1>3, <1>4, <1>5 DEF Publishes, NeedsContent
<1>7. Known(m)' = Known(m) \cup {s}
  BY <1>3 DEF Applies, Known, Own, TypeOK, Types
<1>8. \A t \in Known(m)' : t <= s
  <2>1. s \in Nat /\ last[m] \in Nat
    BY DEF TypeOK, Types
  <2>2. \A t \in Known(m) : t \in Nat
    BY <2>1 DEF NewestOn, CursorPast
  <2>3. QED
    BY <1>3, <1>7, <2>1, <2>2, AppliedIsNew
<1>9. QED
  BY <1>6, <1>7, <1>8 DEF IsNewest

-----------------------------------------------------------------------------
LEMMA NewestInvInit == Init => NewestInv
<1> SUFFICES ASSUME Init, NEW m \in Machines
             PROVE  NewestOn(m)
  BY DEF NewestInv
<1>1. Known(m) = {} /\ saved[m] = FreshState /\ pc[m] = "down" /\ writing[m] = 0
  BY DEF Init, Known, Own
<1>2. \A p \in Paths : ~InSync(m, p, entries[m]) /\ p # 0
  BY DEF Init, InSync, EmptyTree, Absent, Paths
<1>3. QED
  BY <1>1, <1>2 DEF NewestOn, CursorPast, NewestOf

(* A user's edit makes no file look in sync.                               *)
LEMMA UserNewest ==
  ASSUME TypeOK, UserStep, NEW n \in Machines, NewestOn(n)
  PROVE  NewestOn(n)'
<1>1. /\ log' = log /\ saved' = saved /\ pc' = pc /\ entries' = entries
      /\ scan' = scan /\ outbox' = outbox /\ writing' = writing /\ last' = last
      /\ applied' = applied /\ raced \subseteq raced'
  BY UserRenews DEF cycle, UserStep, UserWrites, UserMakesFolder, UserRemoves, Edit
<1>2. Known(n)' = Known(n)
  BY <1>1 DEF Known, Own
<1>3. CursorPast(n)'
  BY <1>1, <1>2 DEF NewestOn, CursorPast
<1>4. ASSUME NEW p \in Paths
      PROVE  NewestOf(n, p)'
  <2> SUFFICES ASSUME <<n, p>> \notin raced', disk'[n][p].kind = "File"
               PROVE  /\ InSync(n, p, entries[n])' => IsNewest(n, p)' /\ ~Unsent(n, p)'
                      /\ pc'[n] \in {"scanned", "pushing"} /\ InSync(n, p, scan[n])' =>
                           Pending(n, p)' \/ (IsNewest(n, p)' /\ ~Unsent(n, p)')
                      /\ writing'[n] = p => IsNewest(n, p)'
    BY DEF NewestOf, InSync
  <2>1. NewestOf(n, p) /\ <<n, p>> \notin raced
    BY <1>1 DEF NewestOn
  <2>2. Unsent(n, p)' = Unsent(n, p)
    BY <1>1 DEF Unsent
  <2>3. disk'[n][p] = disk[n][p] /\ IsNewest(n, p) => IsNewest(n, p)'
    BY <1>1, <1>2, NewestStays
  <2>4. InSync(n, p, entries[n])' => IsNewest(n, p)' /\ ~Unsent(n, p)'
    <3>1. InSync(n, p, entries[n])' =>
            disk'[n][p] = disk[n][p] /\ InSync(n, p, entries[n])
      BY <1>1, UserRenews, InSyncBefore DEF InSync
    <3>2. QED
      BY <2>1, <2>2, <2>3, <3>1 DEF NewestOf
  <2>5. pc'[n] \in {"scanned", "pushing"} /\ InSync(n, p, scan[n])' =>
          Pending(n, p)' \/ (IsNewest(n, p)' /\ ~Unsent(n, p)')
    <3>1. InSync(n, p, scan[n])' =>
            disk'[n][p] = disk[n][p] /\ InSync(n, p, scan[n])
      BY <1>1, UserRenews, InSyncBefore DEF InSync
    <3>2. disk'[n][p] = disk[n][p] /\ Pending(n, p) => Pending(n, p)'
      BY <1>1 DEF Pending, NeedsContent
    <3>3. QED
      BY <1>1, <2>1, <2>2, <2>3, <3>1, <3>2 DEF NewestOf
  <2>6. writing'[n] = p => IsNewest(n, p)'
    BY <1>1, <2>1, <2>3, UserRenews DEF NewestOf
  <2>7. QED
    BY <2>4, <2>5, <2>6
<1>5. QED
  BY <1>3, <1>4 DEF NewestOn

(* A step of one machine adds nothing to what another knows.               *)
LEMMA OthersKnowTheSame ==
  ASSUME TypeOK, NEW m \in Machines, LoopOrCrash(m), NEW n \in Machines, n # m
  PROVE  Known(n)' = Known(n)
<1>1. applied'[n] = applied[n]
  BY OthersUntouched DEF TypeOK, Untouched
<1>2. CASE log' = log
  BY <1>1, <1>2 DEF Known, Own
<1>3. ASSUME NEW e \in outbox[m], log' = Append(log, e)
      PROVE  Known(n)' = Known(n)
  <2>1. e \in Event /\ e.origin = m /\ log \in Seq(Event)
    BY DEF TypeOK, Types, CycleOK
  <2>2. /\ Len(log) \in Nat /\ Len(log') = Len(log) + 1 /\ log'[Len(log')].origin = m
        /\ \A s \in 1 .. Len(log) : log'[s] = log[s]
    BY <1>3, <2>1
  <2>3. Own(n)' = Own(n)
    BY <2>2 DEF Own
  <2>4. QED
    BY <1>1, <2>3 DEF Known
<1>4. QED
  BY <1>2, <1>3, LogGrows DEF TypeOK

LEMMA LoopNewest ==
  ASSUME TypeOK, TypeOK', NEW m \in Machines, NewestOn(m), Loop(m), ~PushUnanswered(m)
  PROVE  NewestOn(m)'
<1>1. CursorPast(m)'
  BY LoopCursorPast
<1>2. \A p \in Paths : raced' = raced
  BY LoopRenews DEF LoopOrCrash
<1>3. \A p \in Paths : NewestOf(m, p)'
  BY <1>1, <1>2, EntriesNewest, ScanNewest, WritingNewest DEF NewestOf, InSync
<1>4. QED
  BY <1>1, <1>3 DEF NewestOn

(* Whatever another machine does, crashes included, changes nothing here.  *)
LEMMA OthersNewest ==
  ASSUME TypeOK, TypeOK', NEW m \in Machines, LoopOrCrash(m),
         NEW n \in Machines, n # m, NewestOn(n)
  PROVE  NewestOn(n)'
<1>1. /\ disk'[n] = disk[n] /\ saved'[n] = saved[n] /\ pc'[n] = pc[n]
      /\ last'[n] = last[n] /\ entries'[n] = entries[n] /\ scan'[n] = scan[n]
      /\ outbox'[n] = outbox[n] /\ writing'[n] = writing[n]
  BY OthersUntouched DEF TypeOK, Untouched
<1>2. Known(n)' = Known(n)
  BY OthersKnowTheSame
<1>3. CursorPast(n)'
  BY <1>1, <1>2 DEF NewestOn, CursorPast
<1>4. ASSUME NEW p \in Paths
      PROVE  NewestOf(n, p)'
  <2>1. \A s \in Known(n) : log'[s] = log[s]
    <3>1. /\ Len(log) \in Nat /\ \A s \in 1 .. Len(log) : log'[s] = log[s]
          /\ last[n] \in Nat /\ last[n] <= Len(log)
      BY LogPrefix DEF TypeOK, Types, CycleOK
    <3>2. QED
      BY <3>1 DEF NewestOn, CursorPast
  <2>2. IsNewest(n, p) => IsNewest(n, p)'
    BY <1>1, <1>2, <2>1, NewestStays
  <2>3. Unsent(n, p)' = Unsent(n, p) /\ (Pending(n, p) => Pending(n, p)')
    BY <1>1 DEF Unsent, Pending, NeedsContent
  <2>4. raced' = raced
    BY LoopRenews
  <2>5. QED
    BY <1>1, <2>2, <2>3, <2>4 DEF NewestOn, NewestOf, InSync
<1>5. QED
  BY <1>3, <1>4 DEF NewestOn

(* A machine that was disturbed once stays so for the history.             *)
LEMMA UnsureStays ==
  ASSUME TypeOK, [Next]_vars, NEW m \in Machines, Unsure(m)
  PROVE  Unsure(m)'
<1>1. faults \in Seq(AllFaults \X Machines)
  BY DEF TypeOK, Types
<1>2. CASE faults' = faults
  BY <1>2 DEF Unsure
<1>3. ASSUME NEW kind, NEW n \in Machines, Fault(kind, n)
      PROVE  Unsure(m)'
  <2>1. PICK f \in AllFaults \X Machines : faults' = Append(faults, f)
    BY <1>3, FaultTypes DEF TypeOK
  <2>2. /\ Len(faults) \in Nat /\ Len(faults') = Len(faults) + 1
        /\ \A i \in 1 .. Len(faults) : faults'[i] = faults[i]
    BY <1>1, <2>1
  <2>3. QED
    BY <2>2 DEF Unsure
<1>4. CASE UserStep \/ UNCHANGED vars
  BY <1>2, <1>4 DEF UserStep, UserWrites, UserMakesFolder, UserRemoves, Edit, vars
<1>5. ASSUME NEW n \in Machines, LoopOrCrash(n)
      PROVE  Unsure(m)'
  <2>1. CASE Crash(n) \/ CrashInSave(n) \/ PushRefused(n) \/ PushUnanswered(n) \/ FetchFails(n)
             \/ SaveFails(n) \/ \E s \in inbox[n] : ApplyDeletion(n, s) \/ ApplyFails(n, s)
    BY <1>2, <1>3, <2>1 DEF Crash, CrashInSave, PushRefused, PushUnanswered, FetchFails,
                            SaveFails, ApplyDeletion, ApplyFails
  <2>2. CASE Start(n) \/ Scan(n) \/ ReadChanges(n) \/ ReadFails(n) \/ Push(n) \/ Fetch(n)
             \/ RecordFile(n) \/ RecordFails(n) \/ Save(n)
             \/ \E s \in inbox[n] : SkipOwn(n, s) \/ ApplyFolder(n, s) \/ ApplyFile(n, s)
    BY <1>2, <2>2 DEF Start, Scan, ReadChanges, ReadFails, Push, Fetch, RecordFile, RecordFails,
                      Save, SkipOwn, ApplyFolder, ApplyFile
  <2>3. QED
    BY <1>5, <2>1, <2>2 DEF LoopOrCrash, Loop, PushPhase, ApplyPhase
<1>6. QED
  BY <1>4, <1>5 DEF Next, LoopOrCrash

(* A crash or a lost answer is recorded.                                   *)
LEMMA FaultIsRecorded ==
  ASSUME TypeOK, NEW m \in Machines, NEW kind \in {"crash", "lose"}, Fault(kind, m)
  PROVE  Unsure(m)'
<1>1. PICK f \in AllFaults \X Machines : f = <<kind, m>> /\ faults' = Append(faults, f)
  BY FaultTypes DEF TypeOK
<1>2. Len(faults) \in Nat /\ Len(faults') = Len(faults) + 1 /\ faults'[Len(faults) + 1] = f
  BY <1>1 DEF TypeOK, Types
<1>3. QED
  BY <1>1, <1>2 DEF Unsure

LEMMA NewestInvStep == TypeOK /\ TypeOK' /\ NewestInv /\ [Next]_vars => NewestInv'
<1> SUFFICES ASSUME TypeOK, TypeOK', NewestInv, [Next]_vars, NEW n \in Machines
             PROVE  Unsure(n)' \/ NewestOn(n)'
  BY DEF NewestInv
<1>1. CASE Unsure(n)
  BY <1>1, UnsureStays
<1>2. CASE NewestOn(n)
  <2>1. CASE UserStep
    BY <1>2, <2>1, UserNewest
  <2>2. ASSUME NEW m \in Machines, LoopOrCrash(m), m # n
        PROVE  NewestOn(n)'
    BY <1>2, <2>2, OthersNewest
  <2>3. CASE Loop(n) /\ ~PushUnanswered(n)
    BY <1>2, <2>3, LoopNewest
  <2>4. CASE Crash(n) \/ CrashInSave(n) \/ PushUnanswered(n)
    BY <2>4, FaultIsRecorded DEF Crash, CrashInSave, PushUnanswered
  <2>5. CASE UNCHANGED vars
    BY <1>2, <2>5 DEF vars, cycle, NewestOn, NewestOf, CursorPast, IsNewest, InSync, Unsent,
                      Pending, Known, Own, Publishes, NeedsContent
  <2>6. QED
    BY <2>1, <2>2, <2>3, <2>4, <2>5 DEF Next, LoopOrCrash
<1>3. QED
  BY <1>1, <1>2 DEF NewestInv

(* On a machine that never died and got all its answers, a file in sync    *)
(* holds what the newest event says that the machine pushed or applied for *)
(* it: in any tree, with any number of machines, edits and other faults,   *)
(* whatever happens to the other machines. (With a crash the cursor falls  *)
(* back, with a lost answer the machine does not know that it published.)  *)
THEOREM InSyncIsNewest == Spec => []InSyncFileIsNewestKnown
<1>1. Spec => []TypeOK
  BY TypeCorrect
<1>2. Spec => []NewestInv
  BY <1>1, NewestInvInit, NewestInvStep, PTL DEF Spec
<1>3. NewestInv => InSyncFileIsNewestKnown
  BY DEF NewestInv, NewestOn, NewestOf, IsNewest, Known, InSyncFileIsNewestKnown
<1>4. QED
  BY <1>2, <1>3, PTL

-----------------------------------------------------------------------------
(* ReceiversNeverPublish: what a machine without editors remembers is what *)
(* is on its disk, so no scan finds a change.                              *)

Quiet(m) ==
  /\ outbox[m] = {}
  /\ \A p \in Paths : disk[m][p].kind # "File" => disk[m][p].stamp = 0
  /\ pc[m] = "down" => disk[m] = EmptyTree /\ saved[m] = FreshState
  /\ pc[m] \in {"scanned", "pushing"} => scan[m] = ScanOf(disk[m])
  /\ \A p \in Paths \ {writing[m]} : entries[m][p] = EntryOf(disk[m][p])
  /\ writing[m] # 0 => disk[m][writing[m]].kind = "File"

QuietInv == \A m \in Machines \ Editors : Quiet(m)

(* An event fits a tree if doing it changes no other path than its own and *)
(* those in the folder it deletes.                                         *)
Fits(tree, e) ==
  IF e.change = "Deleted" THEN tree[e.path].kind \in {"Absent", e.entry}
  ELSE \A a \in Ancestors[e.path] : tree[a].kind = "Directory"

(* An application that fails leaves no folder of the event itself behind.  *)
LeavesNothing(e) == "apply" \notin FaultKinds \/ e.entry = "File"

(* Folders that are there already stay as they are.                        *)
LEMMA FoldersStand ==
  ASSUME NEW tree \in [Paths -> Node], NEW p \in Paths, NEW ps,
         \A a \in Ancestors[p] : tree[a].kind = "Directory", ps \subseteq Ancestors[p] \cup {p},
         NEW q \in Paths, q # p
  PROVE  WithFolders(tree, ps)[q] = tree[q]
BY DEF WithFolders

(* A scan that finds what is remembered finds nothing to push.             *)
LEMMA NothingFound ==
  ASSUME NEW old, NEW new, NEW m, \A p \in Paths : old[p] = new[p]
  PROVE  LocalChanges(old, new, m) = {}
BY DEF LocalChanges

(* A step of the loop at a machine that has nothing to push.               *)
LEMMA QuietStays ==
  ASSUME TypeOK, TypeOK', "crash" \notin FaultKinds, "remove" \notin FaultKinds,
         NEW m \in Machines, Quiet(m), Loop(m),
         \A s \in inbox[m] :
           TakeRemote(m, s) => Fits(disk[m], log[s]) /\ LeavesNothing(log[s])
  PROVE  Quiet(m)'
<1>0. /\ disk[m] \in [Paths -> Node] /\ entries[m] \in [Paths -> Entry] /\ IsTree(disk[m])
      /\ writing[m] # 0 <=> pc[m] = "recording"
      /\ 0 \notin Paths
  BY DEF TypeOK, Types, CycleOK, Paths
<1>1. CASE Start(m)
  <2>1. /\ disk'[m] = EmptyTree /\ entries'[m] = NoEntries /\ pc'[m] = "idle"
        /\ writing'[m] = 0 /\ outbox'[m] = {}
    BY <1>0, <1>1 DEF Start, cycle, Quiet, FreshState, TypeOK, Types
  <2>2. \A p \in Paths : EntryOf(EmptyTree[p]) = NoEntries[p] /\ EmptyTree[p].stamp = 0
    BY DEF EntryOf, EmptyTree, Absent, NoEntries, NoEntry
  <2>3. QED
    BY <2>1, <2>2 DEF Quiet
<1>2. CASE Scan(m)
  <2>1. /\ disk' = disk /\ entries' = entries /\ writing' = writing /\ writing[m] = 0
        /\ pc'[m] = "scanned" /\ scan'[m] = ScanOf(disk[m])
        /\ outbox'[m] = LocalChanges(entries[m], ScanOf(disk[m]), m)
    BY <1>0, <1>2 DEF Scan, TypeOK, Types
  <2>2. \A p \in Paths : entries[m][p] = ScanOf(disk[m])[p]
    BY <1>0, <2>1 DEF Quiet, ScanOf
  <2>3. outbox'[m] = {}
    BY <2>1, <2>2, NothingFound
  <2>4. QED
    BY <2>1, <2>3 DEF Quiet
<1>3. CASE ReadChanges(m)
  BY <1>3 DEF ReadChanges, Quiet, TypeOK, Types
<1>4. CASE ReadFails(m) \/ PushRefused(m) \/ Push(m) \/ PushUnanswered(m)
  BY <1>4 DEF ReadFails, PushRefused, Push, PushUnanswered, Quiet
<1>5. CASE Fetch(m) \/ FetchFails(m)
  <2>1. /\ disk' = disk /\ entries'[m] = scan[m] /\ writing'[m] = 0 /\ outbox'[m] = {}
        /\ pc'[m] \in {"applying", "idle"} /\ scan[m] = ScanOf(disk[m])
    BY <1>0, <1>5 DEF Fetch, FetchFails, EndCycle, Quiet, TypeOK, Types
  <2>2. QED
    BY <2>1 DEF Quiet, ScanOf
<1>6. CASE Save(m) \/ SaveFails(m) \/ \E s \in inbox[m] : SkipOwn(m, s) \/ ApplyFails(m, s)
  <2>1. /\ entries' = entries /\ outbox'[m] = {} /\ pc[m] = "applying"
        /\ pc'[m] \in {"applying", "idle"} /\ writing'[m] = 0 /\ writing[m] = 0
    BY <1>0, <1>6 DEF Save, SaveFails, SkipOwn, ApplyFails, TakeRemote, Take, NextToApply,
                      EndCycle, Quiet, TypeOK, Types
  <2>2. CASE disk' = disk
    BY <2>1, <2>2 DEF Quiet
  <2>3. CASE \E s \in inbox[m] : ApplyFails(m, s)
    <3>1. PICK s \in inbox[m] : ApplyFails(m, s)
      BY <2>3
    <3>2. /\ ~(log[s].change = "Deleted")
          /\ Fits(disk[m], log[s]) /\ LeavesNothing(log[s])
      BY <3>1 DEF ApplyFails
    <3>3. \A a \in Ancestors[log[s].path] : disk[m][a].kind = "Directory"
      BY <3>2 DEF Fits
    <3>4. ASSUME NEW made \in SUBSET Paths,
                 disk' = [disk EXCEPT ![m] = WithFolders(disk[m], made)],
                 made \subseteq Ancestors[log[s].path]
          PROVE  Quiet(m)'
      <4>1. \A q \in Paths : disk'[m][q] = disk[m][q]
        BY <3>3, <3>4 DEF WithFolders, TypeOK, Types
      <4>2. QED
        BY <2>1, <4>1 DEF Quiet
    <3>5. QED
      BY <2>2, <3>1, <3>2, <3>4, HalfMadeFolders DEF LeavesNothing
  <2>4. QED
    BY <1>6, <2>2, <2>3 DEF Save, SaveFails, SkipOwn
<1>7. CASE RecordFails(m)
  BY <1>0, <1>7 DEF RecordFails, Quiet
<1>8. CASE RecordFile(m)
  <2> DEFINE p == writing[m]
  <2>1. /\ disk' = disk /\ outbox'[m] = {} /\ writing'[m] = 0 /\ pc'[m] = "applying"
        /\ entries'[m] = [entries[m] EXCEPT ![p] =
                            [kind |-> "File", stamp |-> disk[m][p].stamp]]
        /\ disk[m][p].kind = "File"
    BY <1>0, <1>8 DEF RecordFile, Quiet, TypeOK, Types
  <2>2. \A q \in Paths : entries'[m][q] = EntryOf(disk[m][q])
    BY <1>0, <2>1 DEF Quiet, EntryOf
  <2>3. QED
    BY <2>1, <2>2 DEF Quiet
<1>9. ASSUME NEW s \in inbox[m], ApplyFolder(m, s) \/ ApplyFile(m, s) \/ ApplyDeletion(m, s)
      PROVE  Quiet(m)'
  <2> DEFINE e == log[s]
             p == log[s].path
  <2>1. /\ TakeRemote(m, s) /\ e \in Event /\ p \in Paths /\ Fits(disk[m], e)
        /\ pc[m] = "applying" /\ writing[m] = 0 /\ outbox'[m] = {}
        /\ \A q \in Paths : /\ entries[m][q] = EntryOf(disk[m][q])
                            /\ disk[m][q].kind # "File" => disk[m][q].stamp = 0
    BY <1>0, <1>9, TakenIsEvent DEF ApplyFolder, ApplyFile, ApplyDeletion, Applies, TakeRemote,
       Take, NextToApply, Event, Quiet
  <2>2. CASE ApplyFolder(m, s)
    <3> DEFINE ps == Ancestors[p] \cup {p}
    <3>1. /\ disk'[m] = WithFolders(disk[m], ps)
          /\ entries'[m] = [entries[m] EXCEPT ![p] = EntryOf(Folder)]
          /\ pc'[m] = "applying" /\ writing'[m] = 0
          /\ disk[m][p].kind # "File"
      BY <1>0, <2>1, <2>2 DEF ApplyFolder, CanMakeFolder, TypeOK, Types
    <3>2. \A q \in Paths : q # p => disk'[m][q] = disk[m][q]
      BY <1>0, <2>1, <2>2, <3>1, FoldersStand DEF Fits, ApplyFolder
    <3>3. disk'[m][p].kind = "Directory" /\ disk'[m][p].stamp = 0
      BY <1>0, <2>1, <3>1 DEF WithFolders, Folder, Node, Kinds
    <3>4. \A q \in Paths : entries'[m][q] = EntryOf(disk'[m][q])
      <4>1. entries'[m][p] = EntryOf(Folder) /\ \A q \in Paths : q # p => entries'[m][q] = entries[m][q]
        BY <1>0, <2>1, <3>1
      <4>2. EntryOf(disk'[m][p]) = EntryOf(Folder)
        BY <3>3 DEF EntryOf, Folder
      <4>3. QED
        BY <2>1, <3>2, <4>1, <4>2
    <3>5. QED
      BY <2>1, <3>1, <3>2, <3>3, <3>4 DEF Quiet
  <2>3. CASE ApplyFile(m, s)
    <3>1. /\ disk'[m] = WithFile(disk[m], p, e.content, FreshStamp(m, p))
          /\ entries' = entries
          /\ pc'[m] = "recording" /\ writing'[m] = p
      BY <1>0, <2>1, <2>3 DEF ApplyFile, TypeOK, Types
    <3>2. \A q \in Paths : q # p => disk'[m][q] = disk[m][q]
      <4>1. \A q \in Paths : q # p => WithFolders(disk[m], Ancestors[p])[q] = disk[m][q]
        BY <1>0, <2>1, <2>3, FoldersStand DEF Fits, ApplyFile, NeedsContent
      <4>2. QED
        BY <3>1, <4>1 DEF WithFile, WithFolders
    <3>3. disk'[m][p].kind = "File"
      BY <2>1, <3>1 DEF WithFile, WithFolders, FileOf
    <3>4. QED
      BY <1>0, <2>1, <3>1, <3>2, <3>3 DEF Quiet
  <2>4. CASE ApplyDeletion(m, s)
    <3> DEFINE ps == {p} \cup (IF e.entry = "Directory" THEN Below(p) ELSE {})
    <3>1. /\ disk'[m] = AfterDeletion(disk[m], p, e.entry)
          /\ entries'[m] = Without(entries[m], ps, NoEntry)
          /\ pc'[m] = "applying" /\ writing'[m] = 0
          /\ disk[m][p].kind \in {"Absent", e.entry} /\ e.entry \in {"File", "Directory"}
      BY <1>0, <2>1, <2>4 DEF ApplyDeletion, Fault, Fits, Event, TypeOK, Types
    <3>2. \A q \in Paths :
            \/ disk'[m][q] = IF q \in ps THEN Absent ELSE disk[m][q]
            \/ disk'[m][q] = disk[m][q] /\ (q \in ps => disk[m][q].kind = "Absent")
      <4>1. CASE disk[m][p].kind = e.entry
        BY <3>1, <4>1 DEF AfterDeletion, Without
      <4>2. CASE disk[m][p].kind # e.entry
        <5>1. disk'[m] = disk[m] /\ disk[m][p].kind = "Absent"
          BY <3>1, <4>2 DEF AfterDeletion
        <5>2. \A q \in Below(p) : disk[m][q].kind = "Absent"
          BY <1>0, <5>1 DEF IsTree, Below
        <5>3. QED
          BY <5>1, <5>2
      <4>3. QED
        BY <4>1, <4>2
    <3>3. \A q \in Paths : entries'[m][q] = IF q \in ps THEN NoEntry ELSE entries[m][q]
      BY <3>1 DEF Without
    <3> HIDE DEF ps
    <3>4. ASSUME NEW q \in Paths
          PROVE  /\ entries'[m][q] = EntryOf(disk'[m][q])
                 /\ disk'[m][q].kind # "File" => disk'[m][q].stamp = 0
      BY <2>1, <3>2, <3>3 DEF EntryOf, NoEntry, Absent
    <3>5. QED
      BY <2>1, <3>1, <3>4 DEF Quiet
  <2>5. QED
    BY <1>9, <2>2, <2>3, <2>4
<1>10. QED
  BY <1>1, <1>2, <1>3, <1>4, <1>5, <1>6, <1>7, <1>8, <1>9 DEF Loop, PushPhase, ApplyPhase

LEMMA QuietInit == Init => QuietInv
<1> SUFFICES ASSUME Init, NEW m \in Machines
             PROVE  Quiet(m)
  BY DEF QuietInv
<1>1. \A p \in Paths : EntryOf(EmptyTree[p]) = NoEntries[p] /\ EmptyTree[p].stamp = 0
  BY DEF EntryOf, EmptyTree, Absent, NoEntries, NoEntry
<1>2. QED
  BY <1>1 DEF Init, Quiet

(* A step of anybody, where all that receivers apply fits their trees.     *)
LEMMA QuietStep ==
  ASSUME TypeOK, TypeOK', "crash" \notin FaultKinds, "remove" \notin FaultKinds,
         QuietInv, [Next]_vars,
         \A m \in Machines \ Editors : \A s \in inbox[m] :
           TakeRemote(m, s) => Fits(disk[m], log[s]) /\ LeavesNothing(log[s])
  PROVE  QuietInv'
<1> SUFFICES ASSUME NEW n \in Machines \ Editors
             PROVE  Quiet(n)'
  BY DEF QuietInv
<1>1. CASE /\ disk'[n] = disk[n] /\ saved'[n] = saved[n] /\ pc'[n] = pc[n]
           /\ entries'[n] = entries[n] /\ scan'[n] = scan[n]
           /\ outbox'[n] = outbox[n] /\ writing'[n] = writing[n]
  BY <1>1 DEF QuietInv, Quiet
<1>2. CASE UserStep
  <2>1. PICK m \in Machines, p \in Paths :
          \/ \E content \in Contents : UserWrites(m, p, content)
          \/ UserMakesFolder(m, p)
          \/ UserRemoves(m, p)
    BY <1>2 DEF UserStep
  <2>2. m # n
    BY <2>1 DEF UserWrites, UserMakesFolder, UserRemoves, CanEdit
  <2>3. /\ disk'[n] = disk[n] /\ saved' = saved /\ pc' = pc /\ entries' = entries
        /\ cycle' = cycle
    BY <2>1, <2>2 DEF UserWrites, UserMakesFolder, UserRemoves, Edit, TypeOK, Types
  <2>4. QED
    BY <1>1, <2>3 DEF cycle
<1>3. ASSUME NEW m \in Machines, LoopOrCrash(m), n # m
      PROVE  Quiet(n)'
  BY <1>1, <1>3, OthersUntouched DEF Untouched, TypeOK
<1>4. CASE Loop(n)
  BY <1>4, QuietStays DEF QuietInv
<1>5. ~Crash(n) /\ ~CrashInSave(n)
  BY DEF Crash, CrashInSave, Fault
<1>6. CASE UNCHANGED vars
  BY <1>1, <1>6 DEF vars, cycle
<1>7. QED
  BY <1>2, <1>3, <1>4, <1>5, <1>6 DEF Next, LoopOrCrash

(* A machine with nothing to push publishes nothing.                       *)
LEMMA NothingPublished ==
  ASSUME TypeOK, QuietInv, ReceiversNeverPublish, [Next]_vars
  PROVE  ReceiversNeverPublish'
<1>1. CASE log' = log
  BY <1>1 DEF ReceiversNeverPublish
<1>2. ASSUME NEW e \in Event, NEW m \in Machines, log' = Append(log, e), e.origin = m,
             e \in outbox[m]
      PROVE  ReceiversNeverPublish'
  <2>1. m \in Editors
    BY <1>2 DEF QuietInv, Quiet
  <2>2. /\ Len(log') = Len(log) + 1 /\ Len(log) \in Nat
        /\ log'[Len(log) + 1] = e /\ \A s \in 1 .. Len(log) : log'[s] = log[s]
    BY <1>2 DEF TypeOK, Types
  <2>3. QED
    BY <1>2, <2>1, <2>2 DEF ReceiversNeverPublish
<1>3. QED
  BY <1>1, <1>2, LogExtends

-----------------------------------------------------------------------------
(* A flat project, in which a path is only ever a file's or a folder's:    *)
(* every event fits every tree, whoever edits.                             *)
Flat ==
  /\ \A p \in Paths : Ancestors[p] = {}
  /\ FilePaths \cap FolderPaths = {}

Allowed(p, kind) ==
  /\ kind = "File" => p \in FilePaths
  /\ kind = "Directory" => p \in FolderPaths

AllAllowed(tree) == \A p \in Paths : Allowed(p, tree[p].kind)

FlatAt(m) ==
  /\ AllAllowed(disk[m]) /\ AllAllowed(scan[m])
  /\ AllAllowed(entries[m]) /\ AllAllowed(saved[m].entries)
  /\ \A e \in outbox[m] : Allowed(e.path, e.entry)
  /\ writing[m] \in FilePaths \cup {0}

FlatInv ==
  /\ \A m \in Machines : FlatAt(m)
  /\ \A s \in 1 .. Len(log) : Allowed(log[s].path, log[s].entry)

LEMMA FlatFits ==
  ASSUME Flat, TypeOK, FlatInv, NEW m \in Machines, NEW s \in inbox[m], TakeRemote(m, s)
  PROVE  Fits(disk[m], log[s]) /\ (FolderPaths = {} => log[s].entry = "File")
<1>1. /\ s \in 1 .. Len(log) /\ log[s] \in Event /\ log[s].path \in Paths
      /\ log[s].entry \in {"File", "Directory"}
      /\ disk[m][log[s].path].kind \in Kinds
  BY TakenIsEvent DEF TakeRemote, Take, Event, TypeOK, Types, Node
<1>2. /\ Allowed(log[s].path, log[s].entry)
      /\ Allowed(log[s].path, disk[m][log[s].path].kind)
  BY <1>1 DEF FlatInv, FlatAt, AllAllowed
<1>3. QED
  BY <1>1, <1>2 DEF Flat, Fits, Allowed, Kinds

LEMMA AllowedFolders ==
  ASSUME Flat, NEW tree, AllAllowed(tree), NEW p \in FolderPaths, p \in Paths
  PROVE  AllAllowed(WithFolders(tree, Ancestors[p] \cup {p}))
BY DEF Flat, AllAllowed, Allowed, WithFolders, Folder

LEMMA AllowedFile ==
  ASSUME Flat, NEW tree, AllAllowed(tree), NEW p \in FilePaths, p \in Paths, NEW c, NEW s
  PROVE  AllAllowed(WithFile(tree, p, c, s))
<1>1. \A q \in Paths : WithFolders(tree, Ancestors[p])[q] = tree[q]
  BY DEF Flat, WithFolders
<1>2. \A q \in Paths : q # p => WithFile(tree, p, c, s)[q] = tree[q]
  BY <1>1 DEF WithFile, WithFolders
<1>3. WithFile(tree, p, c, s)[p].kind = "File"
  BY DEF WithFile, WithFolders, FileOf
<1>4. QED
  BY <1>2, <1>3 DEF AllAllowed, Allowed

LEMMA AllowedDeletion ==
  ASSUME NEW tree, AllAllowed(tree), NEW p, NEW kind
  PROVE  AllAllowed(AfterDeletion(tree, p, kind))
BY DEF AllAllowed, Allowed, AfterDeletion, Without, Absent

LEMMA AllowedEntries ==
  ASSUME NEW known, AllAllowed(known), NEW ps
  PROVE  AllAllowed(Without(known, ps, NoEntry))
BY DEF AllAllowed, Allowed, Without, NoEntry

LEMMA AllowedScan ==
  ASSUME NEW tree, AllAllowed(tree)
  PROVE  AllAllowed(ScanOf(tree))
BY DEF AllAllowed, ScanOf, EntryOf

LEMMA AllowedNothing == AllAllowed(EmptyTree) /\ AllAllowed(NoEntries)
BY DEF AllAllowed, Allowed, EmptyTree, Absent, NoEntries, NoEntry

LEMMA AllowedChanges ==
  ASSUME NEW old, NEW new, NEW m, AllAllowed(old), AllAllowed(new),
         NEW e \in LocalChanges(old, new, m)
  PROVE  Allowed(e.path, e.entry)
BY DEF LocalChanges, AllAllowed

LEMMA FlatInit == Init => FlatInv
BY AllowedNothing DEF Init, FlatInv, FlatAt, FreshState

LEMMA FlatUser ==
  ASSUME Flat, TypeOK, FlatInv, UserStep
  PROVE  FlatInv'
<1>1. PICK m \in Machines, p \in Paths :
        \/ \E content \in Contents : UserWrites(m, p, content)
        \/ UserMakesFolder(m, p)
        \/ UserRemoves(m, p)
  BY DEF UserStep
<1>2. AllAllowed(disk[m])
  BY DEF FlatInv, FlatAt
<1>3. AllAllowed(disk'[m]) /\ \A n \in Machines : n # m => disk'[n] = disk[n]
  <2>1. ASSUME NEW content \in Contents, UserWrites(m, p, content)
        PROVE  AllAllowed(disk'[m]) /\ \A n \in Machines : n # m => disk'[n] = disk[n]
    <3>1. p \in FilePaths
          /\ disk' = [disk EXCEPT ![m] = WithFile(disk[m], p, content, FreshStamp(m, p))]
      BY <2>1 DEF UserWrites, Edit
    <3>2. QED
      BY <1>2, <3>1, AllowedFile DEF TypeOK, Types
  <2>2. CASE UserMakesFolder(m, p)
    <3>1. p \in FolderPaths
          /\ disk' = [disk EXCEPT ![m] = WithFolders(disk[m], Ancestors[p] \cup {p})]
      BY <2>2 DEF UserMakesFolder, Edit
    <3>2. QED
      BY <1>2, <3>1, AllowedFolders DEF TypeOK, Types
  <2>3. CASE UserRemoves(m, p)
    <3>1. disk' = [disk EXCEPT ![m] = AfterDeletion(disk[m], p, disk[m][p].kind)]
      BY <2>3 DEF UserRemoves, Edit
    <3>2. QED
      BY <1>2, <3>1, AllowedDeletion DEF TypeOK, Types
  <2>4. QED
    BY <1>1, <2>1, <2>2, <2>3
<1>4. /\ log' = log /\ saved' = saved /\ entries' = entries
      /\ scan' = scan /\ outbox' = outbox /\ writing' = writing
  BY <1>1 DEF UserWrites, UserMakesFolder, UserRemoves, Edit, cycle
<1>5. \A n \in Machines : AllAllowed(disk'[n])
  BY <1>3 DEF FlatInv, FlatAt
<1>6. QED
  BY <1>4, <1>5 DEF FlatInv, FlatAt

LEMMA FlatEndCycle ==
  ASSUME Types, NEW m \in Machines, NEW phase, EndCycle(m, phase)
  PROVE  AllAllowed(scan'[m]) /\ outbox'[m] = {} /\ writing'[m] = 0
BY AllowedNothing DEF EndCycle, Types

LEMMA FlatLoop ==
  ASSUME Flat, TypeOK, TypeOK', FlatInv, NEW m \in Machines, LoopOrCrash(m)
  PROVE  FlatAt(m)'
<1>0. /\ AllAllowed(disk[m]) /\ AllAllowed(scan[m])
      /\ AllAllowed(entries[m]) /\ AllAllowed(saved[m].entries)
      /\ \A e \in outbox[m] : Allowed(e.path, e.entry)
      /\ writing[m] \in FilePaths \cup {0}
      /\ AllAllowed(NoEntries)
  BY AllowedNothing DEF FlatInv, FlatAt
<1>1. CASE Start(m)
  BY <1>0, <1>1 DEF Start, cycle, FlatAt, TypeOK, Types
<1>2. CASE Crash(m) \/ CrashInSave(m)
  <2>1. /\ disk' = disk /\ entries'[m] = NoEntries
        /\ saved'[m] = saved[m] \/ saved'[m] = FreshState
    BY <1>2 DEF Crash, CrashInSave, TypeOK, Types
  <2>2. AllAllowed(scan'[m]) /\ outbox'[m] = {} /\ writing'[m] = 0
    BY <1>2, FlatEndCycle DEF Crash, CrashInSave, TypeOK
  <2>3. QED
    BY <1>0, <2>1, <2>2 DEF FlatAt, FreshState
<1>3. CASE Scan(m)
  <2>1. /\ scan'[m] = ScanOf(disk[m])
        /\ outbox'[m] = LocalChanges(entries[m], ScanOf(disk[m]), m)
        /\ disk' = disk /\ saved' = saved /\ entries' = entries /\ writing' = writing
    BY <1>3 DEF Scan, TypeOK, Types
  <2>2. QED
    BY <1>0, <2>1, AllowedScan, AllowedChanges DEF FlatAt
<1>4. CASE ReadChanges(m)
  <2>1. /\ outbox'[m] = {WithContent(m, c) : c \in outbox[m]} /\ scan' = scan
        /\ disk' = disk /\ saved' = saved /\ entries' = entries /\ writing' = writing
    BY <1>4 DEF ReadChanges, TypeOK, Types
  <2>2. \A c \in outbox[m] : WithContent(m, c).path = c.path /\ WithContent(m, c).entry = c.entry
    BY DEF WithContent, TypeOK, Types, Event
  <2>3. QED
    BY <1>0, <2>1, <2>2 DEF FlatAt
<1>5. CASE Push(m)
  <2>1. /\ outbox'[m] \subseteq outbox[m] /\ scan' = scan
        /\ disk' = disk /\ saved' = saved /\ entries' = entries /\ writing' = writing
    BY <1>5 DEF Push, TypeOK, Types
  <2>2. QED
    BY <1>0, <2>1 DEF FlatAt
<1>6. CASE Fetch(m)
  <2>1. /\ outbox' = outbox /\ scan' = scan /\ entries'[m] = scan[m]
        /\ disk' = disk /\ saved' = saved /\ writing' = writing
    BY <1>6 DEF Fetch, TypeOK, Types
  <2>2. QED
    BY <1>0, <2>1 DEF FlatAt
<1>7. CASE ReadFails(m) \/ PushRefused(m) \/ PushUnanswered(m) \/ FetchFails(m) \/ RecordFails(m)
           \/ Save(m) \/ SaveFails(m) \/ \E s \in inbox[m] : ApplyFails(m, s)
  <2>0. AllAllowed(disk'[m])
    <3>1. ASSUME NEW s \in inbox[m], ApplyFails(m, s)
          PROVE  AllAllowed(disk'[m])
      <4>1. /\ log[s].path \in Paths /\ Allowed(log[s].path, log[s].entry)
            /\ log[s].entry \in {"File", "Directory"}
        BY <3>1, TakenIsEvent DEF ApplyFails, TakeRemote, Take, Event, FlatInv
      <4>2. ASSUME NEW made \in SUBSET Paths, \A q \in made : q \in FolderPaths
            PROVE  AllAllowed(WithFolders(disk[m], made))
        BY <1>0, <4>2 DEF AllAllowed, Allowed, WithFolders, Folder
      <4>3. \/ disk' = disk
            \/ \E made \in SUBSET Paths :
                 /\ disk' = [disk EXCEPT ![m] = WithFolders(disk[m], made)]
                 /\ made \subseteq {log[s].path} /\ (log[s].entry = "File" => made = {})
        BY <3>1, <4>1, HalfMadeFolders DEF Flat
      <4>4. ASSUME NEW made \in SUBSET Paths,
                   disk' = [disk EXCEPT ![m] = WithFolders(disk[m], made)],
                   made \subseteq {log[s].path}, log[s].entry = "File" => made = {}
            PROVE  AllAllowed(disk'[m])
        <5>1. \A q \in made : q \in FolderPaths
          BY <4>1, <4>4 DEF Allowed
        <5>2. AllAllowed(WithFolders(disk[m], made))
          BY <4>2, <5>1
        <5>3. disk'[m] = WithFolders(disk[m], made)
          BY <4>4 DEF TypeOK, Types
        <5>4. QED
          BY <5>2, <5>3
      <4>5. QED
        BY <1>0, <4>3, <4>4
    <3>2. QED
      BY <1>0, <1>7, <3>1 DEF ReadFails, PushRefused, PushUnanswered, FetchFails, RecordFails,
                              Save, SaveFails
  <2>1. /\ entries'[m] \in {entries[m], scan[m]}
        /\ saved'[m].entries \in {saved[m].entries, entries[m]}
    BY <1>7 DEF ReadFails, PushRefused, PushUnanswered, FetchFails, RecordFails, Save,
                SaveFails, ApplyFails, TypeOK, Types
  <2>2. AllAllowed(scan'[m]) /\ outbox'[m] = {} /\ writing'[m] = 0
    BY <1>7, FlatEndCycle DEF ReadFails, PushRefused, PushUnanswered, FetchFails, RecordFails,
       Save, SaveFails, ApplyFails, TypeOK
  <2>3. QED
    BY <1>0, <2>0, <2>1, <2>2 DEF FlatAt
<1>8. CASE RecordFile(m)
  <2> DEFINE p == writing[m]
  <2>1. /\ p \in FilePaths /\ p \in Paths
        /\ entries'[m] = [entries[m] EXCEPT ![p] =
                            [kind |-> "File", stamp |-> disk[m][p].stamp]]
        /\ outbox' = outbox /\ scan' = scan /\ disk' = disk /\ saved' = saved
        /\ writing'[m] = 0
    BY <1>0, <1>8 DEF RecordFile, TypeOK, Types, CycleOK
  <2>2. AllAllowed(entries'[m])
    BY <1>0, <2>1 DEF AllAllowed, Allowed, TypeOK, Types
  <2>3. QED
    BY <1>0, <2>1, <2>2 DEF FlatAt
<1>9. ASSUME NEW s \in inbox[m], SkipOwn(m, s)
      PROVE  FlatAt(m)'
  BY <1>0, <1>9 DEF SkipOwn, FlatAt
<1>10. ASSUME NEW s \in inbox[m], ApplyFolder(m, s) \/ ApplyFile(m, s) \/ ApplyDeletion(m, s)
       PROVE  FlatAt(m)'
  <2> DEFINE p == log[s].path
  <2>1. /\ scan' = scan /\ outbox' = outbox /\ saved' = saved
        /\ p \in Paths /\ Allowed(p, log[s].entry)
        /\ entries[m] \in [Paths -> Entry]
    BY <1>10, TakenIsEvent DEF ApplyFolder, ApplyFile, ApplyDeletion, Applies, TakeRemote, Take,
       Event, FlatInv, TypeOK, Types
  <2>2. CASE ApplyFolder(m, s)
    <3>1. /\ disk'[m] = WithFolders(disk[m], Ancestors[p] \cup {p})
          /\ entries'[m] = [entries[m] EXCEPT ![p] = EntryOf(Folder)]
          /\ writing' = writing /\ p \in FolderPaths
      BY <2>1, <2>2 DEF ApplyFolder, Allowed, TypeOK, Types
    <3>2. AllAllowed(disk'[m])
      BY <1>0, <2>1, <3>1, AllowedFolders
    <3>3. AllAllowed(entries'[m])
      BY <1>0, <2>1, <3>1 DEF AllAllowed, Allowed, EntryOf, Folder
    <3>4. QED
      BY <1>0, <2>1, <3>1, <3>2, <3>3 DEF FlatAt
  <2>3. CASE ApplyFile(m, s)
    <3>1. /\ disk'[m] = WithFile(disk[m], p, log[s].content, FreshStamp(m, p))
          /\ entries' = entries /\ writing'[m] = p /\ p \in FilePaths
      BY <2>1, <2>3 DEF ApplyFile, NeedsContent, Allowed, TypeOK, Types
    <3>2. AllAllowed(disk'[m])
      BY <1>0, <2>1, <3>1, AllowedFile
    <3>3. QED
      BY <1>0, <2>1, <3>1, <3>2 DEF FlatAt
  <2>4. CASE ApplyDeletion(m, s)
    <3>1. /\ disk'[m] = AfterDeletion(disk[m], p, log[s].entry) \/ disk'[m] = disk[m]
          /\ writing' = writing
      BY <2>4 DEF ApplyDeletion, TypeOK, Types
    <3>2. PICK ps : entries'[m] = Without(entries[m], ps, NoEntry)
      BY <2>4 DEF ApplyDeletion, TypeOK, Types
    <3>3. QED
      BY <1>0, <2>1, <3>1, <3>2, AllowedDeletion, AllowedEntries DEF FlatAt
  <2>5. QED
    BY <1>10, <2>2, <2>3, <2>4
<1>11. QED
  BY <1>1, <1>2, <1>3, <1>4, <1>5, <1>6, <1>7, <1>8, <1>9, <1>10
     DEF LoopOrCrash, Loop, PushPhase, ApplyPhase

LEMMA FlatStep ==
  ASSUME Flat
  PROVE  TypeOK /\ TypeOK' /\ FlatInv /\ [Next]_vars => FlatInv'
<1> SUFFICES ASSUME TypeOK, TypeOK', FlatInv, [Next]_vars
             PROVE  FlatInv'
  OBVIOUS
<1>1. CASE UserStep
  BY <1>1, FlatUser
<1>2. ASSUME NEW m \in Machines, LoopOrCrash(m)
      PROVE  FlatInv'
  <2>1. ASSUME NEW n \in Machines, n # m
        PROVE  FlatAt(n)'
    <3>1. /\ disk'[n] = disk[n] /\ saved'[n] = saved[n] /\ entries'[n] = entries[n]
          /\ scan'[n] = scan[n] /\ outbox'[n] = outbox[n] /\ writing'[n] = writing[n]
      BY <1>2, <2>1, OthersUntouched DEF Untouched, TypeOK
    <3>2. QED
      BY <3>1 DEF FlatInv, FlatAt
  <2>2. \A s \in 1 .. Len(log') : Allowed(log'[s].path, log'[s].entry)
    <3>1. CASE log' = log
      BY <3>1 DEF FlatInv
    <3>2. ASSUME NEW e \in outbox[m], log' = Append(log, e)
          PROVE  \A s \in 1 .. Len(log') : Allowed(log'[s].path, log'[s].entry)
      <4>1. /\ Len(log') = Len(log) + 1 /\ Len(log) \in Nat
            /\ log'[Len(log) + 1] = e /\ \A s \in 1 .. Len(log) : log'[s] = log[s]
        BY <3>2 DEF TypeOK, Types
      <4>2. Allowed(e.path, e.entry)
        BY DEF FlatInv, FlatAt
      <4>3. QED
        BY <4>1, <4>2 DEF FlatInv
    <3>3. QED
      BY <1>2, <3>1, <3>2, LogGrows DEF TypeOK
  <2>3. QED
    BY <1>2, <2>1, <2>2, FlatLoop DEF FlatInv
<1>3. CASE UNCHANGED vars
  BY <1>3 DEF vars, cycle, FlatInv, FlatAt
<1>4. QED
  BY <1>1, <1>2, <1>3 DEF Next, LoopOrCrash

(* In a flat project, with any number of machines and editors: a machine   *)
(* whose users edit nothing publishes nothing, as long as it does not die, *)
(* removes the files it is told to and, where there are folders, does not  *)
(* fail after having made one. Everything else may fail.                   *)
THEOREM FlatReceiversNeverPublish ==
  ASSUME Flat, "crash" \notin FaultKinds, "remove" \notin FaultKinds,
         "apply" \notin FaultKinds \/ FolderPaths = {}
  PROVE  Spec => []ReceiversNeverPublish
<1>1. Init => ReceiversNeverPublish
  BY DEF Init, ReceiversNeverPublish
<1>2. Spec => []FlatInv
  BY TypeCorrect, FlatInit, FlatStep, PTL DEF Spec
<1>3. TypeOK /\ TypeOK' /\ FlatInv /\ QuietInv /\ [Next]_vars => QuietInv'
  BY FlatFits, QuietStep DEF LeavesNothing
<1>4. Spec => []QuietInv
  BY TypeCorrect, QuietInit, <1>2, <1>3, PTL DEF Spec
<1>5. QED
  BY TypeCorrect, NothingPublished, <1>1, <1>4, PTL DEF Spec

(* So it is a replica of the log.                                          *)
COROLLARY FlatReceiversReplay ==
  ASSUME Flat, SureHands
  PROVE  Spec => []ReceiverReplaysLog
<1>1. "crash" \notin FaultKinds /\ "remove" \notin FaultKinds /\ "apply" \notin FaultKinds
  BY DEF SureHands
<1>2. QED
  BY <1>1, FlatReceiversNeverPublish, ReceiversReplay, PTL

-----------------------------------------------------------------------------
(* Where one machine edits, any tree of folders: what it publishes, cycle  *)
(* by cycle, keeps the replayed tree in step with what it remembers.       *)

(* The whole log replayed: what is published. *)
Tree == Replay[Len(log)]

(* What a cycle has still to push, out, takes the kinds of the published   *)
(* tree to those of the scan.                                              *)
Waiting(out, new, tree) ==
  \A p \in Paths :
    /\ (\A e \in out : e.path # p) => tree[p].kind = new[p].kind
    /\ \A e \in out : e.path = p /\ e.change = "Deleted" =>
         /\ e.entry # new[p].kind
         /\ tree[p].kind \in {e.entry, "Absent"}
         /\ new[p].kind # "Absent" => \E f \in out : f.path = p /\ f.change # "Deleted"
    /\ \A e \in out : e.path = p /\ e.change # "Deleted" =>
         /\ e.entry = new[p].kind
         /\ \/ tree[p].kind \in {"Absent", e.entry}
            \/ \E f \in out : f.path = p /\ f.change = "Deleted"

(* The changes found take the one to the other.                            *)
LEMMA ChangesWait ==
  ASSUME NEW old \in [Paths -> Entry], NEW new \in [Paths -> Entry], NEW m,
         NEW tree, \A p \in Paths : tree[p].kind = old[p].kind
  PROVE  Waiting(LocalChanges(old, new, m), new, tree)
<1> DEFINE Change(p, what, kind) == [path |-> p, change |-> what, entry |-> kind,
                                     content |-> NoContent, origin |-> m]
           gone == {p \in Paths : old[p].kind # "Absent" /\ new[p].kind # old[p].kind}
           arrived == {p \in Paths : new[p].kind # "Absent" /\ new[p].kind # old[p].kind}
           edited == {p \in Paths : /\ old[p].kind = "File" /\ new[p].kind = "File"
                                    /\ old[p].stamp # new[p].stamp}
           out == LocalChanges(old, new, m)
<1>1. out = {Change(p, "Deleted", old[p].kind) : p \in gone}
            \cup {Change(p, "Created", new[p].kind) : p \in arrived}
            \cup {Change(p, "Updated", "File") : p \in edited}
  BY DEF LocalChanges
<1> HIDE DEF out
<1>2. ASSUME NEW e \in out, e.change = "Deleted"
      PROVE  e.path \in gone /\ e.entry = old[e.path].kind
  BY <1>1, <1>2
<1>3. ASSUME NEW e \in out, e.change # "Deleted"
      PROVE  /\ e.path \in arrived \cup edited
             /\ e.entry = new[e.path].kind
  BY <1>1, <1>3
<1>4. ASSUME NEW p \in gone
      PROVE  \E e \in out : e.path = p /\ e.change = "Deleted"
  <2>1. Change(p, "Deleted", old[p].kind) \in out
    BY <1>1
  <2>2. QED
    BY <2>1
<1>5. ASSUME NEW p \in arrived
      PROVE  \E e \in out : e.path = p /\ e.change # "Deleted"
  <2>1. Change(p, "Created", new[p].kind) \in out
    BY <1>1
  <2>2. QED
    BY <2>1
<1>6. ASSUME NEW p \in Paths, \A e \in out : e.path # p
      PROVE  tree[p].kind = new[p].kind
  BY <1>4, <1>5, <1>6
<1>7. ASSUME NEW p \in Paths, NEW e \in out, e.path = p, e.change = "Deleted"
      PROVE  /\ e.entry # new[p].kind
             /\ tree[p].kind \in {e.entry, "Absent"}
             /\ new[p].kind # "Absent" => \E f \in out : f.path = p /\ f.change # "Deleted"
  BY <1>2, <1>5, <1>7
<1>8. ASSUME NEW p \in Paths, NEW e \in out, e.path = p, e.change # "Deleted"
      PROVE  /\ e.entry = new[p].kind
             /\ \/ tree[p].kind \in {"Absent", e.entry}
                \/ \E f \in out : f.path = p /\ f.change = "Deleted"
  BY <1>3, <1>4, <1>8
<1>9. Waiting(out, new, tree)
  BY <1>6, <1>7, <1>8 DEF Waiting
<1>10. QED
  BY <1>9 DEF out

(* So do they with their contents.                                         *)
LEMMA ReadingWaits ==
  ASSUME NEW m \in Machines, NEW out \in SUBSET Event, NEW new, NEW tree,
         Waiting(out, new, tree)
  PROVE  Waiting({WithContent(m, c) : c \in out}, new, tree)
<1> DEFINE read == {WithContent(m, c) : c \in out}
<1>1. \A c \in out : /\ WithContent(m, c).path = c.path
                     /\ WithContent(m, c).change = c.change
                     /\ WithContent(m, c).entry = c.entry
  BY DEF WithContent, Event
<1>2. /\ \A e \in read : \E c \in out :
           e.path = c.path /\ e.change = c.change /\ e.entry = c.entry
      /\ \A c \in out : \E e \in read :
           e.path = c.path /\ e.change = c.change /\ e.entry = c.entry
  BY <1>1
<1> HIDE DEF read
<1>3. Waiting(read, new, tree)
  BY <1>2 DEF Waiting
<1>4. QED
  BY <1>3 DEF read

(* The next to be pushed fits the published tree, and brings it nearer.    *)
LEMMA PushFits ==
  ASSUME NEW out \in SUBSET Event, NEW new \in [Paths -> Entry], IsTree(new), NEW tree,
         Waiting(out, new, tree), NEW e \in out, \A f \in out \ {e} : Before(e, f)
  PROVE  /\ Fits(tree, e) /\ tree[e.path].kind \in {"Absent", e.entry}
         /\ Waiting(out \ {e}, new, After(tree, e))
<1> DEFINE p == e.path
           rest == out \ {e}
<1>0. /\ e \in Event /\ p \in Paths /\ e.entry \in {"File", "Directory"}
      /\ p \in Nat /\ \A f \in out : f.path \in Paths /\ f.path \in Nat
  BY DEF Event, Paths
<1>1. CASE e.change = "Deleted"
  <2>1. /\ e.entry # new[p].kind /\ tree[p].kind \in {e.entry, "Absent"}
        /\ new[p].kind # "Absent" => \E f \in out : f.path = p /\ f.change # "Deleted"
    BY <1>0, <1>1 DEF Waiting
  <2>2. After(tree, e) = AfterDeletion(tree, p, e.entry)
    BY <1>0, <1>1, AfterIs
  <2>3. PICK t : t = After(tree, e)
    OBVIOUS
  <2>4. t[p].kind = "Absent"
    BY <1>0, <2>1, <2>2, <2>3 DEF AfterDeletion, Without, Absent
  <2>5. \A q \in Paths : t[q] = tree[q] \/ (t[q].kind = "Absent" /\ new[q].kind = "Absent") \/ q = p
    <3>1. \A q \in Below(p) : e.entry = "Directory" => new[q].kind = "Absent"
      BY <1>0, <2>1 DEF IsTree, Below
    <3>2. \A q \in Paths : q # p =>
            t[q] = tree[q] \/ (t[q] = Absent /\ q \in Below(p) /\ e.entry = "Directory")
      BY <2>2, <2>3 DEF AfterDeletion, Without
    <3>3. QED
      BY <3>1, <3>2 DEF Absent
  <2>6. Waiting(rest, new, t)
    <3>1. ASSUME NEW q \in Paths, \A f \in rest : f.path # q
          PROVE  t[q].kind = new[q].kind
      <4>1. CASE q = p
        BY <1>1, <2>1, <2>4, <3>1, <4>1
      <4>2. CASE q # p
        <5>1. \A f \in out : f.path # q
          BY <3>1, <4>2
        <5>2. tree[q].kind = new[q].kind
          BY <5>1 DEF Waiting
        <5>3. QED
          BY <2>5, <4>2, <5>2
      <4>3. QED
        BY <4>1, <4>2
    <3>2. ASSUME NEW q \in Paths, NEW f \in rest, f.path = q, f.change = "Deleted"
          PROVE  /\ f.entry # new[q].kind
                 /\ t[q].kind \in {f.entry, "Absent"}
                 /\ new[q].kind # "Absent" => \E g \in rest : g.path = q /\ g.change # "Deleted"
      <4>1. /\ f.entry # new[q].kind
            /\ tree[q].kind \in {f.entry, "Absent"}
            /\ new[q].kind # "Absent" => \E g \in out : g.path = q /\ g.change # "Deleted"
        BY <3>2 DEF Waiting
      <4>2. QED
        BY <1>1, <2>4, <2>5, <4>1
    <3>3. ASSUME NEW q \in Paths, NEW f \in rest, f.path = q, f.change # "Deleted"
          PROVE  /\ f.entry = new[q].kind
                 /\ \/ t[q].kind \in {"Absent", f.entry}
                    \/ \E g \in rest : g.path = q /\ g.change = "Deleted"
      <4>1. /\ f.entry = new[q].kind
            /\ \/ tree[q].kind \in {"Absent", f.entry}
               \/ \E g \in out : g.path = q /\ g.change = "Deleted"
        BY <3>3 DEF Waiting
      <4>2. CASE q = p
        BY <2>4, <4>1, <4>2
      <4>3. CASE q # p
        BY <2>5, <4>1, <4>3
      <4>4. QED
        BY <4>2, <4>3
    <3>4. QED
      BY <3>1, <3>2, <3>3 DEF Waiting
  <2>7. Fits(tree, e)
    BY <1>1, <2>1 DEF Fits
  <2>8. QED
    BY <2>1, <2>3, <2>6, <2>7
<1>2. CASE e.change # "Deleted"
  <2>1. \A f \in rest : p < f.path /\ f.path # p
    BY <1>0, <1>2 DEF Before
  <2>2. e.entry = new[p].kind /\ tree[p].kind \in {"Absent", e.entry}
    <3>1. \A f \in out : ~(f.path = p /\ f.change = "Deleted")
      BY <1>0, <1>2, <2>1
    <3>2. QED
      BY <1>0, <1>2, <3>1 DEF Waiting
  <2>3. \A a \in Ancestors[p] : tree[a].kind = "Directory"
    <3>1. ASSUME NEW a \in Ancestors[p]
          PROVE  tree[a].kind = "Directory"
      <4>1. a \in Paths /\ a < p
        BY <1>0, TreeAssumption
      <4>2. new[a].kind = "Directory"
        BY <1>0, <2>2 DEF IsTree
      <4>3. \A f \in out : f.path # a
        <5>1. \A f \in rest : ~(f.path < p)
          BY <1>0, <2>1
        <5>2. ~(p < p)
          BY <1>0
        <5>3. QED
          BY <4>1, <5>1, <5>2
      <4>4. QED
        BY <4>1, <4>2, <4>3 DEF Waiting
    <3>2. QED
      BY <3>1
  <2>4. CanHold(tree, p)
    BY <2>3 DEF CanHold
  <2>5. PICK t : t = After(tree, e)
    OBVIOUS
  <2>6. t[p].kind = new[p].kind /\ \A q \in Paths : q # p => t[q] = tree[q]
    <3>1. \A q \in Paths : q # p =>
            /\ WithFolders(tree, Ancestors[p])[q] = tree[q]
            /\ WithFolders(tree, Ancestors[p] \cup {p})[q] = tree[q]
      BY <1>0, <2>3 DEF WithFolders
    <3>2. CASE e.entry = "File"
      <4>1. t = WithFile(tree, p, e.content, 0)
        BY <1>0, <1>2, <2>2, <2>4, <2>5, <3>2, AfterIs DEF NeedsContent, CanWriteFile
      <4>2. QED
        BY <1>0, <2>2, <3>1, <3>2, <4>1 DEF WithFile, WithFolders, FileOf
    <3>3. CASE e.entry = "Directory"
      <4>1. t = WithFolders(tree, Ancestors[p] \cup {p})
        BY <1>0, <1>2, <2>2, <2>4, <2>5, <3>3, AfterIs DEF CanMakeFolder
      <4>2. t[p].kind = "Directory"
        BY <1>0, <2>2, <3>3, <4>1 DEF WithFolders, Folder
      <4>3. QED
        BY <2>2, <3>1, <3>3, <4>1, <4>2
    <3>4. QED
      BY <1>0, <3>2, <3>3
  <2>7. Waiting(rest, new, t)
    <3>1. ASSUME NEW q \in Paths, \A f \in rest : f.path # q
          PROVE  t[q].kind = new[q].kind
      <4>1. CASE q # p
        <5>1. \A f \in out : f.path # q
          BY <3>1, <4>1
        <5>2. QED
          BY <2>6, <4>1, <5>1 DEF Waiting
      <4>2. QED
        BY <2>6, <4>1
    <3>2. ASSUME NEW q \in Paths, NEW f \in rest, f.path = q
          PROVE  q # p /\ t[q] = tree[q]
      BY <1>0, <2>1, <2>6, <3>2
    <3>3. ASSUME NEW q \in Paths, NEW f \in rest, f.path = q, f.change = "Deleted"
          PROVE  /\ f.entry # new[q].kind
                 /\ t[q].kind \in {f.entry, "Absent"}
                 /\ new[q].kind # "Absent" => \E g \in rest : g.path = q /\ g.change # "Deleted"
      BY <3>2, <3>3 DEF Waiting
    <3>4. ASSUME NEW q \in Paths, NEW f \in rest, f.path = q, f.change # "Deleted"
          PROVE  /\ f.entry = new[q].kind
                 /\ \/ t[q].kind \in {"Absent", f.entry}
                    \/ \E g \in rest : g.path = q /\ g.change = "Deleted"
      BY <3>2, <3>4 DEF Waiting
    <3>5. QED
      BY <3>1, <3>3, <3>4 DEF Waiting
  <2>8. Fits(tree, e)
    BY <1>2, <2>3 DEF Fits
  <2>9. QED
    BY <2>2, <2>5, <2>7, <2>8
<1>3. QED
  BY <1>1, <1>2

-----------------------------------------------------------------------------
OneEditor == \A m, n \in Editors : m = n

(* One machine edits, and nothing fails but fetches and saves.             *)
Solo ==
  /\ OneEditor
  /\ FaultKinds \subseteq {"fetch", "save"}

(* What the editing machine remembers has the kinds of the published tree; *)
(* a cycle under way still has to publish the difference to its scan.      *)
EditorOf(a) ==
  /\ pc[a] # "pushing" => \A p \in Paths : Tree[p].kind = entries[a][p].kind
  /\ pc[a] \in {"scanned", "pushing"} =>
       IsTree(scan[a]) /\ Waiting(outbox[a], scan[a], Tree)
  /\ pc[a] = "down" => saved[a] = FreshState /\ entries[a] = NoEntries
  /\ pc[a] # "recording"

(* A push can only be refused before the host has ever been up.            *)
HostNotUpYet ==
  pc[Host] = "down" =>
    log = <<>> /\ \A a \in Editors : \A p \in Paths : entries[a][p].kind = "Absent"

(* Every event fits the tree it is applied to.                             *)
Orderly == \A s \in 1 .. Len(log) : Fits(Replay[s - 1], log[s])

SoloInv ==
  /\ ReceiversNeverPublish
  /\ ReplicaInv
  /\ QuietInv
  /\ \A a \in Editors : EditorOf(a)
  /\ HostNotUpYet
  /\ Orderly

LEMMA SoloInit == ASSUME OneReplay(log) PROVE Init => SoloInv
<1> SUFFICES ASSUME Init
             PROVE  SoloInv
  OBVIOUS
<1>1. Len(log) = 0 /\ log = <<>>
  BY DEF Init
<1>2. Tree = EmptyTree
  <2>1. Replay[0] = EmptyTree
    BY <1>1, ReplayOfLog DEF IsReplay
  <2>2. QED
    BY <1>1, <2>1 DEF Tree
<1>3. \A p \in Paths : EmptyTree[p].kind = "Absent" /\ NoEntries[p].kind = "Absent"
  BY DEF EmptyTree, Absent, NoEntries, NoEntry
<1>4. \A a \in Editors : EditorOf(a)
  BY <1>2, <1>3, SyncAssumption DEF Init, EditorOf
<1>5. HostNotUpYet
  BY <1>1, <1>3, SyncAssumption DEF Init, HostNotUpYet
<1>6. Orderly /\ ReceiversNeverPublish
  BY <1>1 DEF Orderly, ReceiversNeverPublish
<1>7. QED
  BY <1>4, <1>5, <1>6, QuietInit, ReplicaInit DEF SoloInv

LEMMA TreeStays ==
  ASSUME OneReplay(log), OneReplay(log)', log' = log
  PROVE  Tree' = Tree
<1>1. PICK f : f = Replay
  OBVIOUS
<1>2. PICK g : g = Replay'
  OBVIOUS
<1>3. f = g
  BY <1>1, <1>2, ReplayOfLog, NextReplayOfLog DEF OneReplay
<1>4. QED
  BY <1>1, <1>2, <1>3 DEF Tree

(* How a step changes the published tree.                                  *)
LEMMA TreeGrows ==
  ASSUME TypeOK, TypeOK', OneReplay(log), OneReplay(log)', [Next]_vars
  PROVE  \/ log' = log /\ Tree' = Tree
         \/ \E m \in Machines : \E e \in outbox[m] :
              /\ e \in Event /\ e.origin = m /\ NextToPush(m, e)
              /\ log' = Append(log, e)
              /\ Push(m) \/ PushUnanswered(m)
              /\ Tree' = After(Tree, e)
<1>1. Len(log) \in Nat /\ Len(log) \in 0 .. Len(log)
  BY DEF TypeOK, Types
<1>2. Replay'[Len(log)] = Replay[Len(log)]
  BY <1>1, ReplayStays
<1>3. CASE log' = log
  BY <1>2, <1>3 DEF Tree
<1>4. ASSUME NEW e \in Event, log' = Append(log, e)
      PROVE  Tree' = After(Tree, e)
  <2>1. Len(log') = Len(log) + 1 /\ log'[Len(log) + 1] = e
    BY <1>4 DEF TypeOK, Types
  <2>2. PICK g : g = Replay'
    OBVIOUS
  <2>3. IsReplay(g, log')
    BY <2>2, NextReplayOfLog
  <2>4. g[Len(log) + 1] = After(g[Len(log)], e)
    <3>1. /\ Len(log) + 1 \in 0 .. Len(log') /\ Len(log) + 1 # 0
          /\ (Len(log) + 1) - 1 = Len(log)
      BY <1>1, <2>1
    <3>2. QED
      BY <2>1, <2>3, <3>1 DEF IsReplay
  <2>5. QED
    BY <1>2, <2>1, <2>2, <2>4 DEF Tree
<1>5. QED
  BY <1>3, <1>4, LogExtends

(* The only machine that edits finds nothing but its own events.           *)
LEMMA NothingRemote ==
  ASSUME OneEditor, TypeOK, ReceiversNeverPublish, NEW a \in Editors, NEW s \in inbox[a]
  PROVE  ~TakeRemote(a, s)
<1>1. SUFFICES ASSUME TakeRemote(a, s)
               PROVE  FALSE
  OBVIOUS
<1>2. s \in 1 .. Len(log) /\ log[s].origin # a
  BY <1>1, SyncAssumption, TakenIsEvent DEF TakeRemote, Take
<1>3. log[s].origin \in Editors
  BY <1>2 DEF ReceiversNeverPublish
<1>4. QED
  BY <1>2, <1>3 DEF OneEditor

(* A step of the loop of the machine that edits.                           *)
LEMMA OwnEdits ==
  ASSUME Solo, TypeOK, TypeOK', OneReplay(log), OneReplay(log)', SoloInv,
         NEW a \in Editors, Loop(a)
  PROVE  EditorOf(a)'
<1>0. /\ a \in Machines /\ EditorOf(a) /\ disk[a] \in [Paths -> Node] /\ IsTree(disk[a])
      /\ entries[a] \in [Paths -> Entry] /\ scan[a] \in [Paths -> Entry]
      /\ outbox[a] \in SUBSET Event
      /\ [Next]_vars
  BY SyncAssumption DEF SoloInv, TypeOK, Types, Next
<1>1. \A s \in inbox[a] : ~TakeRemote(a, s)
  BY NothingRemote DEF Solo, SoloInv
<1>2. ~PushUnanswered(a)
  BY DEF PushUnanswered, Fault, Solo
<1>3. log' # log => Push(a)
  BY <1>0, <1>2, LogGrows DEF LoopOrCrash, TypeOK
<1>4. ~Push(a) => log' = log /\ Tree' = Tree
  BY <1>0, <1>3, TreeGrows
<1>5. CASE Start(a)
  <2>1. /\ entries'[a] = NoEntries /\ entries[a] = NoEntries
        /\ pc[a] = "down" /\ pc'[a] = "idle" /\ ~Push(a)
    BY <1>0, <1>5 DEF Start, EditorOf, FreshState, Push, TypeOK, Types
  <2>2. QED
    BY <1>0, <1>4, <2>1 DEF EditorOf
<1>6. CASE Scan(a)
  <2>1. /\ entries' = entries /\ pc[a] = "idle" /\ pc'[a] = "scanned"
        /\ scan'[a] = ScanOf(disk[a])
        /\ outbox'[a] = LocalChanges(entries[a], ScanOf(disk[a]), a) /\ ~Push(a)
    BY <1>0, <1>6 DEF Scan, Push, TypeOK, Types
  <2>2. \A p \in Paths : Tree[p].kind = entries[a][p].kind
    BY <1>0, <2>1 DEF EditorOf
  <2>3. IsTree(ScanOf(disk[a]))
    BY <1>0, TreeAssumption DEF IsTree, ScanOf, EntryOf
  <2>4. Waiting(outbox'[a], scan'[a], Tree)
    BY <1>0, <2>1, <2>2, ScanType, ChangesWait
  <2>5. QED
    BY <1>4, <2>1, <2>2, <2>3, <2>4 DEF EditorOf
<1>7. CASE ReadChanges(a)
  <2>1. /\ entries' = entries /\ scan' = scan /\ pc[a] = "scanned" /\ pc'[a] = "pushing"
        /\ outbox'[a] = {WithContent(a, c) : c \in outbox[a]} /\ ~Push(a)
    BY <1>0, <1>7 DEF ReadChanges, Push, TypeOK, Types
  <2>2. IsTree(scan[a]) /\ Waiting(outbox[a], scan[a], Tree)
    BY <1>0, <2>1 DEF EditorOf
  <2>3. Waiting(outbox'[a], scan[a], Tree)
    BY <1>0, <2>1, <2>2, ReadingWaits
  <2>4. QED
    BY <1>4, <2>1, <2>2, <2>3 DEF EditorOf
<1>8. CASE ReadFails(a)
  <2>1. entries' = entries /\ pc[a] = "scanned" /\ pc'[a] = "idle" /\ ~Push(a)
    BY <1>0, <1>8 DEF ReadFails, EndCycle, Push, TypeOK, Types
  <2>2. QED
    BY <1>0, <1>4, <2>1 DEF EditorOf
<1>9. CASE Push(a)
  <2>1. PICK e \in outbox[a] :
          /\ NextToPush(a, e) /\ log' = Append(log, e)
          /\ outbox' = [outbox EXCEPT ![a] = outbox[a] \ {e}]
    BY <1>9 DEF Push
  <2>2. /\ scan' = scan /\ pc' = pc /\ pc[a] = "pushing"
        /\ outbox'[a] = outbox[a] \ {e} /\ Len(log') # Len(log)
    BY <1>0, <1>9, <2>1 DEF Push, TypeOK, Types
  <2>3. Tree' = After(Tree, e)
    <3>1. PICK f \in Event : log' = Append(log, f) /\ Tree' = After(Tree, f)
      BY <1>0, <2>2, TreeGrows
    <3>2. f = e
      <4>1. log \in Seq(Event) /\ e \in Event
        BY <1>0 DEF TypeOK, Types
      <4>2. Append(log, e)[Len(log) + 1] = e
        BY <4>1
      <4>3. Append(log, f)[Len(log) + 1] = f
        BY <4>1
      <4>4. QED
        BY <2>1, <3>1, <4>2, <4>3
    <3>3. QED
      BY <3>1, <3>2
  <2>4. IsTree(scan[a]) /\ Waiting(outbox[a], scan[a], Tree)
    BY <1>0, <2>2 DEF EditorOf
  <2>5. Waiting(outbox'[a], scan[a], After(Tree, e))
    BY <1>0, <2>1, <2>2, <2>4, PushFits DEF NextToPush
  <2>6. QED
    BY <2>2, <2>3, <2>4, <2>5 DEF EditorOf
<1>10. CASE PushRefused(a)
  <2>1. /\ entries' = entries /\ pc'[a] = "idle" /\ ~HostReachable(a)
    BY <1>0, <1>10 DEF PushRefused, Fault, Solo, EndCycle, TypeOK, Types
  <2>2. log = <<>> /\ \A p \in Paths : entries[a][p].kind = "Absent"
    BY <2>1 DEF HostReachable, SoloInv, HostNotUpYet
  <2>3. \A p \in Paths : Tree[p].kind = "Absent"
    <3>1. Len(log) = 0 /\ Replay[0] = EmptyTree
      BY <2>2, ReplayOfLog DEF IsReplay
    <3>2. QED
      BY <3>1 DEF Tree, EmptyTree, Absent
  <2>4. Tree' = Tree
    BY <1>4, <1>10 DEF PushRefused, Push, HostReachable
  <2>5. QED
    BY <2>1, <2>2, <2>3, <2>4 DEF EditorOf
<1>11. CASE Fetch(a) \/ FetchFails(a)
  <2>1. /\ pc[a] = "pushing" /\ outbox[a] = {} /\ entries'[a] = scan[a]
        /\ pc'[a] \in {"applying", "idle"} /\ log' = log
    BY <1>0, <1>11 DEF Fetch, FetchFails, EndCycle, TypeOK, Types
  <2>2. \A p \in Paths : Tree[p].kind = scan[a][p].kind
    BY <1>0, <2>1 DEF EditorOf, Waiting
  <2>3. Tree' = Tree
    BY <1>4, <2>1 DEF Push
  <2>4. QED
    BY <2>1, <2>2, <2>3 DEF EditorOf
<1>12. CASE Save(a) \/ SaveFails(a) \/ \E s \in inbox[a] : SkipOwn(a, s)
  <2>1. /\ entries' = entries /\ pc[a] = "applying" /\ pc'[a] \in {"applying", "idle"}
        /\ ~Push(a)
    BY <1>0, <1>12 DEF Save, SaveFails, SkipOwn, Take, NextToApply, EndCycle, Push, TypeOK, Types
  <2>2. QED
    BY <1>0, <1>4, <2>1 DEF EditorOf
<1>13. QED
  BY <1>0, <1>1, <1>2, <1>5, <1>6, <1>7, <1>8, <1>9, <1>10, <1>11, <1>12
     DEF Loop, PushPhase, ApplyPhase, ApplyFolder, ApplyFile, ApplyDeletion, ApplyFails, Applies,
         RecordFile, RecordFails, EditorOf

(* So of any step.                                                         *)
LEMMA EditorStep ==
  ASSUME Solo, TypeOK, TypeOK', OneReplay(log), OneReplay(log)', SoloInv, [Next]_vars,
         NEW a \in Editors
  PROVE  EditorOf(a)'
<1>0. a \in Machines /\ EditorOf(a)
  BY SyncAssumption DEF SoloInv
<1>1. CASE /\ pc'[a] = pc[a] /\ entries'[a] = entries[a] /\ scan'[a] = scan[a]
           /\ outbox'[a] = outbox[a] /\ saved'[a] = saved[a] /\ log' = log
  <2>1. Tree' = Tree
    BY <1>1, TreeStays
  <2>2. QED
    BY <1>0, <1>1, <2>1 DEF EditorOf
<1>2. CASE UserStep
  BY <1>1, <1>2 DEF UserStep, UserWrites, UserMakesFolder, UserRemoves, Edit, cycle
<1>3. ASSUME NEW m \in Machines, LoopOrCrash(m), m # a
      PROVE  EditorOf(a)'
  <2>1. m \notin Editors
    BY <1>3 DEF Solo, OneEditor
  <2>2. outbox[m] = {}
    BY <2>1 DEF SoloInv, QuietInv, Quiet
  <2>3. log' = log
    BY <1>3, <2>2, LogGrows DEF TypeOK
  <2>4. QED
    BY <1>0, <1>1, <1>3, <2>3, OthersUntouched DEF Untouched, TypeOK
<1>4. CASE Loop(a)
  BY <1>4, OwnEdits
<1>5. ~Crash(a) /\ ~CrashInSave(a)
  BY DEF Crash, CrashInSave, Fault, Solo
<1>6. CASE UNCHANGED vars
  BY <1>1, <1>6 DEF vars, cycle
<1>7. QED
  BY <1>0, <1>2, <1>3, <1>4, <1>5, <1>6 DEF Next, LoopOrCrash

(* Nothing is published while the host is down, so there is nothing to     *)
(* remember either.                                                        *)
LEMMA HostStep ==
  ASSUME Solo, TypeOK, TypeOK', OneReplay(log), OneReplay(log)', SoloInv, [Next]_vars
  PROVE  HostNotUpYet'
<1> SUFFICES ASSUME pc'[Host] = "down"
             PROVE  log' = <<>> /\ \A a \in Editors : \A p \in Paths : entries'[a][p].kind = "Absent"
  BY DEF HostNotUpYet
<1>0. Host \in Machines /\ Editors \subseteq Machines
  BY SyncAssumption
<1>1. CASE UserStep
  <2>1. log' = log /\ pc' = pc /\ entries' = entries
    BY <1>1 DEF UserStep, UserWrites, UserMakesFolder, UserRemoves, Edit
  <2>2. QED
    BY <2>1 DEF SoloInv, HostNotUpYet
<1>2. ASSUME NEW m \in Machines, Loop(m)
      PROVE  log' = <<>> /\ \A a \in Editors : \A p \in Paths : entries'[a][p].kind = "Absent"
  <2>1. pc'[m] # "down"
    BY <1>2 DEF Loop, PushPhase, ApplyPhase, Start, Scan, ReadChanges, ReadFails, Push, PushRefused,
       PushUnanswered, Fetch, FetchFails, SkipOwn, ApplyFolder, ApplyFile, ApplyDeletion,
       ApplyFails, Applies, TakeRemote, Take, NextToApply, RecordFile, RecordFails, Save,
       SaveFails, EndCycle, TypeOK, Types
  <2>2. m # Host
    BY <2>1
  <2>3. pc[Host] = "down"
    BY <1>0, <1>2, <2>2, OthersUntouched DEF LoopOrCrash, Untouched, TypeOK
  <2>4. ~HostReachable(m) /\ log = <<>>
       /\ \A a \in Editors : \A p \in Paths : entries[a][p].kind = "Absent"
    BY <2>2, <2>3 DEF HostReachable, SoloInv, HostNotUpYet
  <2>5. log' = log
    BY <1>2, <2>4, LogGrows DEF LoopOrCrash, TypeOK, Push, PushUnanswered
  <2>6. ASSUME NEW a \in Editors, a # m
        PROVE  \A p \in Paths : entries'[a][p].kind = "Absent"
    BY <1>0, <1>2, <2>4, <2>6, OthersUntouched DEF LoopOrCrash, Untouched, TypeOK
  <2>7. ASSUME m \in Editors
        PROVE  \A p \in Paths : entries'[m][p].kind = "Absent"
    <3>1. EditorOf(m)' /\ EditorOf(m)
      BY <1>2, <2>7, OwnEdits DEF SoloInv
    <3>2. \A p \in Paths : Tree'[p].kind = "Absent"
      <4>1. Len(log) = 0 /\ 0 \in 0 .. Len(log)
        BY <2>4
      <4>2. Replay'[0] = EmptyTree
        <5>1. Len(log') = 0
          BY <2>5, <4>1
        <5>2. PICK g : g = Replay'
          OBVIOUS
        <5>3. IsReplay(g, log')
          BY <5>2, NextReplayOfLog
        <5>4. g[0] = EmptyTree
          BY <5>1, <5>3 DEF IsReplay
        <5>5. QED
          BY <5>2, <5>4
      <4>3. QED
        BY <2>5, <4>1, <4>2 DEF Tree, EmptyTree, Absent
    <3>3. CASE pc'[m] # "pushing"
      BY <3>1, <3>2, <3>3 DEF EditorOf
    <3>4. CASE pc'[m] = "pushing"
      <4>1. entries' = entries
        BY <1>2, <3>4 DEF Loop, PushPhase, ApplyPhase, Start, Scan, ReadChanges, ReadFails, Push,
           PushRefused, PushUnanswered, Fetch, FetchFails, SkipOwn, ApplyFolder, ApplyFile,
           ApplyDeletion, ApplyFails, Applies, TakeRemote, Take, NextToApply, RecordFile,
           RecordFails, Save, SaveFails, EndCycle, TypeOK, Types
      <4>2. QED
        BY <2>4, <2>7, <4>1
    <3>5. QED
      BY <3>3, <3>4
  <2>8. QED
    BY <2>4, <2>5, <2>6, <2>7
<1>3. ASSUME NEW m \in Machines, Crash(m) \/ CrashInSave(m)
      PROVE  FALSE
  BY <1>3 DEF Crash, CrashInSave, Fault, Solo
<1>4. CASE UNCHANGED vars
  BY <1>4 DEF vars, SoloInv, HostNotUpYet
<1>5. QED
  BY <1>1, <1>2, <1>3, <1>4 DEF Next

(* An event fits two trees of the same look alike.                         *)
LEMMA SameFits ==
  ASSUME NEW t, NEW u, View(t) = View(u), NEW e \in Event, Fits(t, e)
  PROVE  Fits(u, e)
<1>1. \A p \in Paths : t[p].kind = u[p].kind
  BY ViewIs
<1>2. e.path \in Paths /\ Ancestors[e.path] \subseteq Paths
  BY TreeAssumption DEF Event
<1>3. QED
  BY <1>1, <1>2 DEF Fits

(* What the editing machine pushes fits the tree published so far.         *)
LEMMA OrderlyStep ==
  ASSUME Solo, TypeOK, TypeOK', OneReplay(log), OneReplay(log)', SoloInv, [Next]_vars
  PROVE  Orderly'
<1>0. /\ Len(log) \in Nat /\ \A n \in 0 .. Len(log) : Replay'[n] = Replay[n]
      /\ \A s \in 1 .. Len(log) : Fits(Replay[s - 1], log[s])
  BY ReplayStays DEF TypeOK, Types, SoloInv, Orderly
<1>1. ASSUME NEW s \in 1 .. Len(log), log'[s] = log[s]
      PROVE  Fits(Replay'[s - 1], log'[s])
  <2>1. s - 1 \in 0 .. Len(log)
    BY <1>0
  <2>2. QED
    BY <1>0, <1>1, <2>1
<1>2. CASE log' = log
  BY <1>1, <1>2 DEF Orderly
<1>3. ASSUME NEW m \in Machines, NEW e \in outbox[m], e \in Event, NextToPush(m, e),
             log' = Append(log, e), Push(m) \/ PushUnanswered(m)
      PROVE  Orderly'
  <2>1. m \in Editors /\ pc[m] = "pushing"
    BY <1>3 DEF SoloInv, QuietInv, Quiet, Push, PushUnanswered
  <2>2. IsTree(scan[m]) /\ Waiting(outbox[m], scan[m], Tree)
    BY <2>1 DEF SoloInv, EditorOf
  <2>3. Fits(Tree, e)
    BY <1>3, <2>2, PushFits DEF NextToPush, TypeOK, Types
  <2>4. /\ Len(log') = Len(log) + 1 /\ log'[Len(log) + 1] = e
        /\ \A s \in 1 .. Len(log) : log'[s] = log[s]
    BY <1>3 DEF TypeOK, Types
  <2>5. Fits(Replay'[Len(log)], e)
    BY <1>0, <2>3 DEF Tree
  <2>6. ASSUME NEW s \in 1 .. Len(log')
        PROVE  Fits(Replay'[s - 1], log'[s])
    <3>1. CASE s \in 1 .. Len(log)
      BY <1>1, <2>4, <3>1
    <3>2. CASE s = Len(log) + 1
      BY <1>0, <2>4, <2>5, <3>2
    <3>3. QED
      BY <1>0, <2>4, <3>1, <3>2
  <2>7. QED
    BY <2>6 DEF Orderly
<1>4. QED
  BY <1>2, <1>3, TreeGrows

(* So it fits the tree of the machine that applies it.                     *)
LEMMA ReceiversFit ==
  ASSUME TypeOK, CursorInv, SoloInv, NEW m \in Machines \ Editors, NEW s \in inbox[m],
         TakeRemote(m, s)
  PROVE  Fits(disk[m], log[s])
<1>1. /\ Take(m, s) /\ pc[m] = "applying" /\ s \in 1 .. Len(log) /\ log[s] \in Event
  BY TakenIsEvent DEF TakeRemote, Take, NextToApply
<1>2. last[m] = s - 1
  BY <1>1, TakesTheNext
<1>3. View(disk[m]) = View(Replay[s - 1])
  BY <1>1, <1>2 DEF SoloInv, ReplicaInv, ReplicaOf
<1>4. Fits(Replay[s - 1], log[s])
  BY <1>1 DEF SoloInv, Orderly
<1>5. QED
  BY <1>1, <1>3, <1>4, SameFits

LEMMA SoloStep ==
  ASSUME Solo
  PROVE  /\ TypeOK /\ TypeOK' /\ CursorInv /\ OneReplay(log) /\ OneReplay(log)'
         /\ SoloInv /\ [Next]_vars
         => SoloInv'
<1> SUFFICES ASSUME TypeOK, TypeOK', CursorInv, OneReplay(log), OneReplay(log)', SoloInv,
                    [Next]_vars
             PROVE  SoloInv'
  OBVIOUS
<1>1. /\ SureHands /\ "crash" \notin FaultKinds /\ "remove" \notin FaultKinds
      /\ "apply" \notin FaultKinds
  BY DEF Solo, SureHands
<1>2. ReceiversNeverPublish'
  BY NothingPublished DEF SoloInv
<1>3. ReplicaInv'
  BY <1>1, <1>2, ReplicaStep DEF SoloInv
<1>4. QuietInv'
  BY <1>1, ReceiversFit, QuietStep DEF SoloInv, LeavesNothing
<1>5. QED
  BY <1>2, <1>3, <1>4, EditorStep, HostStep, OrderlyStep DEF SoloInv

LEMMA AlwaysSoloInv == ASSUME Solo PROVE Spec => []SoloInv
BY TypeCorrect, AlwaysCursorInv, AlwaysOneReplay, SoloInit, SoloStep, PTL DEF Spec

(* Where one machine edits, in any tree of files and folders, with any     *)
(* number of machines: the others publish nothing ...                      *)
THEOREM SoloReceiversNeverPublish ==
  ASSUME Solo
  PROVE  Spec => []ReceiversNeverPublish
BY AlwaysSoloInv, PTL DEF SoloInv

(* ... and are at every moment the log replayed up to their cursors.       *)
THEOREM SoloReceiversReplay ==
  ASSUME Solo
  PROVE  Spec => []ReceiverReplaysLog
<1>1. SoloInv => ReceiverReplaysLog
  BY DEF SoloInv, ReplicaInv, ReplicaOf, ReceiverReplaysLog
<1>2. QED
  BY AlwaysSoloInv, <1>1, PTL

-----------------------------------------------------------------------------
(* What has come to rest: the files the only editing machine remembers are *)
(* in the published tree as they are on its disk, and receivers that are   *)
(* past the last event are that tree.                                      *)

(* The published tree has the file that a has at p. *)
Holds(a, p) == Tree[p].kind = "File" /\ Tree[p].content = disk[a][p].content

(* A file that is remembered is published; one that is not, but is in the  *)
(* scan of the cycle, is published or among what the cycle has to push.    *)
SentAt(a, p) ==
  /\ InSync(a, p, entries[a]) => Holds(a, p)
  /\ pc[a] \in {"scanned", "pushing"} =>
       /\ InSync(a, p, entries[a]) =>
            scan[a][p] = entries[a][p] /\ \A e \in outbox[a] : e.path # p
       /\ InSync(a, p, scan[a]) =>
            Holds(a, p) \/ \E e \in outbox[a] : e.path = p /\ NeedsContent(e)
  /\ pc[a] = "pushing" /\ InSync(a, p, scan[a]) =>
       \A e \in outbox[a] : e.path = p /\ NeedsContent(e) => e.content = disk[a][p].content

SentOf(a) ==
  /\ \A p \in Paths : SentAt(a, p)
  /\ pc[a] = "down" => saved[a] = FreshState /\ entries[a] = NoEntries
  /\ pc[a] # "recording"
  /\ pc[a] \in {"scanned", "pushing"} =>
       \A e \in outbox[a] : e.change = "Deleted" => e.entry # scan[a][e.path].kind

SentInv == \A a \in Editors : SentOf(a)

(* The next event does to the published tree what it says, and takes       *)
(* nothing away that the scan still has, unless it is pushed again.        *)
PushesWell(a, e) ==
  /\ Fits(Tree, e) /\ Tree[e.path].kind \in {"Absent", e.entry}
  /\ e.change = "Deleted" =>
       /\ e.entry = "Directory" => \A q \in Below(e.path) : scan[a][q].kind = "Absent"
       /\ scan[a][e.path].kind = "File" =>
            \E f \in outbox[a] : f.path = e.path /\ NeedsContent(f)

(* What a push does to a file of the scan. *)
LEMMA PushedFile ==
  ASSUME NEW a, NEW e \in Event, PushesWell(a, e), NEW q \in Paths, scan[a][q].kind = "File"
  PROVE  /\ e.path # q => After(Tree, e)[q] = Tree[q]
         /\ e.path = q /\ NeedsContent(e) => After(Tree, e)[q] = FileOf(e.content, 0)
<1> DEFINE p == e.path
<1>0. p \in Paths /\ e.entry \in {"File", "Directory"}
  BY DEF Event
<1>1. CASE e.change = "Deleted"
  <2>1. After(Tree, e) = AfterDeletion(Tree, p, e.entry)
    BY <1>0, <1>1, AfterIs
  <2>2. e.entry = "Directory" => q \notin Below(p)
    BY <1>1 DEF PushesWell
  <2>3. QED
    BY <1>1, <2>1, <2>2 DEF AfterDeletion, Without, NeedsContent
<1>2. CASE e.change # "Deleted"
  <2>1. \A x \in Ancestors[p] : Tree[x].kind = "Directory"
    BY <1>2 DEF PushesWell, Fits
  <2>2. CanHold(Tree, p) /\ Tree[p].kind \in {"Absent", e.entry}
    BY <2>1 DEF CanHold, PushesWell
  <2>3. q # p => /\ WithFolders(Tree, Ancestors[p])[q] = Tree[q]
                 /\ WithFolders(Tree, Ancestors[p] \cup {p})[q] = Tree[q]
    BY <2>1 DEF WithFolders
  <2>4. CASE e.entry = "File"
    <3>1. After(Tree, e) = WithFile(Tree, p, e.content, 0)
      BY <1>0, <1>2, <2>2, <2>4, AfterIs DEF NeedsContent, CanWriteFile
    <3>2. QED
      BY <2>3, <3>1 DEF WithFile, WithFolders
  <2>5. CASE e.entry = "Directory"
    <3>1. After(Tree, e) = WithFolders(Tree, Ancestors[p] \cup {p})
      BY <1>0, <1>2, <2>2, <2>5, AfterIs DEF CanMakeFolder
    <3>2. QED
      BY <2>3, <2>5, <3>1 DEF NeedsContent
  <2>6. QED
    BY <1>0, <2>4, <2>5
<1>3. QED
  BY <1>1, <1>2

(* A step of the editing machine's loop changes nothing on its disk.       *)
LEMMA OwnLoopReads ==
  ASSUME OneEditor, TypeOK, ReceiversNeverPublish, NEW a \in Editors, Loop(a)
  PROVE  disk' = disk \/ pc[a] = "recording"
<1>1. \A s \in inbox[a] : ~TakeRemote(a, s)
  BY NothingRemote
<1>2. QED
  BY <1>1 DEF Loop, PushPhase, ApplyPhase, Start, Scan, ReadChanges, ReadFails, Push, PushRefused,
     PushUnanswered, Fetch, FetchFails, SkipOwn, ApplyFolder, ApplyFile, ApplyDeletion,
     ApplyFails, Applies, RecordFile, RecordFails, Save, SaveFails

(* The published tree at p, when a pushes.                                 *)
LEMMA PushSends ==
  ASSUME TypeOK, TypeOK', OneReplay(log), OneReplay(log)', [Next]_vars,
         NEW a \in Machines, Push(a) \/ PushUnanswered(a)
  PROVE  \E e \in outbox[a] :
           /\ e \in Event /\ NextToPush(a, e) /\ pc[a] = "pushing"
           /\ Tree' = After(Tree, e)
           /\ Push(a) => /\ outbox'[a] = outbox[a] \ {e}
                         /\ pc' = pc /\ scan' = scan
<1>1. PICK e \in outbox[a] :
        /\ NextToPush(a, e) /\ log' = Append(log, e) /\ pc[a] = "pushing"
        /\ Push(a) => outbox' = [outbox EXCEPT ![a] = outbox[a] \ {e}] /\ pc' = pc /\ scan' = scan
  <2>1. CASE Push(a)
    BY <2>1 DEF Push
  <2>2. CASE PushUnanswered(a)
    BY <2>2 DEF PushUnanswered, Push
  <2>3. QED
    BY <2>1, <2>2
<1>2. e \in Event /\ log \in Seq(Event) /\ Len(log') # Len(log)
  BY <1>1 DEF TypeOK, Types
<1>3. PICK f \in Event : log' = Append(log, f) /\ Tree' = After(Tree, f)
  BY <1>2, TreeGrows
<1>4. f = e
  <2>1. Append(log, e)[Len(log) + 1] = e
    BY <1>2
  <2>2. Append(log, f)[Len(log) + 1] = f
    BY <1>2
  <2>3. QED
    BY <1>1, <1>3, <2>1, <2>2
<1>5. Push(a) => outbox'[a] = outbox[a] \ {e}
  BY <1>1 DEF TypeOK, Types
<1>6. QED
  BY <1>1, <1>2, <1>3, <1>4, <1>5

(* A step of its loop.                                                     *)
LEMMA OwnSends ==
  ASSUME OneEditor, "crash" \notin FaultKinds,
         TypeOK, TypeOK', OneReplay(log), OneReplay(log)', ReceiversNeverPublish, [Next]_vars,
         NEW a \in Editors, Loop(a), SentOf(a),
         \A e \in outbox[a] : pc[a] = "pushing" /\ NextToPush(a, e) => PushesWell(a, e)
  PROVE  SentOf(a)'
<1>0. /\ a \in Machines /\ disk' = disk
      /\ disk[a] \in [Paths -> Node] /\ outbox[a] \in SUBSET Event
      /\ entries[a] \in [Paths -> Entry] /\ scan[a] \in [Paths -> Entry]
      /\ \A s \in inbox[a] : ~TakeRemote(a, s)
  BY SyncAssumption, OwnLoopReads, NothingRemote DEF TypeOK, Types, SentOf
<1>1. ~(Push(a) \/ PushUnanswered(a)) => log' = log /\ Tree' = Tree
  BY <1>0, LogGrows, TreeStays DEF LoopOrCrash, TypeOK
<1>2. CASE Start(a)
  <2>1. /\ entries'[a] = NoEntries /\ pc'[a] = "idle"
    BY <1>0, <1>2 DEF Start, SentOf, FreshState, TypeOK, Types
  <2>2. \A p \in Paths : NoEntries[p].kind = "Absent"
    BY DEF NoEntries, NoEntry
  <2>3. \A p \in Paths : disk[a][p].kind = "File" => EntryOf(disk[a][p]).kind = "File"
    BY DEF EntryOf
  <2>4. QED
    BY <1>0, <2>1, <2>2, <2>3 DEF SentOf, SentAt, InSync
<1>3. CASE Scan(a)
  <2>1. /\ entries' = entries /\ pc[a] = "idle" /\ pc'[a] = "scanned"
        /\ scan'[a] = ScanOf(disk[a]) /\ Tree' = Tree
        /\ outbox'[a] = LocalChanges(entries[a], ScanOf(disk[a]), a)
    BY <1>0, <1>1, <1>3 DEF Scan, Push, PushUnanswered, TypeOK, Types
  <2>2. ASSUME NEW p \in Paths
        PROVE  SentAt(a, p)'
    <3>1. scan'[a][p] = EntryOf(disk[a][p])
      BY <2>1 DEF ScanOf
    <3>2. Holds(a, p)' <=> Holds(a, p)
      BY <1>0, <2>1 DEF Holds
    <3>3. InSync(a, p, entries[a]) =>
            Holds(a, p) /\ \A e \in outbox'[a] : e.path # p
      <4>1. InSync(a, p, entries[a]) => entries[a][p] = ScanOf(disk[a])[p]
        BY DEF InSync, ScanOf
      <4>2. entries[a][p] = ScanOf(disk[a])[p] => \A e \in outbox'[a] : e.path # p
        BY <2>1 DEF LocalChanges
      <4>3. InSync(a, p, entries[a]) => Holds(a, p)
        BY DEF SentOf, SentAt
      <4>4. QED
        BY <4>1, <4>2, <4>3
    <3>4. ASSUME disk[a][p].kind = "File", entries[a][p] # EntryOf(disk[a][p])
          PROVE  \E e \in outbox'[a] : e.path = p /\ NeedsContent(e)
      BY <1>0, <1>3, <2>1, <3>4, ScanFinds DEF Pending
    <3>5. QED
      BY <1>0, <2>1, <3>1, <3>2, <3>3, <3>4 DEF SentAt, InSync
  <2>3. \A e \in outbox'[a] : e.change = "Deleted" => e.entry # scan'[a][e.path].kind
    BY <2>1 DEF LocalChanges
  <2>4. QED
    BY <2>1, <2>2, <2>3 DEF SentOf
<1>4. CASE ReadChanges(a)
  <2>1. /\ entries' = entries /\ scan' = scan /\ pc[a] = "scanned" /\ pc'[a] = "pushing"
        /\ outbox'[a] = {WithContent(a, c) : c \in outbox[a]} /\ Tree' = Tree
    BY <1>0, <1>1, <1>4 DEF ReadChanges, Push, PushUnanswered, TypeOK, Types
  <2>2. \A c \in outbox[a] :
          LET e == WithContent(a, c) IN
          /\ e.path = c.path /\ (NeedsContent(e) <=> NeedsContent(c))
          /\ NeedsContent(c) => e.content = disk[a][c.path].content
          /\ e.change = c.change /\ e.entry = c.entry
    BY <1>0 DEF WithContent, NeedsContent, Event
  <2>3. ASSUME NEW p \in Paths
        PROVE  SentAt(a, p)'
    <3>1. SentAt(a, p)
      BY DEF SentOf
    <3>2. (Holds(a, p)' <=> Holds(a, p)) /\ (\A known : InSync(a, p, known)' <=> InSync(a, p, known))
      BY <1>0, <2>1 DEF Holds, InSync
    <3>3. /\ (\A c \in outbox[a] : c.path # p) => \A e \in outbox'[a] : e.path # p
          /\ \A e \in outbox'[a] : e.path = p /\ NeedsContent(e) => e.content = disk[a][p].content
          /\ (\E c \in outbox[a] : c.path = p /\ NeedsContent(c)) =>
               \E e \in outbox'[a] : e.path = p /\ NeedsContent(e)
      BY <2>1, <2>2
    <3>4. QED
      BY <1>0, <2>1, <3>1, <3>2, <3>3 DEF SentAt, InSync, Holds
  <2>4. \A e \in outbox'[a] : e.change = "Deleted" => e.entry # scan'[a][e.path].kind
    <3>1. \A c \in outbox[a] : c.change = "Deleted" => c.entry # scan[a][c.path].kind
      BY <2>1 DEF SentOf
    <3>2. QED
      BY <2>1, <2>2, <3>1
  <2>5. QED
    BY <2>1, <2>3, <2>4 DEF SentOf
<1>5. CASE Push(a) \/ PushUnanswered(a)
  <2>1. PICK e \in outbox[a] :
          /\ e \in Event /\ NextToPush(a, e) /\ pc[a] = "pushing"
          /\ Tree' = After(Tree, e)
          /\ Push(a) => outbox'[a] = outbox[a] \ {e} /\ pc' = pc /\ scan' = scan
    BY <1>0, <1>5, PushSends
  <2>2. /\ PushesWell(a, e) /\ entries' = entries
        /\ \A f \in outbox[a] \ {e} : ~(f.path = e.path /\ e.change # "Deleted")
    <3>1. entries' = entries
      BY <1>5 DEF Push, PushUnanswered
    <3>2. \A f \in outbox[a] \ {e} : f.path \in Nat /\ Before(e, f)
      BY <1>0, <2>1 DEF NextToPush, Event, Paths
    <3>3. e.path \in Nat
      BY <2>1 DEF Event, Paths
    <3>4. QED
      BY <2>1, <3>1, <3>2, <3>3 DEF Before
  <2>3. ASSUME NEW p \in Paths, scan[a][p].kind = "File", Holds(a, p), e.path # p
        PROVE  Holds(a, p)'
    BY <1>0, <2>1, <2>2, <2>3, PushedFile DEF Holds
  <2>4. ASSUME NEW p \in Paths, InSync(a, p, entries[a])
        PROVE  Holds(a, p)' /\ scan[a][p] = entries[a][p] /\ \A f \in outbox[a] : f.path # p
    <3>1. Holds(a, p) /\ scan[a][p] = entries[a][p] /\ \A f \in outbox[a] : f.path # p
      BY <2>1, <2>4 DEF SentOf, SentAt
    <3>2. scan[a][p].kind = "File"
      BY <2>4, <3>1 DEF InSync, EntryOf
    <3>3. QED
      BY <2>3, <3>1, <3>2
  <2>5. ASSUME NEW p \in Paths, InSync(a, p, scan[a])
        PROVE  Holds(a, p)' \/ \E f \in outbox[a] \ {e} : f.path = p /\ NeedsContent(f)
    <3>1. /\ scan[a][p].kind = "File"
          /\ Holds(a, p) \/ \E f \in outbox[a] : f.path = p /\ NeedsContent(f)
          /\ \A f \in outbox[a] : f.path = p /\ NeedsContent(f) => f.content = disk[a][p].content
      BY <2>1, <2>5 DEF SentOf, SentAt, InSync, EntryOf
    <3>2. CASE e.path # p
      BY <2>3, <3>1, <3>2
    <3>3. CASE e.path = p /\ NeedsContent(e)
      <4>1. After(Tree, e)[p] = FileOf(e.content, 0)
        BY <2>1, <2>2, <3>1, <3>3, PushedFile
      <4>2. e.content = disk'[a][p].content
        BY <1>0, <2>1, <3>1, <3>3
      <4>3. Tree'[p] = FileOf(e.content, 0)
        BY <2>1, <4>1
      <4>4. QED
        BY <4>2, <4>3 DEF Holds, FileOf
    <3>4. CASE e.path = p /\ e.change = "Deleted"
      <4>1. \E f \in outbox[a] : f.path = p /\ NeedsContent(f)
        BY <2>2, <3>1, <3>4 DEF PushesWell
      <4>2. QED
        BY <3>4, <4>1 DEF NeedsContent
    <3>5. CASE e.path = p /\ e.change # "Deleted" /\ e.entry = "Directory"
      <4>1. \A f \in outbox[a] : f.path = p => f = e
        BY <2>2, <3>5
      <4>2. Holds(a, p)
        BY <3>1, <3>5, <4>1 DEF NeedsContent
      <4>3. FALSE
        BY <2>2, <3>5, <4>2 DEF Holds, PushesWell
      <4>4. QED
        BY <4>3
    <3>6. QED
      BY <2>1, <3>2, <3>3, <3>4, <3>5 DEF NeedsContent, Event
  <2>6. CASE Push(a)
    <3>1. ASSUME NEW p \in Paths
          PROVE  SentAt(a, p)'
      <4>1. \A known : InSync(a, p, known)' <=> InSync(a, p, known)
        BY <1>0 DEF InSync
      <4>2. InSync(a, p, scan[a]) =>
              \A f \in outbox[a] : f.path = p /\ NeedsContent(f) => f.content = disk[a][p].content
        BY <2>1 DEF SentOf, SentAt
      <4>3. QED
        BY <1>0, <2>1, <2>2, <2>4, <2>5, <2>6, <4>1, <4>2 DEF SentAt, InSync
    <3>2. QED
      BY <2>1, <2>6, <3>1 DEF SentOf
  <2>7. CASE PushUnanswered(a)
    <3>1. pc'[a] = "idle"
      BY <1>0, <2>7 DEF PushUnanswered, EndCycle, TypeOK, Types
    <3>2. ASSUME NEW p \in Paths
          PROVE  SentAt(a, p)'
      BY <1>0, <2>2, <2>4, <3>1 DEF SentAt, InSync
    <3>3. QED
      BY <3>1, <3>2 DEF SentOf
  <2>8. QED
    BY <1>5, <2>6, <2>7
<1>6. CASE Fetch(a) \/ FetchFails(a)
  <2>1. /\ pc[a] = "pushing" /\ outbox[a] = {} /\ entries'[a] = scan[a]
        /\ pc'[a] \in {"applying", "idle"} /\ Tree' = Tree
    BY <1>0, <1>1, <1>6 DEF Fetch, FetchFails, EndCycle, Push, PushUnanswered, TypeOK, Types
  <2>2. \A p \in Paths : InSync(a, p, scan[a]) => Holds(a, p)
    BY <2>1 DEF SentOf, SentAt
  <2>3. QED
    BY <1>0, <2>1, <2>2 DEF SentOf, SentAt, InSync, Holds
<1>7. CASE ReadFails(a) \/ PushRefused(a) \/ Save(a) \/ SaveFails(a) \/ \E s \in inbox[a] : SkipOwn(a, s)
  <2>1. /\ entries' = entries /\ pc[a] # "down" /\ pc'[a] \in {"applying", "idle"} /\ Tree' = Tree
    BY <1>0, <1>1, <1>7 DEF ReadFails, PushRefused, Save, SaveFails, SkipOwn, Take, NextToApply,
       EndCycle, Push, PushUnanswered, TypeOK, Types
  <2>2. QED
    BY <1>0, <2>1 DEF SentOf, SentAt, InSync, Holds
<1>8. QED
  BY <1>0, <1>2, <1>3, <1>4, <1>5, <1>6, <1>7
     DEF Loop, PushPhase, ApplyPhase, ApplyFolder, ApplyFile, ApplyDeletion, ApplyFails, Applies,
         RecordFile, RecordFails, SentOf

LEMMA SentInit == Init => SentInv
<1> SUFFICES ASSUME Init
             PROVE  SentInv
  OBVIOUS
<1>1. \A p \in Paths : NoEntries[p].kind = "Absent"
  BY DEF NoEntries, NoEntry
<1>2. QED
  BY <1>1, SyncAssumption DEF Init, SentInv, SentOf, SentAt, InSync, EntryOf

(* A step of anybody.                                                      *)
LEMMA SentStep ==
  ASSUME OneEditor, "crash" \notin FaultKinds,
         TypeOK, TypeOK', OneReplay(log), OneReplay(log)',
         ReceiversNeverPublish, ReceiversNeverPublish', [Next]_vars,
         SentInv, NEW a \in Editors,
         \A e \in outbox[a] : pc[a] = "pushing" /\ NextToPush(a, e) => PushesWell(a, e)
  PROVE  SentOf(a)'
<1>0. a \in Machines /\ SentOf(a)
  BY SyncAssumption DEF SentInv
<1>1. ASSUME NEW m \in Machines, LoopOrCrash(m), m # a
      PROVE  SentOf(a)'
  <2>1. log' = log
    <3>1. ASSUME NEW e \in outbox[m], log' = Append(log, e)
          PROVE  FALSE
      <4>1. /\ e.origin = m /\ Len(log') = Len(log) + 1 /\ log'[Len(log')] = e
            /\ Len(log') \in 1 .. Len(log')
        BY <3>1 DEF TypeOK, Types, CycleOK
      <4>2. m \in Editors
        BY <4>1 DEF ReceiversNeverPublish
      <4>3. QED
        BY <1>1, <4>2 DEF OneEditor
    <3>2. QED
      BY <1>1, <3>1, LogGrows DEF TypeOK
  <2>2. Tree' = Tree
    BY <2>1, TreeStays
  <2>3. Untouched(a)
    BY <1>0, <1>1, OthersUntouched DEF TypeOK
  <2>4. QED
    BY <1>0, <2>2, <2>3 DEF Untouched, SentOf, SentAt, InSync, Holds
<1>2. CASE UserStep
  <2>1. /\ log' = log /\ saved' = saved /\ pc' = pc /\ entries' = entries
        /\ scan' = scan /\ outbox' = outbox
    BY <1>2 DEF UserStep, UserWrites, UserMakesFolder, UserRemoves, Edit, cycle
  <2>2. Tree' = Tree
    BY <2>1, TreeStays
  <2>3. ASSUME NEW p \in Paths
        PROVE  SentAt(a, p)'
    <3>1. Renewed(a, p)
      BY <1>0, <1>2, UserRenews
    <3>2. CASE disk'[a][p] = disk[a][p]
      BY <1>0, <2>1, <2>2, <3>2 DEF SentOf, SentAt, InSync, Holds
    <3>3. CASE disk'[a][p] # disk[a][p]
      <4>1. /\ ~(disk'[a][p].kind = "File" /\ entries[a][p] = EntryOf(disk'[a][p]))
            /\ ~(disk'[a][p].kind = "File" /\ scan[a][p] = EntryOf(disk'[a][p]))
        BY <3>1, <3>3 DEF Renewed, EntryOf
      <4>2. QED
        BY <2>1, <4>1 DEF SentAt, InSync
    <3>4. QED
      BY <3>2, <3>3
  <2>4. QED
    BY <1>0, <2>1, <2>3 DEF SentOf
<1>3. CASE Loop(a)
  BY <1>0, <1>3, OwnSends
<1>4. ~Crash(a) /\ ~CrashInSave(a)
  BY DEF Crash, CrashInSave, Fault
<1>5. CASE UNCHANGED vars
  <2>1. log' = log
    BY <1>5 DEF vars
  <2>2. Tree' = Tree
    BY <2>1, TreeStays
  <2>3. QED
    BY <1>0, <1>5, <2>2 DEF vars, cycle, SentOf, SentAt, InSync, Holds
<1>6. QED
  BY <1>1, <1>2, <1>3, <1>4, <1>5 DEF Next, LoopOrCrash

(* The published tree is a tree of nodes.                                  *)
LEMMA AfterType ==
  ASSUME NEW tree \in [Paths -> Node], NEW e \in Event
  PROVE  After(tree, e) \in [Paths -> Node]
<1> DEFINE p == e.path
<1>0. /\ p \in Paths /\ e.content \in Contents \cup {NoContent}
      /\ e.entry \in {"File", "Directory"} /\ e.change \in {"Created", "Updated", "Deleted"}
  BY DEF Event
<1>1. AfterDeletion(tree, p, e.entry) \in [Paths -> Node]
  BY <1>0, AfterDeletionType
<1>2. WithFolders(tree, Ancestors[p] \cup {p}) \in [Paths -> Node]
  BY WithFoldersType
<1>3. WithFile(tree, p, e.content, 0) \in [Paths -> Node]
  <2>1. WithFolders(tree, Ancestors[p]) \in [Paths -> Node]
    BY WithFoldersType
  <2>2. FileOf(e.content, 0) \in Node
    BY <1>0 DEF FileOf, Node, Kinds
  <2>3. QED
    BY <2>1, <2>2 DEF WithFile
<1>4. QED
  BY <1>0, <1>1, <1>2, <1>3, AfterIs DEF NeedsContent

(* Only files have contents.                                               *)
Bare(tree) == \A p \in Paths : tree[p].kind # "File" => tree[p].content = NoContent

LEMMA BareFolders ==
  ASSUME NEW tree, Bare(tree), NEW ps
  PROVE  Bare(WithFolders(tree, ps))
BY DEF Bare, WithFolders, Folder

LEMMA BareFile ==
  ASSUME NEW tree, Bare(tree), NEW p \in Paths, NEW c, NEW s
  PROVE  Bare(WithFile(tree, p, c, s))
<1>1. Bare(WithFolders(tree, Ancestors[p]))
  BY BareFolders
<1>2. \A q \in Paths : WithFile(tree, p, c, s)[q] = IF q = p THEN FileOf(c, s)
                                                   ELSE WithFolders(tree, Ancestors[p])[q]
  BY DEF WithFile, WithFolders
<1>3. QED
  BY <1>1, <1>2 DEF Bare, FileOf

LEMMA BareDeletion ==
  ASSUME NEW tree, Bare(tree), NEW p, NEW kind
  PROVE  Bare(AfterDeletion(tree, p, kind))
BY DEF Bare, AfterDeletion, Without, Absent

LEMMA BareAfter ==
  ASSUME NEW tree, Bare(tree), NEW e \in Event
  PROVE  Bare(After(tree, e))
<1>1. e.path \in Paths /\ e.entry \in {"File", "Directory"}
  BY DEF Event
<1>2. /\ Bare(AfterDeletion(tree, e.path, e.entry))
      /\ Bare(WithFile(tree, e.path, e.content, 0))
      /\ Bare(WithFolders(tree, Ancestors[e.path] \cup {e.path}))
  BY <1>1, BareFolders, BareFile, BareDeletion
<1>3. QED
  BY <1>1, <1>2, AfterIs DEF NeedsContent

BareInv ==
  /\ Tree \in [Paths -> Node] /\ Bare(Tree)
  /\ \A m \in Machines : Bare(disk[m])

LEMMA FirstTree ==
  ASSUME OneReplay(log), Init
  PROVE  Tree = EmptyTree
<1>1. Len(log) = 0
  BY DEF Init
<1>2. Replay[0] = EmptyTree
  BY <1>1, ReplayOfLog DEF IsReplay
<1>3. QED
  BY <1>1, <1>2 DEF Tree

LEMMA BareInit == ASSUME OneReplay(log) PROVE Init => BareInv
<1>1. Bare(EmptyTree)
  BY DEF Bare, EmptyTree, Absent
<1>2. QED
  BY <1>1, FirstTree, NothingType DEF Init, BareInv

LEMMA BareStep ==
  TypeOK /\ TypeOK' /\ OneReplay(log) /\ OneReplay(log)' /\ BareInv /\ [Next]_vars => BareInv'
<1> SUFFICES ASSUME TypeOK, TypeOK', OneReplay(log), OneReplay(log)', BareInv, [Next]_vars
             PROVE  BareInv'
  OBVIOUS
<1>1. Tree' \in [Paths -> Node] /\ Bare(Tree')
  BY TreeGrows, AfterType, BareAfter DEF BareInv
<1>2. ASSUME NEW m \in Machines
      PROVE  Bare(disk'[m])
  <2>0. Bare(disk[m])
    BY DEF BareInv
  <2>1. CASE UserStep
    <3>1. PICK n \in Machines, p \in Paths :
            \/ \E content \in Contents : UserWrites(n, p, content)
            \/ UserMakesFolder(n, p)
            \/ UserRemoves(n, p)
      BY <2>1 DEF UserStep
    <3>2. CASE n # m
      BY <2>0, <3>1, <3>2 DEF UserWrites, UserMakesFolder, UserRemoves, Edit, TypeOK, Types
    <3>3. CASE n = m
      <4>1. \/ \E content \in Contents : disk'[m] = WithFile(disk[m], p, content, FreshStamp(m, p))
            \/ disk'[m] = WithFolders(disk[m], Ancestors[p] \cup {p})
            \/ disk'[m] = AfterDeletion(disk[m], p, disk[m][p].kind)
        BY <3>1, <3>3 DEF UserWrites, UserMakesFolder, UserRemoves, Edit, TypeOK, Types
      <4>2. QED
        BY <2>0, <4>1, BareFile, BareFolders, BareDeletion
    <3>4. QED
      BY <3>2, <3>3
  <2>2. ASSUME NEW n \in Machines, LoopOrCrash(n)
        PROVE  Bare(disk'[m])
    <3>1. CASE n # m
      BY <2>0, <2>2, <3>1, OthersUntouched DEF Untouched, TypeOK
    <3>2. CASE n = m
      <4>1. CASE disk' = disk \/ \E made : disk' = [disk EXCEPT ![m] = WithFolders(disk[m], made)]
        BY <2>0, <4>1, BareFolders DEF TypeOK, Types
      <4>2. CASE \E s \in inbox[m] : ApplyFolder(m, s) \/ ApplyFile(m, s) \/ ApplyDeletion(m, s)
        <5>1. PICK s \in inbox[m] : ApplyFolder(m, s) \/ ApplyFile(m, s) \/ ApplyDeletion(m, s)
          BY <4>2
        <5>2. log[s] \in Event /\ log[s].path \in Paths
          BY <5>1, TakenIsEvent DEF ApplyFolder, ApplyFile, ApplyDeletion, Applies, TakeRemote, Take, Event
        <5>3. \/ disk'[m] = disk[m]
              \/ disk'[m] = WithFolders(disk[m], Ancestors[log[s].path] \cup {log[s].path})
              \/ disk'[m] = WithFile(disk[m], log[s].path, log[s].content, FreshStamp(m, log[s].path))
              \/ disk'[m] = AfterDeletion(disk[m], log[s].path, log[s].entry)
          BY <5>1 DEF ApplyFolder, ApplyFile, ApplyDeletion, TypeOK, Types
        <5>4. QED
          BY <2>0, <5>2, <5>3, BareFile, BareFolders, BareDeletion
      <4>3. CASE \E s \in inbox[m] : ApplyFails(m, s)
        BY <4>1, <4>3, HalfMadeFolders
      <4>4. \/ disk' = disk
            \/ \E s \in inbox[m] : ApplyFolder(m, s) \/ ApplyFile(m, s) \/ ApplyDeletion(m, s)
            \/ \E s \in inbox[m] : ApplyFails(m, s)
        BY <2>2, <3>2 DEF LoopOrCrash, Loop, PushPhase, ApplyPhase, Start, Scan, ReadChanges, ReadFails,
           Push, PushRefused, PushUnanswered, Fetch, FetchFails, SkipOwn, RecordFile,
           RecordFails, Save, SaveFails, Crash, CrashInSave
      <4>5. QED
        BY <4>1, <4>2, <4>3, <4>4
    <3>3. QED
      BY <3>1, <3>2
  <2>3. CASE UNCHANGED vars
    BY <2>0, <2>3 DEF vars
  <2>4. QED
    BY <2>1, <2>2, <2>3 DEF Next, LoopOrCrash
<1>3. QED
  BY <1>1, <1>2 DEF BareInv

(* The events of an orderly editor do what they say to the published tree. *)
LEMMA SoloPushesWell ==
  ASSUME TypeOK, SoloInv, NEW a \in Editors, NEW e \in outbox[a],
         pc[a] = "pushing", NextToPush(a, e)
  PROVE  PushesWell(a, e)
<1>1. /\ IsTree(scan[a]) /\ Waiting(outbox[a], scan[a], Tree)
      /\ outbox[a] \in SUBSET Event /\ scan[a] \in [Paths -> Entry]
  BY SyncAssumption DEF SoloInv, EditorOf, TypeOK, Types
<1>2. Fits(Tree, e) /\ Tree[e.path].kind \in {"Absent", e.entry}
  BY <1>1, PushFits DEF NextToPush
<1>3. e.path \in Paths /\ \A f \in outbox[a] : f \in Event
  BY <1>1 DEF Event
<1>4. ASSUME e.change = "Deleted"
      PROVE  /\ e.entry # scan[a][e.path].kind
             /\ scan[a][e.path].kind # "Absent" =>
                  \E f \in outbox[a] : f.path = e.path /\ f.change # "Deleted"
  BY <1>1, <1>3, <1>4 DEF Waiting
<1>5. ASSUME e.change = "Deleted", e.entry = "Directory", NEW q \in Below(e.path)
      PROVE  scan[a][q].kind = "Absent"
  BY <1>1, <1>4, <1>5 DEF Below, IsTree
<1>6. ASSUME e.change = "Deleted", scan[a][e.path].kind = "File"
      PROVE  \E f \in outbox[a] : f.path = e.path /\ NeedsContent(f)
  <2>1. PICK f \in outbox[a] : f.path = e.path /\ f.change # "Deleted"
    BY <1>4, <1>6
  <2>2. f.entry = scan[a][e.path].kind
    BY <1>1, <1>3, <2>1 DEF Waiting
  <2>3. QED
    BY <1>6, <2>1, <2>2 DEF NeedsContent
<1>7. QED
  BY <1>2, <1>4, <1>5, <1>6 DEF PushesWell

(* So do those of a flat project.                                          *)
LEMMA FlatPushesWell ==
  ASSUME Flat, TypeOK, FlatInv, Tree \in [Paths -> Node], AllAllowed(Tree), NEW a \in Editors, SentOf(a),
         NEW e \in outbox[a], pc[a] = "pushing"
  PROVE  PushesWell(a, e)
<1>1. /\ a \in Machines /\ e \in Event /\ e.path \in Paths
      /\ e.entry \in {"File", "Directory"} /\ scan[a] \in [Paths -> Entry]
  BY SyncAssumption DEF TypeOK, Types, Event
<1>2. /\ Allowed(e.path, e.entry) /\ Allowed(e.path, Tree[e.path].kind)
      /\ Allowed(e.path, scan[a][e.path].kind)
  BY <1>1 DEF FlatInv, FlatAt, AllAllowed
<1>3. e.change = "Deleted" => e.entry # scan[a][e.path].kind
  BY DEF SentOf
<1>4. Tree[e.path].kind \in {"Absent", "File", "Directory"}
  BY <1>1 DEF Node, Kinds
<1>5. Tree[e.path].kind \in {"Absent", e.entry}
  BY <1>1, <1>2, <1>4 DEF Allowed, Flat
<1>6. ~(e.change = "Deleted" /\ scan[a][e.path].kind = "File")
  BY <1>1, <1>2, <1>3 DEF Allowed, Flat
<1>7. Ancestors[e.path] = {} /\ Below(e.path) = {}
  BY <1>1 DEF Flat, Below
<1>8. QED
  BY <1>5, <1>6, <1>7 DEF PushesWell, Fits

LEMMA AllowedAfter ==
  ASSUME Flat, NEW tree, AllAllowed(tree), NEW e \in Event, Allowed(e.path, e.entry)
  PROVE  AllAllowed(After(tree, e))
<1>1. /\ e.path \in Paths /\ e.entry \in {"File", "Directory"}
      /\ e.entry = "File" => e.path \in FilePaths
      /\ e.entry = "Directory" => e.path \in FolderPaths
  BY DEF Event, Allowed
<1>2. AllAllowed(AfterDeletion(tree, e.path, e.entry))
  BY AllowedDeletion
<1>3. e.entry = "File" => AllAllowed(WithFile(tree, e.path, e.content, 0))
  BY <1>1, AllowedFile
<1>4. e.entry = "Directory" => AllAllowed(WithFolders(tree, Ancestors[e.path] \cup {e.path}))
  BY <1>1, AllowedFolders
<1>5. QED
  BY <1>1, <1>2, <1>3, <1>4, AfterIs DEF NeedsContent

(* The file an editing machine remembers has arrived at every machine      *)
(* without editors that is past the last event.                            *)
RememberedFilesArrived ==
  \A a \in Editors, m \in Machines \ Editors : \A p \in Paths :
    InSync(a, p, entries[a]) /\ pc[m] # "down" /\ last[m] = Len(log) =>
      View(disk[m])[p] = View(disk[a])[p]

LEMMA HeldFilesArrived == SentInv /\ ReceiverReplaysLog => RememberedFilesArrived
<1> SUFFICES ASSUME SentInv, ReceiverReplaysLog, NEW a \in Editors, NEW m \in Machines \ Editors,
                    NEW p \in Paths, InSync(a, p, entries[a]), pc[m] # "down", last[m] = Len(log)
             PROVE  View(disk[m])[p] = View(disk[a])[p]
  BY DEF RememberedFilesArrived
<1>1. View(disk[m]) = View(Tree)
  BY DEF ReceiverReplaysLog, Tree
<1>2. Tree[p].kind = "File" /\ Tree[p].content = disk[a][p].content /\ disk[a][p].kind = "File"
  BY DEF SentInv, SentOf, SentAt, Holds, InSync
<1>3. QED
  BY <1>1, <1>2 DEF View

(* Where one machine edits a flat project, and pushes are refused, answers *)
(* lost, fetches and saves fail: what it remembers has arrived at whoever  *)
(* is past the last event.                                                 *)
THEOREM FlatFilesArrive ==
  ASSUME OneEditor, Flat, SureHands
  PROVE  Spec => []RememberedFilesArrived
<1>1. "crash" \notin FaultKinds /\ "remove" \notin FaultKinds /\ "apply" \notin FaultKinds
  BY DEF SureHands
<1>2. Spec => [](ReceiversNeverPublish /\ ReceiverReplaysLog)
  BY <1>1, FlatReceiversNeverPublish, FlatReceiversReplay, PTL
<1>3. Spec => []FlatInv
  BY TypeCorrect, FlatInit, FlatStep, PTL DEF Spec
<1>4. Spec => []BareInv
  BY TypeCorrect, AlwaysOneReplay, BareInit, BareStep, PTL DEF Spec
<1>5. Init /\ OneReplay(log) => AllAllowed(Tree)
  BY FirstTree, AllowedNothing
<1>6. TypeOK /\ TypeOK' /\ OneReplay(log) /\ OneReplay(log)' /\ FlatInv /\ AllAllowed(Tree) /\ [Next]_vars
      => AllAllowed(Tree)'
  <2> SUFFICES ASSUME TypeOK, TypeOK', OneReplay(log), OneReplay(log)', FlatInv, AllAllowed(Tree), [Next]_vars
               PROVE  AllAllowed(Tree')
    OBVIOUS
  <2>1. \A m \in Machines : \A e \in outbox[m] : Allowed(e.path, e.entry)
    BY DEF FlatInv, FlatAt
  <2>2. QED
    BY <2>1, TreeGrows, AllowedAfter
<1>7. Spec => []AllAllowed(Tree)
  BY <1>3, <1>5, <1>6, TypeCorrect, AlwaysOneReplay, PTL DEF Spec
<1>8. /\ TypeOK /\ TypeOK' /\ OneReplay(log) /\ OneReplay(log)'
      /\ ReceiversNeverPublish /\ ReceiversNeverPublish'
      /\ FlatInv /\ BareInv /\ AllAllowed(Tree) /\ SentInv /\ [Next]_vars
      => SentInv'
  <2> SUFFICES ASSUME TypeOK, TypeOK', OneReplay(log), OneReplay(log)',
                      ReceiversNeverPublish, ReceiversNeverPublish',
                      FlatInv, BareInv, AllAllowed(Tree), SentInv, [Next]_vars, NEW a \in Editors
               PROVE  SentOf(a)'
    BY DEF SentInv
  <2>1. \A e \in outbox[a] : pc[a] = "pushing" => PushesWell(a, e)
    BY FlatPushesWell DEF SentInv, BareInv
  <2>2. QED
    BY <1>1, <2>1, SentStep
<1>9. Spec => []SentInv
  BY <1>2, <1>3, <1>4, <1>7, <1>8, SentInit, TypeCorrect, AlwaysOneReplay, PTL DEF Spec
<1>10. QED
  BY <1>2, <1>9, HeldFilesArrived, PTL

(* A machine at rest: it remembers what is on its disk, and is past the    *)
(* last event.                                                             *)
Settled(m) == pc[m] = "idle" /\ entries[m] = ScanOf(disk[m]) /\ last[m] = Len(log)

SettledTreesAgree ==
  \A m, n \in Machines : Settled(m) /\ Settled(n) => View(disk[m]) = View(disk[n])

LEMMA SettledIsTree ==
  ASSUME BareInv, SoloInv, SentInv, NEW m \in Machines, Settled(m)
  PROVE  View(disk[m]) = View(Tree)
<1>1. CASE m \notin Editors
  BY <1>1 DEF SoloInv, ReplicaInv, ReplicaOf, Settled, Tree
<1>2. CASE m \in Editors
  <2>1. \A p \in Paths : Tree[p].kind = disk[m][p].kind
    BY <1>2 DEF SoloInv, EditorOf, Settled, ScanOf, EntryOf
  <2>2. ASSUME NEW p \in Paths
        PROVE  Tree[p].content = disk[m][p].content
    <3>1. CASE disk[m][p].kind = "File"
      <4>1. InSync(m, p, entries[m])
        BY <3>1 DEF Settled, ScanOf, InSync
      <4>2. QED
        BY <1>2, <4>1 DEF SentInv, SentOf, SentAt, Holds
    <3>2. CASE disk[m][p].kind # "File"
      BY <2>1, <3>2 DEF BareInv, Bare
    <3>3. QED
      BY <3>1, <3>2
  <2>3. QED
    BY <2>1, <2>2, ViewIs
<1>3. QED
  BY <1>1, <1>2

(* Where one machine edits, in any tree and with any number of machines:   *)
(* machines at rest have the same folders and files, with the same bytes.  *)
THEOREM SoloTreesAgree ==
  ASSUME Solo
  PROVE  Spec => []SettledTreesAgree
<1>1. OneEditor /\ "crash" \notin FaultKinds
  BY DEF Solo
<1>2. Spec => []SoloInv
  BY AlwaysSoloInv
<1>3. Spec => []BareInv
  BY TypeCorrect, AlwaysOneReplay, BareInit, BareStep, PTL DEF Spec
<1>4. /\ TypeOK /\ TypeOK' /\ OneReplay(log) /\ OneReplay(log)'
      /\ SoloInv /\ SoloInv' /\ SentInv /\ [Next]_vars
      => SentInv'
  <2> SUFFICES ASSUME TypeOK, TypeOK', OneReplay(log), OneReplay(log)', SoloInv, SoloInv',
                      SentInv, [Next]_vars, NEW a \in Editors
               PROVE  SentOf(a)'
    BY DEF SentInv
  <2>1. ReceiversNeverPublish /\ ReceiversNeverPublish'
    BY DEF SoloInv
  <2>2. \A e \in outbox[a] : pc[a] = "pushing" /\ NextToPush(a, e) => PushesWell(a, e)
    BY SoloPushesWell
  <2>3. QED
    BY <1>1, <2>1, <2>2, SentStep
<1>5. Spec => []SentInv
  BY <1>2, <1>4, SentInit, TypeCorrect, AlwaysOneReplay, PTL DEF Spec
<1>6. BareInv /\ SoloInv /\ SentInv => SettledTreesAgree
  BY SettledIsTree DEF SettledTreesAgree
<1>7. QED
  BY <1>2, <1>3, <1>5, <1>6, PTL

=============================================================================
