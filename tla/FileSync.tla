------------------------------- MODULE FileSync -------------------------------
(***************************************************************************)
(* The automatic file replication of harmony-mcp: every machine of a       *)
(* project runs run_sync_loop (crates/harmony-mcp/src/file_sync.rs) over   *)
(* its own copy of the project tree, pushing what changed locally into the *)
(* host's file_sync_events table and applying what the others pushed.      *)
(*                                                                         *)
(* One cycle (sync_once) of a machine is cut where another actor can get   *)
(* in between: the scan, the reading of the changed files, each push, the  *)
(* fetch, each event applied (and, for a file, the moment between writing  *)
(* it and reading its metadata back) and the saving of the state file.     *)
(* Users edit the trees at any of these points.                            *)
(***************************************************************************)
EXTENDS ProjectTree, Sequences, FiniteSets

CONSTANTS
  Machines,     \* the machines that replicate the project
  Host,         \* the one whose process owns memory.db
  FetchLimit,   \* events per fetch (AUTO_SYNC_FETCH_LIMIT = 256)
  Editors,      \* the machines whose users edit
  FilePaths,    \* the paths users make files of
  FolderPaths,  \* the paths users make folders of
  FaultKinds,   \* which faults may happen
  MaxEdits,     \* bound on user edits
  MaxFaults     \* bound on faults

AllFaults == {"refuse", "lose", "fetch", "apply", "remove", "save", "crash"}

ASSUME SyncAssumption ==
  /\ Host \in Machines
  /\ FetchLimit \in Nat \ {0}
  /\ Editors \subseteq Machines
  /\ FilePaths \subseteq Paths /\ FolderPaths \subseteq Paths
  /\ FaultKinds \subseteq AllFaults
  /\ MaxEdits \in Nat /\ MaxFaults \in Nat

VARIABLES
  log,      \* the rows of file_sync_events: the seq of a row is its index
  disk,     \* the project tree of each machine
  saved,    \* network-sync-state.json of each machine
  pc,       \* where in the loop each machine is
  last,     \* sync_state.last_remote_seq
  entries,  \* sync_state.entries
  scan,     \* current_entries of the running cycle
  outbox,   \* local_events still to be pushed
  inbox,    \* the seqs of the fetched remote_events still to be applied
  writing,  \* the path just written whose metadata is not read back yet, or 0
  applied,  \* history: the seqs each machine applied
  failed,   \* history: the seqs each machine tried to apply and could not
  raced,    \* history: <<machine, path>> of the files a user wrote between the
            \* loop's own write of them and its reading their metadata
  edits,    \* how many user edits happened
  faults    \* history: <<kind, machine>> of the faults that happened

cycle == <<scan, outbox, inbox, writing>>
vars == <<log, disk, saved, pc, last, entries, cycle, applied, failed, raced,
          edits, faults>>

Event == [path : Paths, change : {"Created", "Updated", "Deleted"},
          entry : {"File", "Directory"}, content : Contents \cup {NoContent},
          origin : Machines]

SyncState == [last : Nat, entries : [Paths -> Entry]]

FreshState == [last |-> 0, entries |-> NoEntries]

Phases == {"down", "idle", "scanned", "pushing", "applying", "recording"}

Types ==
  /\ log \in Seq(Event)
  /\ disk \in [Machines -> [Paths -> Node]]
  /\ saved \in [Machines -> SyncState]
  /\ pc \in [Machines -> Phases]
  /\ last \in [Machines -> Nat]
  /\ entries \in [Machines -> [Paths -> Entry]]
  /\ scan \in [Machines -> [Paths -> Entry]]
  /\ outbox \in [Machines -> SUBSET Event]
  /\ inbox \in [Machines -> SUBSET Nat]
  /\ writing \in [Machines -> Paths \cup {0}]
  /\ applied \in [Machines -> SUBSET Nat]
  /\ failed \in [Machines -> SUBSET Nat]
  /\ raced \subseteq Machines \X Paths
  /\ edits \in Nat /\ faults \in Seq(AllFaults \X Machines)

(* What the phase of a cycle says of the rest of a machine's state. *)
CycleOK(m) ==
  /\ last[m] <= Len(log) /\ saved[m].last <= Len(log)
  /\ inbox[m] \subseteq (last[m] + 1) .. Len(log)
  /\ inbox[m] # {} => pc[m] \in {"applying", "recording"}
  /\ outbox[m] # {} => pc[m] \in {"scanned", "pushing"}
  /\ writing[m] # 0 <=> pc[m] = "recording"
  /\ \A e \in outbox[m] : e.origin = m

TypeOK ==
  /\ Types
  /\ \A m \in Machines : CycleOK(m)
  /\ \A m \in Machines : IsTree(disk[m])

Init ==
  /\ log = <<>>
  /\ disk = [m \in Machines |-> EmptyTree]
  /\ saved = [m \in Machines |-> FreshState]
  /\ pc = [m \in Machines |-> "down"]
  /\ last = [m \in Machines |-> 0]
  /\ entries = [m \in Machines |-> NoEntries]
  /\ scan = [m \in Machines |-> NoEntries]
  /\ outbox = [m \in Machines |-> {}]
  /\ inbox = [m \in Machines |-> {}]
  /\ writing = [m \in Machines |-> 0]
  /\ applied = [m \in Machines |-> {}]
  /\ failed = [m \in Machines |-> {}]
  /\ raced = {}
  /\ edits = 0 /\ faults = <<>>

-----------------------------------------------------------------------------
(* A fault of the given kind happens to m, within the bound. *)
Fault(kind, m) ==
  /\ kind \in FaultKinds
  /\ Len(faults) < MaxFaults
  /\ faults' = Append(faults, <<kind, m>>)

(* The host's HTTP server lives in the host's process; the host itself     *)
(* goes straight to its store.                                             *)
HostReachable(m) == m = Host \/ pc[Host] # "down"

(* A signature that no tree, state or scan of m holds for p. *)
FreshStamp(m, p) ==
  CHOOSE s \in Stamps :
    s \notin {disk[m][p].stamp, entries[m][p].stamp,
              saved[m].entries[p].stamp, scan[m][p].stamp}

(* Variant: the newest rows, as get_recent_file_sync_events returns them.  *)
NewestEvents(since) == {s \in 1 .. Len(log) : since < s /\ Len(log) - FetchLimit < s}

(* get_file_sync_events_since: rows past since, oldest first, up to limit. *)
EventsSince(since) == {s \in 1 .. Len(log) : since < s /\ s <= since + FetchLimit}

Later(i, j) == IF i < j THEN j ELSE i

(* The cycle of m is over, done or given up: its local variables are gone. *)
EndCycle(m, phase) ==
  /\ pc' = [pc EXCEPT ![m] = phase]
  /\ scan' = [scan EXCEPT ![m] = NoEntries]
  /\ outbox' = [outbox EXCEPT ![m] = {}]
  /\ inbox' = [inbox EXCEPT ![m] = {}]
  /\ writing' = [writing EXCEPT ![m] = 0]

-----------------------------------------------------------------------------
(* Users of the machines: an editor or a shell changing the project tree.  *)

CanEdit(m) == m \in Editors /\ edits < MaxEdits

Edit(m, tree) ==
  /\ edits' = edits + 1
  /\ disk' = [disk EXCEPT ![m] = tree]
  /\ UNCHANGED <<log, saved, pc, last, entries, cycle, applied, failed, faults>>

UserWrites(m, p, content) ==
  /\ p \in FilePaths
  /\ CanEdit(m)
  /\ CanWriteFile(disk[m], p)
  /\ Edit(m, WithFile(disk[m], p, content, FreshStamp(m, p)))
  /\ raced' = IF writing[m] = p THEN raced \cup {<<m, p>>} ELSE raced

UserMakesFolder(m, p) ==
  /\ p \in FolderPaths
  /\ CanEdit(m)
  /\ disk[m][p].kind = "Absent"
  /\ CanHold(disk[m], p)
  /\ Edit(m, WithFolders(disk[m], Ancestors[p] \cup {p}))
  /\ UNCHANGED raced

UserRemoves(m, p) ==
  /\ CanEdit(m)
  /\ disk[m][p].kind # "Absent"
  /\ Edit(m, AfterDeletion(disk[m], p, disk[m][p].kind))
  /\ UNCHANGED raced

UserStep ==
  \E m \in Machines, p \in Paths :
    \/ \E content \in Contents : UserWrites(m, p, content)
    \/ UserMakesFolder(m, p)
    \/ UserRemoves(m, p)

-----------------------------------------------------------------------------
(* run_sync_loop *)

(* The process starts and AutoSyncState::load reads the state file.        *)
Start(m) ==
  /\ pc[m] = "down"
  /\ pc' = [pc EXCEPT ![m] = "idle"]
  /\ last' = [last EXCEPT ![m] = saved[m].last]
  /\ entries' = [entries EXCEPT ![m] = saved[m].entries]
  /\ UNCHANGED <<log, disk, saved, cycle, applied, failed, raced, edits, faults>>

(* The process dies: what was not saved is lost. *)
Crash(m) ==
  /\ pc[m] # "down"
  /\ Fault("crash", m)
  /\ EndCycle(m, "down")
  /\ last' = [last EXCEPT ![m] = 0]
  /\ entries' = [entries EXCEPT ![m] = NoEntries]
  /\ UNCHANGED <<log, disk, saved, applied, failed, raced, edits>>

(* It dies inside fs::write of the state file, which truncates first: the  *)
(* next load fails to parse it and starts fresh.                           *)
CrashInSave(m) ==
  /\ pc[m] = "applying" /\ inbox[m] = {}
  /\ Fault("crash", m)
  /\ EndCycle(m, "down")
  /\ saved' = [saved EXCEPT ![m] = FreshState]
  /\ last' = [last EXCEPT ![m] = 0]
  /\ entries' = [entries EXCEPT ![m] = NoEntries]
  /\ UNCHANGED <<log, disk, applied, failed, raced, edits>>

-----------------------------------------------------------------------------
(* sync_once *)

(* The walk of the tree, and what it finds changed. *)
Scan(m) ==
  /\ pc[m] = "idle"
  /\ pc' = [pc EXCEPT ![m] = "scanned"]
  /\ scan' = [scan EXCEPT ![m] = ScanOf(disk[m])]
  /\ outbox' = [outbox EXCEPT ![m] = LocalChanges(entries[m], ScanOf(disk[m]), m)]
  /\ UNCHANGED <<log, disk, saved, last, entries, inbox, writing,
                 applied, failed, raced, edits, faults>>

NeedsContent(change) == change.change # "Deleted" /\ change.entry = "File"

(* build_event_for_current_path can read the file and it is small enough.  *)
Readable(m, change) ==
  /\ disk[m][change.path].kind = "File"
  /\ disk[m][change.path].content \notin Oversized

WithContent(m, change) ==
  IF NeedsContent(change)
  THEN [change EXCEPT !.content = disk[m][change.path].content]
  ELSE change

(* Reads the changed files, as they are by now. *)
ReadChanges(m) ==
  /\ pc[m] = "scanned"
  /\ \A c \in outbox[m] : NeedsContent(c) => Readable(m, c)
  /\ pc' = [pc EXCEPT ![m] = "pushing"]
  /\ outbox' = [outbox EXCEPT ![m] = {WithContent(m, c) : c \in @}]
  /\ UNCHANGED <<log, disk, saved, last, entries, scan, inbox, writing,
                 applied, failed, raced, edits, faults>>

(* One file that cannot be read or is too large: the error leaves sync_once.*)
ReadFails(m) ==
  /\ pc[m] = "scanned"
  /\ \E c \in outbox[m] : NeedsContent(c) /\ ~Readable(m, c)
  /\ EndCycle(m, "idle")
  /\ UNCHANGED <<log, disk, saved, last, entries, applied, failed, raced, edits, faults>>

NextToPush(m, e) == e \in outbox[m] /\ \A f \in outbox[m] \ {e} : Before(e, f)

(* Variant: only fetched events move the cursor. *)
PushKeepsCursor(m) ==
  /\ pc[m] = "pushing"
  /\ HostReachable(m)
  /\ \E e \in outbox[m] :
       /\ NextToPush(m, e)
       /\ log' = Append(log, e)
       /\ outbox' = [outbox EXCEPT ![m] = @ \ {e}]
  /\ UNCHANGED <<disk, saved, pc, last, entries, scan, inbox, writing,
                 applied, failed, raced, edits, faults>>

(* push_local_event, answered: the cursor moves to the event's seq. *)
Push(m) ==
  /\ pc[m] = "pushing"
  /\ HostReachable(m)
  /\ \E e \in outbox[m] :
       /\ NextToPush(m, e)
       /\ log' = Append(log, e)
       /\ outbox' = [outbox EXCEPT ![m] = @ \ {e}]
  /\ last' = [last EXCEPT ![m] = Later(@, Len(log'))]
  /\ UNCHANGED <<disk, saved, pc, entries, scan, inbox, writing,
                 applied, failed, raced, edits, faults>>

(* Variant: a refused push is logged and the cycle goes on. *)
PushRefusedGoesOn(m) ==
  /\ pc[m] = "pushing" /\ outbox[m] # {}
  /\ (~HostReachable(m) /\ UNCHANGED faults) \/ Fault("refuse", m)
  /\ outbox' = [outbox EXCEPT ![m] = {}]
  /\ UNCHANGED <<log, disk, saved, pc, last, entries, scan, inbox, writing,
                 applied, failed, raced, edits>>

(* The host is down, cannot be reached or refuses, or the host's own insert*)
(* fails: the cycle is given up.                                           *)
PushRefused(m) ==
  /\ pc[m] = "pushing" /\ outbox[m] # {}
  /\ (~HostReachable(m) /\ UNCHANGED faults) \/ Fault("refuse", m)
  /\ EndCycle(m, "idle")
  /\ UNCHANGED <<log, disk, saved, last, entries, applied, failed, raced, edits>>

(* The host stored the event and its answer never arrived. *)
PushUnanswered(m) ==
  /\ pc[m] = "pushing" /\ m # Host
  /\ HostReachable(m)
  /\ Fault("lose", m)
  /\ \E e \in outbox[m] : NextToPush(m, e) /\ log' = Append(log, e)
  /\ EndCycle(m, "idle")
  /\ UNCHANGED <<disk, saved, last, entries, applied, failed, raced, edits>>

(* All pushed: the scan becomes the known state, and fetch_remote_events   *)
(* asks for what follows the cursor.                                       *)
Fetch(m) ==
  /\ pc[m] = "pushing" /\ outbox[m] = {}
  /\ HostReachable(m)
  /\ pc' = [pc EXCEPT ![m] = "applying"]
  /\ entries' = [entries EXCEPT ![m] = scan[m]]
  /\ inbox' = [inbox EXCEPT ![m] = EventsSince(last[m])]
  /\ UNCHANGED <<log, disk, saved, last, scan, outbox, writing,
                 applied, failed, raced, edits, faults>>

FetchFails(m) ==
  /\ pc[m] = "pushing" /\ outbox[m] = {}
  /\ (~HostReachable(m) /\ UNCHANGED faults) \/ Fault("fetch", m)
  /\ entries' = [entries EXCEPT ![m] = scan[m]]
  /\ EndCycle(m, "idle")
  /\ UNCHANGED <<log, disk, saved, last, applied, failed, raced, edits>>

-----------------------------------------------------------------------------
(* The loop over remote_events: the cursor moves before the event is       *)
(* looked at.                                                              *)

NextToApply(m, s) == pc[m] = "applying" /\ s \in inbox[m] /\ \A t \in inbox[m] : s <= t

Take(m, s) ==
  /\ NextToApply(m, s)
  /\ last' = [last EXCEPT ![m] = Later(@, s)]

(* is_self_event: names and addresses of distinct machines differ. *)
SkipOwn(m, s) ==
  /\ Take(m, s)
  /\ log[s].origin = m
  /\ inbox' = [inbox EXCEPT ![m] = @ \ {s}]
  /\ UNCHANGED <<log, disk, saved, pc, entries, scan, outbox, writing,
                 applied, failed, raced, edits, faults>>

TakeRemote(m, s) == Take(m, s) /\ log[s].origin # m

Applies(m, s) ==
  /\ TakeRemote(m, s)
  /\ inbox' = [inbox EXCEPT ![m] = @ \ {s}]
  /\ applied' = [applied EXCEPT ![m] = @ \cup {s}]
  /\ UNCHANGED <<log, saved, scan, outbox, failed, raced, edits>>

ApplyFolder(m, s) ==
  /\ Applies(m, s)
  /\ log[s].change # "Deleted" /\ log[s].entry = "Directory"
  /\ LET p == log[s].path IN
       /\ CanMakeFolder(disk[m], p)
       /\ disk' = [disk EXCEPT ![m] = WithFolders(@, Ancestors[p] \cup {p})]
       /\ entries' = [entries EXCEPT ![m][p] = EntryOf(Folder)]
  /\ UNCHANGED <<pc, writing, faults>>

(* fs::write; RecordFile then reads the metadata back. *)
ApplyFile(m, s) ==
  /\ Applies(m, s)
  /\ NeedsContent(log[s])
  /\ LET p == log[s].path IN
       /\ CanWriteFile(disk[m], p)
       /\ disk' = [disk EXCEPT ![m] = WithFile(@, p, log[s].content, FreshStamp(m, p))]
       /\ writing' = [writing EXCEPT ![m] = p]
  /\ pc' = [pc EXCEPT ![m] = "recording"]
  /\ UNCHANGED <<entries, faults>>

(* Variant: what was written is not entered as known. *)
RecordNothing(m) ==
  /\ pc[m] = "recording"
  /\ disk[m][writing[m]].kind # "Absent"
  /\ pc' = [pc EXCEPT ![m] = "applying"]
  /\ writing' = [writing EXCEPT ![m] = 0]
  /\ UNCHANGED <<log, disk, saved, last, entries, scan, outbox, inbox,
                 applied, failed, raced, edits, faults>>

(* fs::metadata and entries.insert; the entry is a file's whatever is      *)
(* there by now.                                                           *)
RecordFile(m) ==
  /\ pc[m] = "recording"
  /\ LET p == writing[m] IN
       /\ disk[m][p].kind # "Absent"
       /\ entries' = [entries EXCEPT ![m][p] =
                        [kind |-> "File", stamp |-> disk[m][p].stamp]]
  /\ pc' = [pc EXCEPT ![m] = "applying"]
  /\ writing' = [writing EXCEPT ![m] = 0]
  /\ UNCHANGED <<log, disk, saved, last, scan, outbox, inbox,
                 applied, failed, raced, edits, faults>>

(* The file is gone again: the error leaves sync_once. *)
RecordFails(m) ==
  /\ pc[m] = "recording"
  /\ disk[m][writing[m]].kind = "Absent"
  /\ EndCycle(m, "idle")
  /\ UNCHANGED <<log, disk, saved, last, entries, applied, failed, raced, edits, faults>>

(* A deletion. Errors of remove_file and remove_dir_all are dropped: the   *)
(* entries go whether or not the files do.                                 *)
ApplyDeletion(m, s) ==
  /\ Applies(m, s)
  /\ log[s].change = "Deleted"
  /\ LET p == log[s].path IN
       /\ \/ /\ disk' = [disk EXCEPT ![m] = AfterDeletion(@, p, log[s].entry)]
             /\ UNCHANGED faults
          \/ /\ Fault("remove", m)
             /\ UNCHANGED disk
       /\ entries' =
            [entries EXCEPT ![m] =
               Without(@, {p} \cup (IF log[s].entry = "Directory" THEN Below(p) ELSE {}),
                       NoEntry)]
  /\ UNCHANGED <<pc, writing>>

(* What stands at the path rules the event out (and then the folders above *)
(* the obstacle are there already).                                        *)
RuledOut(m, s) ==
  IF log[s].entry = "File" THEN ~CanWriteFile(disk[m], log[s].path)
                           ELSE ~CanMakeFolder(disk[m], log[s].path)

(* The folders that create_dir_all, from the top, may have made for event  *)
(* e before an error.                                                      *)
HalfMade(e) ==
  {made \in SUBSET (Ancestors[e.path] \cup (IF e.entry = "File" THEN {} ELSE {e.path})) :
     \A a \in made : Ancestors[a] \subseteq made}

(* The event is ruled out, or the disk fails: the error leaves sync_once,  *)
(* with the cursor already past the event. (An fs::write that fails        *)
(* halfway is taken to leave the file as it was.)                          *)
ApplyFails(m, s) ==
  /\ TakeRemote(m, s)
  /\ log[s].change # "Deleted"
  /\ \/ RuledOut(m, s) /\ UNCHANGED <<disk, faults>>
     \/ /\ ~RuledOut(m, s)
        /\ Fault("apply", m)
        /\ \E made \in HalfMade(log[s]) :
             disk' = [disk EXCEPT ![m] = WithFolders(@, made)]
  /\ failed' = [failed EXCEPT ![m] = @ \cup {s}]
  /\ EndCycle(m, "idle")
  /\ UNCHANGED <<log, saved, entries, applied, raced, edits>>

(* All applied: the state file is written. *)
Save(m) ==
  /\ pc[m] = "applying" /\ inbox[m] = {}
  /\ saved' = [saved EXCEPT ![m] = [last |-> last[m], entries |-> entries[m]]]
  /\ EndCycle(m, "idle")
  /\ UNCHANGED <<log, disk, last, entries, applied, failed, raced, edits, faults>>

(* It cannot be written: logged, and the old file stays. *)
SaveFails(m) ==
  /\ pc[m] = "applying" /\ inbox[m] = {}
  /\ Fault("save", m)
  /\ EndCycle(m, "idle")
  /\ UNCHANGED <<log, disk, saved, last, entries, applied, failed, raced, edits>>

-----------------------------------------------------------------------------
PushPhase(m) == Push(m) \/ PushRefused(m) \/ PushUnanswered(m) \/ Fetch(m) \/ FetchFails(m)

ApplyPhase(m) ==
  \/ \E s \in inbox[m] : SkipOwn(m, s) \/ ApplyFolder(m, s) \/ ApplyFile(m, s)
                         \/ ApplyDeletion(m, s) \/ ApplyFails(m, s)
  \/ RecordFile(m) \/ RecordFails(m)
  \/ Save(m) \/ SaveFails(m)

Loop(m) == Start(m) \/ Scan(m) \/ ReadChanges(m) \/ ReadFails(m) \/ PushPhase(m) \/ ApplyPhase(m)

Next ==
  \/ UserStep
  \/ \E m \in Machines : Loop(m) \/ Crash(m) \/ CrashInSave(m)

Spec == Init /\ [][Next]_vars

(* run_sync_loop never returns: a running loop takes its next step, and a  *)
(* machine that is down is started again. Nothing makes a user edit or a   *)
(* process die.                                                            *)
FairSpec == Spec /\ \A m \in Machines : WF_vars(Loop(m))
-----------------------------------------------------------------------------
(* Safety. *)

Remote(m) == {s \in 1 .. Len(log) : log[s].origin # m}
Own(m)    == {s \in 1 .. Len(log) : log[s].origin = m}

(* s gives path p the content c. *)
Publishes(s, p, c) ==
  log[s].path = p /\ NeedsContent(log[s]) /\ log[s].content = c

Published(p, c) == \E s \in 1 .. Len(log) : Publishes(s, p, c)

(* m takes the file at p for replicated: what it remembers is what is there.*)
InSync(m, p, known) ==
  disk[m][p].kind = "File" /\ known[p] = EntryOf(disk[m][p])

(* A file whose signature a machine remembers, in memory or in its state   *)
(* file, holds bytes that are in the host's log: no failed push, crash or  *)
(* edit in the middle of a cycle makes the loop take an unpublished file   *)
(* for a replicated one. (build_local_events only looks at signatures: such*)
(* a file would never be pushed again.) The one edit that does is a write  *)
(* between the loop's own fs::write of the file and its fs::metadata.      *)
RememberedFilesArePublished ==
  \A m \in Machines : \A p \in Paths :
    /\ <<m, p>> \notin raced
    /\ InSync(m, p, entries[m]) \/ InSync(m, p, saved[m].entries)
    => Published(p, disk[m][p].content)

(* The process of m died, or an answer for it was lost. *)
Unsure(m) ==
  \E i \in 1 .. Len(faults) : faults[i] \in {<<"crash", m>>, <<"lose", m>>}

(* On a machine whose process never died and which got all its answers, a  *)
(* file that is in sync holds what the newest event for it says, among     *)
(* those the machine pushed or applied: pushing, then fetching what        *)
(* follows the cursor never leaves an older version standing as the known  *)
(* one, whatever fails there and whatever happens to the other machines.   *)
InSyncFileIsNewestKnown ==
  \A m \in Machines : \A p \in Paths :
    ~Unsure(m) /\ <<m, p>> \notin raced /\ InSync(m, p, entries[m]) =>
    \E s \in Own(m) \cup applied[m] :
      /\ Publishes(s, p, disk[m][p].content)
      /\ \A t \in Own(m) \cup applied[m] : log[t].path = p => t <= s

(* A machine's cursor is past an event of another machine that it never    *)
(* looked at only if it pushed an event of its own after it: whoever only  *)
(* receives misses nothing, whatever fails, whoever restarts.              *)
MissedOnlyBehindOwnPush ==
  \A m \in Machines : \A s \in Remote(m) :
    s <= last[m] /\ s \notin applied[m] \cup failed[m] => \E t \in Own(m) : s < t

(* "connected laptops pull those changes back down automatically"          *)
(* (README.md:100): an event of another machine that the cursor has passed *)
(* was looked at.                                                          *)
NothingMissed ==
  \A m \in Machines : \A s \in Remote(m) :
    s <= last[m] => s \in applied[m] \cup failed[m]

(* A machine whose users edit nothing publishes nothing: applying what     *)
(* others pushed is not detected as a local change in a later cycle. (In a *)
(* flat project, or where one machine edits: create_dir_all of a folder    *)
(* that another machine deleted meanwhile is not entered in entries.)      *)
ReceiversNeverPublish ==
  \A s \in 1 .. Len(log) : log[s].origin \in Editors

(* What an event makes of a tree; one that is ruled out by what stands at  *)
(* its path changes nothing.                                               *)
After(tree, e) ==
  CASE e.change = "Deleted" -> AfterDeletion(tree, e.path, e.entry)
    [] NeedsContent(e) /\ CanWriteFile(tree, e.path) ->
         WithFile(tree, e.path, e.content, 0)
    [] e.change # "Deleted" /\ e.entry = "Directory" /\ CanMakeFolder(tree, e.path) ->
         WithFolders(tree, Ancestors[e.path] \cup {e.path})
    [] OTHER -> tree

(* The tree after the first n events, applied in turn to an empty project. *)
Replay ==
  LET replay[n \in 0 .. Len(log)] ==
        IF n = 0 THEN EmptyTree ELSE After(replay[n - 1], log[n])
  IN  replay

(* A machine whose users edit nothing is a replica: at every moment its    *)
(* tree is the host's log replayed up to its cursor.                       *)
ReceiverReplaysLog ==
  LET replay == Replay IN
  \A m \in Machines \ Editors :
    pc[m] # "down" => View(disk[m]) = View(replay[last[m]])

-----------------------------------------------------------------------------
(* What a step may never do. *)

(* The loop takes a file's bytes away only if they are in the log, or were *)
(* written since this cycle's scan (or in the window of                    *)
(* RememberedFilesArePublished).                                           *)
OverwritesPublishedOrUnscanned ==
  [][\A m \in Machines : \A p \in Paths :
       /\ edits' = edits /\ <<m, p>> \notin raced
       /\ disk[m][p].kind = "File" /\ disk'[m][p] # disk[m][p]
       => \/ Published(p, disk[m][p].content)
          \/ scan[m][p] # EntryOf(disk[m][p])]_vars

-----------------------------------------------------------------------------
(* Liveness. *)

(* "Harmony also keeps project files and folders synchronized across       *)
(* connected host/client laptops" (docs/USAGE.md:56), where one machine    *)
(* edits, none restarts and no push is answered with an error: the edits   *)
(* end, and all machines come to hold the same files and folders.          *)
Convergence == <>[](\A m, n \in Machines : View(disk[m]) = View(disk[n]))

(* The same of the files the editing machine ends with, when pushes are    *)
(* refused and answers lost as well: they arrive with the same bytes. (The *)
(* deletion of a file whose creation was pushed without an answer does     *)
(* not: the loop never knew it had published the file.)                    *)
EditorsFilesArrive ==
  <>[](\A m \in Editors : \A n \in Machines : \A p \in Paths :
         disk[m][p].kind = "File" => View(disk[n])[p] = View(disk[m])[p])

=============================================================================
