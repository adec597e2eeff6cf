------------------------------- MODULE AgentSync -------------------------------
(***************************************************************************)
(* The tool harmony_sync (crates/harmony-mcp/src/tools.rs) and the command *)
(* "harmony-mcp sync" (main.rs), which report the project files an agent   *)
(* changed since the last call. Both are the same code, written twice.     *)
(*                                                                         *)
(* What was reported already is remembered in agent-sync-state.json. No    *)
(* lock guards that file: every call, of a thread of the server or of a    *)
(* command line, reads it at its beginning and overwrites it at its end,   *)
(* while editors change the project and other calls do the same.           *)
(***************************************************************************)
EXTENDS Naturals, FiniteSets

CONSTANTS
  Syncers,      \* who calls: threads of the server, command lines
  Files,        \* paths that the skip rules let through
  NoFile,       \* none of them
  Kinds,        \* what the files written are: "text", "binary", "large"
  FileLists,    \* the sets of files that calls name explicitly
  Since,        \* since_seconds, in ticks
  MaxEdits, MaxTime, MaxFaults   \* bounds

ASSUME AgentSyncAssumption ==
  /\ Kinds \subseteq {"text", "binary", "large"}
  /\ NoFile \notin Files
  /\ FileLists \subseteq SUBSET Files
  /\ Since \in Nat
  /\ MaxEdits \in Nat /\ MaxTime \in Nat /\ MaxFaults \in Nat

VARIABLES
  now,        \* the clock
  disk,       \* the project's files
  stateFile,  \* agent-sync-state.json
  pc,         \* where each caller is in its call
  known,      \* its SyncState: the signature last reported of each file
  todo,       \* its candidates, those left
  current,    \* the candidate it is at
  signature,  \* the signature it took of it
  content,    \* the content it read of it
  listed,     \* history: the candidates' versions when they were listed
  failed,     \* history: candidates whose record_change failed
  reported,   \* <<file, version>> of the contents in provenance_tags
  twice,      \* history: those reported more than once
  disturbed,  \* history: whether a call was ever disturbed, see below
  edits, faults   \* how many edits and faults there were

locals == <<pc, known, todo, current, signature, content, listed, failed>>
vars == <<now, disk, stateFile, locals, reported, twice, disturbed, edits, faults>>

-----------------------------------------------------------------------------
(* A write gives a file a version of its own, which stands for its content *)
(* and for its signature (modification time and size): 0 is no file, or no *)
(* signature.                                                              *)
Version == Nat
File == [version : Version, kind : {"text", "binary", "large"}, modified : Nat]
Absent(f) == disk[f].version = 0

Nothing == [f \in Files |-> 0]
Signatures == [Files -> Version]

(* fs::write empties a file, then fills it. *)
StateFile == [form : {"whole", "empty", "garbled"}, files : Signatures]
Whole(files) == [form |-> "whole", files |-> files]
Broken(form) == [form |-> form, files |-> Nothing]

Steps == {"idle", "list", "files", "read", "record", "save"}

TypeOK ==
  /\ now \in Nat
  /\ disk \in [Files -> File]
  /\ stateFile \in StateFile
  /\ pc \in [Syncers -> Steps]
  /\ known \in [Syncers -> Signatures]
  /\ todo \in [Syncers -> SUBSET Files]
  /\ current \in [Syncers -> Files \cup {NoFile}]
  /\ \A s \in Syncers : pc[s] \in {"read", "record"} <=> current[s] # NoFile
  /\ signature \in [Syncers -> Version]
  /\ content \in [Syncers -> Version]
  /\ listed \in [Syncers -> Signatures]
  /\ failed \in [Syncers -> SUBSET Files]
  /\ reported \subseteq Files \X Version
  /\ twice \subseteq reported
  /\ disturbed \in BOOLEAN
  /\ edits \in Nat /\ faults \in Nat

(* A project before its first sync; a state file that does not exist       *)
(* remembers nothing.                                                      *)
Init ==
  /\ now = 0
  /\ disk = [f \in Files |-> [version |-> 0, kind |-> "text", modified |-> 0]]
  /\ stateFile = Whole(Nothing)
  /\ pc = [s \in Syncers |-> "idle"]
  /\ known = [s \in Syncers |-> Nothing]
  /\ todo = [s \in Syncers |-> {}]
  /\ current = [s \in Syncers |-> NoFile]
  /\ signature = [s \in Syncers |-> 0]
  /\ content = [s \in Syncers |-> 0]
  /\ listed = [s \in Syncers |-> Nothing]
  /\ failed = [s \in Syncers |-> {}]
  /\ reported = {} /\ twice = {} /\ disturbed = FALSE
  /\ edits = 0 /\ faults = 0

-----------------------------------------------------------------------------
(* A call, as far as it goes without touching the state file. *)

Goto(s, step) == pc' = [pc EXCEPT ![s] = step]

(* What a call leaves behind in its caller: nothing. *)
EndCall(s) ==
  /\ pc' = [pc EXCEPT ![s] = "idle"]
  /\ known' = [known EXCEPT ![s] = Nothing]
  /\ todo' = [todo EXCEPT ![s] = {}]
  /\ current' = [current EXCEPT ![s] = NoFile]
  /\ signature' = [signature EXCEPT ![s] = 0]
  /\ content' = [content EXCEPT ![s] = 0]
  /\ listed' = [listed EXCEPT ![s] = Nothing]
  /\ failed' = [failed EXCEPT ![s] = {}]

(* SyncState::load. A file that is not whole is an error, which ends the   *)
(* call before it did anything.                                            *)
Load(s) ==
  /\ pc[s] = "idle"
  /\ stateFile.form = "whole"
  /\ known' = [known EXCEPT ![s] = stateFile.files]
  /\ Goto(s, "list")
  /\ disturbed' = (disturbed \/ \E t \in Syncers : pc[t] # "idle")
  /\ UNCHANGED <<now, disk, stateFile, todo, current, signature, content, listed,
                 failed, reported, twice, edits, faults>>

(* discover_recent_text_files: large files and binaries are left out. *)
RecentFiles ==
  {f \in Files : /\ ~Absent(f)
                 /\ disk[f].modified + Since >= now
                 /\ disk[f].kind = "text"}

(* The candidates are the files the caller names, or the recent ones (the  *)
(* walk of the tree is taken as one step).                                 *)
ListCandidates(s, files) ==
  /\ pc[s] = "list"
  /\ todo' = [todo EXCEPT ![s] = files]
  /\ listed' = [listed EXCEPT ![s] =
       [f \in Files |-> IF f \in files THEN disk[f].version ELSE 0]]
  /\ Goto(s, "files")
  /\ UNCHANGED <<now, disk, stateFile, known, current, signature, content, failed,
                 reported, twice, disturbed, edits, faults>>

(* Variant: any file ever reported is passed over. *)
SkipEverReported(s, f) ==
  /\ pc[s] = "files" /\ f \in todo[s]
  /\ Absent(f) \/ known[s][f] # 0
  /\ todo' = [todo EXCEPT ![s] = @ \ {f}]
  /\ UNCHANGED <<now, disk, stateFile, pc, known, current, signature, content,
                 listed, failed, reported, twice, disturbed, edits, faults>>

(* sync_one_file gives up a candidate that is gone, and passes over one    *)
(* whose signature is the one last reported. Explicit candidates come in   *)
(* any order, and no other depends on it.                                  *)
Skip(s, f) ==
  /\ pc[s] = "files" /\ f \in todo[s]
  /\ Absent(f) \/ known[s][f] = disk[f].version
  /\ todo' = [todo EXCEPT ![s] = @ \ {f}]
  /\ UNCHANGED <<now, disk, stateFile, pc, known, current, signature, content,
                 listed, failed, reported, twice, disturbed, edits, faults>>

(* The signature is taken before the content is read. *)
Sign(s, f) ==
  /\ pc[s] = "files" /\ f \in todo[s]
  /\ ~Absent(f) /\ known[s][f] # disk[f].version
  /\ todo' = [todo EXCEPT ![s] = @ \ {f}]
  /\ current' = [current EXCEPT ![s] = f]
  /\ signature' = [signature EXCEPT ![s] = disk[f].version]
  /\ Goto(s, "read")
  /\ UNCHANGED <<now, disk, stateFile, known, content, listed, failed, reported,
                 twice, disturbed, edits, faults>>

(* read_text_file *)
Read(s) ==
  /\ pc[s] = "read"
  /\ ~Absent(current[s]) /\ disk[current[s]].kind # "binary"
  /\ content' = [content EXCEPT ![s] = disk[current[s]].version]
  /\ disturbed' = (disturbed \/ disk[current[s]].version # signature[s])
  /\ Goto(s, "record")
  /\ UNCHANGED <<now, disk, stateFile, known, todo, current, signature, listed,
                 failed, reported, twice, edits, faults>>

(* Variant: the candidate stays the current one. *)
NextFileKeepingCurrent(s) ==
  /\ Goto(s, "files")
  /\ UNCHANGED <<current, signature, content>>

(* The candidate is done with, one way or another. *)
NextFile(s) ==
  /\ current' = [current EXCEPT ![s] = NoFile]
  /\ signature' = [signature EXCEPT ![s] = 0]
  /\ content' = [content EXCEPT ![s] = 0]
  /\ Goto(s, "files")

(* The file is gone by now, or no text. *)
ReadFails(s) ==
  /\ pc[s] = "read"
  /\ Absent(current[s]) \/ disk[current[s]].kind = "binary"
  /\ NextFile(s)
  /\ UNCHANGED <<now, disk, stateFile, known, todo, listed, failed, reported,
                 twice, disturbed, edits, faults>>

(* Variant: the signature is taken after the report. *)
RecordThenSign(s) ==
  LET change == <<current[s], content[s]>> IN
  /\ pc[s] = "record"
  /\ reported' = reported \cup {change}
  /\ twice' = IF change \in reported THEN twice \cup {change} ELSE twice
  /\ known' = [known EXCEPT ![s][current[s]] = disk[current[s]].version]
  /\ NextFile(s)
  /\ UNCHANGED <<now, disk, stateFile, todo, listed, failed, disturbed, edits,
                 faults>>

(* Variant: the signature is not put into the state. *)
RecordForgetting(s) ==
  LET change == <<current[s], content[s]>> IN
  /\ pc[s] = "record"
  /\ reported' = reported \cup {change}
  /\ twice' = IF change \in reported THEN twice \cup {change} ELSE twice
  /\ NextFile(s)
  /\ UNCHANGED <<now, disk, stateFile, known, todo, listed, failed, disturbed,
                 edits, faults>>

(* record_change stores the content in a tag; the signature is remembered. *)
Record(s) ==
  LET change == <<current[s], content[s]>> IN
  /\ pc[s] = "record"
  /\ reported' = reported \cup {change}
  /\ twice' = IF change \in reported THEN twice \cup {change} ELSE twice
  /\ known' = [known EXCEPT ![s][current[s]] = signature[s]]
  /\ NextFile(s)
  /\ UNCHANGED <<now, disk, stateFile, todo, listed, failed, disturbed, edits,
                 faults>>

(* SyncState::save truncates the file ... *)
Truncate(s) ==
  /\ pc[s] = "files" /\ todo[s] = {}
  /\ stateFile' = Broken("empty")
  /\ Goto(s, "save")
  /\ UNCHANGED <<now, disk, known, todo, current, signature, content, listed,
                 failed, reported, twice, disturbed, edits, faults>>

(* ... and writes. What another call wrote since, and was longer, stands   *)
(* out behind it.                                                          *)
Save(s) ==
  /\ pc[s] = "save"
  /\ \/ stateFile' = Whole(known[s])
     \/ /\ stateFile \notin {Broken("empty"), Whole(known[s])}
        /\ stateFile' = Broken("garbled")
  /\ EndCall(s)
  /\ UNCHANGED <<now, disk, reported, twice, disturbed, edits, faults>>

-----------------------------------------------------------------------------
Fault == faults < MaxFaults /\ faults' = faults + 1 /\ disturbed' = TRUE

(* An error of record_change, which then stored no tag: the file is left   *)
(* for the next call.                                                      *)
RecordFails(s) ==
  /\ Fault
  /\ pc[s] = "record"
  /\ failed' = [failed EXCEPT ![s] = @ \cup {current[s]}]
  /\ NextFile(s)
  /\ UNCHANGED <<now, disk, stateFile, known, todo, listed, reported, twice, edits>>

(* discover_recent_text_files meets a folder or a file it cannot read: the *)
(* call ends before it looked at any candidate.                            *)
ListFails(s) ==
  /\ Fault
  /\ pc[s] = "list"
  /\ EndCall(s)
  /\ UNCHANGED <<now, disk, stateFile, reported, twice, edits>>

(* The state file cannot be opened for writing. *)
SaveFails(s) ==
  /\ Fault
  /\ pc[s] = "files" /\ todo[s] = {}
  /\ EndCall(s)
  /\ UNCHANGED <<now, disk, stateFile, reported, twice, edits>>

(* The caller ends in the middle of a call, or its write to the emptied    *)
(* state file fails.                                                       *)
Crash(s) ==
  /\ Fault
  /\ pc[s] # "idle"
  /\ EndCall(s)
  /\ UNCHANGED <<now, disk, stateFile, reported, twice, edits>>

-----------------------------------------------------------------------------
(* Agents and people edit the project, which is why there is a Sync. *)
Write(f, kind) ==
  /\ edits < MaxEdits
  /\ disk' = [disk EXCEPT ![f] =
       [version |-> edits + 1, kind |-> kind, modified |-> now]]
  /\ edits' = edits + 1
  /\ UNCHANGED <<now, stateFile, locals, reported, twice, disturbed, faults>>

Remove(f) ==
  /\ edits < MaxEdits
  /\ ~Absent(f)
  /\ disk' = [disk EXCEPT ![f].version = 0]
  /\ edits' = edits + 1
  /\ UNCHANGED <<now, stateFile, locals, reported, twice, disturbed, faults>>

Tick ==
  /\ now < MaxTime
  /\ now' = now + 1
  /\ UNCHANGED <<disk, stateFile, locals, reported, twice, disturbed, edits, faults>>

CallStep(s) ==
  \/ Load(s)
  \/ \E files \in FileLists \cup {RecentFiles} : ListCandidates(s, files)
  \/ \E f \in Files : Skip(s, f) \/ Sign(s, f)
  \/ Read(s)
  \/ ReadFails(s)
  \/ Record(s)
  \/ Truncate(s)
  \/ Save(s)

FaultStep(s) == ListFails(s) \/ RecordFails(s) \/ SaveFails(s) \/ Crash(s)

Next ==
  \/ \E s \in Syncers : CallStep(s) \/ FaultStep(s)
  \/ \E f \in Files : Remove(f) \/ \E kind \in Kinds : Write(f, kind)
  \/ Tick

Spec == Init /\ [][Next]_vars

-----------------------------------------------------------------------------
(* What is remembered as synced, in the state file or in a call.           *)
Remembered == {stateFile.files} \cup {known[s] : s \in Syncers}

(* A file that calls will pass over because it was synced has been reported*)
(* as it is now: an edit that lands anywhere in a call, a failing          *)
(* record_change, two calls that overwrite each other's state or a crash   *)
(* never make an edit disappear (tools.rs 634-637, 702).                   *)
NoEditForgotten ==
  \A files \in Remembered : \A f \in Files :
    (~Absent(f) /\ files[f] = disk[f].version) => <<f, disk[f].version>> \in reported

(* At the end of a call, each text file that was a candidate and has not   *)
(* changed since it was listed is in the provenance, by this call or an    *)
(* earlier one, unless its record_change failed (tools.rs 383-403).        *)
CandidatesAreReported ==
  \A s \in Syncers : pc[s] = "save" =>
    \A f \in Files \ failed[s] :
      (~Absent(f) /\ listed[s][f] = disk[f].version /\ disk[f].kind = "text")
      => <<f, disk[f].version>> \in reported

(* "Tracks which files were already synced" (docs/USAGE.md 202): nothing is*)
(* reported twice, as long as no call began during another, no file changed*)
(* between its signature and the reading of its content, and nothing failed*)
(* (tools.rs 634, 405).                                                    *)
SyncedOnce == twice # {} => disturbed

=============================================================================
