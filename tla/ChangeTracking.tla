---------------------------- MODULE ChangeTracking ----------------------------
(***************************************************************************)
(* How a reported edit becomes a provenance tag, a registered agent and    *)
(* overlap events: record_change (crates/harmony-mcp/src/tracking.rs),     *)
(* detect_overlaps (crates/harmony-core/src/overlap.rs) and the dashboard's*)
(* resolve_overlap (crates/harmony-mcp/src/server/web.rs), over the tables *)
(* of memory.db.                                                           *)
(*                                                                         *)
(* A process opens the database once and guards its connection with a      *)
(* mutex, which a call holds from beginning to end. The server and every   *)
(* command-line process have connections of their own, and every statement *)
(* of record_change commits by itself: calls of two processes interleave   *)
(* between any two statements.                                             *)
(***************************************************************************)
EXTENDS Naturals, Sequences, FiniteSets

CONSTANTS
  Callers,      \* the threads that report edits
  ProcessOf,    \* the process each of them runs in
  Server,       \* the process that serves the dashboard
  AgentNames,   \* the names reported as "agent:..."
  OtherNames,   \* all others, "human:..." for one
  MachineNames, \* what reporters call their machines
  Local,        \* the machine name "local", which qualifies nobody
  Reporters,    \* who reports: an actor as named in the call, and a machine
  Files,        \* paths of the project
  LastLine,     \* lines are numbered 0 .. LastLine
  Prompts,      \* task prompts
  ResolutionKinds,  \* "AcceptA", "AcceptB", "AcceptAll", "Negotiated", "Manual"
  Window,       \* minutes two changes may lie apart (the literal 30)
  CallTime,     \* minutes a call takes at most
  MaxReports, MaxTime, MaxFaults   \* bounds

Processes == {ProcessOf[c] : c \in Callers}
Names == AgentNames \cup OtherNames
Unqualified == "unqualified"
NoPrompt == "no prompt"
Lines == 0 .. LastLine

(* "agent:coder" is [name |-> "coder", at |-> Unqualified],                *)
(* "agent:coder@laptop" has at = "laptop". Nobody reports an id that       *)
(* itself names the machine "local": canonical_actor_id leaves such an id  *)
(* alone, also in another case, and it would be a second id of the author  *)
(* that the bare name reported on that machine already is.                 *)
Actor == [name : Names, at : (MachineNames \ {Local}) \cup {Unqualified}]

ASSUME TrackingAssumption ==
  /\ Reporters \subseteq Actor \X MachineNames
  /\ DOMAIN ProcessOf = Callers
  /\ Server \in Processes
  /\ AgentNames \cap OtherNames = {}
  /\ Local \in MachineNames
  /\ Unqualified \notin MachineNames
  /\ NoPrompt \notin Prompts
  /\ "Pending" \notin ResolutionKinds
  /\ LastLine \in Nat
  /\ Window \in Nat /\ CallTime \in Nat
  /\ MaxReports \in Nat /\ MaxTime \in Nat /\ MaxFaults \in Nat

VARIABLES
  now,       \* the clock, in minutes
  tags,      \* provenance_tags, in the order of their insertion
  agents,    \* agents: the row of each actor_id, or NoAgent
  overlaps,  \* overlap_events
  pc,        \* the next statement of each caller's call
  call,      \* its arguments and the tag it is about to store
  found,     \* the agent row it read
  mine,      \* the index of its tag, 0 before the insertion
  todo,      \* the tags its own was found to overlap, not yet stored
  done,      \* history: the tags whose call was answered
  silent,    \* history: <<new, old>> whose error was swallowed
  reports, faults   \* how many reports and faults there were

locals == <<pc, call, found, mine, todo>>
vars == <<now, tags, agents, overlaps, locals, done, silent, reports, faults>>

-----------------------------------------------------------------------------
(* canonical_actor_id *)
CanonicalActor(actor, machine) ==
  IF actor.at # Unqualified \/ machine = Local
  THEN actor
  ELSE [name |-> actor.name, at |-> machine]

IsAgent(actor) == actor.name \in AgentNames

(* ProvenanceTag; by is history, the process that recorded it. *)
Tag == [actor : Actor, machine : MachineNames, file : Files,
        from : Lines, to : Lines, time : Nat, by : Processes]

(* The fields of Agent that a report keeps or changes; by is history, the  *)
(* process that wrote the row last.                                        *)
AgentRow == [id : Nat \ {0}, prompt : Prompts \cup {NoPrompt}, by : Processes]
NoAgent == [id |-> 0]

(* OverlapEvent: change_a is the new tag, change_b the older row. *)
Overlap == [new : Nat, old : Nat, status : {"Pending"} \cup ResolutionKinds]

Call == [tag : Tag, prompt : Prompts \cup {NoPrompt}, number : Nat \ {0}]
NoCall == [number |-> 0]

Steps == {"idle", "find", "register", "insert", "detect", "store"}

TypeOK ==
  /\ now \in Nat
  /\ tags \in Seq(Tag)
  /\ agents \in [Actor -> AgentRow \cup {NoAgent}]
  /\ overlaps \subseteq Overlap
  /\ pc \in [Callers -> Steps]
  /\ call \in [Callers -> Call \cup {NoCall}]
  /\ \A c \in Callers : pc[c] # "idle" => call[c] \in Call
  /\ found \in [Callers -> AgentRow \cup {NoAgent}]
  /\ mine \in [Callers -> Nat]
  /\ \A c \in Callers : mine[c] # 0 <=> pc[c] \in {"detect", "store"}
  /\ \A c \in Callers : mine[c] <= Len(tags)
  /\ todo \in [Callers -> SUBSET (1 .. Len(tags))]
  /\ done \subseteq 1 .. Len(tags)
  /\ silent \subseteq (1 .. Len(tags)) \X (1 .. Len(tags))
  /\ reports \in Nat /\ faults \in Nat

Init ==
  /\ now = 0
  /\ tags = <<>>
  /\ agents = [a \in Actor |-> NoAgent]
  /\ overlaps = {}
  /\ pc = [c \in Callers |-> "idle"]
  /\ call = [c \in Callers |-> NoCall]
  /\ found = [c \in Callers |-> NoAgent]
  /\ mine = [c \in Callers |-> 0]
  /\ todo = [c \in Callers |-> {}]
  /\ done = {} /\ silent = {}
  /\ reports = 0 /\ faults = 0

-----------------------------------------------------------------------------
(* The mutex around a process's MemoryStore: whoever is in a call holds it.*)
StoreFree(process) ==
  \A c \in Callers : ProcessOf[c] = process => pc[c] = "idle"

(* Variant: the next call takes this one's tag for its own. *)
EndCallKeepingTag(c) ==
  /\ pc' = [pc EXCEPT ![c] = "idle"]
  /\ UNCHANGED <<call, found, mine, todo>>

(* The call of c is over, answered, given up or dead. *)
EndCall(c) ==
  /\ pc' = [pc EXCEPT ![c] = "idle"]
  /\ call' = [call EXCEPT ![c] = NoCall]
  /\ found' = [found EXCEPT ![c] = NoAgent]
  /\ mine' = [mine EXCEPT ![c] = 0]
  /\ todo' = [todo EXCEPT ![c] = {}]

Goto(c, step) == pc' = [pc EXCEPT ![c] = step]

(* Variant: a thread does not wait for its process's mutex. *)
ReportUnlocked(c, actor, machine, file, from, to, prompt) ==
  LET by == CanonicalActor(actor, machine) IN
  /\ pc[c] = "idle"
  /\ reports < MaxReports
  /\ from <= to
  /\ call' = [call EXCEPT ![c] =
       [tag |-> [actor |-> by, machine |-> machine, file |-> file,
                 from |-> from, to |-> to, time |-> now, by |-> ProcessOf[c]],
        prompt |-> prompt, number |-> reports + 1]]
  /\ Goto(c, IF IsAgent(by) THEN "find" ELSE "insert")
  /\ reports' = reports + 1
  /\ UNCHANGED <<now, tags, agents, overlaps, found, mine, todo, done, silent,
                 faults>>

(* record_change up to its first statement: the lock is taken, the range   *)
(* checked (an empty one is refused, which changes nothing), the tag made  *)
(* and stamped. Only "agent:" actors are registered.                       *)
Report(c, actor, machine, file, from, to, prompt) ==
  LET by == CanonicalActor(actor, machine) IN
  /\ StoreFree(ProcessOf[c])
  /\ reports < MaxReports
  /\ from <= to
  /\ call' = [call EXCEPT ![c] =
       [tag |-> [actor |-> by, machine |-> machine, file |-> file,
                 from |-> from, to |-> to, time |-> now, by |-> ProcessOf[c]],
        prompt |-> prompt, number |-> reports + 1]]
  /\ Goto(c, IF IsAgent(by) THEN "find" ELSE "insert")
  /\ reports' = reports + 1
  /\ UNCHANGED <<now, tags, agents, overlaps, found, mine, todo, done, silent,
                 faults>>

(* ensure_agent_registered reads the table of agents ... *)
FindAgent(c) ==
  /\ pc[c] = "find"
  /\ found' = [found EXCEPT ![c] = agents[call[c].tag.actor]]
  /\ Goto(c, "register")
  /\ UNCHANGED <<now, tags, agents, overlaps, call, mine, todo, done, silent,
                 reports, faults>>

(* Variant: the prompt of the row is replaced by the call's, given or not. *)
RowWithCallPrompt(c) ==
  [id |-> IF found[c] = NoAgent THEN call[c].number ELSE found[c].id,
   prompt |-> call[c].prompt,
   by |-> ProcessOf[c]]

(* The row it makes of what it read: a new id for an actor it did not find,*)
(* and the old prompt when the call has none.                              *)
RegisteredRow(c) ==
  [id |-> IF found[c] = NoAgent THEN call[c].number ELSE found[c].id,
   prompt |-> IF call[c].prompt # NoPrompt \/ found[c] = NoAgent
              THEN call[c].prompt
              ELSE found[c].prompt,
   by |-> ProcessOf[c]]

(* ... and writes the row back, whatever is there by now (INSERT OR        *)
(* REPLACE; actor_id is UNIQUE).                                           *)
RegisterAgent(c) ==
  /\ pc[c] = "register"
  /\ agents' = [agents EXCEPT ![call[c].tag.actor] = RegisteredRow(c)]
  /\ Goto(c, "insert")
  /\ UNCHANGED <<now, tags, overlaps, call, found, mine, todo, done, silent,
                 reports, faults>>

(* insert_provenance_tag *)
InsertTag(c) ==
  /\ pc[c] = "insert"
  /\ tags' = Append(tags, call[c].tag)
  /\ mine' = [mine EXCEPT ![c] = Len(tags) + 1]
  /\ Goto(c, "detect")
  /\ UNCHANGED <<now, agents, overlaps, call, found, todo, done, silent,
                 reports, faults>>

(* Variant: the last line of a range is left out. *)
RangesOverlapInside(a, b) == a.from < b.to /\ b.from < a.to

(* TextRange::overlaps *)
RegionsOverlap(a, b) == a.from <= b.to /\ b.from <= a.to

MinutesApart(a, b) == IF a.time > b.time THEN a.time - b.time ELSE b.time - a.time

(* Variant: the actors are not compared. *)
IsRealOverlapOfAny(a, b) ==
  /\ a.file = b.file
  /\ RegionsOverlap(a, b)
  /\ MinutesApart(a, b) <= Window

(* is_real_overlap *)
IsRealOverlap(a, b) ==
  /\ a.file = b.file
  /\ a.actor # b.actor
  /\ RegionsOverlap(a, b)
  /\ MinutesApart(a, b) <= Window

(* get_recent_tags_for_file: newer than the window, counted from now. *)
RecentTags(c) ==
  {i \in 1 .. Len(tags) :
     /\ tags[i].file = call[c].tag.file
     /\ tags[i].time + Window > now}

(* The tag's overlaps, detected on one reading of the table. *)
Detect(c) ==
  /\ pc[c] = "detect"
  /\ todo' = [todo EXCEPT ![c] =
       {i \in RecentTags(c) : IsRealOverlap(call[c].tag, tags[i])}]
  /\ Goto(c, "store")
  /\ UNCHANGED <<now, tags, agents, overlaps, call, found, mine, done, silent,
                 reports, faults>>

(* The recent tags come newest first, and so do their overlaps. *)
NextToStore(c, i) ==
  /\ i \in todo[c]
  /\ \A j \in todo[c] : tags[j].time <= tags[i].time

(* insert_overlap_event *)
StoreOverlap(c, i) ==
  /\ pc[c] = "store"
  /\ NextToStore(c, i)
  /\ overlaps' = overlaps \cup {[new |-> mine[c], old |-> i, status |-> "Pending"]}
  /\ todo' = [todo EXCEPT ![c] = @ \ {i}]
  /\ UNCHANGED <<now, tags, agents, pc, call, found, mine, done, silent,
                 reports, faults>>

(* The answer; the lock is released. *)
Answer(c) ==
  /\ pc[c] = "store" /\ todo[c] = {}
  /\ done' = done \cup {mine[c]}
  /\ EndCall(c)
  /\ UNCHANGED <<now, tags, agents, overlaps, silent, reports, faults>>

-----------------------------------------------------------------------------
(* Statements that fail (a locked database, a full disk) and processes that*)
(* end.                                                                    *)
Fault == faults < MaxFaults /\ faults' = faults + 1

(* Variant: an error in registering the agent is passed over. *)
CallGoesOn(c) ==
  /\ Fault
  /\ pc[c] \in {"find", "register"}
  /\ Goto(c, "insert")
  /\ UNCHANGED <<now, tags, agents, overlaps, call, found, mine, todo, done,
                 silent, reports>>

(* An error up to the insertion of the tag ends the call. *)
CallFails(c) ==
  /\ Fault
  /\ pc[c] \in {"find", "register", "insert"}
  /\ EndCall(c)
  /\ UNCHANGED <<now, tags, agents, overlaps, done, silent, reports>>

(* An error in reading the recent tags counts as no recent tags. *)
DetectFails(c) ==
  /\ Fault
  /\ pc[c] = "detect"
  /\ Goto(c, "store")
  /\ silent' = silent \cup {<<mine[c], i>> : i \in 1 .. Len(tags)}
  /\ UNCHANGED <<now, tags, agents, overlaps, call, found, mine, todo, done,
                 reports>>

(* An error in storing an overlap is logged; its id is answered all the    *)
(* same.                                                                   *)
StoreFails(c, i) ==
  /\ Fault
  /\ pc[c] = "store"
  /\ NextToStore(c, i)
  /\ silent' = silent \cup {<<mine[c], i>>}
  /\ todo' = [todo EXCEPT ![c] = @ \ {i}]
  /\ UNCHANGED <<now, tags, agents, overlaps, pc, call, found, mine, done,
                 reports>>

(* The process ends in the middle of a call. *)
Crash(c) ==
  /\ Fault
  /\ pc[c] # "idle"
  /\ EndCall(c)
  /\ UNCHANGED <<now, tags, agents, overlaps, done, silent, reports>>

-----------------------------------------------------------------------------
(* resolve_overlap: update_overlap_status, whatever the status was. It     *)
(* takes the server's lock.                                                *)
Resolve(overlap, kind) ==
  /\ overlap \in overlaps
  /\ StoreFree(Server)
  /\ overlaps' = (overlaps \ {overlap}) \cup {[overlap EXCEPT !.status = kind]}
  /\ UNCHANGED <<now, tags, agents, locals, done, silent, reports, faults>>

(* Time passes, but no call takes longer than CallTime. *)
Tick ==
  /\ now < MaxTime
  /\ \A c \in Callers : pc[c] # "idle" => now < call[c].tag.time + CallTime
  /\ now' = now + 1
  /\ UNCHANGED <<tags, agents, overlaps, locals, done, silent, reports, faults>>

CallStep(c) ==
  \/ FindAgent(c)
  \/ RegisterAgent(c)
  \/ InsertTag(c)
  \/ Detect(c)
  \/ \E i \in 1 .. Len(tags) : StoreOverlap(c, i)
  \/ Answer(c)

FaultStep(c) ==
  \/ CallFails(c)
  \/ DetectFails(c)
  \/ \E i \in 1 .. Len(tags) : StoreFails(c, i)
  \/ Crash(c)

Next ==
  \/ \E c \in Callers, by \in Reporters, file \in Files,
        from \in Lines, to \in Lines, prompt \in Prompts \cup {NoPrompt} :
       Report(c, by[1], by[2], file, from, to, prompt)
  \/ \E c \in Callers : CallStep(c) \/ FaultStep(c)
  \/ \E overlap \in overlaps, kind \in ResolutionKinds : Resolve(overlap, kind)
  \/ Tick

Spec == Init /\ [][Next]_vars

-----------------------------------------------------------------------------
(* Who made an edit, whatever actor_id it was given. *)
Author(tag) ==
  <<tag.actor.name,
    IF tag.actor.at = Unqualified THEN tag.machine ELSE tag.actor.at>>

(* Two people or agents changed one line of one file. *)
Conflict(a, b) ==
  /\ a.file = b.file
  /\ Author(a) # Author(b)
  /\ \E line \in Lines : line \in a.from .. a.to /\ line \in b.from .. b.to

Reported(new, old) == \E o \in overlaps : o.new = new /\ o.old = old

(* An edit whose call was answered has been reported against every edit    *)
(* stored before it with which it conflicts, if the two are nearer than the*)
(* window less the time a call takes and no statement failed: whatever the *)
(* other processes did between the statements of the call, and even if the *)
(* other edit's call died after storing its tag (tracking.rs 66-80).       *)
EveryConflictReported ==
  \A new \in done : \A old \in 1 .. (new - 1) :
    /\ Conflict(tags[new], tags[old])
    /\ MinutesApart(tags[new], tags[old]) + CallTime < Window
    /\ <<new, old>> \notin silent
    => Reported(new, old)

(* Whatever the dashboard shows is a conflict of two stored edits within   *)
(* the window, so that hydrate_overlap_event finds both its tags and the   *)
(* list of overlaps can always be read (overlap.rs 43-74, store.rs 468).   *)
OverlapsAreConflicts ==
  \A o \in overlaps :
    /\ {o.new, o.old} \subseteq 1 .. Len(tags)
    /\ Conflict(tags[o.new], tags[o.old])
    /\ MinutesApart(tags[o.new], tags[o.old]) <= Window

(* Two edits reported through one process are never reported as two        *)
(* overlaps: its mutex orders their calls, and the first did not see the   *)
(* second (tools.rs 967).                                                  *)
OneOverlapPerPair ==
  \A o \in overlaps : tags[o.new].by = tags[o.old].by => ~Reported(o.old, o.new)

(* An agent's edits are never stored without the agent: the dashboard can  *)
(* name whoever made an edit it shows (tracking.rs 66-69).                 *)
EditorsAreRegistered ==
  \A i \in 1 .. Len(tags) : IsAgent(tags[i].actor) => agents[tags[i].actor] # NoAgent

(* A report never gives a registered agent a new id nor wipes its prompt,  *)
(* unless another process wrote the agent's row last (tracking.rs 163-192).*)
AgentKept ==
  [][\A a \in Actor :
       (agents[a] # NoAgent /\ agents'[a] # agents[a] /\ agents'[a].by = agents[a].by)
       => /\ agents'[a].id = agents[a].id
          /\ agents[a].prompt # NoPrompt => agents'[a].prompt # NoPrompt]_vars

=============================================================================
