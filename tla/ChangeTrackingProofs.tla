------------------------- MODULE ChangeTrackingProofs -------------------------
(***************************************************************************)
(* Theorems about ChangeTracking, for any callers, processes, names, files,*)
(* windows and bounds.                                                     *)
(***************************************************************************)
EXTENDS ChangeTracking, TLAPS

-----------------------------------------------------------------------------
(* The inductive invariant, part by part. *)

(* A process's mutex: one call at a time. *)
OneCallPerProcess ==
  \A c, d \in Callers :
    (ProcessOf[c] = ProcessOf[d] /\ pc[c] # "idle" /\ pc[d] # "idle") => c = d

(* An actor is left unqualified only on the machine called "local", so that*)
(* actor ids tell authors apart; and no range is empty.                    *)
WellFormed(tag) ==
  /\ tag.actor.at = Unqualified => tag.machine = Local
  /\ tag.from <= tag.to

TagsWellFormed == \A i \in 1 .. Len(tags) : WellFormed(tags[i])

(* What a call in progress knows. *)
CallsOK ==
  \A c \in Callers : pc[c] # "idle" =>
    /\ WellFormed(call[c].tag)
    /\ call[c].tag.by = ProcessOf[c]
    /\ now <= call[c].tag.time + CallTime
    /\ pc[c] \in {"detect", "store"} =>
         /\ mine[c] \in 1 .. Len(tags)
         /\ tags[mine[c]] = call[c].tag
         /\ \A i \in (mine[c] + 1) .. Len(tags) : tags[i].by # ProcessOf[c]

(* What is found to overlap really does. *)
Overlaps(new, old) ==
  /\ {new, old} \subseteq 1 .. Len(tags)
  /\ IsRealOverlap(tags[new], tags[old])

FoundOverlap ==
  /\ \A c \in Callers : \A i \in todo[c] : pc[c] = "store" /\ Overlaps(mine[c], i)
  /\ \A o \in overlaps : Overlaps(o.new, o.old)

(* Of two edits of one process, only the later was compared with the other.*)
LaterSawEarlier ==
  /\ \A c \in Callers : \A i \in todo[c] : tags[i].by = ProcessOf[c] => i < mine[c]
  /\ \A o \in overlaps : tags[o.new].by = tags[o.old].by => o.old < o.new

(* Two conflicting edits that must not be missed. *)
MustReport(new, old) ==
  /\ Conflict(tags[new], tags[old])
  /\ MinutesApart(tags[new], tags[old]) + CallTime < Window
  /\ <<new, old>> \notin silent

(* A call past its detection has every conflict stored or still to store.  *)
DetectedAll ==
  \A c \in Callers : pc[c] = "store" =>
    \A old \in 1 .. (mine[c] - 1) :
      MustReport(mine[c], old) => (Reported(mine[c], old) \/ old \in todo[c])

(* A call that stores an agent's edit has registered the agent; ...        *)
InsertsRegistered ==
  \A c \in Callers :
    (pc[c] = "insert" /\ IsAgent(call[c].tag.actor))
    => agents[call[c].tag.actor] # NoAgent

(* ... and what it read of the agent is still there, unless another process*)
(* wrote the row since.                                                    *)
ReadIsCurrent ==
  \A c \in Callers :
    /\ pc[c] = "register"
    /\ agents[call[c].tag.actor] # NoAgent
    /\ agents[call[c].tag.actor].by = ProcessOf[c]
    => found[c] = agents[call[c].tag.actor]

-----------------------------------------------------------------------------
(* Type correctness. *)

LEMMA InitTypes == Init => TypeOK
<1>1. Init => tags \in Seq(Tag) /\ Len(tags) = 0
  BY DEF Init
<1>2. QED
  BY <1>1 DEF Init, TypeOK, Steps

LEMMA CanonicalActorType ==
  ASSUME NEW actor \in Actor, NEW machine \in MachineNames
  PROVE  /\ CanonicalActor(actor, machine) \in Actor
         /\ CanonicalActor(actor, machine).at = Unqualified => machine = Local
<1>1. CASE actor.at # Unqualified \/ machine = Local
  BY <1>1 DEF CanonicalActor, Actor
<1>2. CASE actor.at = Unqualified /\ machine # Local
  <2>1. actor.name \in Names /\ machine # Unqualified
    BY TrackingAssumption DEF Actor, TrackingAssumption
  <2>2. QED
    BY <1>2, <2>1 DEF CanonicalActor, Actor
<1>3. QED
  BY <1>1, <1>2

(* A call that ends leaves nothing behind. *)
LEMMA EndCallTypes ==
  ASSUME TypeOK, NEW c \in Callers, EndCall(c), tags' = tags
  PROVE  /\ pc' \in [Callers -> Steps]
         /\ call' \in [Callers -> Call \cup {NoCall}]
         /\ \A d \in Callers : pc'[d] # "idle" => call'[d] \in Call
         /\ found' \in [Callers -> AgentRow \cup {NoAgent}]
         /\ mine' \in [Callers -> Nat]
         /\ \A d \in Callers : mine'[d] # 0 <=> pc'[d] \in {"detect", "store"}
         /\ \A d \in Callers : mine'[d] <= Len(tags')
         /\ todo' \in [Callers -> SUBSET (1 .. Len(tags'))]
BY DEF TypeOK, EndCall, Steps

LEMMA ReportTypes ==
  ASSUME TrackingAssumption, TypeOK, NEW c \in Callers, NEW by \in Reporters,
         NEW file \in Files, NEW from \in Lines, NEW to \in Lines,
         NEW prompt \in Prompts \cup {NoPrompt},
         Report(c, by[1], by[2], file, from, to, prompt)
  PROVE  TypeOK'
<1>1. CanonicalActor(by[1], by[2]) \in Actor /\ by[2] \in MachineNames
  BY CanonicalActorType DEF TrackingAssumption
<1>2. ProcessOf[c] \in Processes
  BY DEF Processes
<1>3. pc[c] = "idle"
  BY DEF Report, StoreFree
<1>4. call'[c] \in Call
  <2>1. call'[c].tag \in Tag
    BY <1>1, <1>2 DEF Report, TypeOK, Tag
  <2>2. reports + 1 \in Nat \ {0}
    BY DEF TypeOK
  <2>3. QED
    BY <2>1, <2>2 DEF Report, TypeOK, Call
<1>5. /\ call' = [call EXCEPT ![c] = call'[c]]
      /\ pc' \in [Callers -> Steps]
      /\ pc'[c] \in {"find", "insert"}
      /\ \A d \in Callers \ {c} : pc'[d] = pc[d] /\ call'[d] = call[d]
  BY DEF Report, TypeOK, Goto, Steps
<1>6. /\ call' \in [Callers -> Call \cup {NoCall}]
      /\ \A d \in Callers : pc'[d] # "idle" => call'[d] \in Call
  BY <1>4, <1>5 DEF TypeOK
<1>7. \A d \in Callers : mine'[d] # 0 <=> pc'[d] \in {"detect", "store"}
  BY <1>3, <1>5 DEF Report, TypeOK
<1>8. reports' \in Nat
  BY DEF Report, TypeOK
<1>9. QED
  BY <1>5, <1>6, <1>7, <1>8 DEF Report, TypeOK

LEMMA RegisteredRowType ==
  ASSUME TypeOK, NEW c \in Callers, pc[c] # "idle"
  PROVE  RegisteredRow(c) \in AgentRow /\ RegisteredRow(c) # NoAgent
<1>1. call[c] \in Call /\ found[c] \in AgentRow \cup {NoAgent}
  BY DEF TypeOK
<1>2. ProcessOf[c] \in Processes
  BY DEF Processes
<1>3. RegisteredRow(c) \in AgentRow
  BY <1>1, <1>2 DEF RegisteredRow, AgentRow, Call
<1>4. RegisteredRow(c).id # NoAgent.id
  BY <1>3 DEF AgentRow, NoAgent
<1>5. QED
  BY <1>3, <1>4

LEMMA FindTypes ==
  ASSUME TypeOK, NEW c \in Callers, FindAgent(c)
  PROVE  TypeOK'
<1>1. call[c].tag.actor \in Actor
  BY DEF TypeOK, FindAgent, Call, Tag
<1>2. QED
  BY <1>1 DEF TypeOK, FindAgent, Goto, Steps

LEMMA RegisterTypes ==
  ASSUME TypeOK, NEW c \in Callers, RegisterAgent(c)
  PROVE  TypeOK'
<1>1. RegisteredRow(c) \in AgentRow
  BY RegisteredRowType DEF RegisterAgent
<1>2. agents' \in [Actor -> AgentRow \cup {NoAgent}]
  BY <1>1 DEF TypeOK, RegisterAgent
<1>3. QED
  BY <1>2 DEF TypeOK, RegisterAgent, Goto, Steps

(* A tag is appended. *)
LEMMA TagAppended ==
  ASSUME TypeOK, NEW c \in Callers, InsertTag(c)
  PROVE  /\ call[c] \in Call
         /\ tags' \in Seq(Tag)
         /\ Len(tags') = Len(tags) + 1
         /\ \A i \in 1 .. Len(tags) : tags'[i] = tags[i]
         /\ tags'[Len(tags) + 1] = call[c].tag
<1>1. call[c] \in Call
  BY DEF TypeOK, InsertTag
<1>2. call[c].tag \in Tag /\ tags \in Seq(Tag)
  BY <1>1 DEF TypeOK, Call
<1>3. QED
  BY <1>1, <1>2 DEF InsertTag

LEMMA InsertTypes ==
  ASSUME TypeOK, NEW c \in Callers, InsertTag(c)
  PROVE  TypeOK'
<1>1. tags' \in Seq(Tag) /\ Len(tags) \in Nat /\ Len(tags') = Len(tags) + 1
  BY TagAppended DEF TypeOK
<1>2. 1 .. Len(tags) \subseteq 1 .. Len(tags')
  BY <1>1
<1>3. /\ mine' \in [Callers -> Nat]
      /\ \A d \in Callers : mine'[d] # 0 <=> pc'[d] \in {"detect", "store"}
      /\ \A d \in Callers : mine'[d] <= Len(tags')
  BY <1>1 DEF TypeOK, InsertTag, Goto
<1>4. /\ todo' \in [Callers -> SUBSET (1 .. Len(tags'))]
      /\ done' \subseteq 1 .. Len(tags')
      /\ silent' \subseteq (1 .. Len(tags')) \X (1 .. Len(tags'))
  BY <1>2 DEF TypeOK, InsertTag
<1>5. pc' \in [Callers -> Steps] /\ \A d \in Callers : pc'[d] # "idle" => call'[d] \in Call
  BY DEF TypeOK, InsertTag, Goto, Steps
<1>6. QED
  BY <1>1, <1>3, <1>4, <1>5 DEF TypeOK, InsertTag

LEMMA DetectTypes ==
  ASSUME TypeOK, NEW c \in Callers, Detect(c)
  PROVE  TypeOK'
<1>1. {i \in RecentTags(c) : IsRealOverlap(call[c].tag, tags[i])} \subseteq 1 .. Len(tags)
  BY DEF RecentTags
<1>2. QED
  BY <1>1 DEF TypeOK, Detect, Goto, Steps

LEMMA StoreTypes ==
  ASSUME TypeOK, NEW c \in Callers, NEW i \in 1 .. Len(tags),
         StoreOverlap(c, i) \/ StoreFails(c, i)
  PROVE  TypeOK'
<1>1. mine[c] \in 1 .. Len(tags)
  BY DEF TypeOK, StoreOverlap, StoreFails
<1>2. CASE StoreOverlap(c, i)
  <2>1. [new |-> mine[c], old |-> i, status |-> "Pending"] \in Overlap
    BY <1>1 DEF Overlap
  <2>2. QED
    BY <1>2, <2>1 DEF TypeOK, StoreOverlap
<1>3. CASE StoreFails(c, i)
  BY <1>1, <1>3 DEF TypeOK, StoreFails, Fault
<1>4. QED
  BY <1>2, <1>3

LEMMA EndTypes ==
  ASSUME TypeOK, NEW c \in Callers, Answer(c) \/ CallFails(c) \/ Crash(c)
  PROVE  TypeOK'
<1>1. EndCall(c) /\ tags' = tags
  BY DEF Answer, CallFails, Crash
<1>2. done' \subseteq 1 .. Len(tags)
  <2>1. CASE Answer(c)
    <3>1. mine[c] \in 1 .. Len(tags)
      BY <2>1 DEF TypeOK, Answer
    <3>2. QED
      BY <2>1, <3>1 DEF TypeOK, Answer
  <2>2. CASE CallFails(c) \/ Crash(c)
    BY <2>2 DEF TypeOK, CallFails, Crash
  <2>3. QED
    BY <2>1, <2>2
<1>3. faults' \in Nat
  BY DEF TypeOK, Answer, CallFails, Crash, Fault
<1>4. QED
  BY <1>1, <1>2, <1>3, EndCallTypes DEF TypeOK, Answer, CallFails, Crash

LEMMA DetectFailsTypes ==
  ASSUME TypeOK, NEW c \in Callers, DetectFails(c)
  PROVE  TypeOK'
<1>1. mine[c] \in 1 .. Len(tags)
  BY DEF TypeOK, DetectFails
<1>2. silent' \subseteq (1 .. Len(tags)) \X (1 .. Len(tags))
  BY <1>1 DEF TypeOK, DetectFails
<1>3. QED
  BY <1>2 DEF TypeOK, DetectFails, Fault, Goto, Steps

LEMMA ResolveTypes ==
  ASSUME TypeOK, NEW overlap \in overlaps, NEW kind \in ResolutionKinds,
         Resolve(overlap, kind)
  PROVE  TypeOK'
<1>1. [overlap EXCEPT !.status = kind] \in Overlap
  BY DEF TypeOK, Overlap
<1>2. QED
  BY <1>1 DEF TypeOK, Resolve, locals

LEMMA NextTypes == TrackingAssumption /\ TypeOK /\ [Next]_vars => TypeOK'
<1> SUFFICES ASSUME TrackingAssumption, TypeOK, [Next]_vars PROVE TypeOK'
  OBVIOUS
<1>1. CASE \E c \in Callers, by \in Reporters, file \in Files, from \in Lines,
              to \in Lines, prompt \in Prompts \cup {NoPrompt} :
             Report(c, by[1], by[2], file, from, to, prompt)
  BY <1>1, ReportTypes
<1>2. ASSUME NEW c \in Callers, CallStep(c) PROVE TypeOK'
  BY <1>2, FindTypes, RegisterTypes, InsertTypes, DetectTypes, StoreTypes, EndTypes
     DEF CallStep
<1>3. ASSUME NEW c \in Callers, FaultStep(c) PROVE TypeOK'
  BY <1>3, EndTypes, DetectFailsTypes, StoreTypes DEF FaultStep
<1>4. CASE \E overlap \in overlaps, kind \in ResolutionKinds : Resolve(overlap, kind)
  BY <1>4, ResolveTypes
<1>5. CASE Tick
  BY <1>5 DEF TypeOK, Tick, locals
<1>6. CASE UNCHANGED vars
  BY <1>6 DEF TypeOK, vars, locals
<1>7. QED
  BY <1>1, <1>2, <1>3, <1>4, <1>5, <1>6 DEF Next

(* Every variable keeps to its type: among others, a call past its         *)
(* insertion knows a row of the table as its own.                          *)
THEOREM TypeCorrect == Spec => []TypeOK
BY InitTypes, NextTypes, TrackingAssumption, PTL DEF Spec

-----------------------------------------------------------------------------
(* What a step may change. *)

Begins(c) ==
  \E by \in Reporters, file \in Files, from \in Lines, to \in Lines,
     prompt \in Prompts \cup {NoPrompt} : Report(c, by[1], by[2], file, from, to, prompt)

(* The next-state relation, one disjunct per kind of step. *)
LEMMA StepKinds ==
  ASSUME [Next]_vars
  PROVE  \/ \E c \in Callers : Begins(c)
         \/ \E c \in Callers : FindAgent(c) \/ RegisterAgent(c)
         \/ \E c \in Callers : InsertTag(c)
         \/ \E c \in Callers : Detect(c)
         \/ \E c \in Callers : DetectFails(c)
         \/ \E c \in Callers, i \in 1 .. Len(tags) : StoreOverlap(c, i)
         \/ \E c \in Callers, i \in 1 .. Len(tags) : StoreFails(c, i)
         \/ \E c \in Callers : Answer(c)
         \/ \E c \in Callers : CallFails(c) \/ Crash(c)
         \/ \E overlap \in overlaps, kind \in ResolutionKinds : Resolve(overlap, kind)
         \/ Tick
         \/ UNCHANGED vars
BY DEF Next, CallStep, FaultStep, Begins

(* A report that begins takes a free lock and changes no table. *)
LEMMA BeginsFacts ==
  ASSUME TrackingAssumption, TypeOK, NEW c \in Callers, Begins(c)
  PROVE  /\ \A d \in Callers : ProcessOf[d] = ProcessOf[c] => pc[d] = "idle"
         /\ \A d \in Callers : d # c => pc'[d] = pc[d] /\ call'[d] = call[d]
         /\ pc'[c] \in {"find", "insert"}
         /\ pc'[c] = "insert" => ~IsAgent(call'[c].tag.actor)
         /\ WellFormed(call'[c].tag)
         /\ call'[c].tag.by = ProcessOf[c] /\ call'[c].tag.time = now
         /\ UNCHANGED <<now, tags, agents, overlaps, found, mine, todo, done, silent>>
<1>1. PICK by \in Reporters, file \in Files, from \in Lines, to \in Lines,
           prompt \in Prompts \cup {NoPrompt} : Report(c, by[1], by[2], file, from, to, prompt)
  BY DEF Begins
<1>2. by[1] \in Actor /\ by[2] \in MachineNames
  BY DEF TrackingAssumption
<1>3. call'[c].tag = [actor |-> CanonicalActor(by[1], by[2]), machine |-> by[2],
                      file |-> file, from |-> from, to |-> to, time |-> now,
                      by |-> ProcessOf[c]]
  BY <1>1 DEF Report, TypeOK
<1>4. WellFormed(call'[c].tag)
  BY <1>1, <1>2, <1>3, CanonicalActorType DEF WellFormed, Report
<1>5. pc'[c] = IF IsAgent(call'[c].tag.actor) THEN "find" ELSE "insert"
  BY <1>1, <1>3 DEF Report, Goto, TypeOK
<1>6. QED
  BY <1>1, <1>3, <1>4, <1>5 DEF Report, Goto, TypeOK, StoreFree

(* Tags are only ever added, at the end. *)
LEMMA TagsGrow ==
  ASSUME TrackingAssumption, TypeOK, [Next]_vars
  PROVE  /\ Len(tags) \in Nat /\ Len(tags') \in Nat /\ Len(tags) <= Len(tags')
         /\ \A i \in 1 .. Len(tags) : tags'[i] = tags[i]
<1>1. tags \in Seq(Tag)
  BY DEF TypeOK
<1>2. CASE \E c \in Callers : InsertTag(c)
  BY <1>1, <1>2, TagAppended
<1>3. CASE \E c \in Callers : Begins(c)
  BY <1>1, <1>3, BeginsFacts
<1>4. CASE ~(\E c \in Callers : InsertTag(c) \/ Begins(c))
  <2>1. tags' = tags
    BY <1>4, StepKinds
       DEF FindAgent, RegisterAgent, Detect, DetectFails, StoreOverlap, StoreFails,
           Answer, CallFails, Crash, Resolve, Tick, vars
  <2>2. QED
    BY <1>1, <2>1
<1>5. QED
  BY <1>2, <1>3, <1>4

(* The steps that neither begin a call, nor add a tag, nor let time pass   *)
(* leave every call that goes on as it was, but for its progress.          *)
Quiet ==
  ~(\E c \in Callers : Begins(c) \/ InsertTag(c)) /\ ~Tick

LEMMA QuietSteps ==
  ASSUME TypeOK, [Next]_vars, Quiet
  PROVE  /\ UNCHANGED <<now, tags>>
         /\ \A d \in Callers : pc'[d] # "idle" =>
              /\ pc[d] # "idle" /\ call'[d] = call[d]
              /\ pc'[d] \in {"detect", "store"} =>
                   pc[d] \in {"detect", "store"} /\ mine'[d] = mine[d]
<1>1. CASE \E c \in Callers : FindAgent(c) \/ RegisterAgent(c)
  BY <1>1 DEF TypeOK, FindAgent, RegisterAgent, Goto
<1>2. CASE \E c \in Callers : Detect(c) \/ DetectFails(c)
  BY <1>2 DEF TypeOK, Detect, DetectFails, Goto
<1>3. CASE \E c \in Callers, i \in 1 .. Len(tags) : StoreOverlap(c, i) \/ StoreFails(c, i)
  BY <1>3 DEF TypeOK, StoreOverlap, StoreFails
<1>4. CASE \E c \in Callers : Answer(c) \/ CallFails(c) \/ Crash(c)
  BY <1>4 DEF TypeOK, Answer, CallFails, Crash, EndCall
<1>5. CASE \E overlap \in overlaps, kind \in ResolutionKinds : Resolve(overlap, kind)
  BY <1>5 DEF Resolve, locals
<1>6. CASE UNCHANGED vars
  BY <1>6 DEF vars, locals
<1>7. QED
  BY <1>1, <1>2, <1>3, <1>4, <1>5, <1>6, StepKinds DEF Quiet

(* The next two lemmas are the induction steps of what the calls know.     *)
LEMMA MutexHolds ==
  ASSUME TrackingAssumption, TypeOK, OneCallPerProcess, [Next]_vars
  PROVE  OneCallPerProcess'
<1>1. CASE \E c \in Callers : Begins(c)
  BY <1>1, BeginsFacts DEF OneCallPerProcess
<1>2. CASE \E c \in Callers : InsertTag(c)
  BY <1>2 DEF OneCallPerProcess, InsertTag, Goto, TypeOK
<1>3. CASE Tick
  BY <1>3 DEF OneCallPerProcess, Tick, locals
<1>4. CASE Quiet
  BY <1>4, QuietSteps DEF OneCallPerProcess
<1>5. QED
  BY <1>1, <1>2, <1>3, <1>4 DEF Quiet

LEMMA CallsStayOK ==
  ASSUME TrackingAssumption, TypeOK, OneCallPerProcess, TagsWellFormed, CallsOK, [Next]_vars
  PROVE  TagsWellFormed' /\ CallsOK'
<1>1. CASE \E c \in Callers : Begins(c)
  <2>1. PICK c \in Callers : Begins(c)
    BY <1>1
  <2>2. TagsWellFormed'
    BY <2>1, BeginsFacts DEF TagsWellFormed, WellFormed
  <2>3. now \in Nat /\ CallTime \in Nat
    BY DEF TypeOK, TrackingAssumption
  <2>4. CallsOK'
    BY <2>1, <2>3, BeginsFacts DEF CallsOK, WellFormed
  <2>5. QED
    BY <2>2, <2>4
<1>2. CASE \E c \in Callers : InsertTag(c)
  <2>1. PICK c \in Callers : InsertTag(c)
    BY <1>2
  <2>2. /\ Len(tags) \in Nat /\ Len(tags') = Len(tags) + 1
        /\ \A i \in 1 .. Len(tags) : tags'[i] = tags[i]
        /\ tags'[Len(tags) + 1] = call[c].tag
    BY <2>1, TagAppended DEF TypeOK
  <2>3. /\ pc[c] = "insert" /\ pc' = [pc EXCEPT ![c] = "detect"]
        /\ mine' = [mine EXCEPT ![c] = Len(tags) + 1]
        /\ call' = call /\ now' = now
    BY <2>1 DEF InsertTag, Goto
  <2>4. WellFormed(call[c].tag) /\ call[c].tag.by = ProcessOf[c]
    BY <2>3 DEF CallsOK
  <2>5. TagsWellFormed'
    BY <2>2, <2>4 DEF TagsWellFormed, WellFormed
  <2>6. ASSUME NEW d \in Callers, pc'[d] \in {"detect", "store"}
        PROVE  /\ mine'[d] \in 1 .. Len(tags')
               /\ tags'[mine'[d]] = call'[d].tag
               /\ \A i \in (mine'[d] + 1) .. Len(tags') : tags'[i].by # ProcessOf[d]
    <3>1. CASE d = c
      BY <2>2, <2>3, <3>1 DEF TypeOK
    <3>2. CASE d # c
      <4>1. pc[d] \in {"detect", "store"} /\ mine'[d] = mine[d]
        BY <2>3, <2>6, <3>2 DEF TypeOK
      <4>2. ProcessOf[d] # ProcessOf[c]
        BY <2>3, <3>2, <4>1 DEF OneCallPerProcess
      <4>3. /\ mine[d] \in 1 .. Len(tags) /\ tags[mine[d]] = call[d].tag
            /\ \A i \in (mine[d] + 1) .. Len(tags) : tags[i].by # ProcessOf[d]
        BY <4>1 DEF CallsOK
      <4>4. \A i \in (mine[d] + 1) .. (Len(tags) + 1) :
              i = Len(tags) + 1 \/ i \in (mine[d] + 1) .. Len(tags)
        BY <2>2, <4>3
      <4>5. (mine[d] + 1) .. Len(tags) \subseteq 1 .. Len(tags)
        BY <2>2, <4>3
      <4>6. \A i \in (mine[d] + 1) .. Len(tags') : tags'[i].by # ProcessOf[d]
        BY <2>2, <2>4, <4>2, <4>3, <4>4, <4>5
      <4>7. QED
        BY <2>2, <2>3, <4>1, <4>3, <4>6
    <3>3. QED
      BY <3>1, <3>2
  <2>7. \A d \in Callers : pc'[d] # "idle" => pc[d] # "idle"
    BY <2>3 DEF TypeOK
  <2>8. CallsOK'
    BY <2>3, <2>6, <2>7 DEF CallsOK, WellFormed
  <2>9. QED
    BY <2>5, <2>8
<1>3. CASE Tick
  <2>1. \A c \in Callers : pc[c] # "idle" => now' <= call[c].tag.time + CallTime
    <3>1. SUFFICES ASSUME NEW c \in Callers, pc[c] # "idle"
                   PROVE  now' <= call[c].tag.time + CallTime
      OBVIOUS
    <3>2. call[c].tag.time \in Nat /\ now \in Nat /\ CallTime \in Nat
      BY <3>1 DEF TypeOK, TrackingAssumption, Call, Tag
    <3>3. QED
      BY <1>3, <3>1, <3>2 DEF Tick
  <2>2. QED
    BY <1>3, <2>1 DEF CallsOK, TagsWellFormed, WellFormed, Tick, locals
<1>4. CASE Quiet
  BY <1>4, QuietSteps DEF CallsOK, TagsWellFormed, WellFormed
<1>5. QED
  BY <1>1, <1>2, <1>3, <1>4 DEF Quiet

-----------------------------------------------------------------------------
(* Overlaps are conflicts, and a process's own edits are compared once.    *)

LEMMA OverlapsStay ==
  ASSUME TrackingAssumption, TypeOK, [Next]_vars,
         NEW new \in 1 .. Len(tags), NEW old \in 1 .. Len(tags)
  PROVE  /\ tags'[new] = tags[new] /\ tags'[old] = tags[old]
         /\ {new, old} \subseteq 1 .. Len(tags')
         /\ IsRealOverlap(tags[new], tags[old]) => Overlaps(new, old)'
BY TagsGrow DEF Overlaps

(* What a detection finds.                                                 *)
LEMMA DetectFacts ==
  ASSUME TypeOK, CallsOK, NEW c \in Callers, Detect(c)
  PROVE  /\ mine[c] \in 1 .. Len(tags) /\ tags[mine[c]] = call[c].tag
         /\ pc' = [pc EXCEPT ![c] = "store"]
         /\ todo' = [todo EXCEPT ![c] =
               {i \in RecentTags(c) : IsRealOverlap(tags[mine[c]], tags[i])}]
         /\ RecentTags(c) \subseteq 1 .. Len(tags)
         /\ \A i \in RecentTags(c) : IsRealOverlap(tags[mine[c]], tags[i]) =>
              Overlaps(mine[c], i)
         /\ \A i \in RecentTags(c) :
              IsRealOverlap(tags[mine[c]], tags[i]) /\ tags[i].by = ProcessOf[c] => i < mine[c]
<1>1. mine[c] \in 1 .. Len(tags) /\ tags[mine[c]] = call[c].tag
  BY DEF CallsOK, Detect
<1>2. \A i \in (mine[c] + 1) .. Len(tags) : tags[i].by # ProcessOf[c]
  BY DEF CallsOK, Detect
<1>3. RecentTags(c) \subseteq 1 .. Len(tags)
  BY DEF RecentTags
<1>4. ASSUME NEW i \in RecentTags(c), IsRealOverlap(tags[mine[c]], tags[i]),
             tags[i].by = ProcessOf[c]
      PROVE  i < mine[c]
  <2>1. i # mine[c]
    BY <1>4 DEF IsRealOverlap
  <2>2. i \notin (mine[c] + 1) .. Len(tags)
    BY <1>2, <1>4
  <2>3. QED
    BY <1>1, <1>3, <2>1, <2>2
<1>5. QED
  BY <1>1, <1>3, <1>4 DEF Detect, Goto, Overlaps

(* The overlaps of a step are those there were, resolved or not, and what  *)
(* a call had still to store.                                              *)
LEMMA OverlapsOrigin ==
  ASSUME TypeOK, [Next]_vars, NEW o \in overlaps'
  PROVE  \/ \E p \in overlaps : p.new = o.new /\ p.old = o.old
         \/ \E c \in Callers : o.new = mine[c] /\ o.old \in todo[c] /\ pc[c] = "store"
<1>1. CASE \E c \in Callers, i \in 1 .. Len(tags) : StoreOverlap(c, i)
  BY <1>1 DEF StoreOverlap, NextToStore
<1>2. CASE \E p \in overlaps, kind \in ResolutionKinds : Resolve(p, kind)
  <2>1. PICK p \in overlaps, kind \in ResolutionKinds : Resolve(p, kind)
    BY <1>2
  <2>2. CASE o \in overlaps
    BY <2>2
  <2>3. CASE o = [p EXCEPT !.status = kind]
    <3>1. p \in Overlap
      BY DEF TypeOK
    <3>2. o.new = p.new /\ o.old = p.old
      BY <2>3, <3>1 DEF Overlap
    <3>3. QED
      BY <3>2
  <2>4. QED
    BY <2>1, <2>2, <2>3 DEF Resolve
<1>3. CASE overlaps' = overlaps
  BY <1>3
<1>4. QED
  BY <1>1, <1>2, <1>3, StepKinds
     DEF Begins, Report, FindAgent, RegisterAgent, InsertTag, Detect, DetectFails,
         StoreFails, Answer, CallFails, Crash, Tick, vars

(* What a call has still to store was there before, or was just detected.  *)
LEMMA TodoOrigin ==
  ASSUME TrackingAssumption, TypeOK, FoundOverlap, [Next]_vars,
         NEW c \in Callers, NEW i \in todo'[c]
  PROVE  \/ /\ i \in todo[c] /\ pc[c] = "store"
            /\ pc'[c] = "store" /\ mine'[c] = mine[c]
         \/ Detect(c)
<1>1. i \in todo[c] => pc[c] = "store"
  BY DEF FoundOverlap
<1>2. CASE \E d \in Callers : Begins(d)
  BY <1>1, <1>2, BeginsFacts
<1>3. CASE \E d \in Callers : FindAgent(d) \/ RegisterAgent(d) \/ InsertTag(d)
  BY <1>1, <1>3 DEF FindAgent, RegisterAgent, InsertTag, Goto, TypeOK
<1>4. CASE \E d \in Callers : Detect(d) \/ DetectFails(d)
  BY <1>1, <1>4 DEF Detect, DetectFails, Goto, TypeOK
<1>5. CASE \E d \in Callers, j \in 1 .. Len(tags) : StoreOverlap(d, j) \/ StoreFails(d, j)
  <2>1. PICK d \in Callers, j \in 1 .. Len(tags) : StoreOverlap(d, j) \/ StoreFails(d, j)
    BY <1>5
  <2>2. todo' = [todo EXCEPT ![d] = todo[d] \ {j}] /\ pc' = pc /\ mine' = mine
    BY <2>1 DEF StoreOverlap, StoreFails
  <2>3. i \in todo[c]
    BY <2>2 DEF TypeOK
  <2>4. QED
    BY <1>1, <2>2, <2>3
<1>6. CASE \E d \in Callers : Answer(d) \/ CallFails(d) \/ Crash(d)
  BY <1>1, <1>6 DEF Answer, CallFails, Crash, EndCall, TypeOK
<1>7. CASE UNCHANGED locals
  BY <1>1, <1>7 DEF locals
<1>8. QED
  BY <1>2, <1>3, <1>4, <1>5, <1>6, <1>7, StepKinds DEF Resolve, Tick, vars

LEMMA FoundStays ==
  ASSUME TrackingAssumption, TypeOK, CallsOK, FoundOverlap, [Next]_vars
  PROVE  FoundOverlap'
<1>1. ASSUME NEW c \in Callers, NEW i \in todo'[c]
      PROVE  pc'[c] = "store" /\ Overlaps(mine[c], i)'
  <2>1. CASE Detect(c)
    <3>1. i \in RecentTags(c) /\ IsRealOverlap(tags[mine[c]], tags[i])
      BY <1>1, <2>1, DetectFacts DEF TypeOK
    <3>2. Overlaps(mine[c], i)
      BY <2>1, <3>1, DetectFacts
    <3>3. pc'[c] = "store" /\ mine' = mine /\ tags' = tags
      BY <2>1 DEF Detect, Goto, TypeOK
    <3>4. QED
      BY <3>2, <3>3 DEF Overlaps
  <2>2. CASE ~Detect(c)
    <3>1. /\ i \in todo[c] /\ pc[c] = "store"
          /\ pc'[c] = "store" /\ mine'[c] = mine[c]
      BY <1>1, <2>2, TodoOrigin
    <3>2. {mine[c], i} \subseteq 1 .. Len(tags) /\ IsRealOverlap(tags[mine[c]], tags[i])
      BY <3>1 DEF FoundOverlap, Overlaps
    <3>3. QED
      BY <3>1, <3>2, OverlapsStay DEF Overlaps
  <2>3. QED
    BY <2>1, <2>2
<1>2. ASSUME NEW o \in overlaps'
      PROVE  /\ {o.new, o.old} \subseteq 1 .. Len(tags')
             /\ IsRealOverlap(tags'[o.new], tags'[o.old])
  <2>1. {o.new, o.old} \subseteq 1 .. Len(tags) /\ IsRealOverlap(tags[o.new], tags[o.old])
    BY <1>2, OverlapsOrigin DEF FoundOverlap, Overlaps
  <2>2. QED
    BY <2>1, OverlapsStay
<1>3. QED
  BY <1>1, <1>2 DEF FoundOverlap, Overlaps

LEMMA LaterStays ==
  ASSUME TrackingAssumption, TypeOK, CallsOK, FoundOverlap, LaterSawEarlier, [Next]_vars
  PROVE  LaterSawEarlier'
<1>1. ASSUME NEW c \in Callers, NEW i \in todo'[c], tags'[i].by = ProcessOf[c]
      PROVE  i < mine'[c]
  <2>1. CASE Detect(c)
    <3>1. i \in RecentTags(c) /\ IsRealOverlap(tags[mine[c]], tags[i])
      BY <1>1, <2>1, DetectFacts DEF TypeOK
    <3>2. mine' = mine /\ tags' = tags
      BY <2>1 DEF Detect
    <3>3. QED
      BY <1>1, <2>1, <3>1, <3>2, DetectFacts
  <2>2. CASE ~Detect(c)
    <3>1. i \in todo[c] /\ mine'[c] = mine[c]
      BY <1>1, <2>2, TodoOrigin
    <3>2. i \in 1 .. Len(tags)
      BY <3>1 DEF TypeOK
    <3>3. tags'[i] = tags[i]
      BY <3>2, TagsGrow
    <3>4. QED
      BY <1>1, <3>1, <3>3 DEF LaterSawEarlier
  <2>3. QED
    BY <2>1, <2>2
<1>2. ASSUME NEW o \in overlaps', tags'[o.new].by = tags'[o.old].by
      PROVE  o.old < o.new
  <2>1. CASE \E p \in overlaps : p.new = o.new /\ p.old = o.old
    <3>1. {o.new, o.old} \subseteq 1 .. Len(tags)
      BY <2>1 DEF FoundOverlap, Overlaps
    <3>2. tags'[o.new] = tags[o.new] /\ tags'[o.old] = tags[o.old]
      BY <3>1, TagsGrow
    <3>3. QED
      BY <1>2, <2>1, <3>2 DEF LaterSawEarlier
  <2>2. CASE \E c \in Callers : o.new = mine[c] /\ o.old \in todo[c] /\ pc[c] = "store"
    <3>1. PICK c \in Callers : o.new = mine[c] /\ o.old \in todo[c] /\ pc[c] = "store"
      BY <2>2
    <3>2. {o.new, o.old} \subseteq 1 .. Len(tags)
      BY <3>1 DEF FoundOverlap, Overlaps
    <3>3. tags'[o.new] = tags[o.new] /\ tags'[o.old] = tags[o.old]
      BY <3>2, TagsGrow
    <3>4. tags[o.new].by = ProcessOf[c]
      BY <3>1 DEF CallsOK
    <3>5. QED
      BY <1>2, <3>1, <3>3, <3>4 DEF LaterSawEarlier
  <2>3. QED
    BY <1>2, <2>1, <2>2, OverlapsOrigin
<1>3. QED
  BY <1>1, <1>2 DEF LaterSawEarlier

-----------------------------------------------------------------------------
(* No conflict is missed. *)

LEMMA ReportedStays ==
  ASSUME TypeOK, [Next]_vars, NEW new, NEW old, Reported(new, old)
  PROVE  Reported(new, old)'
<1>1. PICK o \in overlaps : o.new = new /\ o.old = old
  BY DEF Reported
<1>2. CASE \E p \in overlaps, kind \in ResolutionKinds : Resolve(p, kind)
  <2>1. PICK p \in overlaps, kind \in ResolutionKinds : Resolve(p, kind)
    BY <1>2
  <2>2. CASE o = p
    <3>1. o \in Overlap
      BY DEF TypeOK
    <3>2. [o EXCEPT !.status = kind].new = new /\ [o EXCEPT !.status = kind].old = old
      BY <1>1, <3>1 DEF Overlap
    <3>3. [o EXCEPT !.status = kind] \in overlaps'
      BY <2>1, <2>2 DEF Resolve
    <3>4. QED
      BY <3>2, <3>3 DEF Reported
  <2>3. CASE o # p
    BY <1>1, <2>1, <2>3 DEF Resolve, Reported
  <2>4. QED
    BY <2>2, <2>3
<1>3. CASE overlaps \subseteq overlaps'
  BY <1>1, <1>3 DEF Reported
<1>4. QED
  BY <1>2, <1>3, StepKinds
     DEF Begins, Report, FindAgent, RegisterAgent, InsertTag, Detect, DetectFails,
         StoreOverlap, StoreFails, Answer, CallFails, Crash, Tick, vars

LEMMA SilentGrows ==
  ASSUME [Next]_vars
  PROVE  silent \subseteq silent'
BY StepKinds
   DEF Begins, Report, FindAgent, RegisterAgent, InsertTag, Detect, DetectFails,
       StoreOverlap, StoreFails, Answer, CallFails, Crash, Resolve, Tick, vars

LEMMA MustReportBack ==
  ASSUME TrackingAssumption, TypeOK, [Next]_vars,
         NEW new \in 1 .. Len(tags), NEW old \in 1 .. Len(tags), MustReport(new, old)'
  PROVE  MustReport(new, old)
<1>1. tags'[new] = tags[new] /\ tags'[old] = tags[old]
  BY TagsGrow
<1>2. QED
  BY <1>1, SilentGrows DEF MustReport

(* Authors are told apart by their actor ids.                              *)
LEMMA ConflictIsOverlap ==
  ASSUME NEW a \in Tag, NEW b \in Tag, Conflict(a, b), TrackingAssumption,
         WellFormed(a), WellFormed(b), MinutesApart(a, b) <= Window
  PROVE  IsRealOverlap(a, b)
<1>1. a.actor # b.actor
  BY DEF Conflict, Author, WellFormed
<1>2. RegionsOverlap(a, b)
  <2>1. PICK line \in Lines : line \in a.from .. a.to /\ line \in b.from .. b.to
    BY DEF Conflict
  <2>2. /\ a.from \in Nat /\ a.to \in Nat /\ b.from \in Nat /\ b.to \in Nat
        /\ line \in Nat
    BY DEF Tag, Lines
  <2>3. QED
    BY <2>1, <2>2 DEF RegionsOverlap
<1>3. QED
  BY <1>1, <1>2 DEF IsRealOverlap, Conflict

LEMMA OverlapIsConflict ==
  ASSUME NEW a \in Tag, NEW b \in Tag, IsRealOverlap(a, b), TrackingAssumption,
         WellFormed(a), WellFormed(b)
  PROVE  Conflict(a, b)
<1>1. Author(a) # Author(b)
  <2>1. a.actor \in Actor /\ b.actor \in Actor /\ a.actor # b.actor
    BY DEF Tag, IsRealOverlap
  <2>2. a.actor.name # b.actor.name \/ a.actor.at # b.actor.at
    BY <2>1 DEF Actor
  <2>3. /\ a.actor.at # Local /\ b.actor.at # Local
    BY <2>1 DEF Actor, TrackingAssumption
  <2>4. QED
    BY <2>2, <2>3 DEF Author, WellFormed
<1>2. \E line \in Lines : line \in a.from .. a.to /\ line \in b.from .. b.to
  <2>1. /\ a.from \in Lines /\ b.from \in Lines
        /\ a.from \in Nat /\ a.to \in Nat /\ b.from \in Nat /\ b.to \in Nat
        /\ a.from <= a.to /\ b.from <= b.to /\ a.from <= b.to /\ b.from <= a.to
    BY DEF Tag, WellFormed, IsRealOverlap, RegionsOverlap, Lines
  <2>2. CASE a.from <= b.from
    <3>1. b.from \in a.from .. a.to /\ b.from \in b.from .. b.to
      BY <2>1, <2>2
    <3>2. QED
      BY <2>1, <3>1
  <2>3. CASE b.from <= a.from
    <3>1. a.from \in a.from .. a.to /\ a.from \in b.from .. b.to
      BY <2>1, <2>3
    <3>2. QED
      BY <2>1, <3>1
  <2>4. QED
    BY <2>1, <2>2, <2>3
<1>3. QED
  BY <1>1, <1>2 DEF Conflict, IsRealOverlap

(* Of two stamps that lie near, the older is still recent when the newer   *)
(* one's call detects its overlaps.                                        *)
LEMMA WithinWindow ==
  ASSUME NEW older \in Nat, NEW newer \in Nat, NEW clock \in Nat,
         NEW apart \in Nat, NEW length \in Nat, NEW window \in Nat,
         newer <= older + apart, clock <= newer + length, apart + length < window
  PROVE  older + window > clock /\ apart <= window
OBVIOUS

(* A detection finds every edit stored before its own that must be reported.*)
LEMMA DetectionIsComplete ==
  ASSUME TrackingAssumption, TypeOK, TagsWellFormed, CallsOK, NEW c \in Callers, Detect(c),
         NEW old \in 1 .. Len(tags), MustReport(mine[c], old)
  PROVE  old \in todo'[c]
<1>1. /\ mine[c] \in 1 .. Len(tags) /\ tags[mine[c]] = call[c].tag
      /\ now <= tags[mine[c]].time + CallTime
  BY DEF CallsOK, Detect
<1>2. tags[mine[c]] \in Tag /\ tags[old] \in Tag
  BY <1>1 DEF TypeOK
<1>3. /\ tags[mine[c]].time \in Nat /\ tags[old].time \in Nat /\ now \in Nat
      /\ CallTime \in Nat /\ Window \in Nat
  BY <1>2 DEF Tag, TypeOK, TrackingAssumption
<1>4. MinutesApart(tags[mine[c]], tags[old]) + CallTime < Window
  BY DEF MustReport
<1>5. tags[old].time + Window > now /\ MinutesApart(tags[mine[c]], tags[old]) <= Window
  <2> DEFINE newer == tags[mine[c]].time
             older == tags[old].time
             apart == MinutesApart(tags[mine[c]], tags[old])
  <2>1. apart \in Nat /\ newer <= older + apart
    BY <1>3 DEF MinutesApart
  <2>2. /\ newer \in Nat /\ older \in Nat /\ now \in Nat /\ CallTime \in Nat /\ Window \in Nat
        /\ now <= newer + CallTime /\ apart + CallTime < Window
    BY <1>1, <1>3, <1>4
  <2> HIDE DEF newer, older, apart
  <2>3. older + Window > now /\ apart <= Window
    BY <2>1, <2>2, WithinWindow
  <2>4. QED
    BY <2>3 DEF newer, older, apart
<1>6. Conflict(tags[mine[c]], tags[old])
  BY DEF MustReport
<1>7. IsRealOverlap(tags[mine[c]], tags[old])
  BY <1>1, <1>2, <1>5, <1>6, ConflictIsOverlap DEF TagsWellFormed
<1>8. old \in RecentTags(c)
  BY <1>1, <1>5, <1>6 DEF RecentTags, Conflict
<1>9. QED
  BY <1>7, <1>8, DetectFacts DEF TypeOK

LEMMA DetectedStays ==
  ASSUME TrackingAssumption, TypeOK, TagsWellFormed, CallsOK, FoundOverlap, DetectedAll,
         [Next]_vars
  PROVE  DetectedAll'
<1>1. SUFFICES ASSUME NEW c \in Callers, pc'[c] = "store",
                      NEW old \in 1 .. (mine'[c] - 1), MustReport(mine[c], old)'
               PROVE  Reported(mine[c], old)' \/ old \in todo'[c]
  BY DEF DetectedAll
<1>2. CASE \E d \in Callers : Begins(d)
  <2>1. PICK d \in Callers : Begins(d)
    BY <1>2
  <2>2. pc[c] = "store" /\ UNCHANGED <<tags, overlaps, mine, todo, silent>>
    BY <1>1, <2>1, BeginsFacts
  <2>3. QED
    BY <1>1, <2>2 DEF DetectedAll, MustReport, Reported
<1>3. CASE \E d \in Callers : Detect(d)
  <2>1. PICK d \in Callers : Detect(d)
    BY <1>3
  <2>2. UNCHANGED <<tags, overlaps, mine, silent>>
    BY <2>1 DEF Detect
  <2>3. MustReport(mine[c], old)
    BY <1>1, <2>2 DEF MustReport
  <2>4. CASE c = d
    <3>1. mine[c] \in 1 .. Len(tags)
      BY <2>1, <2>4, DetectFacts
    <3>2. old \in 1 .. Len(tags)
      BY <1>1, <2>2, <3>1
    <3>3. QED
      BY <2>1, <2>3, <2>4, <3>2, DetectionIsComplete
  <2>5. CASE c # d
    <3>1. pc[c] = "store" /\ todo'[c] = todo[c]
      BY <1>1, <2>1, <2>5 DEF Detect, Goto, TypeOK
    <3>2. QED
      BY <1>1, <2>2, <2>3, <3>1 DEF DetectedAll, Reported
  <2>6. QED
    BY <2>4, <2>5
<1>4. CASE \E d \in Callers : DetectFails(d)
  <2>1. PICK d \in Callers : DetectFails(d)
    BY <1>4
  <2>2. UNCHANGED <<tags, overlaps, mine, todo>>
    BY <2>1 DEF DetectFails
  <2>3. CASE c = d
    <3>1. mine[c] \in 1 .. Len(tags)
      BY <2>1, <2>3 DEF CallsOK, DetectFails
    <3>2. old \in 1 .. Len(tags)
      BY <1>1, <2>2, <3>1
    <3>3. <<mine[c], old>> \in silent'
      BY <2>1, <2>3, <3>2 DEF DetectFails
    <3>4. QED
      BY <1>1, <2>2, <3>3 DEF MustReport
  <2>4. CASE c # d
    <3>1. pc[c] = "store"
      BY <1>1, <2>1, <2>4 DEF DetectFails, Goto, TypeOK
    <3>2. MustReport(mine[c], old)
      BY <1>1, <2>2, SilentGrows DEF MustReport
    <3>3. QED
      BY <1>1, <2>2, <3>1, <3>2 DEF DetectedAll, Reported
  <2>5. QED
    BY <2>3, <2>4
<1>5. CASE \E d \in Callers, i \in 1 .. Len(tags) : StoreOverlap(d, i) \/ StoreFails(d, i)
  <2>1. PICK d \in Callers, i \in 1 .. Len(tags) : StoreOverlap(d, i) \/ StoreFails(d, i)
    BY <1>5
  <2>2. /\ UNCHANGED <<tags, mine, pc>>
        /\ todo' = [todo EXCEPT ![d] = todo[d] \ {i}]
    BY <2>1 DEF StoreOverlap, StoreFails
  <2>3. MustReport(mine[c], old) /\ pc[c] = "store"
    BY <1>1, <2>2, SilentGrows DEF MustReport
  <2>4. CASE Reported(mine[c], old)
    <3>1. mine'[c] = mine[c]
      BY <2>2
    <3>2. \E o \in overlaps' : o.new = mine[c] /\ o.old = old
      BY <2>4, ReportedStays DEF Reported
    <3>3. QED
      BY <3>1, <3>2 DEF Reported
  <2>5. CASE old \in todo[c] /\ ~(c = d /\ old = i)
    BY <2>2, <2>5 DEF TypeOK
  <2>6. CASE c = d /\ old = i
    <3>1. CASE StoreOverlap(d, i)
      <4>1. [new |-> mine[c], old |-> old, status |-> "Pending"] \in overlaps'
        BY <2>6, <3>1 DEF StoreOverlap
      <4>2. mine'[c] = mine[c]
        BY <2>2
      <4>3. \E o \in overlaps' : o.new = mine[c] /\ o.old = old
        BY <4>1
      <4>4. QED
        BY <4>2, <4>3 DEF Reported
    <3>2. CASE StoreFails(d, i)
      <4>1. <<mine[c], old>> \in silent'
        BY <2>6, <3>2 DEF StoreFails
      <4>2. QED
        BY <1>1, <2>2, <4>1 DEF MustReport
    <3>3. QED
      BY <2>1, <3>1, <3>2
  <2>7. QED
    BY <1>1, <2>2, <2>3, <2>4, <2>5, <2>6 DEF DetectedAll
<1>6. CASE \E p \in overlaps, kind \in ResolutionKinds : Resolve(p, kind)
  <2>1. UNCHANGED <<tags, mine, pc, todo, silent>>
    BY <1>6 DEF Resolve, locals
  <2>2. MustReport(mine[c], old) /\ pc[c] = "store"
    BY <1>1, <2>1 DEF MustReport
  <2>3. CASE Reported(mine[c], old)
    <3>1. \E o \in overlaps' : o.new = mine[c] /\ o.old = old
      BY <2>3, ReportedStays DEF Reported
    <3>2. QED
      BY <2>1, <3>1 DEF Reported
  <2>4. QED
    BY <1>1, <2>1, <2>2, <2>3 DEF DetectedAll
<1>7. CASE \E d \in Callers : InsertTag(d)
  <2>1. PICK d \in Callers : InsertTag(d)
    BY <1>7
  <2>2. /\ UNCHANGED <<overlaps, todo, silent>>
        /\ pc' = [pc EXCEPT ![d] = "detect"]
        /\ mine' = [mine EXCEPT ![d] = Len(tags) + 1]
    BY <2>1 DEF InsertTag, Goto
  <2>3. c # d /\ pc[c] = "store" /\ mine'[c] = mine[c]
    BY <1>1, <2>2 DEF TypeOK
  <2>4. mine[c] \in 1 .. Len(tags)
    BY <2>3 DEF CallsOK
  <2>5. old \in 1 .. Len(tags)
    BY <1>1, <2>3, <2>4
  <2>6. tags'[mine[c]] = tags[mine[c]] /\ tags'[old] = tags[old]
    BY <2>4, <2>5, TagsGrow
  <2>7. MustReport(mine[c], old)
    BY <1>1, <2>2, <2>3, <2>6 DEF MustReport
  <2>8. QED
    BY <1>1, <2>2, <2>3, <2>7 DEF DetectedAll, Reported
<1>8. CASE \E d \in Callers :
             FindAgent(d) \/ RegisterAgent(d) \/ Answer(d) \/ CallFails(d) \/ Crash(d)
  <2>1. /\ UNCHANGED <<tags, overlaps, silent>>
        /\ pc[c] = "store" /\ mine'[c] = mine[c] /\ todo'[c] = todo[c]
    BY <1>1, <1>8
       DEF FindAgent, RegisterAgent, Answer, CallFails, Crash, EndCall, Goto, TypeOK
  <2>2. QED
    BY <1>1, <2>1 DEF DetectedAll, MustReport, Reported
<1>9. CASE UNCHANGED <<tags, overlaps, silent, locals>>
  BY <1>1, <1>9 DEF DetectedAll, MustReport, Reported, locals
<1>10. QED
  BY <1>2, <1>3, <1>4, <1>5, <1>6, <1>7, <1>8, <1>9, StepKinds DEF Tick, vars, locals

LEMMA ConflictsStayReported ==
  ASSUME TrackingAssumption, TypeOK, CallsOK, DetectedAll, EveryConflictReported, [Next]_vars
  PROVE  EveryConflictReported'
<1>1. SUFFICES ASSUME NEW new \in done', NEW old \in 1 .. (new - 1), MustReport(new, old)'
               PROVE  Reported(new, old)'
  BY DEF EveryConflictReported, MustReport
<1>2. CASE new \in done
  <2>1. new \in 1 .. Len(tags) /\ old \in 1 .. Len(tags)
    BY <1>2 DEF TypeOK
  <2>2. MustReport(new, old)
    BY <1>1, <2>1, MustReportBack
  <2>3. Reported(new, old)
    BY <1>2, <2>2 DEF EveryConflictReported, MustReport
  <2>4. QED
    BY <2>3, ReportedStays
<1>3. CASE new \notin done
  <2>1. PICK c \in Callers : Answer(c)
    BY <1>3, StepKinds
       DEF Begins, Report, FindAgent, RegisterAgent, InsertTag, Detect, DetectFails,
           StoreOverlap, StoreFails, CallFails, Crash, Resolve, Tick, vars
  <2>2. new = mine[c] /\ pc[c] = "store" /\ todo[c] = {}
    BY <1>3, <2>1 DEF Answer
  <2>3. UNCHANGED <<tags, overlaps, silent>>
    BY <2>1 DEF Answer
  <2>4. MustReport(new, old)
    BY <1>1, <2>3 DEF MustReport
  <2>5. QED
    BY <2>2, <2>3, <2>4 DEF DetectedAll, Reported
<1>4. QED
  BY <1>2, <1>3

-----------------------------------------------------------------------------
(* The registry of agents. *)

LEMMA AgentsStep ==
  ASSUME [Next]_vars
  PROVE  agents' = agents \/ \E c \in Callers : RegisterAgent(c)
BY StepKinds
   DEF Begins, Report, FindAgent, InsertTag, Detect, DetectFails, StoreOverlap,
       StoreFails, Answer, CallFails, Crash, Resolve, Tick, vars

LEMMA AgentsStay ==
  ASSUME TypeOK, [Next]_vars, NEW a \in Actor, agents[a] # NoAgent
  PROVE  agents'[a] # NoAgent
<1>1. CASE \E c \in Callers : RegisterAgent(c)
  <2>1. PICK c \in Callers : RegisterAgent(c)
    BY <1>1
  <2>2. RegisteredRow(c) # NoAgent
    BY <2>1, RegisteredRowType DEF RegisterAgent
  <2>3. QED
    BY <2>1, <2>2 DEF RegisterAgent, TypeOK
<1>2. QED
  BY <1>1, AgentsStep

LEMMA InsertsStayRegistered ==
  ASSUME TrackingAssumption, TypeOK, InsertsRegistered, [Next]_vars
  PROVE  InsertsRegistered'
<1>1. SUFFICES ASSUME NEW c \in Callers, pc'[c] = "insert", IsAgent(call'[c].tag.actor)
               PROVE  agents'[call'[c].tag.actor] # NoAgent
  BY DEF InsertsRegistered, IsAgent
<1>2. CASE \E d \in Callers : Begins(d)
  <2>1. PICK d \in Callers : Begins(d)
    BY <1>2
  <2>2. c # d
    BY <1>1, <2>1, BeginsFacts
  <2>3. pc[c] = "insert" /\ call'[c] = call[c] /\ agents' = agents
    BY <1>1, <2>1, <2>2, BeginsFacts
  <2>4. QED
    BY <1>1, <2>3 DEF InsertsRegistered
<1>3. CASE RegisterAgent(c)
  <2>1. RegisteredRow(c) # NoAgent
    BY <1>3, RegisteredRowType DEF RegisterAgent
  <2>2. call[c].tag.actor \in Actor
    BY <1>3 DEF RegisterAgent, TypeOK, Call, Tag
  <2>3. QED
    BY <1>3, <2>1, <2>2 DEF RegisterAgent, TypeOK
<1>4. CASE ~(\E d \in Callers : Begins(d)) /\ ~RegisterAgent(c)
  <2>1. pc[c] = "insert" /\ call'[c] = call[c]
    BY <1>1, <1>4, StepKinds
       DEF FindAgent, RegisterAgent, InsertTag, Detect, DetectFails, StoreOverlap,
           StoreFails, Answer, CallFails, Crash, EndCall, Resolve, Tick, vars, locals,
           Goto, TypeOK
  <2>2. call[c].tag.actor \in Actor
    BY <2>1 DEF TypeOK, Call, Tag
  <2>3. QED
    BY <1>1, <2>1, <2>2, AgentsStay DEF InsertsRegistered
<1>5. QED
  BY <1>2, <1>3, <1>4

LEMMA EditorsStayRegistered ==
  ASSUME TrackingAssumption, TypeOK, InsertsRegistered, EditorsAreRegistered, [Next]_vars
  PROVE  EditorsAreRegistered'
<1>1. SUFFICES ASSUME NEW i \in 1 .. Len(tags'), IsAgent(tags'[i].actor)
               PROVE  agents'[tags'[i].actor] # NoAgent
  BY DEF EditorsAreRegistered, IsAgent
<1>2. CASE i \in 1 .. Len(tags)
  <2>1. tags'[i] = tags[i]
    BY <1>2, TagsGrow
  <2>2. tags[i] \in Tag
    BY <1>2 DEF TypeOK
  <2>3. tags[i].actor \in Actor
    BY <2>2 DEF Tag
  <2>4. IsAgent(tags[i].actor) /\ agents[tags[i].actor] # NoAgent
    BY <1>1, <1>2, <2>1 DEF EditorsAreRegistered
  <2>5. QED
    BY <2>1, <2>3, <2>4, AgentsStay
<1>3. CASE i \notin 1 .. Len(tags)
  <2>1. PICK c \in Callers : InsertTag(c)
    BY <1>3, StepKinds
       DEF Begins, Report, FindAgent, RegisterAgent, Detect, DetectFails, StoreOverlap,
           StoreFails, Answer, CallFails, Crash, Resolve, Tick, vars
  <2>2. i = Len(tags) + 1
    BY <1>3, <2>1, TagAppended, TagsGrow
  <2>3. tags'[i] = call[c].tag /\ pc[c] = "insert" /\ agents' = agents
    BY <2>1, <2>2, TagAppended DEF InsertTag
  <2>4. QED
    BY <1>1, <2>3 DEF InsertsRegistered
<1>4. QED
  BY <1>2, <1>3

LEMMA ReadStaysCurrent ==
  ASSUME TrackingAssumption, TypeOK, OneCallPerProcess, ReadIsCurrent, [Next]_vars
  PROVE  ReadIsCurrent'
<1>1. SUFFICES ASSUME NEW c \in Callers, pc'[c] = "register",
                      agents'[call'[c].tag.actor] # NoAgent,
                      agents'[call'[c].tag.actor].by = ProcessOf[c]
               PROVE  found'[c] = agents'[call'[c].tag.actor]
  BY DEF ReadIsCurrent
<1>2. CASE FindAgent(c)
  BY <1>2 DEF FindAgent, TypeOK
<1>3. CASE ~FindAgent(c)
  <2>1. pc[c] = "register" /\ call'[c] = call[c] /\ found'[c] = found[c]
    <3>1. CASE \E d \in Callers : Begins(d)
      BY <1>1, <3>1, BeginsFacts
    <3>2. CASE ~(\E d \in Callers : Begins(d))
      BY <1>1, <1>3, <3>2, StepKinds
         DEF FindAgent, RegisterAgent, InsertTag, Detect, DetectFails, StoreOverlap,
             StoreFails, Answer, CallFails, Crash, EndCall, Resolve, Tick, vars, locals,
             Goto, TypeOK
    <3>3. QED
      BY <3>1, <3>2
  <2>2. call[c].tag.actor \in Actor
    BY <2>1 DEF TypeOK, Call, Tag
  <2>3. CASE agents' = agents
    BY <1>1, <2>1, <2>3 DEF ReadIsCurrent
  <2>4. CASE \E d \in Callers : RegisterAgent(d)
    <3>1. PICK d \in Callers : RegisterAgent(d)
      BY <2>4
    <3>2. c # d
      BY <1>1, <3>1 DEF RegisterAgent, Goto, TypeOK
    <3>3. ProcessOf[c] # ProcessOf[d]
      BY <2>1, <3>1, <3>2 DEF OneCallPerProcess, RegisterAgent
    <3>4. RegisteredRow(d).by = ProcessOf[d]
      BY DEF RegisteredRow
    <3>5. call[c].tag.actor # call[d].tag.actor
      BY <1>1, <2>1, <2>2, <3>1, <3>3, <3>4 DEF RegisterAgent, TypeOK
    <3>6. agents'[call[c].tag.actor] = agents[call[c].tag.actor]
      BY <2>2, <3>1, <3>5 DEF RegisterAgent, TypeOK
    <3>7. QED
      BY <1>1, <2>1, <3>6 DEF ReadIsCurrent
  <2>5. QED
    BY <2>3, <2>4, AgentsStep
<1>4. QED
  BY <1>2, <1>3

LEMMA AgentKeptStep ==
  ASSUME TypeOK, ReadIsCurrent, [Next]_vars, NEW a \in Actor,
         agents[a] # NoAgent, agents'[a] # agents[a], agents'[a].by = agents[a].by
  PROVE  /\ agents'[a].id = agents[a].id
         /\ agents[a].prompt # NoPrompt => agents'[a].prompt # NoPrompt
<1>1. PICK c \in Callers : RegisterAgent(c)
  BY AgentsStep
<1>2. a = call[c].tag.actor /\ agents'[a] = RegisteredRow(c)
  BY <1>1 DEF RegisterAgent, TypeOK
<1>3. agents[a].by = ProcessOf[c]
  BY <1>2 DEF RegisteredRow
<1>4. found[c] = agents[a]
  BY <1>1, <1>2, <1>3 DEF ReadIsCurrent, RegisterAgent
<1>5. QED
  BY <1>2, <1>4 DEF RegisteredRow

-----------------------------------------------------------------------------
(* The theorems. *)

(* Everything the calls know and have stored. *)
TrackingInv ==
  /\ TypeOK
  /\ OneCallPerProcess /\ TagsWellFormed /\ CallsOK
  /\ FoundOverlap /\ LaterSawEarlier
  /\ DetectedAll /\ EveryConflictReported

RegistryInv ==
  /\ TypeOK
  /\ OneCallPerProcess
  /\ InsertsRegistered /\ EditorsAreRegistered /\ ReadIsCurrent

LEMMA InitTracking == Init => TrackingInv /\ RegistryInv
<1>1. Init => TypeOK
  BY InitTypes
<1>2. Init => Len(tags) = 0
  BY DEF Init
<1>3. Init => /\ OneCallPerProcess /\ TagsWellFormed /\ CallsOK /\ FoundOverlap
              /\ LaterSawEarlier /\ DetectedAll /\ EveryConflictReported
  BY <1>2 DEF Init, OneCallPerProcess, TagsWellFormed, CallsOK, FoundOverlap,
     LaterSawEarlier, DetectedAll, EveryConflictReported
<1>4. Init => InsertsRegistered /\ EditorsAreRegistered /\ ReadIsCurrent
  BY <1>2 DEF Init, InsertsRegistered, EditorsAreRegistered, ReadIsCurrent
<1>5. QED
  BY <1>1, <1>3, <1>4 DEF TrackingInv, RegistryInv

LEMMA NextTracking == TrackingAssumption /\ TrackingInv /\ [Next]_vars => TrackingInv'
BY NextTypes, MutexHolds, CallsStayOK, FoundStays, LaterStays, DetectedStays,
   ConflictsStayReported DEF TrackingInv

LEMMA NextRegistry == TrackingAssumption /\ RegistryInv /\ [Next]_vars => RegistryInv'
BY NextTypes, MutexHolds, InsertsStayRegistered, EditorsStayRegistered, ReadStaysCurrent
   DEF RegistryInv

LEMMA TrackingIsSound ==
  ASSUME TrackingAssumption, TrackingInv
  PROVE  OverlapsAreConflicts /\ OneOverlapPerPair
<1>1. ASSUME NEW o \in overlaps
      PROVE  /\ {o.new, o.old} \subseteq 1 .. Len(tags)
             /\ Conflict(tags[o.new], tags[o.old])
             /\ MinutesApart(tags[o.new], tags[o.old]) <= Window
  <2>1. {o.new, o.old} \subseteq 1 .. Len(tags) /\ IsRealOverlap(tags[o.new], tags[o.old])
    BY <1>1 DEF TrackingInv, FoundOverlap, Overlaps
  <2>2. /\ tags[o.new] \in Tag /\ tags[o.old] \in Tag
        /\ WellFormed(tags[o.new]) /\ WellFormed(tags[o.old])
    BY <2>1 DEF TrackingInv, TypeOK, TagsWellFormed
  <2>3. Conflict(tags[o.new], tags[o.old])
    BY <2>1, <2>2, OverlapIsConflict
  <2>4. QED
    BY <2>1, <2>3 DEF IsRealOverlap
<1>2. ASSUME NEW o \in overlaps, NEW p \in overlaps, tags[o.new].by = tags[o.old].by,
             p.new = o.old, p.old = o.new
      PROVE  FALSE
  <2>1. o.new \in Nat /\ o.old \in Nat
    BY DEF TrackingInv, TypeOK, Overlap
  <2>2. o.old < o.new /\ o.new < o.old
    BY <1>2 DEF TrackingInv, LaterSawEarlier
  <2>3. QED
    BY <2>1, <2>2
<1>3. QED
  BY <1>1, <1>2 DEF OverlapsAreConflicts, OneOverlapPerPair, Reported

(* For any number of processes, callers and edits, an answered edit has    *)
(* been reported against every conflicting edit stored before it and near  *)
(* enough, whatever the interleaving and whichever calls die.              *)
THEOREM ConflictsReported == Spec => []EveryConflictReported
<1>1. TrackingInv => EveryConflictReported
  BY DEF TrackingInv
<1>2. QED
  BY <1>1, InitTracking, NextTracking, TrackingAssumption, PTL DEF Spec

(* What is reported is a conflict of two stored edits within the window.   *)
THEOREM OverlapsSound == Spec => []OverlapsAreConflicts
<1>1. TrackingInv => OverlapsAreConflicts
  BY TrackingIsSound, TrackingAssumption
<1>2. QED
  BY <1>1, InitTracking, NextTracking, TrackingAssumption, PTL DEF Spec

(* Two edits of one process are reported against each other once: the      *)
(* process's mutex is held from the storing of an edit to the comparison.  *)
THEOREM PairsReportedOnce == Spec => []OneOverlapPerPair
<1>1. TrackingInv => OneOverlapPerPair
  BY TrackingIsSound, TrackingAssumption
<1>2. QED
  BY <1>1, InitTracking, NextTracking, TrackingAssumption, PTL DEF Spec

(* No agent's edit is stored before the agent is registered.               *)
THEOREM EditorsRegistered == Spec => []EditorsAreRegistered
<1>1. RegistryInv => EditorsAreRegistered
  BY DEF RegistryInv
<1>2. QED
  BY <1>1, InitTracking, NextRegistry, TrackingAssumption, PTL DEF Spec

(* Within a process an agent keeps its id and its prompt.                  *)
THEOREM AgentsKept == Spec => AgentKept
<1>1. RegistryInv /\ [Next]_vars =>
        [\A a \in Actor :
           (agents[a] # NoAgent /\ agents'[a] # agents[a] /\ agents'[a].by = agents[a].by)
           => /\ agents'[a].id = agents[a].id
              /\ agents[a].prompt # NoPrompt => agents'[a].prompt # NoPrompt]_vars
  BY AgentKeptStep DEF RegistryInv
<1>2. QED
  BY <1>1, InitTracking, NextRegistry, TrackingAssumption, PTL DEF Spec, AgentKept

=============================================================================
