------------------------------ MODULE McpSession ------------------------------
(***************************************************************************)
(* The processes harmony-mcp of several projects and machines, how they    *)
(* start (main.rs), and the MCP requests editors send them:                *)
(*   stdio   run_stdio_server, on the process's own store                  *)
(*   bridge  run_stdio_http_bridge, from stdin to a host's HTTP endpoint   *)
(*   local   serve_local_client of ipc_tcp.rs, on the host's own store     *)
(*   proxy   serve_proxy_client of ipc_tcp.rs, from TCP to the host's HTTP *)
(* A bridge and a proxy know their host by an address only, and a host     *)
(* that cannot have its ports says so to nobody.                           *)
(***************************************************************************)
EXTENDS McpMessages, Configuration

CONSTANTS
  Projects,    \* each with one process, which its editor starts
  Launches,    \* with what command line and config.toml they start
  Messages,    \* what editors send
  Frames,      \* how they write it: [format, before], before being lines
  MaxMessages, MaxStarts, MaxFaults  \* bounds

ASSUME SessionAssumption ==
  /\ Messages \subseteq Message
  /\ \A f \in Frames : f.format \in {"JsonLine", "ContentLength"}
  /\ MaxMessages \in Nat /\ MaxStarts \in Nat /\ MaxFaults \in Nat

VARIABLES
  launch,     \* [machine, mode, bridge, flags] of each project: where its
              \* process runs, --mode, --stdio-bridge, the other options
  file,       \* each project's config.toml
  loaded,     \* what of it the process read
  phase,      \* of each process
  listening,  \* whether run_host or run_client of a process listens
  input,      \* what is written and not read, of each channel
  sent,       \* history: the messages written
  handling,   \* the message a channel is at
  output,     \* the answers written
  closed,     \* who closed a channel
  calls,      \* the calls that recorded something in each project's store
  repeated,   \* history: whether a call did so twice
  starts, faults

processes == <<launch, file, loaded, phase, listening, starts>>
vars == <<processes, input, sent, handling, output, closed, calls, repeated, faults>>

Channels == Projects \X {"stdin", "socket"}
Process(c) == c[1]

-----------------------------------------------------------------------------
(* An option of the command line counts before the configuration.          *)
Setting(p, key) ==
  IF key \in DOMAIN launch[p].flags THEN launch[p].flags[key]
                                    ELSE Loaded(loaded[p])[key]

(* resolve_runtime_mode: the flag --mode, else what the configuration says *)
(* when there is --stdio-bridge, else stdio.                               *)
RuntimeMode(p) ==
  IF launch[p].mode # "none" THEN launch[p].mode
  ELSE IF launch[p].bridge THEN Setting(p, "mode") ELSE "stdio"

Kind(c) ==
  LET p == Process(c) IN
  IF c[2] = "stdin"
    THEN IF RuntimeMode(p) = "stdio" THEN "stdio"
         ELSE IF launch[p].bridge THEN "bridge" ELSE "none"
    ELSE CASE RuntimeMode(p) = "stdio" -> "none"
           [] RuntimeMode(p) = "host" -> "local"
           [] RuntimeMode(p) = "client" -> "proxy"

Address(p, port) == <<launch[p].machine, Setting(p, port)>>
Ports(p) ==
  {Address(p, "ipc_port")} \cup
    IF RuntimeMode(p) = "host"
      THEN {Address(p, "mcp_port"), Address(p, "web_port")} ELSE {}

(* Where a bridge and a proxy post to.                                     *)
Target(p) ==
  IF RuntimeMode(p) = "host" THEN Address(p, "mcp_port") ELSE Setting(p, "host_url")
Serves(q, address) ==
  /\ listening[q] = "yes" /\ RuntimeMode(q) = "host"
  /\ address = Address(q, "mcp_port")

Idle == [stage |-> "idle"]

Init ==
  /\ \E l \in Launches :
       /\ launch = [p \in Projects |-> l[p].launch]
       /\ file = [p \in Projects |-> l[p].file]
  /\ loaded = file
  /\ phase = [p \in Projects |-> "off"]
  /\ listening = [p \in Projects |-> "no"]
  /\ input = [c \in Channels |-> <<>>]
  /\ sent = [c \in Channels |-> <<>>]
  /\ handling = [c \in Channels |-> Idle]
  /\ output = [c \in Channels |-> <<>>]
  /\ closed = [c \in Channels |-> "no"]
  /\ calls = [p \in Projects |-> {}]
  /\ repeated = FALSE
  /\ starts = 0 /\ faults = 0

-----------------------------------------------------------------------------
(* main: bootstrap_project, run_serve_mode. A client needs a host.         *)
Start(p) ==
  /\ phase[p] \in {"off", "ended"}
  /\ starts < MaxStarts
  /\ starts' = starts + 1
  /\ launch' = launch
  /\ loaded' = [loaded EXCEPT ![p] = file[p]]
  /\ file' = [file EXCEPT ![p] = AfterLoading(@)]
  /\ phase' = [phase EXCEPT ![p] =
       IF RuntimeMode(p)' = "client" /\ Setting(p, "host_url")' = NoAddress
         THEN "ended" ELSE "running"]
  /\ UNCHANGED <<listening, input, sent, handling, output, closed,
                 calls, repeated, faults>>

(* A process that ends: its ports are free, its channels closed.           *)
Ended(p, by) ==
  /\ phase' = [phase EXCEPT ![p] = "ended"]
  /\ listening' = [listening EXCEPT ![p] = "no"]
  /\ closed' = [c \in Channels |->
       IF Process(c) = p /\ closed[c] = "no" THEN by ELSE closed[c]]
  /\ handling' = [c \in Channels |->
       IF Process(c) = p THEN Idle ELSE handling[c]]

PortsFree(p) ==
  \A q \in Projects : listening[q] = "yes" => Ports(q) \cap Ports(p) = {}

(* run_host binds its three ports, run_client its one.                     *)
Listen(p) ==
  /\ phase[p] = "running" /\ listening[p] = "no" /\ RuntimeMode(p) # "stdio"
  /\ PortsFree(p)
  /\ listening' = [listening EXCEPT ![p] = "yes"]
  /\ UNCHANGED <<launch, file, loaded, phase, starts, input, sent, handling, output, closed,
                 calls, repeated, faults>>

(* One that is taken ends all of run_host. The task's error is dropped     *)
(* when there is a bridge, which goes on; without one the process ends.    *)
ListenFails(p) ==
  /\ phase[p] = "running" /\ listening[p] = "no" /\ RuntimeMode(p) # "stdio"
  /\ ~PortsFree(p)
  /\ IF launch[p].bridge
       THEN /\ listening' = [listening EXCEPT ![p] = "failed"]
            /\ UNCHANGED <<phase, closed, handling>>
       ELSE Ended(p, "process")
  /\ UNCHANGED <<launch, file, loaded, starts, input, sent, output, calls, repeated, faults>>

(* The editor closes stdin, or the process is killed.                      *)
End(p) ==
  /\ phase[p] = "running"
  /\ faults < MaxFaults
  /\ faults' = faults + 1
  /\ Ended(p, "process")
  /\ UNCHANGED <<launch, file, loaded, starts, input, sent, output, calls, repeated>>

-----------------------------------------------------------------------------
Open(c) ==
  /\ closed[c] = "no" /\ Kind(c) # "none"
  /\ phase[Process(c)] = "running"
  /\ c[2] = "socket" => listening[Process(c)] # "no"

Total == FoldFunction(+, 0, [c \in Channels |-> Len(sent[c])])

(* Lines before a message that a reader is written to pass over: a header  *)
(* it does not know, blank lines between the messages on stdin, and on a   *)
(* socket a length that is no number, if another follows. A bad length on  *)
(* stdin, which ends the process, and a blank first line on a socket,      *)
(* which closes it, are not written.                                       *)
Tolerated(c, f) ==
  \/ f.before = <<>>
  \/ f.before = <<Line("other")>> /\ (c[2] = "stdin" \/ f.format = "ContentLength")
  \/ f.before = <<Line("blank")>> /\ c[2] = "stdin"
  \/ f.before = <<Line("bad length")>> /\ c[2] = "socket" /\ f.format = "ContentLength"

(* A request of the editor; its id, if it has one, is its place.           *)
Write(c) ==
  /\ Open(c)
  /\ c[2] = "socket" => listening[Process(c)] = "yes"
  /\ Total < MaxMessages
  /\ \E m \in Messages, f \in {g \in Frames : Tolerated(c, g)} :
       LET id == IF m.id = NoId THEN NoId ELSE Len(sent[c]) + 1
           message == [m EXCEPT !.id = id, !.number = Len(sent[c]) + 1]
       IN /\ sent' = [sent EXCEPT ![c] =
               Append(@, [message |-> message, format |-> f.format])]
          /\ input' = [input EXCEPT ![c] =
               @ \o f.before \o Framed(message, f.format)]
  /\ UNCHANGED <<processes, handling, output, closed, calls, repeated, faults>>

Reading(c) == IF c[2] = "stdin" THEN ReadStdio(input[c]) ELSE ReadIpc(input[c])

Read(c) ==
  /\ Open(c) /\ handling[c] = Idle
  /\ Reading(c).result = "message"
  /\ input' = [input EXCEPT ![c] = Reading(c).rest]
  /\ handling' = [handling EXCEPT ![c] =
       [stage |-> "read", message |-> Reading(c).message,
        format |-> Reading(c).format]]
  /\ UNCHANGED <<processes, sent, output, closed, calls, repeated, faults>>

At(c, stage) == Open(c) /\ handling[c].stage = stage

(* Variant: a body is written for 204 too. *)
ReplyAlways(c, answer) ==
  /\ output' = [output EXCEPT ![c] =
       Append(@, [answer |-> answer, format |-> handling[c].format])]
  /\ handling' = [handling EXCEPT ![c] = Idle]

(* Variant: every answer is a line. *)
ReplyInLines(c, answer) ==
  /\ output' = [output EXCEPT ![c] =
       IF answer = NoAnswer THEN @
       ELSE Append(@, [answer |-> answer, format |-> "JsonLine"])]
  /\ handling' = [handling EXCEPT ![c] = Idle]

(* The answer goes out in the framing of the request.                      *)
Reply(c, answer) ==
  /\ output' = [output EXCEPT ![c] =
       IF answer = NoAnswer THEN @
       ELSE Append(@, [answer |-> answer, format |-> handling[c].format])]
  /\ handling' = [handling EXCEPT ![c] = Idle]

(* handle_request on the store of project q.                               *)
Handled(c, q, recorded) ==
  LET call == <<c, handling[c].message.number>> IN
  IF recorded
    THEN /\ calls' = [calls EXCEPT ![q] = @ \cup {call}]
         /\ repeated' = (repeated \/ \E r \in Projects : call \in calls[r])
    ELSE UNCHANGED <<calls, repeated>>

HandleHere(c) ==
  /\ At(c, "read") /\ Kind(c) \in {"stdio", "local"}
  /\ \E end \in HandleRequest(handling[c].message) :
       Handled(c, Process(c), end.recorded) /\ Reply(c, end.answer)
  /\ UNCHANGED <<processes, input, sent, closed, faults>>

Forwards(c) == At(c, "read") /\ Kind(c) \in {"bridge", "proxy"}

(* A bridge answers a text that does not parse, a proxy hangs up.          *)
Refuse(c, answer, by) ==
  IF Kind(c) = "bridge"
    THEN Reply(c, answer) /\ UNCHANGED <<processes, closed>>
    ELSE /\ closed' = [closed EXCEPT ![c] = by]
         /\ handling' = [handling EXCEPT ![c] = Idle]
         /\ UNCHANGED <<processes, output>>

ForwardMalformed(c) ==
  /\ Forwards(c) /\ Malformed(handling[c].message)
  /\ Refuse(c, Answer(NoId, "parse error"), "malformed")
  /\ UNCHANGED <<input, sent, calls, repeated, faults>>

(* The post, and handle_mcp at whatever host listens there.                *)
Forward(c) ==
  LET m == handling[c].message IN
  /\ Forwards(c) /\ ~Malformed(m) /\ ~m.large
  /\ \E q \in Projects, end \in HandleRequest(m) :
       /\ Serves(q, Target(Process(c)))
       /\ Handled(c, q, end.recorded)
       /\ handling' = [handling EXCEPT ![c] =
            [stage |-> "answered", message |-> m, format |-> @.format, host |-> q,
             answer |-> end.answer]]
  /\ UNCHANGED <<processes, input, sent, output, closed, faults>>

(* An answer that is no JSON, or not a whole one: the error leaves the     *)
(* bridge, and with it the process; a proxy hangs up.                      *)
Breaks(c, by) ==
  IF Kind(c) = "bridge"
    THEN Ended(Process(c), by)
    ELSE /\ closed' = [closed EXCEPT ![c] = by]
         /\ handling' = [handling EXCEPT ![c] = Idle]
         /\ UNCHANGED <<phase, listening>>

(* axum refuses a body over its limit with a text.                         *)
ForwardTooLarge(c) ==
  /\ Forwards(c) /\ ~Malformed(handling[c].message) /\ handling[c].message.large
  /\ \E q \in Projects : Serves(q, Target(Process(c)))
  /\ Breaks(c, "large")
  /\ UNCHANGED <<launch, file, loaded, starts, input, sent, output, calls, repeated, faults>>

BridgeError(c) == Answer(handling[c].message.id, "bridge error")

(* Variant: nothing is answered. *)
ForwardFailsSilently(c) ==
  /\ Forwards(c) /\ ~Malformed(handling[c].message)
  /\ ~ \E q \in Projects : Serves(q, Target(Process(c)))
  /\ Refuse(c, NoAnswer, "host")
  /\ UNCHANGED <<input, sent, calls, repeated, faults>>

(* Nobody listens at the address.                                          *)
ForwardFails(c) ==
  /\ Forwards(c) /\ ~Malformed(handling[c].message)
  /\ ~ \E q \in Projects : Serves(q, Target(Process(c)))
  /\ Refuse(c, BridgeError(c), "host")
  /\ UNCHANGED <<input, sent, calls, repeated, faults>>

(* The host's answer: 204 says that there is none.                         *)
PassOn(c) ==
  /\ At(c, "answered")
  /\ Reply(c, handling[c].answer)
  /\ UNCHANGED <<processes, input, sent, closed, calls, repeated, faults>>

(* Variant: the request is posted again. *)
LoseAnswerRetry(c) ==
  /\ At(c, "answered")
  /\ phase[handling[c].host] = "ended"
  /\ handling' = [handling EXCEPT ![c].stage = "read"]
  /\ UNCHANGED <<processes, input, sent, output, closed, calls, repeated, faults>>

(* Variant: what is answered then looks like a tool's own error. *)
LoseAnswerToolError(c) ==
  /\ At(c, "answered")
  /\ phase[handling[c].host] = "ended"
  /\ Refuse(c, Answer(handling[c].message.id, "tool error"), "host")
  /\ UNCHANGED <<input, sent, calls, repeated, faults>>

(* The host ended before its answer was out.                               *)
LoseAnswer(c) ==
  /\ At(c, "answered")
  /\ phase[handling[c].host] = "ended"
  /\ Refuse(c, BridgeError(c), "host")
  /\ UNCHANGED <<input, sent, calls, repeated, faults>>

(* The host ended when the headers were out and the body was not.          *)
LoseBody(c) ==
  /\ At(c, "answered") /\ handling[c].answer # NoAnswer
  /\ phase[handling[c].host] = "ended"
  /\ Breaks(c, "host")
  /\ UNCHANGED <<launch, file, loaded, starts, input, sent, output, calls, repeated, faults>>

ChannelStep(c) ==
  \/ Read(c) \/ HandleHere(c) \/ ForwardMalformed(c) \/ Forward(c)
  \/ ForwardTooLarge(c) \/ ForwardFails(c) \/ PassOn(c)
  \/ LoseAnswer(c) \/ LoseBody(c)

ProcessStep(p) == Listen(p) \/ ListenFails(p)

Next ==
  \/ \E p \in Projects : Start(p) \/ ProcessStep(p) \/ End(p)
  \/ \E c \in Channels : Write(c) \/ ChannelStep(c)

Spec == Init /\ [][Next]_vars

(* The tasks of a running process run on, whatever the others do.          *)
FairSpec ==
  /\ Spec
  /\ \A c \in Channels : WF_vars(ChannelStep(c))
  /\ \A p \in Projects : WF_vars(ProcessStep(p))

-----------------------------------------------------------------------------
Outcomes == {"result", "tool error", "parse error", "no such method", "bridge error"}

TypeOK ==
  /\ phase \in [Projects -> {"off", "running", "ended"}]
  /\ listening \in [Projects -> {"no", "yes", "failed"}]
  /\ closed \in [Channels -> {"no", "process", "large", "malformed", "host"}]
  /\ repeated \in BOOLEAN
  /\ \A c \in Channels :
       /\ handling[c].stage \in {"idle", "read", "answered"}
       /\ \A i \in DOMAIN output[c] : output[c][i].answer.outcome \in Outcomes
  /\ \A p \in Projects : \A call \in calls[p] : call[1] \in Channels

(* An editor matches answers to requests by their ids: each answer has the *)
(* id and the framing of a request, no request has two, and they come in   *)
(* the order of the requests, through whatever transport.                  *)
AnswersFollowRequests ==
  \A c \in Channels : \A j \in DOMAIN output[c] :
    LET id == output[c][j].answer.id IN
    id # NoId =>
      /\ id \in DOMAIN sent[c]
      /\ sent[c][id].message.id = id
      /\ sent[c][id].format = output[c][j].format
      /\ \A i \in 1 .. j - 1 : output[c][i].answer.id < id

(* No call is carried out twice, whether its answer is lost or not: an     *)
(* edit reported once is recorded once.                                    *)
NoCallTwice == ~repeated

(* What an editor is told of a call that asks for one record is true, on   *)
(* whatever way it came and whichever host ended: after a result the       *)
(* record is in a store, and after a tool's own error it is in none, so    *)
(* that the call can be sent again. Only a bridge's error, or a channel    *)
(* that was closed, leaves it open (run_stdio_http_bridge tells the two    *)
(* apart).                                                                 *)
Recorded(c, n) == \E p \in Projects : <<c, n>> \in calls[p]
Verdict(c, n, outcome) ==
  /\ outcome = "result" => Recorded(c, n)
  /\ outcome = "tool error" => ~Recorded(c, n)
VerdictsAreTrue ==
  \A c \in Channels : \A i \in DOMAIN output[c] :
    LET a == output[c][i].answer IN
    a.id # NoId /\ AsksForRecord(sent[c][a.id].message) => Verdict(c, a.id, a.outcome)

(* A well-formed request gets an answer, be it an error, unless its        *)
(* channel is closed: bridges outlive hosts that are gone or never were.   *)
Answered(c, id) == \E i \in DOMAIN output[c] : output[c][i].answer.id = id
Settled ==
  \A c \in Channels : \A n \in DOMAIN sent[c] :
    WellFormedRequest(sent[c][n].message) => Answered(c, n) \/ closed[c] # "no"
RequestsAnswered == []<>Settled

(* A start reads from config.toml what the start before ran with, whether  *)
(* the first one found no file or one that does not parse: the template    *)
(* says what the defaults are.                                             *)
Starts(p) == phase[p] # "running" /\ phase'[p] = "running"
RestartKeepsSettings ==
  [][\A p \in Projects : Starts(p) =>
       \A key \in Keys \ {"session_id"} :
         Loaded(loaded'[p])[key] = Loaded(loaded[p])[key]]_vars

(* "chooses the correct project-local database" (docs/PROJECT.md:137):     *)
(* what is reported in the window of a project that hosts itself, is       *)
(* recorded in that project.                                               *)
CallsStayInProject ==
  \A p \in Projects : \A call \in calls[p] :
    RuntimeMode(Process(call[1])) = "client" \/ Process(call[1]) = p

=============================================================================
