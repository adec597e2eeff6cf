---------------------------- MODULE MachineRegistry ----------------------------
(***************************************************************************)
(* The host's list of machines (server/mod.rs): clients register and send  *)
(* heartbeats, the host notes when it last heard from each and takes a     *)
(* machine for offline when that is too long ago.  The list lives in the   *)
(* host's memory.  Time passes in seconds.                                 *)
(***************************************************************************)
EXTENDS Naturals, FiniteSets

CONSTANTS
  Clients,      \* the processes of clients, each with its heartbeat_loop
  MachineOf,    \* the name and address a process sends, as machine_key
                \* writes them: two processes of one machine have one key
  HostMachine,  \* the key of the host's own machine
  Beat,         \* HEARTBEAT_INTERVAL_SECS
  OfflineAfter, \* MACHINE_OFFLINE_AFTER_SECS
  MaxDelay,     \* seconds from a post to its answer
  MaxLosses,    \* heartbeats in a row that may be lost
  MaxFaults     \* bound

Machines == {HostMachine} \cup {MachineOf[c] : c \in Clients}

(* Room for MaxLosses + 2 posts and the sleeps between them.               *)
ASSUME RegistryAssumption ==
  /\ Beat \in Nat \ {0} /\ OfflineAfter \in Nat
  /\ MaxDelay \in Nat /\ MaxLosses \in Nat /\ MaxFaults \in Nat
  /\ (MaxLosses + 1) * (Beat + MaxDelay) + 2 * MaxDelay <= OfflineAfter

VARIABLES
  hostUp,      \* whether run_host runs
  machines,    \* its list: the role a machine gave and the seconds since
               \* its last_seen
  at,          \* where each heartbeat_loop is
  registered,  \* its variable of that name
  left,        \* seconds of its sleep that remain
  out,         \* seconds since it posted
  now,         \* seconds since upsert_machine read the clock for it
  missed,      \* history: its posts lost since this host last stored one,
               \* MaxLosses + 1 when there are more or none was stored
  quiet,       \* history: seconds since a machine last posted
  faults

vars == <<hostUp, machines, at, registered, left, out, now, missed, quiet, faults>>

Min2(a, b) == IF a < b THEN a ELSE b
Older(age) == Min2(age + 1, OfflineAfter + 1)
VeryQuiet == OfflineAfter + MaxDelay + 1

HostEntry == [role |-> "host", age |-> 0]
NoMachines == [m \in {} |-> HostEntry]
UnderWay == {"posted", "timed", "stored"}
Fault == faults < MaxFaults /\ faults' = faults + 1

Init ==
  /\ hostUp = FALSE
  /\ machines = NoMachines
  /\ at = [c \in Clients |-> "due"]
  /\ registered = [c \in Clients |-> FALSE]
  /\ left = [c \in Clients |-> 0]
  /\ out = [c \in Clients |-> 0]
  /\ now = [c \in Clients |-> 0]
  /\ missed = [c \in Clients |-> MaxLosses + 1]
  /\ quiet = [m \in Machines |-> VeryQuiet]
  /\ faults = 0

-----------------------------------------------------------------------------
(* run_host: an empty list in which it enters itself, once.                *)
StartHost ==
  /\ ~hostUp
  /\ hostUp' = TRUE
  /\ machines' = [m \in {HostMachine} |-> HostEntry]
  /\ UNCHANGED <<at, registered, left, out, now, missed, quiet, faults>>

(* heartbeat_loop posts, to the endpoint for registering or to the one for *)
(* heartbeats: the host does the same for both.                            *)
Post(c) ==
  /\ at[c] = "due"
  /\ at' = [at EXCEPT ![c] = "posted"]
  /\ out' = [out EXCEPT ![c] = 0]
  /\ quiet' = [quiet EXCEPT ![MachineOf[c]] = 0]
  /\ UNCHANGED <<hostUp, machines, registered, left, now, missed, faults>>

(* What a post puts into the list.                                         *)
Entry(c) == [role |-> "client", age |-> now[c]]

(* Variant: an entry that is there keeps its last_seen.                    *)
UpsertNew(c) ==
  /\ at[c] = "timed" /\ hostUp
  /\ at' = [at EXCEPT ![c] = "stored"]
  /\ machines' = [m \in DOMAIN machines \cup {MachineOf[c]} |->
                    IF m \in DOMAIN machines THEN machines[m] ELSE Entry(c)]
  /\ now' = [now EXCEPT ![c] = 0]
  /\ missed' = [missed EXCEPT ![c] = 0]
  /\ UNCHANGED <<hostUp, registered, left, out, quiet, faults>>

(* Variant: a heartbeat refreshes an entry and does not make one.          *)
UpsertKnown(c) ==
  /\ at[c] = "timed" /\ hostUp
  /\ at' = [at EXCEPT ![c] = "stored"]
  /\ machines' = [m \in DOMAIN machines \cup
                           (IF registered[c] THEN {} ELSE {MachineOf[c]}) |->
                    IF m = MachineOf[c] THEN Entry(c) ELSE machines[m]]
  /\ now' = [now EXCEPT ![c] = 0]
  /\ missed' = [missed EXCEPT ![c] = 0]
  /\ UNCHANGED <<hostUp, registered, left, out, quiet, faults>>

(* upsert_machine: first the time, then the lock and the entry.            *)
ReadClock(c) ==
  /\ at[c] = "posted" /\ hostUp
  /\ at' = [at EXCEPT ![c] = "timed"]
  /\ now' = [now EXCEPT ![c] = 0]
  /\ UNCHANGED <<hostUp, machines, registered, left, out, missed, quiet, faults>>

Upsert(c) ==
  /\ at[c] = "timed" /\ hostUp
  /\ at' = [at EXCEPT ![c] = "stored"]
  /\ machines' = [m \in DOMAIN machines \cup {MachineOf[c]} |->
                    IF m = MachineOf[c] THEN Entry(c) ELSE machines[m]]
  /\ now' = [now EXCEPT ![c] = 0]
  /\ missed' = [missed EXCEPT ![c] = 0]
  /\ UNCHANGED <<hostUp, registered, left, out, quiet, faults>>

(* Variant: after a failure the loop sleeps twice as long.                 *)
SleepLonger(c, success) ==
  /\ at' = [at EXCEPT ![c] = "asleep"]
  /\ registered' = [registered EXCEPT ![c] = success]
  /\ left' = [left EXCEPT ![c] = IF success THEN Beat ELSE 2 * Beat]
  /\ out' = [out EXCEPT ![c] = 0]
  /\ now' = [now EXCEPT ![c] = 0]

Sleep(c, success) ==
  /\ at' = [at EXCEPT ![c] = "asleep"]
  /\ registered' = [registered EXCEPT ![c] = success]
  /\ left' = [left EXCEPT ![c] = Beat]
  /\ out' = [out EXCEPT ![c] = 0]
  /\ now' = [now EXCEPT ![c] = 0]

Answered(c) ==
  /\ at[c] = "stored" /\ hostUp
  /\ Sleep(c, TRUE)
  /\ UNCHANGED <<hostUp, machines, missed, quiet, faults>>

(* No connection, an answer that is not a success, or none: the loop       *)
(* sleeps as after a success, and registers again. The host may have       *)
(* stored the post before it is lost; that it stores one after the client  *)
(* has given it up is left out.                                            *)
Failed(c) ==
  /\ \/ at[c] = "lost" /\ UNCHANGED faults
     \/ at[c] = "posted" /\ ~hostUp /\ UNCHANGED faults
     \/ at[c] \in UnderWay /\ hostUp /\ Fault
  /\ Sleep(c, FALSE)
  /\ missed' = [missed EXCEPT ![c] = Min2(@ + 1, MaxLosses + 1)]
  /\ UNCHANGED <<hostUp, machines, quiet>>

(* The host's process ends, and with it its list and what it was handling. *)
StopHost ==
  /\ hostUp /\ Fault
  /\ hostUp' = FALSE
  /\ machines' = NoMachines
  /\ at' = [c \in Clients |-> IF at[c] \in UnderWay THEN "lost" ELSE at[c]]
  /\ now' = [c \in Clients |-> 0]
  /\ missed' = [c \in Clients |-> MaxLosses + 1]
  /\ UNCHANGED <<registered, left, out, quiet>>

(* A client's window closes, and opens again.                              *)
StopClient(c) ==
  /\ at[c] # "stopped" /\ Fault
  /\ at' = [at EXCEPT ![c] = "stopped"]
  /\ registered' = [registered EXCEPT ![c] = FALSE]
  /\ left' = [left EXCEPT ![c] = 0]
  /\ out' = [out EXCEPT ![c] = 0]
  /\ now' = [now EXCEPT ![c] = 0]
  /\ missed' = [missed EXCEPT ![c] = MaxLosses + 1]
  /\ UNCHANGED <<hostUp, machines, quiet>>

StartClient(c) ==
  /\ at[c] = "stopped"
  /\ at' = [at EXCEPT ![c] = "due"]
  /\ UNCHANGED <<hostUp, machines, registered, left, out, now, missed, quiet, faults>>

(* A second passes: not while a loop is to post, nor when the answer of a  *)
(* post is due.                                                            *)
Tick ==
  /\ \A c \in Clients :
       /\ at[c] # "due"
       /\ at[c] \in UnderWay \cup {"lost"} => out[c] < MaxDelay
  /\ machines' = [m \in DOMAIN machines |->
                    [machines[m] EXCEPT !.age = Older(@)]]
  /\ at' = [c \in Clients |->
              IF at[c] = "asleep" /\ left[c] = 1 THEN "due" ELSE at[c]]
  /\ left' = [c \in Clients |-> IF at[c] = "asleep" THEN left[c] - 1 ELSE left[c]]
  /\ out' = [c \in Clients |->
               IF at[c] \in UnderWay \cup {"lost"} THEN out[c] + 1 ELSE out[c]]
  /\ now' = [c \in Clients |-> IF at[c] = "timed" THEN now[c] + 1 ELSE now[c]]
  /\ quiet' = [m \in Machines |-> Min2(quiet[m] + 1, VeryQuiet)]
  /\ UNCHANGED <<hostUp, registered, missed, faults>>

ClientStep(c) ==
  Post(c) \/ ReadClock(c) \/ Upsert(c) \/ Answered(c) \/ Failed(c)

Next ==
  \/ StartHost \/ StopHost \/ Tick
  \/ \E c \in Clients : ClientStep(c) \/ StopClient(c) \/ StartClient(c)

Spec == Init /\ [][Next]_vars

(* Editors start a host again, the loops go on, posts end and time passes. *)
FairSpec ==
  /\ Spec
  /\ WF_vars(StartHost) /\ WF_vars(Tick)
  /\ \A c \in Clients : WF_vars(ClientStep(c))

-----------------------------------------------------------------------------
(* The entry of the host itself.                                           *)
IsHostsOwn(m) == machines[m].role = "host" /\ m = HostMachine
(* Variant: what is listed is online.                                      *)
OnlineOnceListed(m) == m \in DOMAIN machines

(* machine_is_online and machine_snapshots: what /api/status shows.        *)
Online(m) == IsHostsOwn(m) \/ machines[m].age <= OfflineAfter
OnlineMachines == {m \in DOMAIN machines : Online(m)}

-----------------------------------------------------------------------------
TypeOK ==
  /\ hostUp \in BOOLEAN
  /\ DOMAIN machines \subseteq Machines
  /\ machines \in [DOMAIN machines ->
                     [role : {"host", "client"}, age : 0..OfflineAfter + 1]]
  /\ at \in [Clients -> UnderWay \cup {"due", "lost", "asleep", "stopped"}]
  /\ registered \in [Clients -> BOOLEAN]
  /\ left \in [Clients -> 0..Beat]
  /\ out \in [Clients -> 0..MaxDelay] /\ now \in [Clients -> 0..MaxDelay]
  /\ missed \in [Clients -> 0..MaxLosses + 1]
  /\ quiet \in [Machines -> 0..VeryQuiet]
  /\ faults \in 0..MaxFaults

(* While a client keeps its schedule and no more than MaxLosses of its     *)
(* posts in a row are lost, its machine is never shown offline: the two    *)
(* constants 3 and 10 leave room for that, whatever the posts' delays, and *)
(* even when another process of the machine stores an older time.          *)
SteadyMachineOnline ==
  \A c \in Clients :
    hostUp /\ missed[c] <= MaxLosses => MachineOf[c] \in OnlineMachines

(* Another machine than the host's is shown online only if a process of it *)
(* posted lately: when its last window closes, or the network is cut, it   *)
(* goes offline by itself, whatever late posts and restarts do to the list.*)
OnlineMeansHeard ==
  \A m \in OnlineMachines \ {HostMachine} : quiet[m] <= OfflineAfter + MaxDelay

(* "The host server is answering this request right now, so its own        *)
(* machine entry should never be shown as offline" (machine_is_online,     *)
(* server/mod.rs:347-349).                                                 *)
HostShownOnline == hostUp => HostMachine \in OnlineMachines

(* A host that comes back with an empty list, or a client that was cut off,*)
(* finds its way: in the end every running client's machine is online,     *)
(* although a client that noticed nothing does not register again.         *)
ClientsReturn ==
  <>[](\A c \in Clients : at[c] # "stopped" => MachineOf[c] \in OnlineMachines)

=============================================================================
