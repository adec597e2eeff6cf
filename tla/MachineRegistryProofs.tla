------------------------ MODULE MachineRegistryProofs ------------------------
(***************************************************************************)
(* Proofs about MachineRegistry, for any clients, machines and intervals   *)
(* that leave the room of RegistryAssumption.                              *)
(*                                                                         *)
(* A machine's entry is never older than the last post of any client of    *)
(* that machine which was stored, and MaxDelay more: another client of the *)
(* machine may store the time it had read before (SteadyInv).              *)
(***************************************************************************)
EXTENDS MachineRegistry, TLAPS

-----------------------------------------------------------------------------
Period == Beat + MaxDelay
(* The time k losses take.                                                 *)
Lost(k) == k * Period

(* Each loop's variables go with its place.                                *)
LoopOK ==
  \A c \in Clients :
    /\ at[c] = "asleep" => left[c] \in 1..Beat
    /\ at[c] = "timed" => now[c] <= out[c]
    /\ at[c] = "stopped" => missed[c] = MaxLosses + 1
    /\ ~hostUp => missed[c] = MaxLosses + 1

(* At most so many seconds have passed since a post of c was stored.       *)
Since(c) ==
  CASE at[c] = "stored" -> out[c]
    [] at[c] = "asleep" -> Lost(missed[c]) + MaxDelay + (Beat - left[c])
    [] at[c] = "due" -> Lost(missed[c]) + Period
    [] OTHER -> Lost(missed[c]) + Period + out[c]

SteadyInv ==
  \A c \in Clients : hostUp /\ missed[c] <= MaxLosses =>
    /\ MachineOf[c] \in DOMAIN machines
    /\ machines[MachineOf[c]].age <= MaxDelay + Since(c)

(* A machine that was quiet for long has an old entry, but for what was    *)
(* posted and is not stored yet.                                           *)
HeardInv ==
  /\ \A m \in DOMAIN machines :
       IsHostsOwn(m) \/ quiet[m] <= machines[m].age + MaxDelay
  /\ \A c \in Clients : at[c] \in UnderWay => quiet[MachineOf[c]] <= out[c]

RegistryInv == TypeOK /\ LoopOK /\ SteadyInv /\ HeardInv

Places == UnderWay \cup {"due", "lost", "asleep", "stopped"}
Entries == [role : {"host", "client"}, age : 0..OfflineAfter + 1]

-----------------------------------------------------------------------------
LEMMA Numbers ==
  /\ Beat \in Nat /\ Beat > 0 /\ OfflineAfter \in Nat /\ MaxDelay \in Nat
  /\ MaxLosses \in Nat /\ MaxFaults \in Nat /\ Period \in Nat
  /\ MaxDelay <= OfflineAfter
<1>1. /\ Beat \in Nat /\ Beat > 0 /\ OfflineAfter \in Nat /\ MaxDelay \in Nat
      /\ MaxLosses \in Nat /\ MaxFaults \in Nat /\ Period \in Nat
  BY RegistryAssumption DEF Period
<1>2. (MaxLosses + 1) * (Beat + MaxDelay) \in Nat
  BY <1>1
<1>3. QED
  BY <1>1, <1>2, RegistryAssumption

LEMMA LostFacts ==
  ASSUME NEW k \in Nat
  PROVE  /\ Lost(k) \in Nat
         /\ Lost(k + 1) = Lost(k) + Period
<1>1. Period \in Nat
  BY Numbers
<1>2. QED
  BY <1>1 DEF Lost

LEMMA LostBound ==
  ASSUME NEW k \in Nat, k <= MaxLosses
  PROVE  Lost(k) + Period + 2 * MaxDelay <= OfflineAfter
<1> DEFINE rest == MaxLosses - k
<1>1. /\ Period \in Nat /\ MaxLosses \in Nat /\ MaxDelay \in Nat
      /\ OfflineAfter \in Nat
  BY Numbers
<1>2. rest \in Nat
  BY <1>1
<1>3. rest * Period \in Nat
  BY <1>1, <1>2
<1>4. (MaxLosses + 1) * Period = k * Period + rest * Period + Period
  BY <1>1
<1>5. (MaxLosses + 1) * Period + 2 * MaxDelay <= OfflineAfter
  BY RegistryAssumption DEF Period
<1>6. k * Period \in Nat
  BY <1>1
<1>7. QED
  BY <1>1, <1>3, <1>4, <1>5, <1>6 DEF Lost

LEMMA MachineKnown ==
  ASSUME NEW c \in Clients PROVE MachineOf[c] \in Machines
BY DEF Machines

LEMMA SinceNat ==
  ASSUME TypeOK, LoopOK, NEW c \in Clients
  PROVE  Since(c) \in Nat
<1>1. missed[c] \in Nat /\ out[c] \in Nat /\ left[c] \in Nat
  BY Numbers DEF TypeOK
<1>2. Lost(missed[c]) \in Nat
  BY <1>1, LostFacts
<1>3. at[c] = "asleep" => left[c] <= Beat
  BY Numbers DEF LoopOK
<1>4. QED
  BY <1>1, <1>2, <1>3, Numbers DEF Since

-----------------------------------------------------------------------------
LEMMA InitRegistry == Init => RegistryInv
<1> SUFFICES ASSUME Init PROVE RegistryInv
  OBVIOUS
<1>1. TypeOK
  <2>1. DOMAIN machines = {} /\ machines \in [DOMAIN machines -> Entries]
    BY DEF Init, NoMachines
  <2>2. at \in [Clients -> Places] /\ faults \in 0..MaxFaults
    BY Numbers DEF Init, Places
  <2>5. hostUp \in BOOLEAN /\ registered \in [Clients -> BOOLEAN]
    BY Zenon DEF Init
  <2>3. /\ left \in [Clients -> 0..Beat] /\ out \in [Clients -> 0..MaxDelay]
        /\ now \in [Clients -> 0..MaxDelay]
        /\ missed \in [Clients -> 0..MaxLosses + 1]
    BY Numbers DEF Init
  <2>4. quiet \in [Machines -> 0..VeryQuiet]
    BY Numbers DEF Init, VeryQuiet
  <2>6. QED
    BY <2>1, <2>2, <2>3, <2>4, <2>5 DEF TypeOK, Entries, Places
<1>2. LoopOK
  BY DEF Init, LoopOK
<1>3. SteadyInv
  BY DEF Init, SteadyInv
<1>4. HeardInv
  BY DEF Init, HeardInv, NoMachines, UnderWay
<1>5. QED
  BY <1>1, <1>2, <1>3, <1>4 DEF RegistryInv

LEMMA StartHostKeeps == ASSUME RegistryInv, StartHost PROVE RegistryInv'
<1> USE DEF RegistryInv, StartHost
<1>1. TypeOK'
  BY Numbers DEF TypeOK, HostEntry, Machines
<1>2. LoopOK'
  BY DEF LoopOK
<1>3. SteadyInv'
  BY Numbers DEF SteadyInv, LoopOK
<1>4. HeardInv'
  BY DEF HeardInv, HostEntry, IsHostsOwn
<1>5. QED
  BY <1>1, <1>2, <1>3, <1>4

LEMMA PostKeeps ==
  ASSUME RegistryInv, NEW d \in Clients, Post(d)
  PROVE  RegistryInv'
<1> USE DEF RegistryInv
<1>1. TypeOK'
  BY Numbers, MachineKnown DEF TypeOK, Post, UnderWay, VeryQuiet
<1>2. LoopOK'
  BY DEF LoopOK, Post, TypeOK
<1>3. SteadyInv'
  <2> SUFFICES ASSUME NEW c \in Clients, hostUp, missed[c] <= MaxLosses
               PROVE  /\ MachineOf[c] \in DOMAIN machines
                      /\ machines[MachineOf[c]].age <= MaxDelay + Since(c)'
    BY DEF SteadyInv, Post
  <2>1. Since(c)' = Since(c)
    <3>1. CASE c = d
      <4>1. Lost(missed[c]) \in Nat
        BY LostFacts, Numbers DEF TypeOK
      <4>2. at[c] = "due" /\ at'[c] = "posted" /\ out'[c] = 0 /\ missed' = missed
        BY <3>1 DEF Post, TypeOK
      <4>3. QED
        BY <4>1, <4>2, Numbers DEF Since
    <3>2. CASE c # d
      BY <3>2 DEF Since, Post, TypeOK
    <3>3. QED
      BY <3>1, <3>2
  <2>2. QED
    BY <2>1 DEF SteadyInv
<1>4. HeardInv'
  <2>1. \A m \in Machines : quiet'[m] = quiet[m] \/ quiet'[m] = 0
    BY DEF Post, TypeOK
  <2>2. \A m \in DOMAIN machines : machines[m].age \in Nat /\ quiet[m] \in Nat
    BY Numbers DEF TypeOK, VeryQuiet
  <2>3. ASSUME NEW m \in DOMAIN machines
        PROVE  IsHostsOwn(m)' \/ quiet'[m] <= machines'[m].age + MaxDelay
    BY <2>1, <2>2, Numbers DEF HeardInv, Post, IsHostsOwn, TypeOK
  <2>4. ASSUME NEW c \in Clients, at'[c] \in UnderWay
        PROVE  quiet'[MachineOf[c]] <= out'[c]
    <3>1. MachineOf[c] \in Machines /\ out[c] \in Nat
      BY MachineKnown, Numbers DEF TypeOK
    <3>2. CASE c = d
      BY <3>1, <3>2, <2>1 DEF Post, TypeOK
    <3>3. CASE c # d
      BY <2>4, <3>1, <3>3, <2>1 DEF Post, TypeOK, HeardInv
    <3>4. QED
      BY <3>2, <3>3
  <2>5. QED
    BY <2>3, <2>4 DEF HeardInv, Post
<1>5. QED
  BY <1>1, <1>2, <1>3, <1>4

LEMMA ReadClockKeeps ==
  ASSUME RegistryInv, NEW d \in Clients, ReadClock(d)
  PROVE  RegistryInv'
<1> USE DEF RegistryInv
<1>1. TypeOK'
  BY Numbers DEF TypeOK, ReadClock, UnderWay
<1>2. LoopOK'
  BY Numbers DEF LoopOK, ReadClock, TypeOK
<1>3. SteadyInv'
  <2>1. \A c \in Clients : Since(c)' = Since(c)
    BY DEF Since, ReadClock, TypeOK
  <2>2. QED
    BY <2>1 DEF SteadyInv, ReadClock
<1>4. HeardInv'
  BY DEF HeardInv, ReadClock, IsHostsOwn, UnderWay, TypeOK
<1>5. QED
  BY <1>1, <1>2, <1>3, <1>4

LEMMA UpsertKeeps ==
  ASSUME RegistryInv, NEW d \in Clients, Upsert(d)
  PROVE  RegistryInv'
<1> USE DEF RegistryInv
<1> DEFINE m == MachineOf[d]
<1>1. /\ now[d] \in Nat /\ out[d] \in Nat
      /\ now[d] <= out[d] /\ out[d] <= MaxDelay
  BY Numbers DEF TypeOK, LoopOK, Upsert
<1>2. Entry(d) \in Entries /\ Entry(d).age = now[d] /\ Entry(d).role = "client"
  BY <1>1, Numbers DEF Entry, Entries
<1>3. /\ DOMAIN machines' = DOMAIN machines \cup {m}
      /\ machines'[m] = Entry(d)
      /\ \A n \in DOMAIN machines \ {m} : machines'[n] = machines[n]
  BY DEF Upsert
<1>4. TypeOK'
  <2>1. machines' \in [DOMAIN machines' -> Entries]
    BY <1>2 DEF Upsert, TypeOK, Entries
  <2>2. DOMAIN machines' \subseteq Machines
    BY <1>3, MachineKnown DEF TypeOK
  <2>3. QED
    BY <2>1, <2>2, Numbers DEF TypeOK, Upsert, UnderWay, Entries
<1>5. LoopOK'
  BY DEF LoopOK, Upsert, TypeOK
<1>6. SteadyInv'
  <2> SUFFICES ASSUME NEW c \in Clients, missed'[c] <= MaxLosses
               PROVE  /\ MachineOf[c] \in DOMAIN machines'
                      /\ machines'[MachineOf[c]].age <= MaxDelay + Since(c)'
    BY DEF SteadyInv
  <2>1. Since(c)' \in Nat
    <3>1. missed'[c] \in Nat /\ out'[c] \in Nat /\ left'[c] \in 0..Beat
      BY <1>4, Numbers DEF TypeOK
    <3>2. Lost(missed'[c]) \in Nat
      BY <3>1, LostFacts
    <3>3. QED
      BY <3>1, <3>2, Numbers DEF Since
  <2>2. CASE MachineOf[c] = m
    BY <2>1, <2>2, <1>1, <1>2, <1>3, Numbers
  <2>3. CASE MachineOf[c] # m
    <3>1. c # d
      BY <2>3
    <3>2. Since(c)' = Since(c) /\ missed'[c] = missed[c] /\ hostUp
      BY <3>1 DEF Since, Upsert, TypeOK
    <3>3. QED
      BY <2>3, <3>2, <1>3 DEF SteadyInv
  <2>4. QED
    BY <2>2, <2>3
<1>7. HeardInv'
  <2>1. quiet[m] \in Nat /\ quiet[m] <= out[d]
    BY MachineKnown, Numbers DEF HeardInv, Upsert, UnderWay, TypeOK, VeryQuiet
  <2>2. ASSUME NEW n \in DOMAIN machines'
        PROVE  IsHostsOwn(n)' \/ quiet'[n] <= machines'[n].age + MaxDelay
    <3>1. CASE n = m
      BY <3>1, <2>1, <1>1, <1>2, <1>3, Numbers DEF Upsert
    <3>2. CASE n # m
      BY <3>2, <2>2, <1>3 DEF HeardInv, IsHostsOwn, Upsert
    <3>3. QED
      BY <3>1, <3>2
  <2>3. \A c \in Clients : at'[c] \in UnderWay => quiet'[MachineOf[c]] <= out'[c]
    BY DEF HeardInv, Upsert, UnderWay, TypeOK
  <2>4. QED
    BY <2>2, <2>3 DEF HeardInv
<1>8. QED
  BY <1>4, <1>5, <1>6, <1>7

(* What an answer and a failure have in common.                            *)
LEMMA SleepFacts ==
  ASSUME TypeOK, NEW d \in Clients, NEW success \in BOOLEAN, Sleep(d, success)
  PROVE  /\ at'[d] = "asleep" /\ left'[d] = Beat /\ out'[d] = 0
         /\ \A c \in Clients \ {d} : /\ at'[c] = at[c] /\ left'[c] = left[c]
                                     /\ out'[c] = out[c] /\ now'[c] = now[c]
         /\ at' \in [Clients -> Places]
         /\ registered' \in [Clients -> BOOLEAN]
         /\ left' \in [Clients -> 0..Beat]
         /\ out' \in [Clients -> 0..MaxDelay] /\ now' \in [Clients -> 0..MaxDelay]
BY Numbers DEF Sleep, TypeOK, Places

LEMMA AnsweredKeeps ==
  ASSUME RegistryInv, NEW d \in Clients, Answered(d)
  PROVE  RegistryInv'
<1> USE DEF RegistryInv
<1>1. /\ at'[d] = "asleep" /\ left'[d] = Beat /\ out'[d] = 0
      /\ \A c \in Clients \ {d} : /\ at'[c] = at[c] /\ left'[c] = left[c]
                                  /\ out'[c] = out[c] /\ now'[c] = now[c]
      /\ at' \in [Clients -> Places]
      /\ registered' \in [Clients -> BOOLEAN]
      /\ left' \in [Clients -> 0..Beat]
      /\ out' \in [Clients -> 0..MaxDelay] /\ now' \in [Clients -> 0..MaxDelay]
  BY SleepFacts DEF Answered
<1>2. at[d] = "stored" /\ UNCHANGED <<hostUp, machines, missed, quiet, faults>>
  BY DEF Answered
<1>3. TypeOK'
  BY <1>1, <1>2 DEF TypeOK, Places
<1>4. LoopOK'
  BY <1>1, <1>2, Numbers DEF LoopOK
<1>5. SteadyInv'
  <2> SUFFICES ASSUME NEW c \in Clients, hostUp, missed[c] <= MaxLosses
               PROVE  /\ MachineOf[c] \in DOMAIN machines
                      /\ machines[MachineOf[c]].age <= MaxDelay + Since(c)'
    BY <1>2 DEF SteadyInv
  <2>1. /\ MachineOf[c] \in DOMAIN machines
        /\ machines[MachineOf[c]].age <= MaxDelay + Since(c)
        /\ machines[MachineOf[c]].age \in Nat
    BY Numbers DEF SteadyInv, TypeOK
  <2>2. CASE c = d
    <3>1. Since(c) = out[c] /\ out[c] \in Nat /\ out[c] <= MaxDelay
      BY <2>2, <1>2, Numbers DEF Since, TypeOK
    <3>2. Lost(missed[c]) \in Nat
      BY LostFacts, Numbers DEF TypeOK
    <3>3. Since(c)' = Lost(missed[c]) + MaxDelay + (Beat - Beat)
      BY <2>2, <1>1, <1>2 DEF Since
    <3>4. QED
      BY <2>1, <3>1, <3>2, <3>3, Numbers
  <2>3. CASE c # d
    <3>1. Since(c)' = Since(c)
      BY <2>3, <1>1, <1>2 DEF Since
    <3>2. QED
      BY <2>1, <3>1
  <2>4. QED
    BY <2>2, <2>3
<1>6. HeardInv'
  BY <1>1, <1>2 DEF HeardInv, IsHostsOwn, UnderWay
<1>7. QED
  BY <1>3, <1>4, <1>5, <1>6

LEMMA FailedKeeps ==
  ASSUME RegistryInv, NEW d \in Clients, Failed(d)
  PROVE  RegistryInv'
<1> USE DEF RegistryInv
<1>1. /\ at'[d] = "asleep" /\ left'[d] = Beat /\ out'[d] = 0
      /\ \A c \in Clients \ {d} : /\ at'[c] = at[c] /\ left'[c] = left[c]
                                  /\ out'[c] = out[c] /\ now'[c] = now[c]
      /\ at' \in [Clients -> Places]
      /\ registered' \in [Clients -> BOOLEAN]
      /\ left' \in [Clients -> 0..Beat]
      /\ out' \in [Clients -> 0..MaxDelay] /\ now' \in [Clients -> 0..MaxDelay]
  BY SleepFacts DEF Failed
<1>2. /\ at[d] \in UnderWay \cup {"lost"}
      /\ UNCHANGED <<hostUp, machines, quiet>>
      /\ faults' \in 0..MaxFaults
  BY Numbers DEF Failed, Fault, TypeOK, UnderWay
<1>3. /\ missed' \in [Clients -> 0..MaxLosses + 1]
      /\ \A c \in Clients \ {d} : missed'[c] = missed[c]
      /\ missed'[d] = Min2(missed[d] + 1, MaxLosses + 1)
      /\ missed[d] \in 0..MaxLosses + 1
  BY Numbers DEF Failed, TypeOK, Min2
<1>4. TypeOK'
  BY <1>1, <1>2, <1>3 DEF TypeOK, Places
<1>5. LoopOK'
  BY <1>1, <1>2, <1>3, Numbers DEF LoopOK, Min2
<1>6. SteadyInv'
  <2> SUFFICES ASSUME NEW c \in Clients, hostUp, missed'[c] <= MaxLosses
               PROVE  /\ MachineOf[c] \in DOMAIN machines
                      /\ machines[MachineOf[c]].age <= MaxDelay + Since(c)'
    BY <1>2 DEF SteadyInv
  <2>1. missed[c] <= MaxLosses
    BY <1>3, Numbers DEF Min2
  <2>2. /\ MachineOf[c] \in DOMAIN machines
        /\ machines[MachineOf[c]].age <= MaxDelay + Since(c)
        /\ machines[MachineOf[c]].age \in Nat
    BY <2>1, Numbers DEF SteadyInv, TypeOK
  <2>3. CASE c = d
    <3>1. missed'[c] = missed[c] + 1 /\ missed[c] \in Nat
      BY <2>3, <1>3, Numbers DEF Min2
    <3>2. Lost(missed[c]) \in Nat /\ Lost(missed'[c]) = Lost(missed[c]) + Period
      BY <3>1, LostFacts
    <3>3. out[c] \in Nat /\ out[c] <= MaxDelay
      BY Numbers DEF TypeOK
    <3>4. Since(c) = out[c] \/ Since(c) = Lost(missed[c]) + Period + out[c]
      BY <2>3, <1>2 DEF Since, UnderWay
    <3>5. Since(c)' = Lost(missed'[c]) + MaxDelay + (Beat - Beat)
      BY <2>3, <1>1 DEF Since
    <3>6. QED
      BY <2>2, <3>2, <3>3, <3>4, <3>5, Numbers
  <2>4. CASE c # d
    <3>1. Since(c)' = Since(c)
      BY <2>4, <1>1, <1>3 DEF Since
    <3>2. QED
      BY <2>2, <3>1
  <2>5. QED
    BY <2>3, <2>4
<1>7. HeardInv'
  BY <1>1, <1>2 DEF HeardInv, IsHostsOwn, UnderWay
<1>8. QED
  BY <1>4, <1>5, <1>6, <1>7

LEMMA StopHostKeeps == ASSUME RegistryInv, StopHost PROVE RegistryInv'
<1> USE DEF RegistryInv, StopHost
<1>1. TypeOK'
  <2>1. at' \in [Clients -> Places]
    BY DEF TypeOK, Places, UnderWay
  <2>2. now' \in [Clients -> 0..MaxDelay] /\ missed' \in [Clients -> 0..MaxLosses + 1]
    BY Numbers
  <2>3. DOMAIN machines' = {} /\ machines' \in [DOMAIN machines' -> Entries]
    BY DEF NoMachines
  <2>4. faults' \in 0..MaxFaults
    BY Numbers DEF Fault, TypeOK
  <2>5. QED
    BY <2>1, <2>2, <2>3, <2>4 DEF TypeOK, Places, Entries
<1>2. LoopOK'
  BY DEF LoopOK, UnderWay, TypeOK
<1>3. SteadyInv'
  BY DEF SteadyInv
<1>4. HeardInv'
  <2>1. DOMAIN machines' = {}
    BY DEF NoMachines
  <2>2. \A c \in Clients : at'[c] \notin UnderWay
    BY DEF UnderWay
  <2>3. QED
    BY <2>1, <2>2 DEF HeardInv
<1>5. QED
  BY <1>1, <1>2, <1>3, <1>4

LEMMA StopClientKeeps ==
  ASSUME RegistryInv, NEW d \in Clients, StopClient(d)
  PROVE  RegistryInv'
<1> USE DEF RegistryInv
<1>1. TypeOK'
  BY Numbers DEF TypeOK, StopClient, Fault
<1>2. LoopOK'
  BY Numbers DEF LoopOK, StopClient, TypeOK
<1>3. SteadyInv'
  <2>1. ASSUME NEW c \in Clients, missed'[c] <= MaxLosses
        PROVE  c # d /\ missed'[c] = missed[c] /\ Since(c)' = Since(c)
    BY <2>1, Numbers DEF StopClient, TypeOK, Since
  <2>2. QED
    BY <2>1 DEF SteadyInv, StopClient
<1>4. HeardInv'
  BY DEF HeardInv, StopClient, IsHostsOwn, UnderWay, TypeOK
<1>5. QED
  BY <1>1, <1>2, <1>3, <1>4

LEMMA StartClientKeeps ==
  ASSUME RegistryInv, NEW d \in Clients, StartClient(d)
  PROVE  RegistryInv'
<1> USE DEF RegistryInv
<1>1. TypeOK'
  BY DEF TypeOK, StartClient
<1>2. LoopOK'
  BY DEF LoopOK, StartClient, TypeOK
<1>3. SteadyInv'
  <2>1. missed[d] = MaxLosses + 1
    BY DEF LoopOK, StartClient
  <2>2. ASSUME NEW c \in Clients, missed[c] <= MaxLosses
        PROVE  Since(c)' = Since(c)
    BY <2>1, <2>2, Numbers DEF StartClient, TypeOK, Since
  <2>3. QED
    BY <2>2 DEF SteadyInv, StartClient
<1>4. HeardInv'
  BY DEF HeardInv, StartClient, IsHostsOwn, UnderWay, TypeOK
<1>5. QED
  BY <1>1, <1>2, <1>3, <1>4

LEMMA MinFacts ==
  ASSUME NEW a \in Nat, NEW b \in Nat
  PROVE  Min2(a, b) \in Nat /\ Min2(a, b) <= a /\ Min2(a, b) <= b
BY DEF Min2

(* A second later an entry is a second older, or as old as it gets.        *)
LEMMA Ages ==
  ASSUME TypeOK, Tick, NEW m \in DOMAIN machines
  PROVE  /\ machines'[m] \in Entries /\ machines'[m].role = machines[m].role
         /\ machines[m].age \in Nat /\ machines'[m].age \in Nat
         /\ machines'[m].age = machines[m].age + 1
              \/ machines'[m].age = OfflineAfter + 1
         /\ machines'[m].age <= machines[m].age + 1
<1>1. machines[m] \in Entries
  BY DEF TypeOK, Entries
<1>2. machines'[m] = [machines[m] EXCEPT !.age = Older(@)]
  BY DEF Tick
<1>3. machines[m].age \in Nat
  BY <1>1, Numbers DEF Entries
<1>4. /\ Older(machines[m].age) \in 0..OfflineAfter + 1
      /\ Older(machines[m].age) = machines[m].age + 1
           \/ Older(machines[m].age) = OfflineAfter + 1
      /\ Older(machines[m].age) <= machines[m].age + 1
  BY <1>3, Numbers DEF Older, Min2
<1>5. /\ machines'[m].age = Older(machines[m].age)
      /\ machines'[m].role = machines[m].role
      /\ machines'[m] \in Entries
  BY <1>1, <1>2, <1>4 DEF Entries
<1>6. QED
  BY <1>3, <1>4, <1>5, Numbers

(* What a second does to a loop.                                           *)
LEMMA Seconds ==
  ASSUME TypeOK, LoopOK, Tick, NEW c \in Clients
  PROVE  /\ missed'[c] = missed[c] /\ hostUp' = hostUp
         /\ at[c] # "due"
         /\ \/ /\ at[c] = "asleep" /\ at'[c] = "asleep" /\ left[c] > 1
               /\ left'[c] = left[c] - 1 /\ out'[c] = out[c]
            \/ /\ at[c] = "asleep" /\ at'[c] = "due" /\ left[c] = 1
               /\ left'[c] = 0 /\ out'[c] = out[c]
            \/ /\ at[c] \in UnderWay \cup {"lost"} /\ at'[c] = at[c]
               /\ out[c] < MaxDelay /\ out'[c] = out[c] + 1
               /\ left'[c] = left[c]
            \/ /\ at[c] = "stopped" /\ at'[c] = at[c]
               /\ out'[c] = out[c] /\ left'[c] = left[c]
<1>1. at[c] \in Places /\ left[c] \in 0..Beat
  BY DEF TypeOK, Places
<1>2. at[c] = "asleep" => left[c] \in 1..Beat
  BY DEF LoopOK
<1>3. /\ missed' = missed /\ hostUp' = hostUp
      /\ at[c] # "due" /\ (at[c] \in UnderWay \cup {"lost"} => out[c] < MaxDelay)
      /\ at'[c] = (IF at[c] = "asleep" /\ left[c] = 1 THEN "due" ELSE at[c])
      /\ left'[c] = (IF at[c] = "asleep" THEN left[c] - 1 ELSE left[c])
      /\ out'[c] = (IF at[c] \in UnderWay \cup {"lost"} THEN out[c] + 1 ELSE out[c])
  BY DEF Tick
<1>4. QED
  BY <1>1, <1>2, <1>3, Numbers DEF Places, UnderWay

LEMMA TickKeeps == ASSUME RegistryInv, Tick PROVE RegistryInv'
<1> USE DEF RegistryInv
<1>1. DOMAIN machines' = DOMAIN machines
  BY DEF Tick
<1>2. TypeOK'
  <2>1. machines' \in [DOMAIN machines' -> Entries]
    <3>1. \A m \in DOMAIN machines : machines'[m] \in Entries
      BY Ages
    <3>2. QED
      BY <3>1, <1>1 DEF Tick
  <2>2. at' \in [Clients -> Places]
    BY DEF Tick, TypeOK, Places
  <2>3. left' \in [Clients -> 0..Beat]
    BY Numbers DEF Tick, TypeOK, LoopOK
  <2>4. out' \in [Clients -> 0..MaxDelay]
    BY Numbers DEF Tick, TypeOK
  <2>5. now' \in [Clients -> 0..MaxDelay]
    <3>1. \A c \in Clients : at[c] = "timed" => now[c] <= out[c] /\ out[c] < MaxDelay
      BY DEF LoopOK, Tick, UnderWay
    <3>2. QED
      BY <3>1, Numbers DEF Tick, TypeOK
  <2>6. quiet' \in [Machines -> 0..VeryQuiet]
    BY Numbers DEF Tick, TypeOK, Min2, VeryQuiet
  <2>7. UNCHANGED <<hostUp, registered, missed, faults>>
    BY DEF Tick
  <2>8. QED
    BY <1>1, <2>1, <2>2, <2>3, <2>4, <2>5, <2>6, <2>7 DEF TypeOK, Entries, Places
<1>3. LoopOK'
  <2>1. ASSUME NEW c \in Clients, at'[c] = "timed" PROVE now'[c] <= out'[c]
    <3>1. at[c] = "timed"
      BY <2>1 DEF Tick
    <3>2. now'[c] = now[c] + 1 /\ out'[c] = out[c] + 1 /\ now[c] <= out[c]
      BY <3>1 DEF Tick, UnderWay, LoopOK
    <3>3. QED
      BY <3>2, Numbers DEF TypeOK
  <2>2. ASSUME NEW c \in Clients, at'[c] = "asleep" PROVE left'[c] \in 1..Beat
    <3>1. left'[c] = left[c] - 1 /\ left[c] > 1
      BY <2>2, Seconds DEF UnderWay
    <3>2. left[c] \in 0..Beat
      BY DEF TypeOK
    <3>3. QED
      BY <3>1, <3>2, Numbers
  <2>3. ASSUME NEW c \in Clients
        PROVE  /\ at'[c] = "stopped" => missed'[c] = MaxLosses + 1
               /\ ~hostUp' => missed'[c] = MaxLosses + 1
    BY Seconds DEF LoopOK
  <2>4. QED
    BY <2>1, <2>2, <2>3 DEF LoopOK
<1>4. SteadyInv'
  <2> SUFFICES ASSUME NEW c \in Clients, hostUp', missed'[c] <= MaxLosses
               PROVE  /\ MachineOf[c] \in DOMAIN machines'
                      /\ machines'[MachineOf[c]].age <= MaxDelay + Since(c)'
    BY DEF SteadyInv
  <2>1. /\ MachineOf[c] \in DOMAIN machines
        /\ machines[MachineOf[c]].age <= MaxDelay + Since(c)
    BY Seconds DEF SteadyInv
  <2>2. /\ machines[MachineOf[c]].age \in Nat /\ machines'[MachineOf[c]].age \in Nat
        /\ machines'[MachineOf[c]].age <= machines[MachineOf[c]].age + 1
    BY <2>1, Ages
  <2>3. /\ Lost(missed[c]) \in Nat /\ out[c] \in Nat /\ left[c] \in Nat
    BY LostFacts, Numbers DEF TypeOK
  <2>4. Since(c)' = Since(c) + 1 /\ Since(c) \in Nat
    <3>1. at[c] # "stopped"
      <4>1. missed[c] <= MaxLosses
        BY Seconds
      <4>2. QED
        BY <4>1, Numbers DEF LoopOK
    <3>2. CASE at[c] = "asleep"
      <4>1. Since(c) = Lost(missed[c]) + MaxDelay + (Beat - left[c])
        BY <3>2 DEF Since
      <4>2. CASE left[c] = 1
        <5>0. ~(left[c] > 1)
          BY <4>2
        <5>1. at'[c] = "due" /\ missed'[c] = missed[c]
          BY <3>2, <5>0, Seconds DEF UnderWay
        <5>2. Since(c)' = Lost(missed[c]) + Period
          BY <5>1 DEF Since
        <5>3. QED
          BY <2>3, <4>1, <4>2, <5>2, Numbers DEF Period
      <4>3. CASE left[c] # 1
        <5>1. /\ at'[c] = "asleep" /\ missed'[c] = missed[c]
              /\ left[c] > 1 /\ left'[c] = left[c] - 1
          BY <3>2, <4>3, Seconds DEF UnderWay
        <5>2. Since(c)' = Lost(missed[c]) + MaxDelay + (Beat - (left[c] - 1))
          BY <5>1 DEF Since
        <5>3. left[c] <= Beat
          BY Numbers DEF TypeOK
        <5>4. QED
          BY <2>3, <4>1, <5>1, <5>2, <5>3, Numbers
      <4>4. QED
        BY <4>2, <4>3
    <3>3. CASE at[c] \in UnderWay \cup {"lost"}
      <4>1. at'[c] = at[c] /\ out'[c] = out[c] + 1 /\ missed'[c] = missed[c]
        BY <3>3, Seconds DEF UnderWay
      <4>2. CASE at[c] = "stored"
        BY <4>1, <4>2, <2>3 DEF Since
      <4>3. CASE at[c] # "stored"
        <5>1. Since(c) = Lost(missed[c]) + Period + out[c]
          BY <3>3, <4>3 DEF Since, UnderWay
        <5>2. Since(c)' = Lost(missed[c]) + Period + (out[c] + 1)
          BY <3>3, <4>1, <4>3 DEF Since, UnderWay
        <5>3. QED
          BY <5>1, <5>2, <2>3, Numbers
      <4>4. QED
        BY <4>2, <4>3
    <3>4. QED
      BY <3>1, <3>2, <3>3, Seconds
  <2>5. QED
    BY <1>1, <2>1, <2>2, <2>4, Numbers
<1>5. HeardInv'
  <2>1. \A m \in Machines : /\ quiet[m] \in Nat /\ quiet'[m] \in Nat
                            /\ quiet'[m] <= quiet[m] + 1
                            /\ quiet'[m] <= VeryQuiet
    BY Numbers DEF Tick, TypeOK, Min2, VeryQuiet
  <2>2. ASSUME NEW m \in DOMAIN machines, ~IsHostsOwn(m)'
        PROVE  quiet'[m] <= machines'[m].age + MaxDelay
    <3>1. ~IsHostsOwn(m)
      BY <2>2, Ages DEF IsHostsOwn
    <3>2. m \in Machines /\ quiet[m] <= machines[m].age + MaxDelay
      BY <3>1 DEF HeardInv, TypeOK
    <3>3. QED
      BY <3>2, <2>1, Ages, Numbers DEF VeryQuiet
  <2>3. ASSUME NEW c \in Clients, at'[c] \in UnderWay
        PROVE  quiet'[MachineOf[c]] <= out'[c]
    <3>1. at[c] \in UnderWay /\ out'[c] = out[c] + 1
      BY <2>3, Seconds DEF UnderWay
    <3>2. quiet[MachineOf[c]] <= out[c] /\ out[c] \in Nat
      BY <3>1, Numbers DEF HeardInv, TypeOK
    <3>3. QED
      BY <3>1, <3>2, <2>1, MachineKnown
  <2>4. QED
    BY <1>1, <2>2, <2>3 DEF HeardInv
<1>6. QED
  BY <1>2, <1>3, <1>4, <1>5

LEMMA NextRegistry == RegistryInv /\ [Next]_vars => RegistryInv'
<1> SUFFICES ASSUME RegistryInv, [Next]_vars PROVE RegistryInv'
  OBVIOUS
<1>1. CASE UNCHANGED vars
  BY <1>1 DEF vars, RegistryInv, TypeOK, LoopOK, SteadyInv, HeardInv, Since, IsHostsOwn
<1>2. CASE StartHost \/ StopHost \/ Tick
  BY <1>2, StartHostKeeps, StopHostKeeps, TickKeeps
<1>3. CASE \E c \in Clients : ClientStep(c) \/ StopClient(c) \/ StartClient(c)
  BY <1>3, PostKeeps, ReadClockKeeps, UpsertKeeps, AnsweredKeeps, FailedKeeps,
     StopClientKeeps, StartClientKeeps DEF ClientStep
<1>4. QED
  BY <1>1, <1>2, <1>3 DEF Next

THEOREM InvariantHolds == Spec => []RegistryInv
BY InitRegistry, NextRegistry, PTL DEF Spec

(* Every variable of the list and the loops has its type.                  *)
THEOREM TypeCorrect == Spec => []TypeOK
<1>1. RegistryInv => TypeOK
  BY DEF RegistryInv
<1>2. QED
  BY <1>1, InvariantHolds, PTL

(* For any intervals with the room that RegistryAssumption asks for, a     *)
(* client that keeps its schedule and loses no more than MaxLosses posts   *)
(* in a row is never shown offline (MACHINE_OFFLINE_AFTER_SECS,            *)
(* HEARTBEAT_INTERVAL_SECS).                                               *)
THEOREM SteadyIsOnline == Spec => []SteadyMachineOnline
<1>1. RegistryInv => SteadyMachineOnline
  <2> SUFFICES ASSUME RegistryInv, NEW c \in Clients, hostUp, missed[c] <= MaxLosses
               PROVE  MachineOf[c] \in OnlineMachines
    BY DEF SteadyMachineOnline
  <2> USE DEF RegistryInv
  <2>1. /\ MachineOf[c] \in DOMAIN machines
        /\ machines[MachineOf[c]].age <= MaxDelay + Since(c)
        /\ machines[MachineOf[c]].age \in Nat
    BY Numbers DEF SteadyInv, TypeOK
  <2>2. missed[c] \in Nat /\ out[c] \in 0..MaxDelay /\ at[c] # "stopped"
    BY Numbers DEF TypeOK, LoopOK
  <2>3. Lost(missed[c]) \in Nat /\ Lost(missed[c]) + Period + 2 * MaxDelay <= OfflineAfter
    BY <2>2, LostFacts, LostBound
  <2>4. Since(c) <= Lost(missed[c]) + Period + MaxDelay /\ Since(c) \in Nat
    BY <2>2, <2>3, SinceNat, Numbers DEF Since, LoopOK, Period
  <2>5. machines[MachineOf[c]].age <= OfflineAfter
    BY <2>1, <2>3, <2>4, Numbers
  <2>6. QED
    BY <2>1, <2>5 DEF OnlineMachines, Online
<1>2. QED
  BY <1>1, InvariantHolds, PTL

(* What the list shows online of other machines than the host's posted     *)
(* within OfflineAfter + MaxDelay (machine_is_online, upsert_machine).     *)
THEOREM OnlineIsHeard == Spec => []OnlineMeansHeard
<1>1. RegistryInv => OnlineMeansHeard
  <2> SUFFICES ASSUME RegistryInv, NEW m \in OnlineMachines, m # HostMachine
               PROVE  quiet[m] <= OfflineAfter + MaxDelay
    BY DEF OnlineMeansHeard
  <2>5. m \in DOMAIN machines /\ ~IsHostsOwn(m)
    BY DEF OnlineMachines, IsHostsOwn
  <2>1. m \in DOMAIN machines /\ machines[m].age <= OfflineAfter
    BY <2>5 DEF OnlineMachines, Online
  <2>2. quiet[m] <= machines[m].age + MaxDelay
    BY <2>5 DEF RegistryInv, HeardInv
  <2>3. machines[m].age \in Nat /\ quiet[m] \in Nat
    BY <2>1, Numbers DEF RegistryInv, TypeOK, VeryQuiet
  <2>4. QED
    BY <2>1, <2>2, <2>3, Numbers
<1>2. QED
  BY <1>1, InvariantHolds, PTL

=============================================================================
