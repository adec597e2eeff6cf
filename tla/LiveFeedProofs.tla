----------------------------- MODULE LiveFeedProofs -----------------------------
(***************************************************************************)
(* The live stream implements the ordered feed of EventFeed, for any       *)
(* number of dashboards and handlers and any size of the channel.          *)
(***************************************************************************)
EXTENDS LiveFeed, TLAPS

(* The channel holds the newest of the events published since the host     *)
(* started, and no socket is older than the host.                          *)
ChannelInv ==
  /\ Len(channel) <= Len(published) - first
  /\ Len(channel) < Buffer => Len(channel) = Len(published) - first
  /\ \A i \in 1..Len(channel) :
       channel[i] = published[Len(published) - Len(channel) + i]
  /\ \A d \in Dashboards : cursor[d] > 0 => cursor[d] > first

(* A handler that is broadcasting has something to broadcast.              *)
OutInv ==
  \A h \in Handlers : stage[h] = "broadcasting" => out[h] # << >>

IInv == TypeOK /\ ChannelInv /\ OutInv

-----------------------------------------------------------------------------
LEMMA KindKnown ==
  ASSUME NEW w, Known(w)
  PROVE  KindOf(w) \in DOMAIN WordsFor
BY DEF Known, KindOf

LEMMA StatusOfKind == DOMAIN WordsFor \subseteq Statuses
BY DEF Statuses

(* What each kind of request carries.                                      *)
LEMMA JobFields ==
  ASSUME NEW j \in Jobs \cup {NoJob}
  PROVE  /\ j.kind = "resolve" => j.overlap \in Overlaps
         /\ j.kind = "remember" => j.tags \in TagLists
BY DEF Jobs, NoJob

(* What handlers broadcast are events of the feed.                         *)
LEMMA EventsTyped ==
  /\ << >> \in Seq(FeedEvents) /\ <<Log>> \in Seq(FeedEvents)
  /\ <<MemoryAdded, Log>> \in Seq(FeedEvents)
  /\ \A o \in Overlaps, s \in Statuses : <<Log, OverlapEvent(o, s)>> \in Seq(FeedEvents)
BY DEF FeedEvents

(* What a report broadcasts, with an update of the agent or without.       *)
LEMMA ReportTyped ==
  ASSUME NEW agent \in {<< >>, <<AgentUpdate>>}
  PROVE  /\ <<Log>> \o agent \in Seq(FeedEvents)
         /\ \A o \in Overlaps :
              (<<Log>> \o agent) \o <<Log, OverlapEvent(o, "pending")>> \in Seq(FeedEvents)
<1>1. agent \in Seq(FeedEvents)
  <2>1. AgentUpdate \in FeedEvents
    BY DEF FeedEvents
  <2> HIDE DEF AgentUpdate
  <2>2. << >> \in Seq(FeedEvents) /\ <<AgentUpdate>> \in Seq(FeedEvents)
    BY <2>1
  <2> QED BY <2>2
<1>2. <<Log>> \o agent \in Seq(FeedEvents)
  BY <1>1, EventsTyped
<1>3. "pending" \in Statuses
  BY DEF Statuses
<1>4. \A o \in Overlaps : <<Log, OverlapEvent(o, "pending")>> \in Seq(FeedEvents)
  BY <1>3, EventsTyped
<1> QED BY <1>2, <1>4

(* What a handler leaves to be broadcast, whatever it returns.             *)
LEMMA ReturnsTyped ==
  ASSUME TypeOK, OutInv, NEW h \in Handlers,
         NEW events \in Seq(FeedEvents), NEW result, Returns(h, events, result)
  PROVE  /\ stage' \in [Handlers -> {"idle", "waiting", "broadcasting", "done", "ended"}]
         /\ out' \in [Handlers -> Seq(FeedEvents)]
         /\ OutInv'
BY DEF TypeOK, OutInv, Returns

(* The channel after an event more.                                        *)
LEMMA KeptTyped ==
  ASSUME NEW c \in Seq(FeedEvents), Len(c) <= Buffer, NEW e \in FeedEvents
  PROVE  /\ Kept(Append(c, e)) \in Seq(FeedEvents)
         /\ Len(Kept(Append(c, e))) =
              IF Len(c) = Buffer THEN Buffer ELSE Len(c) + 1
         /\ Len(c) < Buffer => Kept(Append(c, e)) = Append(c, e)
         /\ Len(c) = Buffer => Kept(Append(c, e)) = Tail(Append(c, e))
<1>1. Append(c, e) \in Seq(FeedEvents) /\ Len(Append(c, e)) = Len(c) + 1
  OBVIOUS
<1>2. Buffer \in Nat \ {0} /\ Len(c) \in Nat
  BY LiveAssumption
<1>3. CASE Len(c) = Buffer
  <2>1. Kept(Append(c, e)) = Tail(Append(c, e))
    BY <1>1, <1>2, <1>3 DEF Kept
  <2>2. Append(c, e) # << >>
    BY <1>1, <1>2, <1>3
  <2>3. Tail(Append(c, e)) \in Seq(FeedEvents) /\ Len(Tail(Append(c, e))) = Len(c)
    BY <1>1, <1>2, <2>2
  <2> QED BY <1>2, <1>3, <2>1, <2>3
<1>4. CASE Len(c) < Buffer
  <2>1. Kept(Append(c, e)) = Append(c, e)
    BY <1>1, <1>2, <1>4 DEF Kept
  <2> QED BY <1>1, <1>2, <1>4, <2>1
<1> QED BY <1>2, <1>3, <1>4


-----------------------------------------------------------------------------
(* The stream and the dashboards are as typed; so are the handlers.        *)
StreamType ==
  /\ channel \in Seq(FeedEvents) /\ Len(channel) <= Buffer
  /\ published \in Seq(FeedEvents)
  /\ first \in 0..Len(published)
  /\ cursor \in [Dashboards -> 0..Len(published) + 1]
  /\ latest \in [Dashboards -> Seq(FeedEvents)]

BrowserType ==
  /\ fetches \in [Dashboards -> [Fetches -> {Free, Waiting} \cup
                     {Got(list) : list \in [Overlaps -> Statuses]}]]
  /\ view \in [Dashboards -> [Overlaps -> Statuses]]

HostType ==
  /\ hostUp \in BOOLEAN
  /\ overlaps \in [Overlaps -> Statuses]
  /\ memory \in Seq(TagLists)
  /\ lock \in 0..MaxJobs
  /\ job \in [Handlers -> Jobs \cup {NoJob}]
  /\ stage \in [Handlers -> {"idle", "waiting", "broadcasting", "done", "ended"}]
  /\ out \in [Handlers -> Seq(FeedEvents)]

LEMMA TypeParts ==
  /\ TypeOK <=> HostType /\ StreamType /\ BrowserType /\ faults \in 0..MaxFaults
  /\ TypeOK' <=> HostType' /\ StreamType' /\ BrowserType' /\ faults' \in 0..MaxFaults
BY DEF TypeOK, HostType, StreamType, BrowserType

LEMMA HostKept == ASSUME HostType, OutInv, UNCHANGED host PROVE HostType' /\ OutInv'
BY DEF HostType, OutInv, host

LEMMA StreamKept ==
  ASSUME StreamType, ChannelInv, UNCHANGED stream PROVE StreamType' /\ ChannelInv'
BY DEF StreamType, ChannelInv, stream

LEMMA BrowserKept == ASSUME BrowserType, UNCHANGED browser PROVE BrowserType'
BY DEF BrowserType, browser

LEMMA FaultTyped ==
  ASSUME faults \in 0..MaxFaults, Fault \/ UNCHANGED faults
  PROVE  faults' \in 0..MaxFaults
BY LiveAssumption DEF Fault

(* The status of an overlap changes to another status.                     *)
LEMMA OverlapsTyped ==
  ASSUME overlaps \in [Overlaps -> Statuses], NEW o \in Overlaps, NEW s \in Statuses,
         overlaps' = [overlaps EXCEPT ![o] = s]
  PROVE  overlaps' \in [Overlaps -> Statuses]
OBVIOUS

-----------------------------------------------------------------------------
LEMMA InitInv == Init => IInv
<1> SUFFICES ASSUME Init PROVE IInv
  OBVIOUS
<1> USE LiveAssumption
<1>1. HostType /\ OutInv
  BY DEF Init, HostType, OutInv, Handlers, Statuses
<1>2. StreamType /\ ChannelInv
  BY DEF Init, StreamType, ChannelInv
<1>3. BrowserType
  <2>1. Nothing \in [Overlaps -> Statuses]
    BY DEF Nothing, Statuses
  <2> QED BY <2>1 DEF Init, BrowserType
<1>4. faults \in 0..MaxFaults
  BY DEF Init
<1> QED BY <1>1, <1>2, <1>3, <1>4, TypeParts DEF IInv

LEMMA BeginInv ==
  ASSUME IInv, NEW h \in Handlers, NEW j \in Jobs, Begin(h, j)
  PROVE  IInv'
<1>1. HostType' /\ OutInv'
  BY TypeParts DEF IInv, Begin, HostType, OutInv
<1>2. StreamType' /\ ChannelInv' /\ BrowserType'
  BY TypeParts, StreamKept, BrowserKept DEF IInv, Begin
<1>3. faults' \in 0..MaxFaults
  BY TypeParts DEF IInv, Begin
<1> QED BY <1>1, <1>2, <1>3, TypeParts DEF IInv

(* A handler that returned and left the stream and the dashboards alone.   *)
LEMMA HandlerInv ==
  ASSUME IInv, NEW h \in Handlers,
         NEW events \in Seq(FeedEvents), NEW result, Returns(h, events, result),
         overlaps' \in [Overlaps -> Statuses], memory' \in Seq(TagLists),
         lock' \in 0..MaxJobs, UNCHANGED <<hostUp, job, stream, browser>>,
         Fault \/ UNCHANGED faults
  PROVE  IInv'
<1>1. /\ stage' \in [Handlers -> {"idle", "waiting", "broadcasting", "done", "ended"}]
      /\ out' \in [Handlers -> Seq(FeedEvents)]
      /\ OutInv'
  BY ReturnsTyped DEF IInv
<1>2. HostType'
  BY <1>1, TypeParts DEF IInv, HostType
<1>3. StreamType' /\ ChannelInv' /\ BrowserType' /\ faults' \in 0..MaxFaults
  BY TypeParts, StreamKept, BrowserKept, FaultTyped DEF IInv
<1> QED BY <1>1, <1>2, <1>3, TypeParts DEF IInv

LEMMA ReportInv ==
  ASSUME IInv, NEW h \in Handlers, Report(h) \/ ReportFails(h)
  PROVE  IInv'
<1>1. /\ lock' \in 0..MaxJobs /\ memory' \in Seq(TagLists)
      /\ UNCHANGED <<hostUp, job, stream, browser>> /\ (Fault \/ UNCHANGED faults)
      /\ overlaps \in [Overlaps -> Statuses]
  BY TypeParts, LiveAssumption DEF IInv, Report, ReportFails, HostType, Handlers
<1>2. PICK events, result :
        /\ events \in Seq(FeedEvents)
        /\ Returns(h, events, result)
        /\ \/ UNCHANGED overlaps
           \/ \E o \in Overlaps : overlaps' = [overlaps EXCEPT ![o] = "pending"]
  <2>1. CASE Report(h)
    <3>1. PICK agent \in {<< >>, <<AgentUpdate>>} :
            \/ /\ Returns(h, <<Log>> \o agent, [kind |-> "reported"])
               /\ UNCHANGED overlaps
            \/ \E o \in Overlaps :
                 /\ overlaps' = [overlaps EXCEPT ![o] = "pending"]
                 /\ Returns(h, (<<Log>> \o agent) \o <<Log, OverlapEvent(o, "pending")>>,
                            [kind |-> "reported"])
      BY <2>1 DEF Report
    <3> DEFINE short == <<Log>> \o agent
               long(o) == short \o <<Log, OverlapEvent(o, "pending")>>
               R == [kind |-> "reported"]
    <3>2. short \in Seq(FeedEvents) /\ \A o \in Overlaps : long(o) \in Seq(FeedEvents)
      BY ReportTyped
    <3>3. \/ Returns(h, short, R) /\ UNCHANGED overlaps
          \/ \E o \in Overlaps :
               overlaps' = [overlaps EXCEPT ![o] = "pending"] /\ Returns(h, long(o), R)
      BY <3>1
    <3> HIDE DEF short, long, R
    <3> QED BY <3>2, <3>3
  <2>2. CASE ReportFails(h)
    BY <2>2, EventsTyped DEF ReportFails
  <2> QED BY <2>1, <2>2
<1>3. overlaps' \in [Overlaps -> Statuses]
  <2>1. "pending" \in Statuses
    BY DEF Statuses
  <2> QED BY <1>1, <1>2, <2>1, OverlapsTyped
<1> QED BY <1>1, <1>2, <1>3, HandlerInv

LEMMA ResolveInv ==
  ASSUME IInv, NEW h \in Handlers, Resolve(h) \/ ResolveFails(h)
  PROVE  IInv'
<1> DEFINE o == job[h].overlap
           k == KindOf(job[h].word)
           R == [kind |-> "resolved", overlap |-> o, status |-> k]
<1>1. /\ lock' \in 0..MaxJobs /\ memory' \in Seq(TagLists)
      /\ UNCHANGED <<hostUp, job, stream, browser>> /\ (Fault \/ UNCHANGED faults)
      /\ overlaps \in [Overlaps -> Statuses]
  BY TypeParts DEF IInv, Resolve, ResolveFails, HostType
<1>2. o \in Overlaps
  <2>1. job[h] \in Jobs \cup {NoJob}
    BY TypeParts DEF IInv, HostType
  <2> QED BY <2>1, JobFields DEF Resolve, ResolveFails
<1>3. << >> \in Seq(FeedEvents)
  OBVIOUS
<1>4. CASE Returns(h, << >>, Failure) /\ UNCHANGED overlaps
  <2>1. overlaps' \in [Overlaps -> Statuses]
    BY <1>1, <1>4
  <2> QED BY <1>1, <1>3, <1>4, <2>1, HandlerInv
<1>5. CASE /\ Known(job[h].word)
           /\ overlaps' = [overlaps EXCEPT ![o] = k]
           /\ Returns(h, <<Log, OverlapEvent(o, k)>>, R) \/ Returns(h, << >>, Failure)
  <2>1. k \in Statuses
    BY <1>5, KindKnown, StatusOfKind
  <2> HIDE DEF o, k, R
  <2>2. overlaps' \in [Overlaps -> Statuses]
    BY <1>1, <1>2, <1>5, <2>1, OverlapsTyped
  <2>3. <<Log, OverlapEvent(o, k)>> \in Seq(FeedEvents)
    BY <1>2, <2>1, EventsTyped
  <2> QED BY <1>1, <1>3, <1>5, <2>2, <2>3, HandlerInv
<1> QED BY <1>4, <1>5 DEF Resolve, ResolveFails

LEMMA RememberInv ==
  ASSUME IInv, NEW h \in Handlers, Remember(h) \/ RememberFails(h)
  PROVE  IInv'
<1>1. /\ lock' \in 0..MaxJobs /\ overlaps' \in [Overlaps -> Statuses]
      /\ UNCHANGED <<hostUp, job, stream, browser>> /\ (Fault \/ UNCHANGED faults)
  BY TypeParts DEF IInv, Remember, RememberFails, HostType
<1>2. memory' \in Seq(TagLists)
  <2>1. job[h] \in Jobs \cup {NoJob} /\ memory \in Seq(TagLists)
    BY TypeParts DEF IInv, HostType
  <2>2. job[h].tags \in TagLists
    BY <2>1, JobFields DEF Remember, RememberFails
  <2>3. UNCHANGED memory \/ memory' = Append(memory, job[h].tags)
    BY DEF Remember, RememberFails
  <2> QED BY <2>1, <2>2, <2>3
<1>3. \E r : Returns(h, << >>, r) \/ Returns(h, <<MemoryAdded, Log>>, r)
  <2>1. CASE Remember(h)
    BY <2>1 DEF Remember
  <2>2. CASE RememberFails(h)
    BY <2>2 DEF RememberFails
  <2> QED BY <2>1, <2>2
<1> QED BY <1>1, <1>2, <1>3, EventsTyped, HandlerInv

-----------------------------------------------------------------------------
(* What a broadcast does to the sequences: the event is appended to all    *)
(* that were published, and to those kept.                                 *)
LEMMA BroadcastEvent ==
  ASSUME IInv, NEW h \in Handlers, Broadcast(h)
  PROVE  /\ Head(out[h]) \in FeedEvents
         /\ published' = Append(published, Head(out[h]))
         /\ channel' = Kept(Append(channel, Head(out[h])))
<1>1. out[h] \in Seq(FeedEvents) /\ out[h] # << >>
  BY TypeParts DEF IInv, HostType, OutInv, Broadcast
<1>2. Head(out[h]) \in FeedEvents
  BY <1>1
<1> QED BY <1>2 DEF Broadcast

LEMMA BroadcastHost ==
  ASSUME IInv, NEW h \in Handlers, Broadcast(h)
  PROVE  HostType' /\ OutInv'
<1>1. out[h] \in Seq(FeedEvents) /\ out[h] # << >>
  BY TypeParts DEF IInv, HostType, OutInv, Broadcast
<1>2. Tail(out[h]) \in Seq(FeedEvents) /\ (Tail(out[h]) = << >> => Len(out[h]) = 1)
  <2>1. Len(out[h]) \in Nat \ {0} /\ Len(Tail(out[h])) = Len(out[h]) - 1
    BY <1>1
  <2>2. Tail(out[h]) \in Seq(FeedEvents)
    BY <1>1
  <2>3. Len(<< >>) = 0
    OBVIOUS
  <2>4. ASSUME Tail(out[h]) = << >> PROVE Len(out[h]) = 1
    <3>1. Len(Tail(out[h])) = 0
      BY <2>3, <2>4, Zenon
    <3> QED BY <2>1, <3>1
  <2> QED BY <2>2, <2>4
<1>3. HostType'
  <2>1. HostType
    BY TypeParts DEF IInv
  <2>2. out' \in [Handlers -> Seq(FeedEvents)]
    BY <1>2, <2>1 DEF HostType, Broadcast
  <2>3. stage' \in [Handlers -> {"idle", "waiting", "broadcasting", "done", "ended"}]
    BY <2>1 DEF HostType, Broadcast
  <2>4. lock' \in 0..MaxJobs
    BY <2>1, LiveAssumption DEF HostType, Broadcast
  <2> QED BY <2>1, <2>2, <2>3, <2>4 DEF HostType, Broadcast
<1>4. out' = [out EXCEPT ![h] = Tail(out[h])] /\ out \in [Handlers -> Seq(FeedEvents)]
      /\ stage \in [Handlers -> {"idle", "waiting", "broadcasting", "done", "ended"}]
  BY TypeParts DEF IInv, HostType, Broadcast
<1>5. ASSUME NEW g \in Handlers, stage'[g] = "broadcasting"
      PROVE  out'[g] # << >>
  <2>1. CASE g = h
    <3>1. Len(out[h]) # 1
      BY <1>4, <1>5, <2>1 DEF Broadcast
    <3> QED BY <1>2, <1>4, <2>1, <3>1
  <2>2. CASE g # h
    <3>1. stage[g] = "broadcasting"
      BY <1>4, <1>5, <2>2 DEF Broadcast
    <3> QED BY <1>4, <2>2, <3>1 DEF IInv, OutInv
  <2> QED BY <2>1, <2>2
<1> QED BY <1>3, <1>5 DEF OutInv

LEMMA BroadcastStream ==
  ASSUME IInv, NEW h \in Handlers, Broadcast(h)
  PROVE  StreamType' /\ ChannelInv'
<1> DEFINE e == Head(out[h])
<1>1. /\ e \in FeedEvents
      /\ published' = Append(published, e) /\ channel' = Kept(Append(channel, e))
  BY BroadcastEvent
<1>2. /\ channel \in Seq(FeedEvents) /\ Len(channel) <= Buffer
      /\ published \in Seq(FeedEvents) /\ first \in 0..Len(published)
      /\ cursor \in [Dashboards -> 0..Len(published) + 1]
      /\ latest \in [Dashboards -> Seq(FeedEvents)]
      /\ UNCHANGED <<first, cursor, latest>>
  BY TypeParts DEF IInv, StreamType, Broadcast
<1> HIDE DEF e
<1>3. /\ channel' \in Seq(FeedEvents)
      /\ Len(channel') = IF Len(channel) = Buffer THEN Buffer ELSE Len(channel) + 1
      /\ Len(channel) < Buffer => channel' = Append(channel, e)
      /\ Len(channel) = Buffer => channel' = Tail(Append(channel, e))
  BY <1>1, <1>2, KeptTyped
<1>4. /\ published' \in Seq(FeedEvents) /\ Len(published') = Len(published) + 1
      /\ \A i \in 1..Len(published) : published'[i] = published[i]
      /\ published'[Len(published) + 1] = e
  BY <1>1, <1>2
<1>5. Buffer \in Nat \ {0} /\ Len(channel) \in Nat /\ Len(published) \in Nat
  BY <1>2, LiveAssumption
<1>6. StreamType'
  <2>1. cursor' \in [Dashboards -> 0..Len(published') + 1]
    BY <1>2, <1>4, <1>5
  <2>2. Len(channel') <= Buffer /\ first' \in 0..Len(published')
    BY <1>2, <1>3, <1>4, <1>5
  <2> QED BY <1>2, <1>3, <1>4, <2>1, <2>2 DEF StreamType
<1>7. ASSUME NEW i \in 1..Len(channel')
      PROVE  channel'[i] = published'[Len(published') - Len(channel') + i]
  <2>1. \A n \in 1..Len(channel) :
          channel[n] = published[Len(published) - Len(channel) + n]
    BY DEF IInv, ChannelInv
  <2>2. Len(channel) <= Len(published)
    BY <1>2, <1>5 DEF IInv, ChannelInv
  <2>3. CASE Len(channel) < Buffer
    <3>1. channel' = Append(channel, e) /\ Len(channel') = Len(channel) + 1
      BY <1>3, <1>5, <2>3
    <3>2. CASE i = Len(channel) + 1
      BY <1>1, <1>2, <1>4, <1>5, <2>2, <3>1, <3>2
    <3>3. CASE i \in 1..Len(channel)
      <4>1. channel'[i] = channel[i]
        BY <1>1, <1>2, <3>1, <3>3
      <4>2. Len(published') - Len(channel') + i = Len(published) - Len(channel) + i
        BY <1>4, <1>5, <3>1, <3>3
      <4>3. Len(published) - Len(channel) + i \in 1..Len(published)
        BY <1>5, <2>2, <3>3
      <4> QED BY <1>4, <2>1, <3>3, <4>1, <4>2, <4>3
    <3> QED BY <1>5, <1>7, <3>1, <3>2, <3>3
  <2>4. CASE Len(channel) = Buffer
    <3>1. channel' = Tail(Append(channel, e)) /\ Len(channel') = Len(channel)
      BY <1>3, <1>5, <2>4
    <3>2. channel'[i] = Append(channel, e)[i + 1]
      BY <1>1, <1>2, <1>5, <1>7, <3>1
    <3> DEFINE n == Len(channel)
               p == Len(published)
    <3>3. n \in Nat /\ p \in Nat /\ n <= p /\ i \in 1..n
      BY <1>5, <1>7, <2>2, <3>1
    <3>4. Len(published') - Len(channel') + i = p - n + (i + 1)
      <4>1. Len(channel') = n /\ Len(published') = p + 1
        BY <1>4, <3>1
      <4> HIDE DEF n, p
      <4> QED BY <3>3, <4>1
    <3>5. CASE i = n
      <4>1. channel'[i] = e
        BY <1>1, <1>2, <3>2, <3>5
      <4>2. p - n + (i + 1) = p + 1
        <5> HIDE DEF n, p
        <5> QED BY <3>3, <3>5
      <4> QED BY <1>4, <3>4, <4>1, <4>2
    <3>6. CASE i + 1 \in 1..n
      <4>1. channel'[i] = channel[i + 1]
        BY <1>1, <1>2, <3>2, <3>6
      <4>2. p - n + (i + 1) \in 1..p
        <5> HIDE DEF n, p
        <5> QED BY <3>3, <3>6
      <4> QED BY <1>4, <2>1, <3>4, <3>6, <4>1, <4>2
    <3>7. i = n \/ i + 1 \in 1..n
      <4> HIDE DEF n, p
      <4> QED BY <3>3
    <3> QED BY <3>5, <3>6, <3>7
  <2> QED BY <1>2, <1>5, <2>3, <2>4
<1>8. /\ Len(channel') <= Len(published') - first'
      /\ Len(channel') < Buffer => Len(channel') = Len(published') - first'
  <2>1. /\ Len(channel) <= Len(published) - first
        /\ Len(channel) < Buffer => Len(channel) = Len(published) - first
    BY DEF IInv, ChannelInv
  <2>2. first' = first /\ first \in Nat
    BY <1>2
  <2>3. Len(channel) <= Buffer
    BY <1>2
  <2> QED BY <1>3, <1>4, <1>5, <2>1, <2>2, <2>3
<1>9. \A d \in Dashboards : cursor'[d] > 0 => cursor'[d] > first'
  BY <1>2 DEF IInv, ChannelInv
<1> QED BY <1>6, <1>7, <1>8, <1>9 DEF ChannelInv

LEMMA BroadcastInv ==
  ASSUME IInv, NEW h \in Handlers, Broadcast(h)
  PROVE  IInv'
<1>1. BrowserType' /\ faults' \in 0..MaxFaults
  BY TypeParts, BrowserKept DEF IInv, Broadcast
<1> QED BY <1>1, BroadcastHost, BroadcastStream, TypeParts DEF IInv

-----------------------------------------------------------------------------
(* A socket's cursor and its last event change, and nothing else of the    *)
(* stream.                                                                 *)
LEMMA CursorStream ==
  ASSUME StreamType, ChannelInv, NEW d \in Dashboards,
         NEW n \in 0..Len(published) + 1, n > 0 => n > first,
         NEW l \in Seq(FeedEvents),
         cursor' = [cursor EXCEPT ![d] = n], latest' = [latest EXCEPT ![d] = l],
         UNCHANGED <<channel, published, first>>
  PROVE  StreamType' /\ ChannelInv'
<1>1. StreamType'
  BY DEF StreamType
<1>2. \A c \in Dashboards : cursor'[c] > 0 => cursor'[c] > first'
  BY DEF StreamType, ChannelInv
<1> QED BY <1>1, <1>2 DEF ChannelInv

LEMMA ConnectInv ==
  ASSUME IInv, NEW d \in Dashboards, Connect(d)
  PROVE  IInv'
<1>1. /\ StreamType /\ ChannelInv
      /\ Len(published) + 1 \in 0..Len(published) + 1 /\ Len(published) + 1 > first
  BY TypeParts DEF IInv, StreamType
<1>2. << >> \in Seq(FeedEvents)
  OBVIOUS
<1>3. StreamType' /\ ChannelInv'
  BY <1>1, <1>2, CursorStream DEF Connect
<1> QED BY <1>3, TypeParts, HostKept, BrowserKept DEF IInv, Connect

LEMMA DisconnectInv ==
  ASSUME IInv, NEW d \in Dashboards, Disconnect(d)
  PROVE  IInv'
<1>1. StreamType /\ ChannelInv /\ 0 \in 0..Len(published) + 1
  BY TypeParts DEF IInv, StreamType
<1>2. << >> \in Seq(FeedEvents) /\ ~(0 > 0)
  OBVIOUS
<1>3. StreamType' /\ ChannelInv'
  BY <1>1, <1>2, CursorStream DEF Disconnect
<1> QED BY <1>3, TypeParts, HostKept, BrowserKept, FaultTyped DEF IInv, Disconnect

(* The oldest event that is kept is one of those since the host started.   *)
LEMMA OldestKept ==
  ASSUME StreamType, ChannelInv
  PROVE  Oldest \in first + 1..Len(published) + 1
BY DEF StreamType, ChannelInv, Oldest

LEMMA LagInv ==
  ASSUME IInv, NEW d \in Dashboards, Lag(d)
  PROVE  IInv'
<1>1. StreamType /\ ChannelInv /\ first \in Nat /\ Len(published) \in Nat
  BY TypeParts DEF IInv, StreamType
<1>2. Oldest \in 0..Len(published) + 1 /\ Oldest > first
  BY <1>1, OldestKept
<1>3. latest[d] \in Seq(FeedEvents) /\ latest' = [latest EXCEPT ![d] = latest[d]]
  BY <1>1 DEF StreamType, Lag
<1>4. StreamType' /\ ChannelInv'
  BY <1>1, <1>2, <1>3, CursorStream DEF Lag
<1> QED BY <1>4, TypeParts, HostKept, BrowserKept DEF IInv, Lag

(* What a socket forwards is the event its cursor is at.                   *)
LEMMA ForwardsItsEvent ==
  ASSUME StreamType, ChannelInv, NEW d \in Dashboards, Forward(d)
  PROVE  /\ channel[cursor[d] - Oldest + 1] = published[cursor[d]]
         /\ cursor[d] \in 1..Len(published)
         /\ published[cursor[d]] \in FeedEvents
<1>1. /\ cursor[d] \in Nat /\ cursor[d] > 0 /\ cursor[d] <= Len(published)
      /\ Oldest <= cursor[d]
      /\ Len(published) \in Nat /\ Len(channel) \in Nat
      /\ Oldest = Len(published) - Len(channel) + 1
  BY DEF StreamType, Forward, Oldest
<1>2. cursor[d] - Oldest + 1 \in 1..Len(channel)
  BY <1>1
<1>3. Len(published) - Len(channel) + (cursor[d] - Oldest + 1) = cursor[d]
  BY <1>1
<1> QED BY <1>1, <1>2, <1>3 DEF ChannelInv, StreamType

(* One of a dashboard's requests changes.                                  *)
FetchStates == {Free, Waiting} \cup {Got(list) : list \in [Overlaps -> Statuses]}

LEMMA FetchTyped ==
  ASSUME BrowserType, NEW d \in Dashboards, NEW f \in Fetches, NEW x \in FetchStates,
         fetches' = [fetches EXCEPT ![d][f] = x],
         view' \in [Dashboards -> [Overlaps -> Statuses]]
  PROVE  BrowserType'
<1>1. fetches \in [Dashboards -> [Fetches -> FetchStates]]
  BY DEF BrowserType, FetchStates
<1>2. [fetches[d] EXCEPT ![f] = x] \in [Fetches -> FetchStates]
  BY <1>1
<1>3. fetches' = [fetches EXCEPT ![d] = [fetches[d] EXCEPT ![f] = x]]
  BY <1>1
<1>4. fetches' \in [Dashboards -> [Fetches -> FetchStates]]
  BY <1>1, <1>2, <1>3
<1> QED BY <1>4 DEF BrowserType, FetchStates

LEMMA ForwardInv ==
  ASSUME IInv, NEW d \in Dashboards, Forward(d)
  PROVE  IInv'
<1> DEFINE e == channel[cursor[d] - Oldest + 1]
<1>1. StreamType /\ ChannelInv /\ BrowserType
  BY TypeParts DEF IInv
<1>2. e \in FeedEvents /\ cursor[d] \in 1..Len(published)
  BY <1>1, ForwardsItsEvent
<1>3. /\ latest' = [latest EXCEPT ![d] = <<e>>]
      /\ cursor' = [cursor EXCEPT ![d] = cursor[d] + 1]
      /\ UNCHANGED <<channel, published, first>>
  BY DEF Forward
<1>4. BrowserType'
  <2>1. CASE e.type = "overlap"
    <3>1. fetches' = [fetches EXCEPT ![d]["event"] = Waiting] /\ view' = view
      BY <2>1 DEF Forward
    <3>2. Waiting \in FetchStates /\ "event" \in Fetches
      BY DEF FetchStates, Fetches
    <3>3. view \in [Dashboards -> [Overlaps -> Statuses]]
      BY <1>1 DEF BrowserType
    <3> QED BY <1>1, <3>1, <3>2, <3>3, FetchTyped
  <2>2. CASE e.type # "overlap"
    <3>1. UNCHANGED browser
      BY <2>2 DEF Forward, browser
    <3> QED BY <1>1, <3>1, BrowserKept
  <2> QED BY <2>1, <2>2
<1> HIDE DEF e
<1>5. /\ <<e>> \in Seq(FeedEvents)
      /\ cursor[d] + 1 \in 0..Len(published) + 1
      /\ cursor[d] + 1 > 0 => cursor[d] + 1 > first
  <2>1. cursor[d] > first
    BY <1>1, <1>2 DEF ChannelInv, StreamType
  <2> QED BY <1>1, <1>2, <2>1 DEF StreamType
<1>6. StreamType' /\ ChannelInv'
  BY <1>1, <1>3, <1>5, CursorStream
<1> QED BY <1>4, <1>6, TypeParts, HostKept DEF IInv, Forward

LEMMA BrowserInv ==
  ASSUME IInv, NEW d \in Dashboards, NEW f \in Fetches,
         Ask(d) \/ Serve(d, f) \/ ServeFails(d, f) \/ Show(d, f)
  PROVE  IInv'
<1>1. /\ HostType /\ OutInv /\ StreamType /\ ChannelInv /\ BrowserType
      /\ UNCHANGED <<host, stream>> /\ faults' \in 0..MaxFaults
  BY TypeParts, FaultTyped DEF IInv, Ask, Serve, ServeFails, Show
<1>2. view \in [Dashboards -> [Overlaps -> Statuses]]
  BY <1>1 DEF BrowserType
<1>3. ASSUME Ask(d) PROVE BrowserType'
  <2>1. Waiting \in FetchStates /\ "timer" \in Fetches
    BY DEF FetchStates, Fetches
  <2>2. fetches' = [fetches EXCEPT ![d]["timer"] = Waiting] /\ view' = view
    BY <1>3 DEF Ask
  <2> QED BY <1>1, <1>2, <2>1, <2>2, FetchTyped
<1>4. ASSUME Serve(d, f) \/ ServeFails(d, f) PROVE BrowserType'
  <2>1. Free \in FetchStates /\ Got(overlaps) \in FetchStates
    BY <1>1 DEF FetchStates, HostType
  <2>2. view' = view
    BY <1>4 DEF Serve, ServeFails
  <2>3. CASE fetches' = [fetches EXCEPT ![d][f] = Got(overlaps)]
    BY <1>1, <1>2, <2>1, <2>2, <2>3, FetchTyped
  <2>4. CASE fetches' = [fetches EXCEPT ![d][f] = Free]
    BY <1>1, <1>2, <2>1, <2>2, <2>4, FetchTyped
  <2> QED BY <1>4, <2>3, <2>4 DEF Serve, ServeFails
<1>5. ASSUME Show(d, f) PROVE BrowserType'
  <2>1. fetches[d][f] \in FetchStates /\ fetches[d][f].state = "got"
    BY <1>1, <1>5 DEF BrowserType, FetchStates, Show
  <2>2. fetches[d][f].list \in [Overlaps -> Statuses]
    BY <2>1 DEF FetchStates, Free, Waiting, Got
  <2>3. view' = [view EXCEPT ![d] = fetches[d][f].list]
    BY <1>5 DEF Show
  <2>4. view' \in [Dashboards -> [Overlaps -> Statuses]]
    BY <1>2, <2>2, <2>3
  <2>5. Free \in FetchStates /\ fetches' = [fetches EXCEPT ![d][f] = Free]
    BY <1>5 DEF FetchStates, Show
  <2> QED BY <1>1, <2>4, <2>5, FetchTyped
<1>6. BrowserType'
  BY <1>3, <1>4, <1>5
<1> QED BY <1>1, <1>6, TypeParts, HostKept, StreamKept DEF IInv

LEMMA StopHostInv ==
  ASSUME IInv, StopHost
  PROVE  IInv'
<1>1. HostType /\ StreamType /\ ChannelInv /\ BrowserType /\ faults \in 0..MaxFaults
  BY TypeParts DEF IInv
<1>2. HostType' /\ OutInv'
  <2>1. lock' \in 0..MaxJobs
    BY LiveAssumption DEF StopHost
  <2>2. stage' \in [Handlers -> {"idle", "waiting", "broadcasting", "done", "ended"}]
    BY <1>1 DEF HostType, StopHost
  <2>3. out' \in [Handlers -> Seq(FeedEvents)]
    BY DEF StopHost
  <2>4. \A h \in Handlers : stage'[h] # "broadcasting"
    BY <1>1 DEF HostType, StopHost
  <2> QED BY <1>1, <2>1, <2>2, <2>3, <2>4 DEF HostType, OutInv, StopHost
<1>3. StreamType' /\ ChannelInv'
  <2>1. /\ channel' = << >> /\ first' = Len(published) /\ published' = published
        /\ Len(published) \in Nat
        /\ cursor' = [d \in Dashboards |-> 0]
        /\ latest' = [d \in Dashboards |-> << >>]
    BY <1>1 DEF StreamType, StopHost
  <2>2. Len(channel') = 0
    BY <2>1
  <2>3. StreamType'
    BY <1>1, <2>1, <2>2, LiveAssumption DEF StreamType
  <2>4. ChannelInv'
    BY <2>1, <2>2 DEF ChannelInv
  <2> QED BY <2>3, <2>4
<1>4. BrowserType'
  BY <1>1, BrowserKept DEF StopHost
<1> QED BY <1>1, <1>2, <1>3, <1>4, FaultTyped, TypeParts DEF IInv, StopHost

LEMMA StartHostInv ==
  ASSUME IInv, StartHost
  PROVE  IInv'
<1>1. HostType' /\ OutInv'
  BY TypeParts DEF IInv, StartHost, HostType, OutInv
<1> QED BY <1>1, TypeParts, StreamKept, BrowserKept DEF IInv, StartHost

LEMMA StutterInv ==
  ASSUME IInv, UNCHANGED vars
  PROVE  IInv'
BY TypeParts, HostKept, StreamKept, BrowserKept DEF IInv, vars

LEMMA NextInv == IInv /\ [Next]_vars => IInv'
<1> SUFFICES ASSUME IInv, [Next]_vars PROVE IInv'
  OBVIOUS
<1>1. ASSUME NEW h \in Handlers, Handle(h) \/ HandleFails(h) PROVE IInv'
  BY <1>1, ReportInv, ResolveInv, RememberInv, BroadcastInv DEF Handle, HandleFails
<1>2. ASSUME NEW h \in Handlers, NEW j \in Jobs, Begin(h, j) PROVE IInv'
  BY <1>2, BeginInv
<1>3. ASSUME NEW d \in Dashboards, Connect(d) \/ Follow(d) \/ Disconnect(d) PROVE IInv'
  BY <1>3, ConnectInv, ForwardInv, LagInv, DisconnectInv DEF Follow
<1>4. ASSUME NEW d \in Dashboards, Ask(d) PROVE IInv'
  <2>1. "timer" \in Fetches
    BY DEF Fetches
  <2> QED BY <1>4, <2>1, BrowserInv
<1>5. ASSUME NEW d \in Dashboards, NEW f \in Fetches,
             Serve(d, f) \/ ServeFails(d, f) \/ Show(d, f)
      PROVE  IInv'
  BY <1>5, BrowserInv
<1>6. CASE StopHost \/ StartHost
  BY <1>6, StopHostInv, StartHostInv
<1>7. CASE UNCHANGED vars
  BY <1>7, StutterInv
<1> QED BY <1>1, <1>2, <1>3, <1>4, <1>5, <1>6, <1>7 DEF Next

THEOREM InvariantHolds == Spec => []IInv
BY InitInv, NextInv, PTL DEF Spec

(* The channel is bounded and every variable has its type, whatever        *)
(* handlers, dashboards and faults do (broadcast_event, handle_socket).    *)
THEOREM TypeCorrect == Spec => []TypeOK
<1>1. IInv => TypeOK
  BY DEF IInv
<1> QED BY <1>1, InvariantHolds, PTL

-----------------------------------------------------------------------------
(* A step of the live stream is a step of the feed, or none.               *)
FeedStep == [Feed!Next]_(Feed!feed)

LEMMA FeedUnchanged ==
  ASSUME UNCHANGED <<published, cursor, latest>>
  PROVE  FeedStep
BY DEF FeedStep, Feed!feed

LEMMA BroadcastStep ==
  ASSUME IInv, NEW h \in Handlers, Broadcast(h)
  PROVE  FeedStep
<1>1. Feed!Publish(Head(out[h])) /\ Head(out[h]) \in FeedEvents
  BY BroadcastEvent DEF Broadcast, Feed!Publish
<1> QED BY <1>1 DEF FeedStep, Feed!Next

LEMMA ConnectStep ==
  ASSUME NEW d \in Dashboards, Connect(d)
  PROVE  FeedStep
<1>1. Feed!Subscribe(d)
  BY DEF Connect, Feed!Subscribe
<1> QED BY <1>1 DEF FeedStep, Feed!Next

LEMMA ForwardStep ==
  ASSUME IInv, NEW d \in Dashboards, Forward(d)
  PROVE  FeedStep
<1>1. StreamType /\ ChannelInv
  BY TypeParts DEF IInv
<1>2. Feed!Deliver(d)
  BY <1>1, ForwardsItsEvent DEF Forward, Feed!Deliver
<1> QED BY <1>2 DEF FeedStep, Feed!Next

(* A socket lags only behind a channel that is full.                       *)
LEMMA LagStep ==
  ASSUME IInv, NEW d \in Dashboards, Lag(d)
  PROVE  FeedStep
<1>1. StreamType /\ ChannelInv
  BY TypeParts DEF IInv
<1>2. /\ cursor[d] > first /\ cursor[d] < Oldest /\ cursor[d] \in Nat
      /\ Oldest = Len(published) - Len(channel) + 1
      /\ Len(published) \in Nat /\ Len(channel) \in Nat /\ first \in Nat
      /\ Len(channel) <= Buffer /\ Buffer \in Nat
      /\ Len(channel) < Buffer => Len(channel) = Len(published) - first
  BY <1>1, LiveAssumption DEF StreamType, ChannelInv, Lag, Oldest
<1>3. Len(channel) = Buffer
  BY <1>2
<1>4. Oldest = Len(published) - Buffer + 1 /\ cursor[d] + Buffer <= Len(published)
  BY <1>2, <1>3
<1>5. Feed!Miss(d)
  BY <1>2, <1>4 DEF Lag, Feed!Miss
<1> QED BY <1>5 DEF FeedStep, Feed!Next

LEMMA DisconnectStep ==
  ASSUME IInv, NEW d \in Dashboards, Disconnect(d)
  PROVE  FeedStep
<1>1. cursor \in [Dashboards -> 0..Len(published) + 1]
      /\ latest \in [Dashboards -> Seq(FeedEvents)]
  BY TypeParts DEF IInv, StreamType
<1>2. /\ cursor' = [c \in Dashboards |-> IF c \in {d} THEN 0 ELSE cursor[c]]
      /\ latest' = [c \in Dashboards |-> IF c \in {d} THEN << >> ELSE latest[c]]
  BY <1>1 DEF Disconnect
<1>3. Feed!Leave({d}) /\ {d} \in SUBSET Dashboards
  BY <1>2 DEF Disconnect, Feed!Leave
<1> QED BY <1>3 DEF FeedStep, Feed!Next

LEMMA StopHostStep ==
  ASSUME StopHost
  PROVE  FeedStep
<1>1. /\ cursor' = [c \in Dashboards |-> IF c \in Dashboards THEN 0 ELSE cursor[c]]
      /\ latest' = [c \in Dashboards |-> IF c \in Dashboards THEN << >> ELSE latest[c]]
  BY DEF StopHost
<1>2. Feed!Leave(Dashboards) /\ Dashboards \in SUBSET Dashboards
  BY <1>1 DEF StopHost, Feed!Leave
<1> QED BY <1>2 DEF FeedStep, Feed!Next

LEMMA StepsOfTheFeed == IInv /\ [Next]_vars => FeedStep
<1> SUFFICES ASSUME IInv, [Next]_vars PROVE FeedStep
  OBVIOUS
<1>1. ASSUME NEW h \in Handlers, Handle(h) \/ HandleFails(h) PROVE FeedStep
  <2>1. CASE Report(h) \/ Resolve(h) \/ Remember(h) \/ HandleFails(h)
    <3>1. UNCHANGED <<published, cursor, latest>>
      BY <2>1 DEF Report, Resolve, Remember, HandleFails, ReportFails, ResolveFails,
                  RememberFails, stream
    <3> QED BY <3>1, FeedUnchanged
  <2> QED BY <1>1, <2>1, BroadcastStep DEF Handle
<1>2. ASSUME NEW h \in Handlers, NEW j \in Jobs, Begin(h, j) PROVE FeedStep
  <2>1. UNCHANGED <<published, cursor, latest>>
    BY <1>2 DEF Begin, stream
  <2> QED BY <2>1, FeedUnchanged
<1>3. ASSUME NEW d \in Dashboards, Connect(d) \/ Follow(d) \/ Disconnect(d) PROVE FeedStep
  BY <1>3, ConnectStep, ForwardStep, LagStep, DisconnectStep DEF Follow
<1>4. ASSUME NEW d \in Dashboards, NEW f \in Fetches,
             Ask(d) \/ Serve(d, f) \/ ServeFails(d, f) \/ Show(d, f)
      PROVE  FeedStep
  <2>1. UNCHANGED <<published, cursor, latest>>
    BY <1>4 DEF Ask, Serve, ServeFails, Show, stream
  <2> QED BY <2>1, FeedUnchanged
<1>5. CASE StopHost
  BY <1>5, StopHostStep
<1>6. CASE StartHost \/ UNCHANGED vars
  <2>1. UNCHANGED <<published, cursor, latest>>
    BY <1>6 DEF StartHost, vars, stream
  <2> QED BY <2>1, FeedUnchanged
<1>7. "timer" \in Fetches
  BY DEF Fetches
<1> QED BY <1>1, <1>2, <1>3, <1>4, <1>5, <1>6, <1>7 DEF Next

(* The stream is an ordered feed: a socket gets the events published since *)
(* it connected in their order, each at most once, and misses one only     *)
(* when Buffer newer ones have been published (handle_socket).             *)
THEOREM StreamIsFeed == Spec => FeedInOrder
<1>1. Init => Feed!Init
  BY DEF Init, Feed!Init
<1>2. IInv /\ [Next]_vars => [Feed!Next]_(Feed!feed)
  BY StepsOfTheFeed DEF FeedStep
<1> QED BY <1>1, <1>2, InvariantHolds, PTL DEF Spec, FeedInOrder, Feed!Spec

-----------------------------------------------------------------------------
(* What handlers answer, and what is broadcast of the overlaps.            *)
OwnInv ==
  /\ answer = [h \in Handlers |-> answer[h]]
  /\ \A h \in Handlers :
       stage[h] \in {"idle", "waiting"} => answer[h].kind = "none"
  /\ AnswersAreOwn

Announced(o) == \E i \in DOMAIN published : published[i] = OverlapEvent(o, overlaps[o])
Leaves(h, o) ==
  /\ Resolver(h, o)
  /\ \/ answer[h] = Failure
     \/ /\ answer[h].kind = "resolved"
        /\ \/ stage[h] = "ended"
           \/ /\ stage[h] = "broadcasting"
              /\ \E i \in DOMAIN out[h] : out[h][i] = OverlapEvent(o, overlaps[o])
ToAnnounce(o) == \E h \in Handlers : Leaves(h, o)
AnnounceInv ==
  \A o \in Overlaps : overlaps[o] \notin {"none", "pending"} =>
    Announced(o) \/ ToAnnounce(o)

(* The record just added is the newest with its first tag.                 *)
LEMMA NewestIsOwn ==
  ASSUME memory \in Seq(TagLists), NEW tags \in TagLists, tags # << >>
  PROVE  LET records == Append(memory, tags) IN
         Newest(Tagged(records, tags[1])) = Len(records)
<1> DEFINE records == Append(memory, tags)
           n == Len(records)
           ids == Tagged(records, tags[1])
<1>1. /\ records \in Seq(TagLists) /\ n \in Nat /\ n \in DOMAIN records
      /\ records[n] = tags /\ DOMAIN records = 1 .. n
  OBVIOUS
<1> HIDE DEF records, n
<1>2. 1 \in DOMAIN tags
  BY LiveAssumption
<1>3. n \in ids /\ ids \subseteq 1 .. n
  BY <1>1, <1>2 DEF Tagged
<1> HIDE DEF ids
<1>4. \A j \in ids : j <= n
  <2>1. n \in Nat /\ ids \subseteq 1 .. n
    BY <1>1, <1>3
  <2>2. \A j \in 1 .. n : j <= n
    BY <2>1
  <2> QED BY <2>1, <2>2
<1>5. \A i \in ids : (\A j \in ids : j <= i) => i = n
  BY <1>1, <1>3
<1>6. Newest(ids) = n
  BY <1>3, <1>4, <1>5 DEF Newest
<1> QED BY <1>6 DEF ids, n, records

LEMMA OwnStep == IInv /\ OwnInv /\ [Next]_vars => OwnInv'
<1> SUFFICES ASSUME IInv, OwnInv, [Next]_vars PROVE OwnInv'
  OBVIOUS
<1>1. /\ stage \in [Handlers -> {"idle", "waiting", "broadcasting", "done", "ended"}]
      /\ job \in [Handlers -> Jobs \cup {NoJob}] /\ memory \in Seq(TagLists)
      /\ answer = [h \in Handlers |-> answer[h]]
  BY DEF IInv, TypeOK, OwnInv
(* One handler returns; what it answers is its own.                        *)
<1>2. ASSUME NEW h \in Handlers, NEW events, NEW result, Returns(h, events, result),
             UNCHANGED job, result.kind = "resolved" => result.status = KindOf(job[h].word),
             result.kind = "record" /\ job[h].tags # << >> => result.id = result.own
      PROVE  OwnInv'
  BY <1>1, <1>2 DEF Returns, OwnInv, AnswersAreOwn
<1>3. ASSUME NEW h \in Handlers, Report(h) \/ HandleFails(h) PROVE OwnInv'
  <2>1. /\ UNCHANGED job
        /\ \E events : \/ Returns(h, events, [kind |-> "reported"])
                       \/ Returns(h, events, [kind |-> "ok"])
                       \/ Returns(h, events, Failure)
    <3>1. CASE Report(h)
      <4> DEFINE R == [kind |-> "reported"]
      <4>1. UNCHANGED job /\ \E events : Returns(h, events, R)
        BY <3>1 DEF Report
      <4> QED BY <4>1
    <3>2. CASE HandleFails(h)
      BY <3>2 DEF HandleFails, ReportFails, ResolveFails, RememberFails
    <3> QED BY <1>3, <3>1, <3>2
  <2>2. Failure.kind = "error"
    BY DEF Failure
  <2> QED BY <1>2, <2>1, <2>2
<1>4. ASSUME NEW h \in Handlers, Resolve(h) PROVE OwnInv'
  <2> DEFINE k == KindOf(job[h].word)
             R == [kind |-> "resolved", overlap |-> job[h].overlap, status |-> k]
  <2>1. /\ UNCHANGED job
        /\ \E events : Returns(h, events, Failure) \/ Returns(h, events, R)
    BY <1>4 DEF Resolve
  <2>2. Failure.kind = "error" /\ R.kind = "resolved" /\ R.status = k
    BY DEF Failure
  <2> HIDE DEF R
  <2> QED BY <1>2, <2>1, <2>2
<1>5. ASSUME NEW h \in Handlers, Remember(h) PROVE OwnInv'
  <2> DEFINE tags == job[h].tags
             tag == IF tags = << >> THEN "decision" ELSE tags[1]
             ids == Tagged(memory', tag)
             R == [kind |-> "record", id |-> Newest(ids), own |-> Len(memory')]
  <2>1. /\ UNCHANGED job /\ memory' = Append(memory, tags)
        /\ \E events : Returns(h, events, [kind |-> "ok"]) \/ Returns(h, events, R)
    BY <1>5 DEF Remember
  <2>2. tags \in TagLists
    BY <1>1, <1>5, JobFields DEF Remember
  <2>3. tags # << >> => R.id = R.own
    BY <1>1, <2>1, <2>2, NewestIsOwn
  <2>4. R.kind = "record"
    OBVIOUS
  <2> HIDE DEF R
  <2> QED BY <1>2, <2>1, <2>3, <2>4
<1>6. ASSUME NEW h \in Handlers, Broadcast(h) PROVE OwnInv'
  BY <1>1, <1>6 DEF Broadcast, OwnInv, AnswersAreOwn
<1>7. ASSUME NEW h \in Handlers, NEW j \in Jobs, Begin(h, j) PROVE OwnInv'
  BY <1>1, <1>7 DEF Begin, OwnInv, AnswersAreOwn
<1>8. CASE StopHost
  BY <1>1, <1>8 DEF StopHost, OwnInv, AnswersAreOwn
<1>9. ASSUME UNCHANGED <<answer, job, stage>> PROVE OwnInv'
  BY <1>9 DEF OwnInv, AnswersAreOwn
<1>10. ASSUME NEW d \in Dashboards, Connect(d) \/ Follow(d) \/ Disconnect(d) PROVE OwnInv'
  BY <1>9, <1>10 DEF Connect, Follow, Forward, Lag, Disconnect, host
<1>11. ASSUME NEW d \in Dashboards, NEW f \in Fetches,
              Ask(d) \/ Serve(d, f) \/ ServeFails(d, f) \/ Show(d, f)
       PROVE  OwnInv'
  BY <1>9, <1>11 DEF Ask, Serve, ServeFails, Show, host
<1>12. CASE StartHost \/ UNCHANGED vars
  BY <1>9, <1>12 DEF StartHost, vars, host
<1>13. "timer" \in Fetches
  BY DEF Fetches
<1> QED BY <1>3, <1>4, <1>5, <1>6, <1>7, <1>8, <1>10, <1>11, <1>12, <1>13
        DEF Next, Handle

(* Who resolves an overlap or adds a record with tags is answered with     *)
(* that, whatever other handlers do (api_resolve_overlap, add_memory_record). *)
THEOREM AnswersOwn == Spec => []AnswersAreOwn
<1>1. Init => OwnInv
  BY DEF Init, OwnInv, AnswersAreOwn
<1>2. OwnInv => AnswersAreOwn
  BY DEF OwnInv
<1> QED BY <1>1, <1>2, OwnStep, InvariantHolds, PTL DEF Spec

(* A resolution that was announced, or that its resolver answers for, still *)
(* is when a handler returns that was waiting.                              *)
LEMMA ReturnsAnnounces ==
  ASSUME TypeOK, OwnInv, AnnounceInv, NEW h \in Handlers, stage[h] = "waiting",
         NEW events, NEW result, Returns(h, events, result), UNCHANGED <<published, job>>,
         NEW o \in Overlaps, overlaps'[o] = overlaps[o],
         overlaps[o] \notin {"none", "pending"}
  PROVE  Announced(o)' \/ ToAnnounce(o)'
<1>1. CASE Announced(o)
  BY <1>1 DEF Announced
<1>2. CASE ToAnnounce(o)
  <2>1. PICK g \in Handlers : Leaves(g, o)
    BY <1>2 DEF ToAnnounce
  <2>2. g # h
    BY <2>1 DEF Leaves, OwnInv, Failure
  <2>3. stage'[g] = stage[g] /\ out'[g] = out[g] /\ answer'[g] = answer[g]
    BY <2>2 DEF TypeOK, OwnInv, Returns
  <2>4. Leaves(g, o)'
    BY <2>1, <2>3 DEF Leaves, Resolver
  <2> QED BY <2>4 DEF ToAnnounce
<1> QED BY <1>1, <1>2 DEF AnnounceInv

(* What a handler broadcasts is published, what it has left it keeps.      *)
LEMMA BroadcastAnnounces ==
  ASSUME IInv, AnnounceInv, NEW h \in Handlers, Broadcast(h)
  PROVE  AnnounceInv'
<1>1. SUFFICES ASSUME NEW o \in Overlaps, overlaps[o] \notin {"none", "pending"}
               PROVE  Announced(o)' \/ ToAnnounce(o)'
  BY DEF AnnounceInv, Broadcast
<1>2. /\ UNCHANGED <<overlaps, job, answer>> /\ stage[h] = "broadcasting"
      /\ published' = Append(published, Head(out[h]))
      /\ out' = [out EXCEPT ![h] = Tail(@)]
      /\ stage' = [stage EXCEPT ![h] = IF Len(out[h]) = 1 THEN "done" ELSE @]
  BY DEF Broadcast
<1>3. /\ published \in Seq(FeedEvents) /\ out \in [Handlers -> Seq(FeedEvents)]
      /\ stage \in [Handlers -> {"idle", "waiting", "broadcasting", "done", "ended"}]
      /\ out[h] \in Seq(FeedEvents) /\ out[h] # << >>
  BY <1>2 DEF IInv, TypeOK, OutInv
<1> DEFINE e == Head(out[h])
           rest == Tail(out[h])
<1>4. /\ Len(published') = Len(published) + 1
      /\ \A i \in DOMAIN published : i \in DOMAIN published' /\ published'[i] = published[i]
      /\ Len(published) + 1 \in DOMAIN published' /\ published'[Len(published) + 1] = e
  <2>1. e \in FeedEvents
    BY <1>3
  <2> HIDE DEF e
  <2> QED BY <1>2, <1>3, <2>1 DEF e
<1>5. CASE Announced(o)
  BY <1>2, <1>4, <1>5 DEF Announced
<1>6. \A g \in Handlers : Resolver(g, o)' = Resolver(g, o)
  BY <1>2 DEF Resolver
<1>7. ASSUME NEW g \in Handlers, Leaves(g, o), g # h \/ answer[g] = Failure
      PROVE  ToAnnounce(o)'
  <2>1. CASE answer[g] = Failure
    BY <1>2, <1>6, <1>7, <2>1 DEF ToAnnounce, Leaves
  <2>2. CASE g # h
    <3>1. stage'[g] = stage[g] /\ out'[g] = out[g]
      BY <1>2, <1>3, <2>2
    <3>2. Leaves(g, o)'
      BY <1>2, <1>6, <1>7, <3>1 DEF Leaves
    <3> QED BY <3>2 DEF ToAnnounce
  <2> QED BY <1>7, <2>1, <2>2
<1>8. ASSUME Resolver(h, o), answer[h].kind = "resolved",
             NEW i \in DOMAIN out[h], out[h][i] = OverlapEvent(o, overlaps[o])
      PROVE  Announced(o)' \/ ToAnnounce(o)'
  <2>1. CASE i = 1
    <3>1. e = OverlapEvent(o, overlaps[o])
      BY <1>3, <1>8, <2>1
    <3> HIDE DEF e
    <3> QED BY <1>2, <1>4, <3>1 DEF Announced
  <2>2. CASE i # 1
    <3>1. /\ i \in Nat /\ i > 1 /\ i <= Len(out[h]) /\ rest \in Seq(FeedEvents)
          /\ Len(rest) = Len(out[h]) - 1 /\ i - 1 \in DOMAIN rest
          /\ rest[i - 1] = out[h][i]
      BY <1>3, <1>8, <2>2
    <3>2. stage'[h] = "broadcasting" /\ out'[h] = rest
      BY <1>2, <1>3, <3>1
    <3> HIDE DEF rest
    <3>3. Leaves(h, o)'
      BY <1>2, <1>6, <1>8, <3>1, <3>2 DEF Leaves
    <3> QED BY <3>3 DEF ToAnnounce
  <2> QED BY <2>1, <2>2
<1>9. CASE ToAnnounce(o)
  <2>1. PICK g \in Handlers : Leaves(g, o)
    BY <1>9 DEF ToAnnounce
  <2>2. CASE g # h \/ answer[g] = Failure
    BY <1>7, <2>1, <2>2
  <2>3. CASE g = h /\ answer[h] # Failure
    BY <1>2, <1>8, <2>1, <2>3 DEF Leaves
  <2> QED BY <2>2, <2>3
<1> QED BY <1>1, <1>5, <1>9 DEF AnnounceInv

LEMMA AnnounceStep == IInv /\ OwnInv /\ AnnounceInv /\ [Next]_vars => AnnounceInv'
<1> SUFFICES ASSUME IInv, OwnInv, AnnounceInv, [Next]_vars PROVE AnnounceInv'
  OBVIOUS
<1>1. /\ TypeOK /\ overlaps \in [Overlaps -> Statuses]
      /\ stage \in [Handlers -> {"idle", "waiting", "broadcasting", "done", "ended"}]
      /\ out \in [Handlers -> Seq(FeedEvents)]
      /\ job \in [Handlers -> Jobs \cup {NoJob}]
      /\ answer = [h \in Handlers |-> answer[h]]
  BY DEF IInv, TypeOK, OwnInv
<1>2. ASSUME NEW h \in Handlers, NEW events, NEW result, Returns(h, events, result),
             stage[h] = "waiting", UNCHANGED <<published, job>>,
             \A o \in Overlaps : overlaps'[o] = overlaps[o] \/ overlaps'[o] = "pending"
      PROVE  AnnounceInv'
  BY <1>1, <1>2, ReturnsAnnounces DEF AnnounceInv
<1>3. ASSUME NEW h \in Handlers, Report(h) \/ ReportFails(h) PROVE AnnounceInv'
  <2>1. stage[h] = "waiting" /\ UNCHANGED <<published, job>>
    BY <1>3 DEF Report, ReportFails, stream
  <2>2. \A o \in Overlaps : overlaps'[o] = overlaps[o] \/ overlaps'[o] = "pending"
    <3>1. \/ UNCHANGED overlaps
          \/ \E o \in Overlaps : overlaps' = [overlaps EXCEPT ![o] = "pending"]
      BY <1>3 DEF Report, ReportFails
    <3> QED BY <1>1, <3>1
  <2>3. \E events, result : Returns(h, events, result)
    <3>1. CASE Report(h)
      BY <3>1 DEF Report
    <3>2. CASE ReportFails(h)
      BY <3>2 DEF ReportFails
    <3> QED BY <1>3, <3>1, <3>2
  <2> QED BY <1>2, <2>1, <2>2, <2>3
<1>4. ASSUME NEW h \in Handlers, Resolve(h) \/ ResolveFails(h) PROVE AnnounceInv'
  <2>1. /\ stage[h] = "waiting" /\ UNCHANGED <<published, job>>
        /\ job[h].kind = "resolve" /\ job[h].overlap \in Overlaps
    BY <1>1, <1>4, JobFields DEF Resolve, ResolveFails, stream
  <2>2. PICK o \in Overlaps : o = job[h].overlap
    BY <2>1
  <2>3. PICK k : k = KindOf(job[h].word)
    OBVIOUS
  <2> DEFINE events == <<Log, OverlapEvent(o, k)>>
             R == [kind |-> "resolved", overlap |-> o, status |-> k]
  <2>4. CASE UNCHANGED overlaps /\ \E result : Returns(h, << >>, result)
    BY <1>2, <2>1, <2>4
  <2>5. CASE /\ overlaps' = [overlaps EXCEPT ![o] = k] /\ Known(job[h].word)
             /\ Returns(h, events, R) \/ Returns(h, << >>, Failure)
    <3>1. /\ overlaps'[o] = k
          /\ \A p \in Overlaps \ {o} : overlaps'[p] = overlaps[p]
      BY <1>1, <2>5
    <3>2. Resolver(h, o)'
      BY <2>1, <2>2, <2>3, <2>5, <3>1 DEF Resolver
    <3>3. ASSUME Returns(h, << >>, Failure) PROVE ToAnnounce(o)'
      <4>1. answer'[h] = Failure
        BY <1>1, <3>3 DEF Returns
      <4> QED BY <3>2, <4>1 DEF ToAnnounce, Leaves
    <3>4. ASSUME Returns(h, events, R) PROVE ToAnnounce(o)'
      <4>1. stage'[h] = "broadcasting" /\ out'[h] = events
        <5>1. events # << >>
          OBVIOUS
        <5> HIDE DEF events, R
        <5> QED BY <1>1, <3>4, <5>1 DEF Returns
      <4>2. answer'[h] = R
        <5> HIDE DEF events, R
        <5> QED BY <1>1, <3>4 DEF Returns
      <4>3. R.kind = "resolved" /\ 2 \in DOMAIN events /\ events[2] = OverlapEvent(o, k)
        OBVIOUS
      <4> HIDE DEF events, R
      <4>4. Leaves(h, o)'
        BY <3>1, <3>2, <4>1, <4>2, <4>3 DEF Leaves
      <4> QED BY <4>4 DEF ToAnnounce
    <3> HIDE DEF events, R
    <3>5. ToAnnounce(o)'
      BY <2>5, <3>3, <3>4
    <3>6. \A p \in Overlaps \ {o} : overlaps'[p] \notin {"none", "pending"} =>
            Announced(p)' \/ ToAnnounce(p)'
      BY <2>1, <2>5, <3>1, <1>1, ReturnsAnnounces
    <3> QED BY <3>5, <3>6 DEF AnnounceInv
  <2> HIDE DEF events, R
  <2> QED BY <1>4, <2>2, <2>3, <2>4, <2>5 DEF Resolve, ResolveFails, events, R
<1>5. ASSUME NEW h \in Handlers, Remember(h) \/ RememberFails(h) PROVE AnnounceInv'
  <2>1. /\ stage[h] = "waiting" /\ UNCHANGED <<overlaps, published, job>>
    BY <1>5 DEF Remember, RememberFails, stream
  <2>2. \E events, result : Returns(h, events, result)
    <3>1. CASE Remember(h)
      BY <3>1 DEF Remember
    <3>2. CASE RememberFails(h)
      BY <3>2 DEF RememberFails
    <3> QED BY <1>5, <3>1, <3>2
  <2> QED BY <1>2, <2>1, <2>2
<1>6. ASSUME NEW h \in Handlers, Broadcast(h) PROVE AnnounceInv'
  BY <1>6, BroadcastAnnounces
<1>7. ASSUME UNCHANGED <<overlaps, published, answer>>,
             \A h \in Handlers : stage[h] # "idle" => job'[h] = job[h],
             \A h \in Handlers : stage[h] = "ended" => stage'[h] = "ended",
             \A h \in Handlers : stage[h] = "broadcasting" =>
               stage'[h] = "ended" \/ (stage'[h] = stage[h] /\ out'[h] = out[h])
      PROVE  AnnounceInv'
  <2>1. ASSUME NEW h \in Handlers, NEW o \in Overlaps, Leaves(h, o) PROVE Leaves(h, o)'
    <3>1. stage[h] # "idle"
      BY <2>1 DEF Leaves, OwnInv, Failure
    <3>2. Resolver(h, o)'
      BY <1>7, <2>1, <3>1 DEF Leaves, Resolver
    <3> QED BY <1>7, <2>1, <3>2 DEF Leaves
  <2> QED BY <1>7, <2>1 DEF AnnounceInv, Announced, ToAnnounce
<1>8. ASSUME NEW h \in Handlers, NEW j \in Jobs, Begin(h, j) PROVE AnnounceInv'
  <2>1. /\ \A g \in Handlers : stage[g] # "idle" => job'[g] = job[g] /\ stage'[g] = stage[g]
        /\ UNCHANGED <<overlaps, published, answer, out>>
    BY <1>1, <1>8 DEF Begin, stream
  <2> QED BY <1>7, <2>1
<1>9. CASE StopHost
  <2>1. /\ UNCHANGED <<overlaps, published, answer, job>>
        /\ \A h \in Handlers : stage[h] \in {"broadcasting", "ended"} => stage'[h] = "ended"
    BY <1>1, <1>9 DEF StopHost
  <2> QED BY <1>7, <2>1
<1>10. ASSUME UNCHANGED <<overlaps, published, answer, job, out, stage>> PROVE AnnounceInv'
  BY <1>7, <1>10
<1>11. ASSUME NEW d \in Dashboards, Connect(d) \/ Follow(d) \/ Disconnect(d) PROVE AnnounceInv'
  BY <1>10, <1>11 DEF Connect, Follow, Forward, Lag, Disconnect, host
<1>12. ASSUME NEW d \in Dashboards, NEW f \in Fetches,
              Serve(d, f) \/ ServeFails(d, f) \/ Show(d, f)
       PROVE  AnnounceInv'
  BY <1>10, <1>12 DEF Serve, ServeFails, Show, host, stream
<1>13. ASSUME NEW d \in Dashboards, Ask(d) PROVE AnnounceInv'
  BY <1>10, <1>13 DEF Ask, host, stream
<1>14. CASE StartHost \/ UNCHANGED vars
  BY <1>10, <1>14 DEF StartHost, vars, host, stream
<1> QED BY <1>3, <1>4, <1>5, <1>6, <1>8, <1>9, <1>11, <1>12, <1>13, <1>14
        DEF Next, Handle, HandleFails

(* No resolution is in the store unnoticed: it was broadcast, or who asked *)
(* for it is broadcasting it, was cut short by the host's end, or was told *)
(* of an error (resolve_overlap, broadcast_event).                         *)
THEOREM ResolutionsAnnounced == Spec => []ChangesAnnounced
<1>1. Init => OwnInv /\ AnnounceInv
  BY DEF Init, OwnInv, AnswersAreOwn, AnnounceInv
<1>2. AnnounceInv => ChangesAnnounced
  BY DEF AnnounceInv, ChangesAnnounced, Announced, ToAnnounce, Leaves
<1> QED BY <1>1, <1>2, OwnStep, AnnounceStep, InvariantHolds, PTL DEF Spec

=============================================================================
