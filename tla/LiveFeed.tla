-------------------------------- MODULE LiveFeed --------------------------------
(***************************************************************************)
(* The host's live stream (server/mod.rs, server/web.rs) and the dashboard *)
(* that follows it (dashboard/app.js): handlers change the store under its *)
(* mutex and broadcast what they did; each dashboard's socket reads the    *)
(* broadcast channel; the dashboard reads the list of overlaps again on    *)
(* every event about them and every few seconds.                           *)
(***************************************************************************)
EXTENDS Naturals, Sequences

CONSTANTS
  Dashboards,
  Overlaps,   \* the ids of overlaps
  Words,      \* what is given as a resolution
  TagLists,   \* the tags of the records that are added
  Buffer,     \* EVENT_BUFFER_SIZE
  MaxJobs, MaxFaults  \* bounds

ASSUME LiveAssumption ==
  /\ Buffer \in Nat \ {0} /\ MaxJobs \in Nat /\ MaxFaults \in Nat
  /\ \A tags \in TagLists : tags = << >> \/ 1 \in DOMAIN tags

Handlers == 1..MaxJobs

VARIABLES
  hostUp,
  overlaps,   \* the status of each overlap in the store, "none" without one
  memory,     \* the tags of each shared record, the newest last
  lock,       \* who holds the store's mutex, 0 for nobody
  job,        \* what each handler is asked to do
  stage,      \* how far it is
  out,        \* the events it has still to broadcast
  answer,     \* what it returns
  channel,    \* the events the broadcast channel keeps
  published,  \* history: all of them
  first,      \* history: how many were published before this host started
  cursor,     \* the number of the event a socket reads next, 0 without one
  latest,     \* what a socket got last
  fetches,    \* a dashboard's request for the list, one by the timer and
              \* one by an event
  view,       \* the list it shows
  faults

host == <<hostUp, overlaps, memory, lock, job, stage, out, answer>>
stream == <<channel, published, first, cursor, latest>>
browser == <<fetches, view>>
vars == <<host, stream, browser, faults>>

-----------------------------------------------------------------------------
(* parse_resolution_kind: the words for each kind.                         *)
WordsFor == [
  AcceptA |-> {"accept_a", "keep_a", "mine"},
  AcceptB |-> {"accept_b", "keep_b", "theirs"},
  AcceptAll |-> {"accept_all", "all"},
  Manual |-> {"manual"},
  Negotiated |-> {"negotiated", "negotiate"} ]
Known(word) == \E k \in DOMAIN WordsFor : word \in WordsFor[k]
KindOf(word) == CHOOSE k \in DOMAIN WordsFor : word \in WordsFor[k]

Statuses == {"none", "pending"} \cup DOMAIN WordsFor

(* The events, as far as a dashboard tells them apart.                     *)
Log == [type |-> "log"]
AgentUpdate == [type |-> "agent_update"]
OverlapEvent(o, status) == [type |-> "overlap", overlap |-> o, status |-> status]
MemoryAdded == [type |-> "memory_added"]

FeedEvents ==
  {Log, AgentUpdate, MemoryAdded} \cup
  {OverlapEvent(o, s) : o \in Overlaps, s \in Statuses}

(* query_memory_by_tag with limit 1: the newest record with a tag.         *)
Tagged(records, tag) ==
  {i \in DOMAIN records : \E t \in DOMAIN records[i] : records[i][t] = tag}
(* Variant: the order is forgotten.                                        *)
OldestOf(ids) == CHOOSE i \in ids : \A j \in ids : i <= j
Newest(ids) == CHOOSE i \in ids : \A j \in ids : j <= i

-----------------------------------------------------------------------------
NoJob == [kind |-> "none"]
Jobs ==
  [kind : {"report"}] \cup
  [kind : {"resolve"}, overlap : Overlaps, word : Words,
   socket : SUBSET Dashboards] \cup
  [kind : {"remember"}, tags : TagLists, socket : SUBSET Dashboards]

Free == [state |-> "free"]
Waiting == [state |-> "waiting"]
Got(list) == [state |-> "got", list |-> list]
Fetches == {"timer", "event"}

Nothing == [o \in Overlaps |-> "none"]

(* A host that has just started, with what its database holds.             *)
Init ==
  /\ hostUp = TRUE
  /\ overlaps \in [Overlaps -> {"none", "pending"}]
  /\ memory = << >>
  /\ lock = 0
  /\ job = [h \in Handlers |-> NoJob]
  /\ stage = [h \in Handlers |-> "idle"]
  /\ out = [h \in Handlers |-> << >>]
  /\ answer = [h \in Handlers |-> [kind |-> "none"]]
  /\ channel = << >> /\ published = << >> /\ first = 0
  /\ cursor = [d \in Dashboards |-> 0]
  /\ latest = [d \in Dashboards |-> << >>]
  /\ fetches = [d \in Dashboards |-> [f \in Fetches |-> Free]]
  /\ view = [d \in Dashboards |-> Nothing]
  /\ faults = 0

Fault == faults < MaxFaults /\ faults' = faults + 1

-----------------------------------------------------------------------------
(* A request comes: report_change, POST /api/resolve, or a message of a    *)
(* dashboard's socket, which then handles nothing else.                    *)
Busy(d) ==
  \E h \in Handlers :
    /\ stage[h] \in {"waiting", "broadcasting"}
    /\ job[h].kind \in {"resolve", "remember"}
    /\ d \in job[h].socket

Begin(h, j) ==
  /\ hostUp
  /\ stage[h] = "idle" /\ \A g \in 1..h - 1 : stage[g] # "idle"
  /\ j.kind # "report" => \A d \in j.socket : cursor[d] > 0 /\ ~Busy(d)
  /\ job' = [job EXCEPT ![h] = j]
  /\ stage' = [stage EXCEPT ![h] = "waiting"]
  /\ UNCHANGED <<hostUp, overlaps, memory, lock, out, answer, stream, browser, faults>>

Returns(h, events, result) ==
  /\ stage' = [stage EXCEPT ![h] = IF events = << >> THEN "done" ELSE "broadcasting"]
  /\ out' = [out EXCEPT ![h] = events]
  /\ answer' = [answer EXCEPT ![h] = result]

Failure == [kind |-> "error"]

(* handle_record_change: it keeps the store locked until it has broadcast  *)
(* everything. What record_change finds is ChangeTracking's: here none or  *)
(* one new overlap. Only an agent with a row gives an update.              *)
Report(h) ==
  /\ stage[h] = "waiting" /\ job[h].kind = "report" /\ lock = 0
  /\ lock' = h
  /\ \E agent \in {<< >>, <<AgentUpdate>>} :
       \/ /\ Returns(h, <<Log>> \o agent, [kind |-> "reported"])
          /\ UNCHANGED overlaps
       \/ \E o \in Overlaps :
            /\ overlaps[o] = "none"
            /\ overlaps' = [overlaps EXCEPT ![o] = "pending"]
            /\ Returns(h, (<<Log>> \o agent) \o <<Log, OverlapEvent(o, "pending")>>,
                       [kind |-> "reported"])
  /\ UNCHANGED <<hostUp, memory, job, stream, browser, faults>>

(* A statement fails: record_change ends with an error, or the overlap it  *)
(* stored cannot be read back and is not broadcast.                        *)
ReportFails(h) ==
  /\ stage[h] = "waiting" /\ job[h].kind = "report" /\ lock = 0 /\ Fault
  /\ \/ /\ Returns(h, << >>, Failure)
        /\ UNCHANGED <<overlaps, lock>>
     \/ /\ Returns(h, <<Log>>, [kind |-> "reported"])
        /\ \E o \in Overlaps :
             overlaps[o] = "none" /\ overlaps' = [overlaps EXCEPT ![o] = "pending"]
        /\ lock' = h
  /\ UNCHANGED <<hostUp, memory, job, stream, browser>>

(* Variant: only the first resolution is broadcast.                        *)
ResolveFirst(h) ==
  /\ stage[h] = "waiting" /\ job[h].kind = "resolve"
  /\ LET o == job[h].overlap
         word == job[h].word
     IN /\ Known(word) /\ lock = 0 /\ overlaps[o] # "none"
        /\ overlaps' = [overlaps EXCEPT ![o] = KindOf(word)]
        /\ Returns(h, IF overlaps[o] = "pending"
                        THEN <<Log, OverlapEvent(o, KindOf(word))>> ELSE <<Log>>,
             [kind |-> "resolved", overlap |-> o, status |-> KindOf(word)])
  /\ UNCHANGED <<hostUp, memory, lock, job, stream, browser, faults>>

(* resolve_overlap: update and read under one lock, broadcast without it.  *)
(* The status before does not matter; an id without a row is an error only *)
(* when it is read.                                                        *)
Resolve(h) ==
  /\ stage[h] = "waiting" /\ job[h].kind = "resolve"
  /\ LET o == job[h].overlap
         word == job[h].word
     IN \/ /\ ~Known(word)
           /\ Returns(h, << >>, Failure)
           /\ UNCHANGED overlaps
        \/ /\ Known(word) /\ lock = 0 /\ overlaps[o] = "none"
           /\ Returns(h, << >>, Failure)
           /\ UNCHANGED overlaps
        \/ /\ Known(word) /\ lock = 0 /\ overlaps[o] # "none"
           /\ overlaps' = [overlaps EXCEPT ![o] = KindOf(word)]
           /\ Returns(h, <<Log, OverlapEvent(o, KindOf(word))>>,
                [kind |-> "resolved", overlap |-> o, status |-> KindOf(word)])
  /\ UNCHANGED <<hostUp, memory, lock, job, stream, browser, faults>>

(* The update fails; or it is committed and reading the overlap back fails, *)
(* which is answered like an id without a row and broadcasts nothing.      *)
ResolveFails(h) ==
  /\ stage[h] = "waiting" /\ job[h].kind = "resolve"
  /\ Known(job[h].word) /\ lock = 0 /\ Fault
  /\ Returns(h, << >>, Failure)
  /\ LET o == job[h].overlap
     IN \/ UNCHANGED overlaps
        \/ /\ overlaps[o] # "none"
           /\ overlaps' = [overlaps EXCEPT ![o] = KindOf(job[h].word)]
  /\ UNCHANGED <<hostUp, memory, lock, job, stream, browser>>

(* add_memory_record: what it answers and broadcasts is the newest record  *)
(* with the first of the tags, or with "decision" when there are none.     *)
Remember(h) ==
  /\ stage[h] = "waiting" /\ job[h].kind = "remember" /\ lock = 0
  /\ memory' = Append(memory, job[h].tags)
  /\ LET tag == IF job[h].tags = << >> THEN "decision" ELSE job[h].tags[1]
         ids == Tagged(memory', tag)
     IN IF ids = {}
          THEN Returns(h, << >>, [kind |-> "ok"])
          ELSE Returns(h, <<MemoryAdded, Log>>,
                 [kind |-> "record", id |-> Newest(ids), own |-> Len(memory')])
  /\ UNCHANGED <<hostUp, overlaps, lock, job, stream, browser, faults>>

(* The record is not added, or it is and the query after it fails: then    *)
(* nothing is broadcast and the answer is a bare "ok".                     *)
RememberFails(h) ==
  /\ stage[h] = "waiting" /\ job[h].kind = "remember" /\ lock = 0 /\ Fault
  /\ \/ /\ UNCHANGED memory
        /\ Returns(h, << >>, Failure)
     \/ /\ memory' = Append(memory, job[h].tags)
        /\ Returns(h, << >>, [kind |-> "ok"])
  /\ UNCHANGED <<hostUp, overlaps, lock, job, stream, browser>>

(* Variant: the channel is not bounded.                                    *)
KeptAll(events) == events

(* broadcast_event: the channel keeps the newest Buffer events.            *)
Kept(events) == IF Len(events) > Buffer THEN Tail(events) ELSE events

Broadcast(h) ==
  /\ stage[h] = "broadcasting"
  /\ channel' = Kept(Append(channel, Head(out[h])))
  /\ published' = Append(published, Head(out[h]))
  /\ out' = [out EXCEPT ![h] = Tail(@)]
  /\ stage' = [stage EXCEPT ![h] = IF Len(out[h]) = 1 THEN "done" ELSE @]
  /\ lock' = IF lock = h /\ Len(out[h]) = 1 THEN 0 ELSE lock
  /\ UNCHANGED <<hostUp, overlaps, memory, job, answer, first, cursor, latest, browser, faults>>

-----------------------------------------------------------------------------
(* connectWs, ws_handler, subscribe_events.                                *)
Connect(d) ==
  /\ hostUp /\ cursor[d] = 0
  /\ cursor' = [cursor EXCEPT ![d] = Len(published) + 1]
  /\ latest' = [latest EXCEPT ![d] = << >>]
  /\ UNCHANGED <<host, channel, published, first, browser, faults>>

(* The number of the oldest event the channel keeps.                       *)
Oldest == Len(published) - Len(channel) + 1

(* handle_socket sends an event; the dashboard asks for the list again     *)
(* when it is about overlaps. (Bound: one such request at a time.)         *)
Forward(d) ==
  /\ cursor[d] > 0 /\ ~Busy(d)
  /\ Oldest <= cursor[d] /\ cursor[d] <= Len(published)
  /\ LET event == channel[cursor[d] - Oldest + 1] IN
       /\ latest' = [latest EXCEPT ![d] = <<event>>]
       /\ IF event.type = "overlap"
            THEN /\ fetches[d]["event"] = Free
                 /\ fetches' = [fetches EXCEPT ![d]["event"] = Waiting]
            ELSE UNCHANGED fetches
  /\ cursor' = [cursor EXCEPT ![d] = @ + 1]
  /\ UNCHANGED <<host, channel, published, first, view, faults>>

(* Variant: a socket that lags goes on with what comes next.               *)
LagToEnd(d) ==
  /\ cursor[d] > 0 /\ ~Busy(d)
  /\ cursor[d] < Oldest
  /\ cursor' = [cursor EXCEPT ![d] = Len(published) + 1]
  /\ UNCHANGED <<host, channel, published, first, latest, browser, faults>>

(* Variant: a socket that lags waits.                                      *)
LagAndWait(d) == FALSE

(* RecvError::Lagged: it goes on with the oldest event that is kept.       *)
Lag(d) ==
  /\ cursor[d] > 0 /\ ~Busy(d)
  /\ cursor[d] < Oldest
  /\ cursor' = [cursor EXCEPT ![d] = Oldest]
  /\ UNCHANGED <<host, channel, published, first, latest, browser, faults>>

(* Variant: the timer fires only without a socket.                         *)
AskDisconnected(d) ==
  /\ cursor[d] = 0
  /\ fetches[d]["timer"] = Free
  /\ fetches' = [fetches EXCEPT ![d]["timer"] = Waiting]
  /\ UNCHANGED <<host, stream, view, faults>>

(* The timer's turn, or the button's.                                      *)
Ask(d) ==
  /\ fetches[d]["timer"] = Free
  /\ fetches' = [fetches EXCEPT ![d]["timer"] = Waiting]
  /\ UNCHANGED <<host, stream, view, faults>>

(* api_overlaps answers, or the host is not there.                         *)
Serve(d, f) ==
  /\ fetches[d][f] = Waiting
  /\ \/ hostUp /\ lock = 0 /\ fetches' = [fetches EXCEPT ![d][f] = Got(overlaps)]
     \/ ~hostUp /\ fetches' = [fetches EXCEPT ![d][f] = Free]
  /\ UNCHANGED <<host, stream, view, faults>>

(* get_all_overlaps fails: fetchJson throws on the 500 and the dashboard   *)
(* shows what it showed.                                                   *)
ServeFails(d, f) ==
  /\ fetches[d][f] = Waiting /\ hostUp /\ lock = 0 /\ Fault
  /\ fetches' = [fetches EXCEPT ![d][f] = Free]
  /\ UNCHANGED <<host, stream, view>>

(* refreshOverlaps: the answers may arrive in any order.                   *)
Show(d, f) ==
  /\ fetches[d][f].state = "got"
  /\ view' = [view EXCEPT ![d] = fetches[d][f].list]
  /\ fetches' = [fetches EXCEPT ![d][f] = Free]
  /\ UNCHANGED <<host, stream, faults>>

-----------------------------------------------------------------------------
(* A connection breaks.                                                    *)
Disconnect(d) ==
  /\ cursor[d] > 0 /\ Fault
  /\ cursor' = [cursor EXCEPT ![d] = 0]
  /\ latest' = [latest EXCEPT ![d] = << >>]
  /\ UNCHANGED <<host, channel, published, first, browser>>

(* The host ends: its handlers, sockets and channel with it; the database  *)
(* stays.                                                                  *)
StopHost ==
  /\ hostUp /\ Fault
  /\ hostUp' = FALSE
  /\ lock' = 0
  /\ stage' = [h \in Handlers |->
       IF stage[h] \in {"waiting", "broadcasting"} THEN "ended" ELSE stage[h]]
  /\ out' = [h \in Handlers |-> << >>]
  /\ channel' = << >> /\ first' = Len(published)
  /\ cursor' = [d \in Dashboards |-> 0]
  /\ latest' = [d \in Dashboards |-> << >>]
  /\ UNCHANGED <<overlaps, memory, job, answer, published, browser>>

StartHost ==
  /\ ~hostUp /\ hostUp' = TRUE
  /\ UNCHANGED <<overlaps, memory, lock, job, stage, out, answer, stream, browser, faults>>

Handle(h) == Report(h) \/ Resolve(h) \/ Remember(h) \/ Broadcast(h)
HandleFails(h) == ReportFails(h) \/ ResolveFails(h) \/ RememberFails(h)
Follow(d) == Forward(d) \/ Lag(d)

Next ==
  \/ \E h \in Handlers :
       Handle(h) \/ HandleFails(h) \/ \E j \in Jobs : Begin(h, j)
  \/ \E d \in Dashboards :
       \/ Connect(d) \/ Follow(d) \/ Disconnect(d) \/ Ask(d)
       \/ \E f \in Fetches : Serve(d, f) \/ ServeFails(d, f) \/ Show(d, f)
  \/ StopHost \/ StartHost

Spec == Init /\ [][Next]_vars

(* The runtime runs every task, the dashboard's timer fires every five     *)
(* seconds, requests end, a closed socket is opened again after a while,   *)
(* and a host is started again.                                            *)
FairSpec ==
  /\ Spec
  /\ WF_vars(StartHost)
  /\ \A h \in Handlers : WF_vars(Handle(h))
  /\ \A d \in Dashboards :
       /\ WF_vars(Connect(d)) /\ WF_vars(Follow(d)) /\ WF_vars(Ask(d))
       /\ \A f \in Fetches : WF_vars(Serve(d, f)) /\ WF_vars(Show(d, f))

-----------------------------------------------------------------------------
TypeOK ==
  /\ hostUp \in BOOLEAN
  /\ overlaps \in [Overlaps -> Statuses]
  /\ memory \in Seq(TagLists)
  /\ lock \in 0..MaxJobs
  /\ job \in [Handlers -> Jobs \cup {NoJob}]
  /\ stage \in [Handlers -> {"idle", "waiting", "broadcasting", "done", "ended"}]
  /\ out \in [Handlers -> Seq(FeedEvents)]
  /\ channel \in Seq(FeedEvents) /\ Len(channel) <= Buffer
  /\ published \in Seq(FeedEvents)
  /\ first \in 0..Len(published)
  /\ cursor \in [Dashboards -> 0..Len(published) + 1]
  /\ latest \in [Dashboards -> Seq(FeedEvents)]
  /\ fetches \in [Dashboards -> [Fetches -> {Free, Waiting} \cup
                     {Got(list) : list \in [Overlaps -> Statuses]}]]
  /\ view \in [Dashboards -> [Overlaps -> Statuses]]
  /\ faults \in 0..MaxFaults

(* The stream as a feed.                                                   *)
Feed == INSTANCE EventFeed WITH
  Subscribers <- Dashboards, Events <- FeedEvents, Capacity <- Buffer,
  position <- cursor

(* Every socket gets the events since it connected in their order and at   *)
(* most once, and misses one only after Buffer newer ones.                 *)
FeedInOrder == Feed!Spec

(* A socket gets on as long as there are events it has not had.            *)
FeedServed == Feed!Fairness

(* Who resolves an overlap is answered with that resolution, and who adds  *)
(* a record with tags with that record, whatever the other handlers of the *)
(* host do at the time. (Another process that adds to the same database    *)
(* does not take the host's lock; there is none here.)                     *)
AnswersAreOwn ==
  \A h \in Handlers :
    /\ answer[h].kind = "resolved" => answer[h].status = KindOf(job[h].word)
    /\ answer[h].kind = "record" /\ job[h].tags # << >> =>
         answer[h].id = answer[h].own

(* h was asked for the resolution that o has.                              *)
Resolver(h, o) ==
  /\ job[h].kind = "resolve" /\ job[h].overlap = o
  /\ Known(job[h].word) /\ KindOf(job[h].word) = overlaps[o]

(* No resolution is in the store unnoticed: it has been broadcast, or who  *)
(* asked for it is just broadcasting it, was cut short by the host's end   *)
(* after the update, or was told of an error (resolve_overlap answers one  *)
(* when it cannot read the overlap back, and broadcasts nothing).          *)
ChangesAnnounced ==
  \A o \in Overlaps : overlaps[o] \notin {"none", "pending"} =>
    \/ \E i \in DOMAIN published : published[i] = OverlapEvent(o, overlaps[o])
    \/ \E h \in Handlers :
         /\ Resolver(h, o)
         /\ \/ answer[h].kind = "resolved" /\ stage[h] \in {"broadcasting", "ended"}
            \/ answer[h] = Failure

(* Whatever the stream loses, and in whatever order answers come, every    *)
(* open dashboard shows the store's overlaps in the end.                   *)
DashboardsShowStore == <>[](\A d \in Dashboards : view[d] = overlaps)

=============================================================================
