------------------------------- MODULE EventFeed -------------------------------
(***************************************************************************)
(* What the host's live stream promises a dashboard: the events published  *)
(* since it subscribed, in their order and each at most once.  It may miss *)
(* some, but only the oldest, and only when Capacity newer ones are there. *)
(***************************************************************************)
EXTENDS Naturals, Sequences

CONSTANTS Subscribers, Events, Capacity  \* a positive number

VARIABLES
  published,  \* all events, in their order
  position,   \* the number of the event a subscriber gets next; 0 without
              \* a subscription
  latest      \* the event it got last, a sequence of none or one

feed == <<published, position, latest>>

Init ==
  /\ published = << >>
  /\ position = [d \in Subscribers |-> 0]
  /\ latest = [d \in Subscribers |-> << >>]

Publish(e) ==
  /\ published' = Append(published, e)
  /\ UNCHANGED <<position, latest>>

Subscribe(d) ==
  /\ position[d] = 0
  /\ position' = [position EXCEPT ![d] = Len(published) + 1]
  /\ latest' = [latest EXCEPT ![d] = << >>]
  /\ UNCHANGED published

(* Subscriptions end: one, or all with the host.                           *)
Leave(D) ==
  /\ position' = [d \in Subscribers |-> IF d \in D THEN 0 ELSE position[d]]
  /\ latest' = [d \in Subscribers |-> IF d \in D THEN << >> ELSE latest[d]]
  /\ UNCHANGED published

Deliver(d) ==
  /\ position[d] \in 1..Len(published)
  /\ latest' = [latest EXCEPT ![d] = <<published[position[d]]>>]
  /\ position' = [position EXCEPT ![d] = @ + 1]
  /\ UNCHANGED published

Miss(d) ==
  /\ position[d] > 0
  /\ position[d] + Capacity <= Len(published)
  /\ position' = [position EXCEPT ![d] = Len(published) - Capacity + 1]
  /\ UNCHANGED <<published, latest>>

Next ==
  \/ \E e \in Events : Publish(e)
  \/ \E D \in SUBSET Subscribers : Leave(D)
  \/ \E d \in Subscribers : Subscribe(d) \/ Deliver(d) \/ Miss(d)

Spec == Init /\ [][Next]_feed

(* Whoever subscribes is served.                                           *)
Fairness == \A d \in Subscribers : WF_feed(Deliver(d) \/ Miss(d))

=============================================================================
