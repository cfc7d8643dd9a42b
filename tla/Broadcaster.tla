---------------------------- MODULE Broadcaster ------------------------------
(***************************************************************************)
(* pkg/broadcast/broadcaster.go, as store/proxy shares one watch of the API *)
(* server among all its watchers: realWatch feeds a channel, stream copies  *)
(* every event to the channels of the subscribers, and the first subscriber *)
(* after the watch has ended connects again.                                *)
(*                                                                          *)
(* An event is its number.  Every operation under the Broadcaster's mutex is *)
(* one step.                                                                *)
(***************************************************************************)
EXTENDS Integers, FiniteSets, SequencesExt

CONSTANTS
    Subs,         \* calls of Subscribe, each with the channel it makes
    BufSize,      \* capacity of such a channel (100 in the code)
    MaxEvents,    \* bound on the events of the API server
    MaxConnects   \* bound on calls of connect

ASSUME BroadcasterAssumption ==
    /\ BufSize \in Nat \ {0} /\ MaxEvents \in Nat /\ MaxConnects \in Nat

VARIABLES
    running, subs,  \* Broadcaster.running, Broadcaster.subs
    chan,      \* the subscribers' channels: "none", "open", "closed", or "refused"
    sent,      \* events that were put into a channel
    read,      \* number of events that the subscriber has read from it
    done,      \* subscribers whose context is done and whose goroutine waits to unsub
    slow,      \* number of goroutines that stream started to unsub a subscriber
    since,     \* number of events streamed before the subscription
    watch,     \* the goroutine of realWatch: "off", "wait", "send" or "end"
    stream,    \* the goroutine of stream: "off", "receive", "deliver" or "end"
    events,    \* events the API server has sent so far
    streamed,  \* events copied to the subscribers so far
    connects   \* number of calls of connect so far

vars == <<running, subs, chan, sent, read, done, slow, since, watch, stream,
          events, streamed, connects>>

TypeOK ==
    /\ running \in BOOLEAN /\ subs \subseteq Subs
    /\ chan \in [Subs -> {"none", "open", "closed", "refused"}]
    /\ sent \in [Subs -> Seq(1..MaxEvents)]
    /\ read \in [Subs -> 0..MaxEvents] /\ done \subseteq Subs
    /\ \A s \in Subs : Len(sent[s]) - read[s] \in 0..BufSize
    /\ slow \in [Subs -> 0..MaxEvents] /\ since \in [Subs -> 0..MaxEvents]
    /\ watch \in {"off", "wait", "send", "end"}
    /\ stream \in {"off", "receive", "deliver", "end"}
    /\ events \in 0..MaxEvents /\ streamed \in 0..events /\ connects \in 0..MaxConnects

------------------------------------------------------------------------------
(* Subscribers.                                                             *)

\* Subscribe connects if nothing is running, which may fail.
Subscribe(s, connected) ==
    /\ chan[s] = "none"
    /\ IF running THEN connected /\ UNCHANGED <<running, watch, stream, connects>>
       ELSE /\ connects < MaxConnects
            /\ connects' = connects + 1
            /\ running' = connected
            /\ watch' = IF connected THEN "wait" ELSE watch
            /\ stream' = IF connected THEN "receive" ELSE stream
    /\ chan' = [chan EXCEPT ![s] = IF connected THEN "open" ELSE "refused"]
    /\ subs' = IF connected THEN subs \cup {s} ELSE subs
    /\ since' = [since EXCEPT ![s] = streamed]
    /\ UNCHANGED <<sent, read, done, slow, events, streamed>>

\* Mutant: unsub closes the channel without looking whether it is registered.
UnsubCloses(s) ==
    /\ chan' = [chan EXCEPT ![s] = "closed"]
    /\ UNCHANGED subs

\* Mutant: unsub forgets the channel without closing it.
UnsubForgets(s) ==
    /\ subs' = subs \ {s}
    /\ UNCHANGED chan

\* unsub, with the mutex held.
Unsub(s) ==
    /\ chan' = IF s \in subs THEN [chan EXCEPT ![s] = "closed"] ELSE chan
    /\ subs' = subs \ {s}

\* The request of a subscriber ends.
ContextDone(s) ==
    /\ chan[s] \in {"open", "closed"} /\ s \notin done
    /\ done' = done \cup {s}
    /\ UNCHANGED <<running, subs, chan, sent, read, slow, since, watch, stream, events, streamed, connects>>

\* The goroutine of Subscribe.
ContextUnsub(s) ==
    /\ s \in done
    /\ Unsub(s)
    /\ UNCHANGED <<running, sent, read, done, slow, since, watch, stream, events, streamed, connects>>

\* A goroutine that stream started for a slow subscriber.
SlowUnsub(s) ==
    /\ slow[s] > 0
    /\ slow' = [slow EXCEPT ![s] = @ - 1]
    /\ Unsub(s)
    /\ UNCHANGED <<running, sent, read, done, since, watch, stream, events, streamed, connects>>

\* The subscriber reads from its channel, which works after it was closed, too.
Read(s) ==
    /\ read[s] < Len(sent[s])
    /\ read' = [read EXCEPT ![s] = @ + 1]
    /\ UNCHANGED <<running, subs, chan, sent, done, slow, since, watch, stream, events, streamed, connects>>

------------------------------------------------------------------------------
(* realWatch and stream.                                                    *)

WatchEvent ==
    /\ watch = "wait" /\ events < MaxEvents
    /\ events' = events + 1
    /\ watch' = "send"
    /\ UNCHANGED <<running, subs, chan, sent, read, done, slow, since, stream, streamed, connects>>

\* The watch times out, fails, or the store is closed.
WatchEnds ==
    /\ watch = "wait"
    /\ watch' = "end"
    /\ UNCHANGED <<running, subs, chan, sent, read, done, slow, since, stream, events, streamed, connects>>

\* The channel between realWatch and stream has no buffer.
Receive ==
    /\ stream = "receive" /\ watch \in {"send", "end"}
    /\ stream' = IF watch = "send" THEN "deliver" ELSE "end"
    /\ watch' = IF watch = "send" THEN "wait" ELSE "off"
    /\ UNCHANGED <<running, subs, chan, sent, read, done, slow, since, events, streamed, connects>>

\* Mutant: a slow subscriber just misses the event.
DeliverSkips ==
    LET room == {s \in subs : Len(sent[s]) - read[s] < BufSize} IN
    /\ stream = "deliver"
    /\ stream' = "receive"
    /\ streamed' = streamed + 1
    /\ sent' = [s \in Subs |-> IF s \in room THEN Append(sent[s], streamed + 1) ELSE sent[s]]
    /\ UNCHANGED <<running, subs, chan, read, done, slow, since, watch, events, connects>>

\* stream copies an event to every subscriber; one whose channel is full does
\* not get it and is to be unsubscribed.
Deliver ==
    LET room == {s \in subs : Len(sent[s]) - read[s] < BufSize} IN
    /\ stream = "deliver"
    /\ stream' = "receive"
    /\ streamed' = streamed + 1
    /\ sent' = [s \in Subs |-> IF s \in room THEN Append(sent[s], streamed + 1) ELSE sent[s]]
    /\ slow' = [s \in Subs |-> IF s \in subs \ room THEN slow[s] + 1 ELSE slow[s]]
    /\ UNCHANGED <<running, subs, chan, read, done, since, watch, events, connects>>

\* stream ends: every subscriber's channel is closed.
EndStream ==
    /\ stream = "end"
    /\ stream' = "off" /\ running' = FALSE
    /\ chan' = [s \in Subs |-> IF s \in subs THEN "closed" ELSE chan[s]]
    /\ subs' = {}
    /\ UNCHANGED <<sent, read, done, slow, since, watch, events, streamed, connects>>

------------------------------------------------------------------------------
Init ==
    /\ running = FALSE /\ subs = {}
    /\ chan = [s \in Subs |-> "none"]
    /\ sent = [s \in Subs |-> <<>>] /\ read = [s \in Subs |-> 0]
    /\ done = {} /\ slow = [s \in Subs |-> 0] /\ since = [s \in Subs |-> 0]
    /\ watch = "off" /\ stream = "off"
    /\ events = 0 /\ streamed = 0 /\ connects = 0

Next ==
    \/ \E s \in Subs : \/ \E connected \in BOOLEAN : Subscribe(s, connected)
                       \/ ContextDone(s) \/ ContextUnsub(s) \/ SlowUnsub(s) \/ Read(s)
    \/ WatchEvent \/ WatchEnds \/ Receive \/ Deliver \/ EndStream

Spec == Init /\ [][Next]_vars

\* Goroutines that can go on do.  Nothing is assumed of the API server or of
\* how fast subscribers read.
Fairness ==
    /\ WF_vars(Receive) /\ WF_vars(Deliver) /\ WF_vars(EndStream)
    /\ \A s \in Subs : WF_vars(ContextUnsub(s)) /\ WF_vars(SlowUnsub(s))

FairSpec == Spec /\ Fairness

------------------------------------------------------------------------------
(* Properties.                                                              *)

\* Registered channels, and only they, are open: stream sends on no closed
\* channel and unsub closes none twice, whichever of the context's goroutine,
\* the slow consumer's and the end of stream comes first.
RegisteredIsOpen == subs = {s \in Subs : chan[s] = "open"}

\* The events after event a, up to event b.
Between(a, b) == [n \in 1..(b - a) |-> a + n]

\* A subscriber whose channel is open and who is not about to be unsubscribed
\* has been given every event streamed since it subscribed, in order and once
\* (stream, Subscribe between two events).
OpenIsComplete ==
    \A s \in Subs :
        chan[s] = "open" /\ slow[s] = 0 => sent[s] = Between(since[s], streamed)

\* There is one watch and one stream, and running says so: a subscriber never
\* joins a Broadcaster whose stream has closed its subscribers already, nor is a
\* second watch started next to the first (stream, start).
RunningIsStreaming ==
    /\ running <=> stream # "off"
    /\ stream = "off" => subs = {} /\ watch = "off"

\* A subscriber whose request has ended, or who was too slow, has its channel
\* closed in the end, and so have all when the watch ends, however slow they are
\* (the goroutines of Subscribe and of stream, which never waits for a
\* subscriber).
LeaversAreClosed == \A s \in Subs :
    chan[s] = "open" /\ (s \in done \/ slow[s] > 0 \/ watch = "end") ~> chan[s] = "closed"

==============================================================================
