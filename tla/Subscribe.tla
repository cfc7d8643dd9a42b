------------------------------- MODULE Subscribe -------------------------------
(***************************************************************************)
(* pkg/subscribe: one websocket on which the changes of several types of    *)
(* resources are streamed.  One goroutine per type (streamStore) moves the  *)
(* events of the store's watch to the unbuffered channel events, the        *)
(* handler's loop writes them to the websocket, one goroutine reads the     *)
(* websocket to see it end, and one closes events once all streams ended.   *)
(* A context is cancelled by whoever fails first, and ends the watches.     *)
(* Between a store and its stream are the goroutines of convert.Chan, one   *)
(* for each layer of stores that filters or changes what is watched.        *)
(***************************************************************************)
EXTENDS Integers, Sequences

CONSTANTS
    Types,      \* the schemas that match the request and have a store
    Layers,     \* per type, how many calls of convert.Chan its watch goes through:
                \* the proxy store's, those of transform stores, the wrapper's
    MaxEvents   \* bound: the events of one watch

ASSUME SubscribeAssumption == MaxEvents \in Nat /\ Layers \in [Types -> Nat]

VARIABLES
    loop,       \* the handler: "start", "refused", "select", "write" or "done"
    item,       \* the event that the loop writes: its type and number, known or not
    stream,     \* per type, streamStore: "none", "watch", "range", "send" or "ended"
    offer,      \* per type, what streamStore sends: its number, and whether the
                \* type of the event has a schema (data may name any type)
    watch,      \* per type, the channel of the store's watch: "none", "open", "closed"
    chan,       \* per type and layer, the goroutine of Chan: the event it sends,
                \* NoEvent while it receives, Over once it has closed its channel
    number,     \* per type, the number of events the watch has had
    cancelled,  \* whether ctx is done
    closed,     \* whether events is closed
    reading,    \* the goroutine that reads the websocket: "none", "reading" or "ended"
    conn,       \* the websocket: "none", "open", "lost" (by the client) or "closed"
    due,        \* history: per type, the events that no layer drops and that have
                \* a schema
    written     \* history: per type, the events that it wrote

vars == <<loop, item, stream, offer, watch, chan, number, cancelled, closed, reading, conn,
          due, written>>

\* through is the number of layers that let the event pass.
EventOf(t) == [type: {t}, number: 1..MaxEvents, known: BOOLEAN, through: 0..Layers[t]]
Events == UNION {EventOf(t) : t \in Types}
NoEvent == [number |-> 0]
Over == [number |-> -1]

Init ==
    /\ loop = "start" /\ item = NoEvent
    /\ stream = [t \in Types |-> "none"] /\ offer = [t \in Types |-> NoEvent]
    /\ watch = [t \in Types |-> "none"] /\ number = [t \in Types |-> 0]
    /\ chan = [t \in Types |-> [i \in 1..Layers[t] |-> NoEvent]]
    /\ cancelled = FALSE /\ closed = FALSE
    /\ reading = "none" /\ conn = "none"
    /\ due = [t \in Types |-> <<>>] /\ written = [t \in Types |-> <<>>]

\* No type matches, or the request is not for a websocket.
Refuse ==
    /\ loop = "start"
    /\ loop' = "refused"
    /\ UNCHANGED <<item, stream, offer, watch, chan, number, cancelled, closed, reading, conn,
                   due, written>>

\* The upgrade, and the start of all goroutines.
Upgrade ==
    /\ loop = "start" /\ Types # {}
    /\ loop' = "select"
    /\ stream' = [t \in Types |-> "watch"]
    /\ reading' = "reading" /\ conn' = "open"
    /\ UNCHANGED <<item, offer, watch, chan, number, cancelled, closed, due, written>>

\* schema.Store.Watch gives a channel, ...
WatchOpens(t) ==
    /\ stream[t] = "watch"
    /\ stream' = [stream EXCEPT ![t] = "range"]
    /\ watch' = [watch EXCEPT ![t] = "open"]
    /\ UNCHANGED <<loop, item, offer, chan, number, cancelled, closed, reading, conn, due, written>>

\* ... or nil (a store that cannot be watched), or an error, the first of which
\* cancels the context of the group.
WatchFails(t, err) ==
    /\ stream[t] = "watch"
    /\ stream' = [stream EXCEPT ![t] = "ended"]
    /\ cancelled' = (cancelled \/ err)
    /\ UNCHANGED <<loop, item, offer, watch, chan, number, closed, reading, conn, due, written>>

\* What the function of layer i makes of e: nothing, if the store's filter or its
\* transformer drops it.
Modified(e, i) == IF e.through >= i THEN e ELSE NoEvent

\* Position i of the way of type t, a layer or after the last of them the stream,
\* receives e from the position before it, which leaves the layers as ls.
Receive(t, i, e, ls) ==
    \/ /\ i \in DOMAIN ls /\ ls[i] = NoEvent
       /\ chan' = [chan EXCEPT ![t] = [ls EXCEPT ![i] = Modified(e, i)]]
       /\ UNCHANGED <<stream, offer>>
    \/ /\ i \notin DOMAIN ls /\ stream[t] = "range"
       /\ chan' = [chan EXCEPT ![t] = ls]
       /\ offer' = [offer EXCEPT ![t] = e]
       /\ stream' = [stream EXCEPT ![t] = "send"]

\* The channel that position i ranges over is closed.
Drained(t, i) == IF i = 1 THEN watch[t] = "closed" ELSE chan[t][i - 1] = Over

\* The store's watch has an event.
WatchSends(t, known, through) ==
    LET e == [type |-> t, number |-> number[t] + 1, known |-> known, through |-> through]
    IN /\ watch[t] = "open" /\ number[t] < MaxEvents
       /\ Receive(t, 1, e, chan[t])
       /\ number' = [number EXCEPT ![t] = @ + 1]
       /\ due' = [due EXCEPT ![t] = IF known /\ through = Layers[t] THEN Append(@, e.number) ELSE @]
       /\ UNCHANGED <<loop, item, watch, cancelled, closed, reading, conn, written>>

\* The goroutine of Chan sends what its function gave.
ChanSends(t, i) ==
    /\ chan[t][i] \notin {NoEvent, Over}
    /\ Receive(t, i + 1, chan[t][i], [chan[t] EXCEPT ![i] = NoEvent])
    /\ UNCHANGED <<loop, item, watch, number, cancelled, closed, reading, conn, due, written>>

\* Its range is over and it closes its channel.
ChanEnds(t, i) ==
    /\ chan[t][i] = NoEvent /\ Drained(t, i)
    /\ chan' = [chan EXCEPT ![t][i] = Over]
    /\ UNCHANGED <<loop, item, stream, offer, watch, number, cancelled, closed, reading, conn,
                   due, written>>

\* A store closes the channel once ctx is done, or when its watch ends.
WatchCloses(t) ==
    /\ watch[t] = "open"
    /\ watch' = [watch EXCEPT ![t] = "closed"]
    /\ UNCHANGED <<loop, item, stream, offer, chan, number, cancelled, closed, reading, conn,
                   due, written>>

\* The range is over, and the error "disconnect" cancels the context.
StreamEnds(t) ==
    /\ stream[t] = "range" /\ Drained(t, Layers[t] + 1)
    /\ stream' = [stream EXCEPT ![t] = "ended"]
    /\ cancelled' = TRUE
    /\ UNCHANGED <<loop, item, offer, watch, chan, number, closed, reading, conn, due, written>>

\* Mutant: the first stream that ends closes the channel.
CloseEventsEarly ==
    /\ loop # "start" /\ ~closed
    /\ \E t \in Types : stream[t] = "ended"
    /\ closed' = TRUE
    /\ cancelled' = TRUE
    /\ UNCHANGED <<loop, item, stream, offer, watch, chan, number, reading, conn, due, written>>

\* readerGroup.Wait, which cancels the group's context, and close(events).
CloseEvents ==
    /\ loop # "start" /\ ~closed
    /\ Types # {} /\ \A t \in Types : stream[t] = "ended"
    /\ closed' = TRUE
    /\ cancelled' = TRUE
    /\ UNCHANGED <<loop, item, stream, offer, watch, chan, number, reading, conn, due, written>>

\* The loop takes the event that a stream has to send.
Take(t) ==
    /\ loop = "select" /\ stream[t] = "send"
    /\ loop' = "write"
    /\ item' = offer[t]
    /\ stream' = [stream EXCEPT ![t] = "range"]
    /\ offer' = [offer EXCEPT ![t] = NoEvent]
    /\ UNCHANGED <<watch, chan, number, cancelled, closed, reading, conn, due, written>>

\* An event of a type that has no schema is left out.
SkipUnknown ==
    /\ loop = "write" /\ ~item.known
    /\ loop' = "select" /\ item' = NoEvent
    /\ UNCHANGED <<stream, offer, watch, chan, number, cancelled, closed, reading, conn, due, written>>

\* The event is encoded and written.  A client that has left may not have been
\* noticed yet.
WriteItem ==
    /\ loop = "write" /\ item.known /\ conn # "closed"
    /\ loop' = "select" /\ item' = NoEvent
    /\ written' = [written EXCEPT ![item.type] = Append(@, item.number)]
    /\ UNCHANGED <<stream, offer, watch, chan, number, cancelled, closed, reading, conn, due>>

\* Mutant: an event that cannot be written is forgotten.
WriteFailsQuietly ==
    /\ loop = "write" /\ item.known
    /\ loop' = "select" /\ item' = NoEvent
    /\ UNCHANGED <<stream, offer, watch, chan, number, cancelled, closed, reading, conn, due, written>>

\* The event cannot be encoded or written: the context is cancelled, and the
\* loop goes on until events is closed.
WriteFails ==
    /\ loop = "write" /\ item.known
    /\ loop' = "select" /\ item' = NoEvent
    /\ cancelled' = TRUE
    /\ UNCHANGED <<stream, offer, watch, chan, number, closed, reading, conn, due, written>>

\* The ping of the ticker cannot be written; one that can changes nothing.
PingFails ==
    /\ loop = "select" /\ conn # "open"
    /\ cancelled' = TRUE
    /\ UNCHANGED <<loop, item, stream, offer, watch, chan, number, closed, reading, conn, due, written>>

\* events is closed: the handler returns and closes the websocket.
Return ==
    /\ loop = "select" /\ closed
    /\ loop' = "done" /\ conn' = "closed"
    /\ UNCHANGED <<item, stream, offer, watch, chan, number, cancelled, closed, reading, due, written>>

\* The client goes away.
ClientLeaves ==
    /\ conn = "open"
    /\ conn' = "lost"
    /\ UNCHANGED <<loop, item, stream, offer, watch, chan, number, cancelled, closed, reading,
                   due, written>>

\* Mutant: the goroutine ends without cancelling.
ReadFailsQuietly ==
    /\ reading = "reading" /\ conn # "open"
    /\ reading' = "ended"
    /\ conn' = "closed"
    /\ UNCHANGED <<loop, item, stream, offer, watch, chan, number, cancelled, closed, due, written>>

\* NextReader fails.
ReadFails ==
    /\ reading = "reading" /\ conn # "open"
    /\ reading' = "ended"
    /\ cancelled' = TRUE /\ conn' = "closed"
    /\ UNCHANGED <<loop, item, stream, offer, watch, chan, number, closed, due, written>>

\* The request's own context is done.
RequestDone ==
    /\ loop \in {"select", "write"} /\ ~cancelled
    /\ cancelled' = TRUE
    /\ UNCHANGED <<loop, item, stream, offer, watch, chan, number, closed, reading, conn, due, written>>

\* Everything has ended.
Ended ==
    /\ loop = "done" /\ closed /\ reading = "ended"
    /\ \A t \in Types :
         /\ stream[t] = "ended"
         /\ watch[t] = "none" \/ \A i \in 1..Layers[t] : chan[t][i] = Over

Terminated == (Ended \/ loop = "refused") /\ UNCHANGED vars

StreamStep(t) ==
    \/ WatchOpens(t)
    \/ \E err \in BOOLEAN : WatchFails(t, err)
    \/ StreamEnds(t)

ChanStep(t, i) == ChanSends(t, i) \/ ChanEnds(t, i)

Write == SkipUnknown \/ WriteItem \/ WriteFails

Next ==
    \/ Refuse \/ Upgrade \/ CloseEvents \/ Write \/ PingFails \/ Return
    \/ ClientLeaves \/ ReadFails \/ RequestDone \/ Terminated
    \/ \E t \in Types :
         \/ StreamStep(t) \/ WatchCloses(t) \/ Take(t)
         \/ \E known \in BOOLEAN, n \in 0..Layers[t] : WatchSends(t, known, n)
         \/ \E i \in 1..Layers[t] : ChanStep(t, i)

Spec == Init /\ [][Next]_vars

\* Goroutines run, and a write completes or fails.  A store closes the channel of
\* its watch once the context is done; nothing makes events come, watches end or
\* the client leave.
Fairness ==
    /\ WF_vars(CloseEvents) /\ WF_vars(Write) /\ WF_vars(Return) /\ WF_vars(ReadFails)
    /\ \A t \in Types :
         /\ WF_vars(StreamStep(t))
         /\ WF_vars(WatchCloses(t) /\ cancelled)
         /\ WF_vars(Take(t))
         /\ \A i \in 1..Layers[t] : WF_vars(ChanStep(t, i))

FairSpec == Spec /\ Fairness

------------------------------------------------------------------------------
(* Properties.                                                              *)

\* The type invariant of the state of handler; a stream ranges over a channel that
\* is not nil.
TypeOK ==
    /\ loop \in {"start", "refused", "select", "write", "done"}
    /\ item \in Events \cup {NoEvent}
    /\ stream \in [Types -> {"none", "watch", "range", "send", "ended"}]
    /\ \A t \in Types : offer[t] \in EventOf(t) \cup {NoEvent}
    /\ \A t \in Types : chan[t] \in [1..Layers[t] -> EventOf(t) \cup {NoEvent, Over}]
    /\ watch \in [Types -> {"none", "open", "closed"}]
    /\ \A t \in Types : /\ stream[t] \in {"range", "send"} => watch[t] # "none"
                        /\ stream[t] = "send" <=> offer[t] # NoEvent
    /\ number \in [Types -> 0..MaxEvents]
    /\ cancelled \in BOOLEAN /\ closed \in BOOLEAN
    /\ reading \in {"none", "reading", "ended"}
    /\ conn \in {"none", "open", "lost", "closed"}
    /\ due \in [Types -> Seq(1..MaxEvents)] /\ written \in [Types -> Seq(1..MaxEvents)]

\* No goroutine has an event to send when events is closed, and a handler that has
\* returned leaves none waiting for it, neither a stream nor a convert.Chan: the
\* channel is closed after all streams, a stream ends after the channels before it,
\* and the loop ends after events is closed (handler, Chan).
NobodySendsInVain ==
    closed \/ loop = "done" =>
      \A t \in Types : stream[t] = "ended" /\ \A i \in 1..Layers[t] : chan[t][i] \in {NoEvent, Over}

\* The places an event of type t passes, in order: the layers, the stream and the
\* loop; and the numbers of the due events that are in one of them.
Way(t) == 1..(Layers[t] + 2)

Place(t, p) ==
    IF p <= Layers[t] THEN chan[t][p]
    ELSE IF p = Layers[t] + 1 THEN offer[t]
    ELSE IF item # NoEvent /\ item.type = t THEN item ELSE NoEvent

Due(t, e) == e.number > 0 /\ e.known /\ e.through = Layers[t]

OnTheWay(t) == {Place(t, p).number : p \in {q \in Way(t) : Due(t, Place(t, q))}}

\* What was written and what is on the way are together what is due, in order.
Complete(t) ==
    /\ Len(written[t]) <= Len(due[t])
    /\ \A i \in 1..Len(written[t]) : written[t][i] = due[t][i]
    /\ OnTheWay(t) = {due[t][i] : i \in (Len(written[t]) + 1)..Len(due[t])}

\* A client has every event that the layers let pass, in order, but for those on
\* their way through the goroutines of Chan, the stream and the loop; or it is on a
\* websocket that is ending, and has to subscribe again (the cancel for every write
\* that fails).
GapEndsSubscription == \A t \in Types : cancelled \/ Complete(t)

\* The end of one watch or of the client, or a failed write, ends the handler
\* and all its goroutines: none is left behind (streamStore, the goroutines of
\* handler).
EndsTogether ==
    conn \in {"lost", "closed"} \/ cancelled \/ (\E t \in Types : watch[t] = "closed") ~> Ended

==============================================================================
