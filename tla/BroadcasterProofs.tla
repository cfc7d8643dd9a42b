-------------------------- MODULE BroadcasterProofs --------------------------
(***************************************************************************)
(* The invariants of Broadcaster hold for any number of subscribers, any    *)
(* size of their channels and any number of events and connections.         *)
(***************************************************************************)
EXTENDS Broadcaster, SequenceTheorems, TLAPS

\* How far the events have got: every event of the API server is streamed, in
\* stream's hands, or in realWatch's; nobody has had more than was streamed.
Flow ==
    /\ events = streamed + (IF stream = "deliver" THEN 1 ELSE 0)
                         + (IF watch = "send" THEN 1 ELSE 0)
    /\ stream = "end" => watch = "off"
    /\ \A s \in Subs : /\ Len(sent[s]) <= streamed
                       /\ slow[s] <= streamed
                       /\ since[s] <= streamed
                       /\ chan[s] = "none" => sent[s] = <<>> /\ slow[s] = 0

BroadcasterInv ==
    TypeOK /\ Flow /\ RegisteredIsOpen /\ RunningIsStreaming /\ OpenIsComplete

\* Appending the next event to the events streamed since a subscription gives
\* the events streamed since, with one more streamed.
LEMMA CompleteAfterAppend ==
    ASSUME NEW a \in Nat, NEW b \in Nat, a <= b, NEW q \in Seq(Nat),
           q = Between(a, b)
    PROVE  Append(q, b + 1) = Between(a, b + 1)
<1> USE DEF Between
<1> DEFINE r == Between(a, b + 1)
<1>1. Len(q) = b - a
    <2>1. DOMAIN q = 1..(b - a)
        OBVIOUS
    <2> QED BY <2>1, LenProperties
<1>2. r \in Seq(Nat) /\ Len(r) = b - a + 1
    <2>1. b + 1 - a \in Nat
        OBVIOUS
    <2>2. r \in [1..(b + 1 - a) -> Nat]
        OBVIOUS
    <2>3. r \in Seq(Nat)
        BY <2>1, <2>2
    <2>4. DOMAIN r = 1..(b + 1 - a)
        OBVIOUS
    <2> QED BY <2>1, <2>3, <2>4, LenProperties
<1>3. Append(q, b + 1) \in Seq(Nat) /\ Len(Append(q, b + 1)) = b - a + 1
    BY <1>1
<1>4. \A n \in 1..(b - a + 1) : Append(q, b + 1)[n] = r[n]
    BY <1>1
<1> QED BY <1>2, <1>3, <1>4, SeqEqual

LEMMA InitInv == Init => BroadcasterInv
<1> SUFFICES ASSUME Init PROVE BroadcasterInv
    OBVIOUS
<1> USE BroadcasterAssumption DEF Init
<1>1. TypeOK
    <2>1. <<>> \in Seq(1..MaxEvents) /\ Len(<<>>) = 0
        OBVIOUS
    <2>2. /\ sent \in [Subs -> Seq(1..MaxEvents)] /\ read \in [Subs -> 0..MaxEvents]
          /\ \A s \in Subs : Len(sent[s]) - read[s] \in 0..BufSize
        BY <2>1
    <2>3. running \in BOOLEAN
        OBVIOUS
    <2>4. /\ chan \in [Subs -> {"none", "open", "closed", "refused"}]
          /\ slow \in [Subs -> 0..MaxEvents] /\ since \in [Subs -> 0..MaxEvents]
          /\ events \in 0..MaxEvents /\ streamed \in 0..events /\ connects \in 0..MaxConnects
        OBVIOUS
    <2> QED BY <2>2, <2>3, <2>4, Zenon DEF TypeOK
<1>2. Flow
    BY DEF Flow
<1>3. RegisteredIsOpen /\ RunningIsStreaming
    BY DEF RegisteredIsOpen, RunningIsStreaming
<1>4. OpenIsComplete
    BY DEF OpenIsComplete
<1> QED BY <1>1, <1>2, <1>3, <1>4 DEF BroadcasterInv

LEMMA SubscribeInv ==
    ASSUME BroadcasterInv, NEW s \in Subs, NEW connected \in BOOLEAN, Subscribe(s, connected)
    PROVE  BroadcasterInv'
<1> USE BroadcasterAssumption DEF BroadcasterInv, Subscribe
<1>1. TypeOK'
    <2>1. running' \in BOOLEAN /\ connects' \in 0..MaxConnects
        BY DEF TypeOK
    <2>2. /\ watch' \in {"off", "wait", "send", "end"}
          /\ stream' \in {"off", "receive", "deliver", "end"}
        BY DEF TypeOK
    <2>3. /\ chan' \in [Subs -> {"none", "open", "closed", "refused"}]
          /\ subs' \subseteq Subs /\ since' \in [Subs -> 0..MaxEvents]
        BY DEF TypeOK
    <2> QED BY <2>1, <2>2, <2>3 DEF TypeOK
<1>2. Flow'
    BY DEF Flow, TypeOK, RunningIsStreaming
<1>3. RegisteredIsOpen'
    BY DEF RegisteredIsOpen, TypeOK
<1>4. RunningIsStreaming'
    BY DEF RunningIsStreaming, TypeOK
<1>5. OpenIsComplete'
    <2> SUFFICES ASSUME NEW t \in Subs, chan'[t] = "open", slow'[t] = 0
                 PROVE  sent'[t] = Between(since'[t], streamed')
        BY DEF OpenIsComplete
    <2>1. CASE t = s
        <3>1. sent'[t] = <<>> /\ since'[t] = streamed /\ streamed' = streamed /\ streamed \in Nat
            BY <2>1 DEF Flow, TypeOK
        <3>2. 1..(streamed - streamed) = {}
            BY <3>1
        <3>3. Between(streamed, streamed) = <<>>
            BY <3>2 DEF Between
        <3> QED BY <3>1, <3>3
    <2>2. CASE t # s
        BY <2>2 DEF OpenIsComplete, TypeOK
    <2> QED BY <2>1, <2>2
<1> QED BY <1>1, <1>2, <1>3, <1>4, <1>5

\* What the two kinds of goroutines that call unsub have in common.
LEMMA UnsubInv ==
    ASSUME BroadcasterInv, NEW s \in Subs, Unsub(s),
           \/ UNCHANGED slow
           \/ slow[s] > 0 /\ slow' = [slow EXCEPT ![s] = @ - 1],
           UNCHANGED <<running, sent, read, done, since, watch, stream, events, streamed, connects>>
    PROVE  BroadcasterInv'
<1> USE BroadcasterAssumption DEF BroadcasterInv, Unsub
<1>1. slow' \in [Subs -> 0..MaxEvents] /\ \A t \in Subs : slow'[t] <= slow[t]
    <2>1. slow \in [Subs -> 0..MaxEvents]
        BY DEF TypeOK
    <2>2. CASE UNCHANGED slow
        BY <2>1, <2>2
    <2>3. CASE slow[s] > 0 /\ slow' = [slow EXCEPT ![s] = @ - 1]
        BY <2>1, <2>3
    <2> QED BY <2>2, <2>3
<1>2. /\ chan' \in [Subs -> {"none", "open", "closed", "refused"}] /\ subs' \subseteq Subs
      /\ \A t \in Subs : chan'[t] = "none" => chan[t] = "none"
    BY DEF TypeOK
<1>3. TypeOK'
    BY <1>1, <1>2 DEF TypeOK
<1>4. Flow'
    <2>1. ASSUME NEW t \in Subs
          PROVE  (/\ Len(sent[t]) <= streamed /\ slow[t] <= streamed /\ since[t] <= streamed
                  /\ chan[t] = "none" => sent[t] = <<>> /\ slow[t] = 0)'
        <3>1. slow[t] \in Nat /\ slow'[t] \in Nat /\ slow'[t] <= slow[t] /\ streamed \in Nat
            BY <1>1 DEF TypeOK
        <3>2. chan'[t] = "none" => sent[t] = <<>> /\ slow[t] = 0
            BY <1>2 DEF Flow
        <3>3. Len(sent[t]) <= streamed /\ slow[t] <= streamed /\ since[t] <= streamed
            BY DEF Flow
        <3>4. slow'[t] <= streamed
            BY <3>1, <3>3
        <3>5. chan'[t] = "none" => slow'[t] = 0
            BY <3>1, <3>2
        <3> QED BY <3>2, <3>3, <3>4, <3>5
    <2>2. (/\ events = streamed + (IF stream = "deliver" THEN 1 ELSE 0)
                               + (IF watch = "send" THEN 1 ELSE 0)
           /\ stream = "end" => watch = "off")'
        BY DEF Flow
    <2> QED BY <2>1, <2>2 DEF Flow
<1>5. RegisteredIsOpen'
    BY DEF RegisteredIsOpen, TypeOK
<1>6. RunningIsStreaming'
    BY DEF RunningIsStreaming
<1>7. OpenIsComplete'
    <2> SUFFICES ASSUME NEW t \in Subs, chan'[t] = "open", slow'[t] = 0
                 PROVE  sent[t] = Between(since[t], streamed)
        BY DEF OpenIsComplete
    <2>1. t # s /\ chan[t] = "open" /\ slow[t] = 0
        BY DEF RegisteredIsOpen, TypeOK
    <2> QED BY <2>1 DEF OpenIsComplete
<1> QED BY <1>3, <1>4, <1>5, <1>6, <1>7

LEMMA DeliverInv == BroadcasterInv /\ Deliver => BroadcasterInv'
<1> SUFFICES ASSUME BroadcasterInv, Deliver PROVE BroadcasterInv'
    OBVIOUS
<1> USE BroadcasterAssumption DEF BroadcasterInv
<1> DEFINE room == {s \in subs : Len(sent[s]) - read[s] < BufSize}
<1>1. /\ streamed \in Nat /\ events \in Nat /\ streamed + 1 <= events /\ events <= MaxEvents
      /\ streamed' = streamed + 1 /\ events' = events
    BY DEF Flow, TypeOK, Deliver
<1>2. ASSUME NEW s \in Subs
      PROVE  /\ sent[s] \in Seq(1..MaxEvents) /\ Len(sent[s]) \in Nat
             /\ s \in room => /\ sent'[s] = Append(sent[s], streamed + 1)
                              /\ sent'[s] \in Seq(1..MaxEvents)
                              /\ Len(sent'[s]) = Len(sent[s]) + 1
             /\ s \notin room => sent'[s] = sent[s]
             /\ slow'[s] = IF s \in subs \ room THEN slow[s] + 1 ELSE slow[s]
    <2>1. sent[s] \in Seq(1..MaxEvents) /\ streamed + 1 \in 1..MaxEvents
        BY <1>1 DEF TypeOK
    <2>2. /\ Append(sent[s], streamed + 1) \in Seq(1..MaxEvents)
          /\ Len(Append(sent[s], streamed + 1)) = Len(sent[s]) + 1
        BY <2>1
    <2>3. sent'[s] = IF s \in room THEN Append(sent[s], streamed + 1) ELSE sent[s]
        BY DEF Deliver
    <2>4. slow'[s] = IF s \in subs \ room THEN slow[s] + 1 ELSE slow[s]
        BY DEF Deliver
    <2> HIDE DEF room
    <2>5. CASE s \in room
        <3>1. sent'[s] = Append(sent[s], streamed + 1)
            BY <2>3, <2>5
        <3> QED BY <2>1, <2>2, <2>4, <2>5, <3>1
    <2>6. CASE s \notin room
        BY <2>1, <2>3, <2>4, <2>6
    <2> QED BY <2>5, <2>6
<1>3. TypeOK'
    <2>1. sent' \in [Subs -> Seq(1..MaxEvents)]
        <3>1. \A s \in Subs : sent'[s] \in Seq(1..MaxEvents)
            BY <1>2
        <3> QED BY <3>1 DEF Deliver
    <2>2. slow' \in [Subs -> 0..MaxEvents]
        <3>1. ASSUME NEW s \in Subs PROVE slow'[s] \in 0..MaxEvents
            <4>1. slow[s] \in Nat /\ slow[s] <= streamed
                BY DEF TypeOK, Flow
            <4>2. slow'[s] = slow[s] + 1 \/ slow'[s] = slow[s]
                BY <1>2
            <4> QED BY <1>1, <4>1, <4>2
        <3> QED BY <3>1 DEF Deliver
    <2>3. \A s \in Subs : (Len(sent[s]) - read[s] \in 0..BufSize)'
        BY <1>2 DEF TypeOK, Deliver
    <2> QED BY <1>1, <2>1, <2>2, <2>3 DEF TypeOK, Deliver
<1>4. Flow'
    <2>1. (events = streamed + (IF stream = "deliver" THEN 1 ELSE 0)
                             + (IF watch = "send" THEN 1 ELSE 0))'
        BY <1>1 DEF Flow, Deliver, TypeOK
    <2>2. ASSUME NEW s \in Subs
          PROVE  (/\ Len(sent[s]) <= streamed /\ slow[s] <= streamed /\ since[s] <= streamed
                  /\ chan[s] = "none" => sent[s] = <<>> /\ slow[s] = 0)'
        BY <1>1, <1>2 DEF Flow, Deliver, TypeOK, RegisteredIsOpen
    <2>3. (stream = "end" => watch = "off")'
        BY DEF Deliver
    <2> QED BY <2>1, <2>2, <2>3 DEF Flow
<1>5. RegisteredIsOpen' /\ RunningIsStreaming'
    BY DEF RegisteredIsOpen, RunningIsStreaming, Deliver
<1>6. OpenIsComplete'
    <2> SUFFICES ASSUME NEW s \in Subs, chan'[s] = "open", slow'[s] = 0
                 PROVE  sent'[s] = Between(since'[s], streamed')
        BY DEF OpenIsComplete
    <2>1. s \in room /\ chan[s] = "open" /\ slow[s] = 0 /\ since'[s] = since[s]
        BY <1>2 DEF RegisteredIsOpen, Deliver, TypeOK
    <2>2. since[s] \in Nat /\ since[s] <= streamed /\ sent[s] \in Seq(Nat)
        <3>1. sent[s] \in Seq(1..MaxEvents)
            BY DEF TypeOK
        <3>2. \A n \in 1..Len(sent[s]) : sent[s][n] \in Nat
            BY <3>1
        <3>3. sent[s] \in Seq(Nat)
            BY <3>1, <3>2
        <3> QED BY <3>3 DEF TypeOK, Flow
    <2>3. sent[s] = Between(since[s], streamed)
        BY <2>1 DEF OpenIsComplete
    <2>4. Append(sent[s], streamed + 1) = Between(since[s], streamed + 1)
        <3> HIDE DEF room
        <3> QED BY <1>1, <2>2, <2>3, CompleteAfterAppend
    <2>5. sent'[s] = Append(sent[s], streamed + 1)
        BY <1>2, <2>1
    <2> QED BY <1>1, <2>1, <2>4, <2>5
<1> QED BY <1>3, <1>4, <1>5, <1>6

LEMMA NextInv == BroadcasterInv /\ [Next]_vars => BroadcasterInv'
<1> SUFFICES ASSUME BroadcasterInv, [Next]_vars PROVE BroadcasterInv'
    OBVIOUS
<1> USE BroadcasterAssumption
<1>1. ASSUME NEW s \in Subs, NEW connected \in BOOLEAN, Subscribe(s, connected)
      PROVE  BroadcasterInv'
    BY <1>1, SubscribeInv
<1>2. ASSUME NEW s \in Subs, ContextDone(s) PROVE BroadcasterInv'
    BY <1>2 DEF ContextDone, BroadcasterInv, TypeOK, Flow, RegisteredIsOpen,
                RunningIsStreaming, OpenIsComplete
<1>3. ASSUME NEW s \in Subs, ContextUnsub(s) PROVE BroadcasterInv'
    BY <1>3, UnsubInv DEF ContextUnsub
<1>4. ASSUME NEW s \in Subs, SlowUnsub(s) PROVE BroadcasterInv'
    BY <1>4, UnsubInv DEF SlowUnsub
<1>5. ASSUME NEW s \in Subs, Read(s) PROVE BroadcasterInv'
    <2> USE DEF Read, BroadcasterInv
    <2>1. TypeOK'
        <3>1. read' \in [Subs -> 0..MaxEvents]
            BY <1>5 DEF TypeOK, Flow
        <3>2. \A t \in Subs : (Len(sent[t]) - read[t] \in 0..BufSize)'
            BY <1>5 DEF TypeOK
        <3> QED BY <1>5, <3>1, <3>2 DEF TypeOK
    <2> QED BY <1>5, <2>1 DEF Read, BroadcasterInv, Flow, RegisteredIsOpen,
                              RunningIsStreaming, OpenIsComplete
<1>6. CASE WatchEvent
    BY <1>6 DEF WatchEvent, BroadcasterInv, TypeOK, Flow, RegisteredIsOpen,
                RunningIsStreaming, OpenIsComplete
<1>7. CASE WatchEnds
    BY <1>7 DEF WatchEnds, BroadcasterInv, TypeOK, Flow, RegisteredIsOpen,
                RunningIsStreaming, OpenIsComplete
<1>8. CASE Receive
    BY <1>8 DEF Receive, BroadcasterInv, TypeOK, Flow, RegisteredIsOpen,
                RunningIsStreaming, OpenIsComplete
<1>9. CASE Deliver
    BY <1>9, DeliverInv
<1>10. CASE EndStream
    <2>1. TypeOK' /\ Flow'
        BY <1>10 DEF EndStream, BroadcasterInv, TypeOK, Flow, RegisteredIsOpen
    <2>2. RegisteredIsOpen' /\ OpenIsComplete'
        BY <1>10 DEF EndStream, BroadcasterInv, TypeOK, RegisteredIsOpen, OpenIsComplete
    <2>3. RunningIsStreaming'
        BY <1>10 DEF EndStream, BroadcasterInv, RunningIsStreaming, Flow
    <2> QED BY <2>1, <2>2, <2>3 DEF BroadcasterInv
<1>11. CASE UNCHANGED vars
    BY <1>11 DEF vars, BroadcasterInv, TypeOK, Flow, RegisteredIsOpen,
                 RunningIsStreaming, OpenIsComplete
<1> QED BY <1>1, <1>2, <1>3, <1>4, <1>5, <1>6, <1>7, <1>8, <1>9, <1>10, <1>11 DEF Next

LEMMA AlwaysInv == Spec => []BroadcasterInv
<1> QED BY InitInv, NextInv, PTL DEF Spec

\* The values of the variables have the types of the fields and channels of
\* broadcaster.go, and no channel holds more than its capacity.
THEOREM TypeCorrect == Spec => []TypeOK
<1>1. BroadcasterInv => TypeOK
    BY DEF BroadcasterInv
<1> QED BY <1>1, AlwaysInv, PTL

\* No channel is closed twice or sent on after it was closed, with any number of
\* goroutines in unsub.
THEOREM ChannelsAreSafe == Spec => []RegisteredIsOpen
<1>1. BroadcasterInv => RegisteredIsOpen
    BY DEF BroadcasterInv
<1> QED BY <1>1, AlwaysInv, PTL

\* A subscriber that is not being dropped has had every event since it
\* subscribed, in order (stream).
THEOREM SubscribersMissNothing == Spec => []OpenIsComplete
<1>1. BroadcasterInv => OpenIsComplete
    BY DEF BroadcasterInv
<1> QED BY <1>1, AlwaysInv, PTL

\* At most one watch is open, and running tells whether its stream has ended
\* (start, stream).
THEOREM OneStream == Spec => []RunningIsStreaming
<1>1. BroadcasterInv => RunningIsStreaming
    BY DEF BroadcasterInv
<1> QED BY <1>1, AlwaysInv, PTL
==============================================================================
