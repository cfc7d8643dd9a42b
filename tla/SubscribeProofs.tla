--------------------------- MODULE SubscribeProofs ---------------------------
(***************************************************************************)
(* For any types, layers of stores and number of events, nothing is sent   *)
(* on a channel nobody receives from.                                      *)
(***************************************************************************)
EXTENDS Subscribe, TLAPS

Held(t) == EventOf(t) \cup {NoEvent, Over}
AllLayers == UNION {[1..Layers[t] -> Held(t)] : t \in Types}

StateTypes ==
  /\ TypeOK
  /\ offer \in [Types -> Events \cup {NoEvent}]
  /\ chan \in [Types -> AllLayers]

(* Who has ended: the handler after events is closed, events after all     *)
(* streams, a stream after the layers before it and these from the first   *)
(* to the last.  A loop that writes has an item, and what no watch feeds   *)
(* is empty.                                                               *)
LayersInv(t) ==
  /\ stream[t] \in {"none", "watch"} => watch[t] = "none"
  /\ watch[t] = "none" => \A i \in 1..Layers[t] : chan[t][i] = NoEvent
  /\ \A i \in 1..Layers[t] : chan[t][i] = Over => \A j \in 1..i : chan[t][j] = Over
  /\ stream[t] = "ended" /\ watch[t] # "none" => \A i \in 1..Layers[t] : chan[t][i] = Over

LoopInv ==
  /\ closed => loop # "start" /\ \A t \in Types : stream[t] = "ended"
  /\ loop = "done" => closed
  /\ loop = "start" => \A t \in Types : stream[t] = "none"
  /\ loop = "write" <=> item # NoEvent

EndInv == LoopInv /\ \A t \in Types : LayersInv(t)

------------------------------------------------------------------------------
LEMMA EventFacts ==
  ASSUME NEW t \in Types
  PROVE  /\ Layers[t] \in Nat
         /\ NoEvent.number = 0 /\ Over.number = -1 /\ NoEvent # Over
         /\ \A e \in EventOf(t) : /\ e.number \in 1..MaxEvents /\ e.number > 0 /\ e.number # 0
                                  /\ e.type = t /\ e.through \in 0..Layers[t] /\ e.known \in BOOLEAN
                                  /\ e # NoEvent /\ e # Over
         /\ NoEvent \notin EventOf(t) /\ Over \notin EventOf(t)
<1>1. Layers[t] \in Nat /\ MaxEvents \in Nat
  BY SubscribeAssumption
<1>2. NoEvent.number = 0 /\ Over.number = -1 /\ NoEvent # Over
  BY DEF NoEvent, Over
<1>3. \A e \in EventOf(t) : /\ e.number \in 1..MaxEvents
                            /\ e.type = t /\ e.through \in 0..Layers[t] /\ e.known \in BOOLEAN
  BY DEF EventOf
<1>4. \A e \in EventOf(t) : e.number > 0 /\ e.number # 0
  BY <1>1, <1>3
<1>5. \A e \in EventOf(t) : e # NoEvent /\ e # Over
  BY <1>2, <1>4
<1> QED
  BY <1>1, <1>2, <1>3, <1>4, <1>5

------------------------------------------------------------------------------
(* The steps.  An event is received by a layer or by the stream.           *)
LEMMA Received ==
  ASSUME StateTypes, NEW t \in Types, NEW i \in 1..(Layers[t] + 1), NEW e \in EventOf(t),
         NEW ls \in [1..Layers[t] -> Held(t)], Receive(t, i, e, ls)
  PROVE  /\ \/ /\ i \in 1..Layers[t] /\ ls[i] = NoEvent
               /\ chan'[t] = [ls EXCEPT ![i] = Modified(e, i)]
               /\ UNCHANGED <<stream, offer>>
            \/ /\ i = Layers[t] + 1 /\ stream[t] = "range"
               /\ chan'[t] = ls /\ offer'[t] = e /\ stream'[t] = "send"
               /\ \A u \in Types \ {t} : offer'[u] = offer[u] /\ stream'[u] = stream[u]
         /\ \A u \in Types \ {t} : chan'[u] = chan[u]
         /\ chan'[t] \in [1..Layers[t] -> Held(t)]
         /\ chan' \in [Types -> AllLayers]
         /\ offer' \in [Types -> Events \cup {NoEvent}]
         /\ stream' \in [Types -> {"none", "watch", "range", "send", "ended"}]
<1>1. DOMAIN ls = 1..Layers[t] /\ Layers[t] \in Nat
  BY EventFacts
<1>2. Modified(e, i) \in Held(t)
  BY DEF Modified, Held
<1>3. ASSUME NEW l \in [1..Layers[t] -> Held(t)], chan' = [chan EXCEPT ![t] = l]
      PROVE  /\ chan'[t] = l
             /\ \A u \in Types \ {t} : chan'[u] = chan[u]
             /\ chan' \in [Types -> AllLayers]
  <2>1. l \in AllLayers
    BY DEF AllLayers
  <2> QED
    BY <1>3, <2>1 DEF StateTypes
<1>4. CASE i \in DOMAIN ls
  <2> DEFINE l == [ls EXCEPT ![i] = Modified(e, i)]
  <2>1. l \in [1..Layers[t] -> Held(t)]
    BY <1>2
  <2>2. /\ ls[i] = NoEvent /\ chan' = [chan EXCEPT ![t] = l]
        /\ UNCHANGED <<stream, offer>>
    BY <1>4 DEF Receive
  <2> HIDE DEF l
  <2>3. /\ chan'[t] = l
        /\ \A u \in Types \ {t} : chan'[u] = chan[u]
        /\ chan' \in [Types -> AllLayers]
    BY <1>3, <2>1, <2>2
  <2> QED
    BY <1>1, <1>4, <2>1, <2>2, <2>3 DEF StateTypes, TypeOK, l
<1>5. CASE i \notin DOMAIN ls
  <2>1. /\ stream[t] = "range" /\ chan' = [chan EXCEPT ![t] = ls]
        /\ offer' = [offer EXCEPT ![t] = e]
        /\ stream' = [stream EXCEPT ![t] = "send"]
    BY <1>5 DEF Receive
  <2>2. i = Layers[t] + 1
    BY <1>1, <1>5
  <2>3. e \in Events
    BY DEF Events
  <2>4. /\ offer' \in [Types -> Events \cup {NoEvent}] /\ offer'[t] = e
        /\ \A u \in Types \ {t} : offer'[u] = offer[u]
    BY <2>1, <2>3 DEF StateTypes
  <2>5. /\ stream' \in [Types -> {"none", "watch", "range", "send", "ended"}] /\ stream'[t] = "send"
        /\ \A u \in Types \ {t} : stream'[u] = stream[u]
    BY <2>1 DEF StateTypes, TypeOK
  <2>6. /\ chan'[t] = ls
        /\ \A u \in Types \ {t} : chan'[u] = chan[u]
        /\ chan' \in [Types -> AllLayers]
    BY <1>3, <2>1
  <2> QED
    BY <2>1, <2>2, <2>4, <2>5, <2>6
<1> QED
  BY <1>4, <1>5

(* The types after a step in which only t receives.                        *)
LEMMA ReceiveTypes ==
  ASSUME StateTypes, NEW t \in Types, NEW i \in 1..(Layers[t] + 1), NEW e \in EventOf(t),
         NEW ls \in [1..Layers[t] -> Held(t)], Receive(t, i, e, ls), watch[t] # "none",
         number' \in [Types -> 0..MaxEvents], due' \in [Types -> Seq(1..MaxEvents)],
         UNCHANGED <<loop, item, watch, cancelled, closed, reading, conn, written>>
  PROVE  StateTypes'
<1>1. /\ \/ /\ i \in 1..Layers[t] /\ ls[i] = NoEvent
            /\ chan'[t] = [ls EXCEPT ![i] = Modified(e, i)]
            /\ UNCHANGED <<stream, offer>>
         \/ /\ i = Layers[t] + 1 /\ stream[t] = "range"
            /\ chan'[t] = ls /\ offer'[t] = e /\ stream'[t] = "send"
            /\ \A u \in Types \ {t} : offer'[u] = offer[u] /\ stream'[u] = stream[u]
      /\ \A u \in Types \ {t} : chan'[u] = chan[u]
      /\ chan'[t] \in [1..Layers[t] -> Held(t)]
      /\ chan' \in [Types -> AllLayers]
      /\ offer' \in [Types -> Events \cup {NoEvent}]
      /\ stream' \in [Types -> {"none", "watch", "range", "send", "ended"}]
  BY Received
<1>2. \A u \in Types : chan'[u] \in [1..Layers[u] -> EventOf(u) \cup {NoEvent, Over}]
  BY <1>1 DEF StateTypes, TypeOK, Held
<1>3. e # NoEvent
  BY EventFacts
<1>4. \A u \in Types : /\ offer'[u] \in EventOf(u) \cup {NoEvent}
                       /\ stream'[u] \in {"range", "send"} => watch[u] # "none"
                       /\ stream'[u] = "send" <=> offer'[u] # NoEvent
  BY <1>1, <1>3 DEF StateTypes, TypeOK
<1> QED
  BY <1>1, <1>2, <1>4 DEF StateTypes, TypeOK

NewEvent(t, known, through) ==
  [type |-> t, number |-> number[t] + 1, known |-> known, through |-> through]

LEMMA WatchSendsEvent ==
  ASSUME StateTypes, NEW t \in Types, NEW known \in BOOLEAN, NEW n \in 0..Layers[t],
         WatchSends(t, known, n)
  PROVE  /\ NewEvent(t, known, n) \in EventOf(t)
         /\ NewEvent(t, known, n).number = number[t] + 1
         /\ number'[t] = number[t] + 1
         /\ \A u \in Types \ {t} : number'[u] = number[u] /\ due'[u] = due[u]
         /\ due'[t] = IF Due(t, NewEvent(t, known, n))
                      THEN Append(due[t], NewEvent(t, known, n).number) ELSE due[t]
         /\ watch[t] = "open"
         /\ Receive(t, 1, NewEvent(t, known, n), chan[t])
         /\ UNCHANGED <<loop, item, watch, cancelled, closed, reading, conn, written>>
         /\ number' \in [Types -> 0..MaxEvents] /\ due' \in [Types -> Seq(1..MaxEvents)]
<1> DEFINE e == NewEvent(t, known, n)
<1>1. /\ watch[t] = "open" /\ number[t] < MaxEvents
      /\ Receive(t, 1, e, chan[t])
      /\ number' = [number EXCEPT ![t] = @ + 1]
      /\ due' = [due EXCEPT ![t] = IF known /\ n = Layers[t] THEN Append(@, e.number) ELSE @]
      /\ UNCHANGED <<loop, item, watch, cancelled, closed, reading, conn, written>>
  BY Zenon DEF WatchSends, NewEvent
<1>2. number[t] \in 0..MaxEvents /\ MaxEvents \in Nat
  BY SubscribeAssumption DEF StateTypes, TypeOK
<1>3. number[t] + 1 \in 1..MaxEvents
  BY <1>1, <1>2
<1>4. /\ e \in EventOf(t) /\ e.number = number[t] + 1 /\ e.known = known /\ e.through = n
  BY <1>3 DEF EventOf, NewEvent
<1> HIDE DEF e
<1>5. Due(t, e) <=> known /\ n = Layers[t]
  BY <1>2, <1>4 DEF Due
<1>6. /\ number'[t] = number[t] + 1
      /\ \A u \in Types \ {t} : number'[u] = number[u]
      /\ number' \in [Types -> 0..MaxEvents]
  BY <1>1, <1>2, <1>3 DEF StateTypes, TypeOK
<1>7. /\ due'[t] = IF Due(t, e) THEN Append(due[t], e.number) ELSE due[t]
      /\ \A u \in Types \ {t} : due'[u] = due[u]
  BY <1>1, <1>5, Zenon DEF StateTypes, TypeOK
<1>8. due' \in [Types -> Seq(1..MaxEvents)]
  <2>1. due'[t] \in Seq(1..MaxEvents)
    <3>1. due[t] \in Seq(1..MaxEvents)
      BY DEF StateTypes, TypeOK
    <3>2. \A s \in Seq(1..MaxEvents) : \A k \in 1..MaxEvents : Append(s, k) \in Seq(1..MaxEvents)
      OBVIOUS
    <3> QED
      BY <1>3, <1>4, <1>7, <3>1, <3>2, Zenon
  <2> QED
    BY <1>1, <2>1 DEF StateTypes, TypeOK
<1> QED
  BY <1>1, <1>4, <1>6, <1>7, <1>8 DEF e

(* The layers that a layer which sends leaves behind.                      *)
LEMMA ChanSendsEvent ==
  ASSUME StateTypes, NEW t \in Types, NEW i \in 1..Layers[t], ChanSends(t, i)
  PROVE  /\ chan[t][i] \in EventOf(t)
         /\ [chan[t] EXCEPT ![i] = NoEvent] \in [1..Layers[t] -> Held(t)]
         /\ Receive(t, i + 1, chan[t][i], [chan[t] EXCEPT ![i] = NoEvent])
         /\ UNCHANGED <<loop, item, watch, number, cancelled, closed, reading, conn, due, written>>
<1>1. chan[t] \in [1..Layers[t] -> Held(t)]
  BY DEF StateTypes, TypeOK, Held
<1> QED
  BY <1>1, Zenon DEF ChanSends, Held

LEMMA TypesStep ==
  ASSUME StateTypes, EndInv, [Next]_vars
  PROVE  StateTypes'
<1>1. CASE Refuse \/ CloseEvents \/ SkipUnknown \/ WriteFails \/ PingFails \/ Return \/ ClientLeaves
           \/ ReadFails \/ RequestDone \/ Terminated \/ UNCHANGED vars
  <2>1. UNCHANGED <<stream, offer, watch, chan, number, due, written>>
    BY <1>1, Zenon DEF Refuse, CloseEvents, SkipUnknown, WriteFails, PingFails, Return, ClientLeaves,
                ReadFails, RequestDone, Terminated, vars
  <2>2. loop' \in {"start", "refused", "select", "write", "done"}
    BY <1>1, Zenon DEF Refuse, CloseEvents, SkipUnknown, WriteFails, PingFails, Return, ClientLeaves,
                ReadFails, RequestDone, Terminated, vars, StateTypes, TypeOK
  <2>3. item' \in Events \cup {NoEvent}
    BY <1>1, Zenon DEF Refuse, CloseEvents, SkipUnknown, WriteFails, PingFails, Return, ClientLeaves,
                ReadFails, RequestDone, Terminated, vars, StateTypes, TypeOK
  <2>4. cancelled' \in BOOLEAN /\ closed' \in BOOLEAN
    BY <1>1, Zenon DEF Refuse, CloseEvents, SkipUnknown, WriteFails, PingFails, Return, ClientLeaves,
                ReadFails, RequestDone, Terminated, vars, StateTypes, TypeOK
  <2>5. reading' \in {"none", "reading", "ended"} /\ conn' \in {"none", "open", "lost", "closed"}
    BY <1>1, Zenon DEF Refuse, CloseEvents, SkipUnknown, WriteFails, PingFails, Return, ClientLeaves,
                ReadFails, RequestDone, Terminated, vars, StateTypes, TypeOK
  <2> QED
    BY <2>1, <2>2, <2>3, <2>4, <2>5, Zenon DEF StateTypes, TypeOK
<1>2. CASE Upgrade
  <2>1. \A t \in Types : offer[t] = NoEvent
    BY <1>2 DEF Upgrade, EndInv, LoopInv, StateTypes, TypeOK
  <2> QED
    BY <1>2, <2>1 DEF Upgrade, StateTypes, TypeOK
<1>3. CASE WriteItem
  <2>1. item \in Events
    BY <1>3 DEF WriteItem, EndInv, LoopInv, StateTypes, TypeOK
  <2>2. item.type \in Types /\ item.number \in 1..MaxEvents
    BY <2>1, EventFacts DEF Events
  <2>3. Append(written[item.type], item.number) \in Seq(1..MaxEvents)
    BY <2>2 DEF StateTypes, TypeOK
  <2>4. written' \in [Types -> Seq(1..MaxEvents)]
    BY <1>3, <2>2, <2>3 DEF WriteItem, StateTypes, TypeOK
  <2> QED
    BY <1>3, <2>4 DEF WriteItem, StateTypes, TypeOK
<1>4. ASSUME NEW t \in Types, WatchOpens(t) \/ WatchCloses(t) \/ StreamEnds(t)
      PROVE  StateTypes'
  <2>1. CASE WatchOpens(t)
    BY <2>1 DEF WatchOpens, StateTypes, TypeOK
  <2>2. CASE WatchCloses(t)
    BY <2>2 DEF WatchCloses, StateTypes, TypeOK
  <2>3. CASE StreamEnds(t)
    BY <2>3 DEF StreamEnds, StateTypes, TypeOK
  <2> QED
    BY <1>4, <2>1, <2>2, <2>3
<1>5. ASSUME NEW t \in Types, NEW err \in BOOLEAN, WatchFails(t, err)
      PROVE  StateTypes'
  BY <1>5 DEF WatchFails, StateTypes, TypeOK
<1>6. ASSUME NEW t \in Types, Take(t)
      PROVE  StateTypes'
  BY <1>6 DEF Take, StateTypes, TypeOK
<1>7. ASSUME NEW t \in Types, NEW known \in BOOLEAN, NEW n \in 0..Layers[t], WatchSends(t, known, n)
      PROVE  StateTypes'
  <2>1. chan[t] \in [1..Layers[t] -> Held(t)] /\ 1 \in 1..(Layers[t] + 1)
    BY EventFacts DEF StateTypes, TypeOK, Held
  <2> QED
    BY <1>7, <2>1, WatchSendsEvent, ReceiveTypes
<1>8. ASSUME NEW t \in Types, NEW i \in 1..Layers[t], ChanSends(t, i)
      PROVE  StateTypes'
  <2>1. i + 1 \in 1..(Layers[t] + 1)
    BY EventFacts
  <2>2. watch[t] # "none"
    BY <1>8 DEF EndInv, LayersInv, ChanSends
  <2>3. number' \in [Types -> 0..MaxEvents] /\ due' \in [Types -> Seq(1..MaxEvents)]
    BY <1>8 DEF ChanSends, StateTypes, TypeOK
  <2> QED
    BY <1>8, <2>1, <2>2, <2>3, ChanSendsEvent, ReceiveTypes
<1>9. ASSUME NEW t \in Types, NEW i \in 1..Layers[t], ChanEnds(t, i)
      PROVE  StateTypes'
  <2> DEFINE l == [chan[t] EXCEPT ![i] = Over]
  <2>1. l \in [1..Layers[t] -> Held(t)]
    BY DEF StateTypes, TypeOK, Held
  <2>2. l \in AllLayers
    BY <2>1 DEF AllLayers
  <2>3. chan' = [chan EXCEPT ![t] = l]
    BY <1>9 DEF ChanEnds
  <2> HIDE DEF l
  <2>4. chan' \in [Types -> AllLayers]
    BY <2>2, <2>3 DEF StateTypes
  <2>5. \A u \in Types : chan'[u] \in [1..Layers[u] -> EventOf(u) \cup {NoEvent, Over}]
    BY <2>1, <2>3 DEF StateTypes, TypeOK, Held
  <2> QED
    BY <1>9, <2>4, <2>5 DEF ChanEnds, StateTypes, TypeOK
<1> QED
  BY <1>1, <1>2, <1>3, <1>4, <1>5, <1>6, <1>7, <1>8, <1>9 DEF Next, Write, StreamStep, ChanStep

LEMMA ReceiveEnds ==
  ASSUME StateTypes, EndInv, NEW t \in Types, NEW i \in 1..(Layers[t] + 1), NEW e \in EventOf(t),
         NEW ls \in [1..Layers[t] -> Held(t)], Receive(t, i, e, ls), watch[t] # "none",
         \/ i = 1 /\ ls = chan[t]
         \/ i - 1 \in 1..Layers[t] /\ chan[t][i - 1] \in EventOf(t) /\ ls = [chan[t] EXCEPT ![i - 1] = NoEvent],
         UNCHANGED <<loop, item, watch, closed>>
  PROVE  EndInv'
<1>1. /\ \/ /\ i \in 1..Layers[t] /\ ls[i] = NoEvent
            /\ chan'[t] = [ls EXCEPT ![i] = Modified(e, i)]
            /\ UNCHANGED <<stream, offer>>
         \/ /\ i = Layers[t] + 1 /\ stream[t] = "range"
            /\ chan'[t] = ls /\ offer'[t] = e /\ stream'[t] = "send"
            /\ \A u \in Types \ {t} : offer'[u] = offer[u] /\ stream'[u] = stream[u]
      /\ \A u \in Types \ {t} : chan'[u] = chan[u]
  BY Received
<1>2. chan[t] \in [1..Layers[t] -> Held(t)] /\ Layers[t] \in Nat /\ NoEvent # Over
  BY EventFacts DEF StateTypes, TypeOK, Held
<1>3. Modified(e, i) # Over
  BY EventFacts DEF Modified
<1>4. \A k \in 1..Layers[t] : chan'[t][k] = Over =>
        chan[t][k] = Over /\ k # i /\ k # i - 1
  <2>1. \A k \in 1..Layers[t] : ls[k] = Over => chan[t][k] = Over /\ k # i - 1
    BY <1>2
  <2>2. \A k \in 1..Layers[t] : chan'[t][k] = Over => ls[k] = Over /\ k # i
    <3>1. CASE i \in 1..Layers[t]
      <4>1. chan'[t] = [ls EXCEPT ![i] = Modified(e, i)]
        BY <1>1, <1>2, <3>1
      <4> QED
        BY <1>3, <4>1
    <3>2. CASE i = Layers[t] + 1
      <4>1. chan'[t] = ls
        BY <1>1, <1>2, <3>2
      <4> QED
        BY <1>2, <3>2, <4>1
    <3> QED
      BY <1>1, <3>1, <3>2
  <2> QED
    BY <2>1, <2>2
<1>5. \A k \in 1..Layers[t] : chan[t][k] = Over /\ k # i /\ k # i - 1 => chan'[t][k] = Over
  BY <1>1, <1>2
<1>6. i \in 1..Layers[t] => chan[t][i] # Over
  BY <1>1, <1>2
<1>7. i - 1 \in 1..Layers[t] => chan[t][i - 1] # Over
  BY EventFacts
<1>8. \A k \in 1..Layers[t] : chan'[t][k] = Over => \A j \in 1..k : chan'[t][j] = Over
  <2> SUFFICES ASSUME NEW k \in 1..Layers[t], chan'[t][k] = Over, NEW j \in 1..k
               PROVE  chan'[t][j] = Over
    OBVIOUS
  <2>1. chan[t][k] = Over
    BY <1>4
  <2>2. chan[t][j] = Over /\ j \in 1..Layers[t]
    BY <1>2, <2>1 DEF EndInv, LayersInv
  <2> QED
    BY <1>5, <1>6, <1>7, <2>2
<1>9. stream[t] # "ended" /\ stream'[t] # "ended" /\ stream'[t] \notin {"none", "watch"}
  <2>1. stream[t] # "ended"
    <3>1. ASSUME stream[t] = "ended"
          PROVE  FALSE
      <4>1. \A k \in 1..Layers[t] : chan[t][k] = Over
        BY <3>1 DEF EndInv, LayersInv
      <4>2. i \in 1..Layers[t]
        BY <1>1, <3>1
      <4> QED
        BY <1>6, <4>1, <4>2
    <3> QED
      BY <3>1
  <2>2. stream[t] \notin {"none", "watch"}
    BY DEF EndInv, LayersInv
  <2> QED
    BY <1>1, <2>1, <2>2
<1>10. LayersInv(t)'
  BY <1>8, <1>9 DEF LayersInv
<1>11. \A u \in Types \ {t} : LayersInv(u)'
  BY <1>1 DEF EndInv, LayersInv
<1>12. LoopInv'
  <2>1. stream[t] # "none" /\ loop # "start"
    BY DEF EndInv, LayersInv, LoopInv
  <2> QED
    BY <1>9, <2>1 DEF EndInv, LoopInv
<1> QED
  BY <1>10, <1>11, <1>12 DEF EndInv

LEMMA EndStep ==
  ASSUME StateTypes, EndInv, [Next]_vars
  PROVE  EndInv'
<1> USE DEF EndInv
<1>1. CASE \/ Refuse \/ CloseEvents \/ SkipUnknown \/ WriteFails \/ PingFails \/ Return \/ ClientLeaves
           \/ ReadFails \/ RequestDone \/ Terminated \/ WriteItem \/ UNCHANGED vars
  <2>1. UNCHANGED <<stream, watch, chan>>
    BY <1>1, Zenon DEF Refuse, CloseEvents, SkipUnknown, WriteFails, PingFails, Return, ClientLeaves,
                ReadFails, RequestDone, Terminated, WriteItem, vars
  <2>2. \A t \in Types : LayersInv(t)'
    BY <2>1 DEF LayersInv
  <2>3. LoopInv'
    <3>1. CASE Refuse \/ Return
      BY <2>1, <3>1 DEF Refuse, Return, LoopInv
    <3>2. CASE CloseEvents
      BY <2>1, <3>2 DEF CloseEvents, LoopInv
    <3>3. CASE SkipUnknown \/ WriteFails \/ WriteItem
      BY <2>1, <3>3 DEF SkipUnknown, WriteFails, WriteItem, LoopInv
    <3>4. CASE PingFails \/ ClientLeaves \/ ReadFails \/ RequestDone \/ Terminated \/ UNCHANGED vars
      <4>1. UNCHANGED <<loop, item, closed>>
        BY <3>4, Zenon DEF PingFails, ClientLeaves, ReadFails, RequestDone, Terminated, vars
      <4> QED
        BY <2>1, <4>1 DEF LoopInv
    <3> QED
      BY <1>1, <3>1, <3>2, <3>3, <3>4
  <2> QED
    BY <2>2, <2>3
<1>2. CASE Upgrade
  BY <1>2 DEF Upgrade, LayersInv, LoopInv
<1>3. ASSUME NEW t \in Types, WatchOpens(t)
      PROVE  EndInv'
  BY <1>3 DEF WatchOpens, LayersInv, LoopInv, StateTypes, TypeOK
<1>4. ASSUME NEW t \in Types, NEW err \in BOOLEAN, WatchFails(t, err)
      PROVE  EndInv'
  BY <1>4 DEF WatchFails, LayersInv, LoopInv, StateTypes, TypeOK
<1>5. ASSUME NEW t \in Types, WatchCloses(t)
      PROVE  EndInv'
  BY <1>5 DEF WatchCloses, LayersInv, LoopInv, StateTypes, TypeOK
<1>6. ASSUME NEW t \in Types, StreamEnds(t)
      PROVE  EndInv'
  <2>1. \A i \in 1..Layers[t] : chan[t][i] = Over
    <3>1. Layers[t] \in Nat
      BY EventFacts
    <3>2. CASE Layers[t] = 0
      BY <3>2
    <3>3. CASE Layers[t] # 0
      <4>1. Layers[t] \in 1..Layers[t] /\ Layers[t] + 1 # 1 /\ (Layers[t] + 1) - 1 = Layers[t]
        BY <3>1, <3>3
      <4>2. chan[t][Layers[t]] = Over
        BY <1>6, <4>1 DEF StreamEnds, Drained
      <4> QED
        BY <4>1, <4>2 DEF LayersInv
    <3> QED
      BY <3>2, <3>3
  <2> QED
    BY <1>6, <2>1 DEF StreamEnds, LayersInv, LoopInv, StateTypes, TypeOK
<1>7. ASSUME NEW t \in Types, Take(t)
      PROVE  EndInv'
  BY <1>7 DEF Take, LayersInv, LoopInv, StateTypes, TypeOK
<1>8. ASSUME NEW t \in Types, NEW known \in BOOLEAN, NEW n \in 0..Layers[t], WatchSends(t, known, n)
      PROVE  EndInv'
  <2>1. chan[t] \in [1..Layers[t] -> Held(t)] /\ 1 \in 1..(Layers[t] + 1)
    BY EventFacts DEF StateTypes, TypeOK, Held
  <2> QED
    BY <1>8, <2>1, WatchSendsEvent, ReceiveEnds
<1>9. ASSUME NEW t \in Types, NEW i \in 1..Layers[t], ChanSends(t, i)
      PROVE  EndInv'
  <2>1. i + 1 \in 1..(Layers[t] + 1) /\ (i + 1) - 1 = i
    BY EventFacts
  <2>2. watch[t] # "none"
    BY <1>9 DEF LayersInv, ChanSends
  <2> QED
    BY <1>9, <2>1, <2>2, ChanSendsEvent, ReceiveEnds
<1>10. ASSUME NEW t \in Types, NEW i \in 1..Layers[t], ChanEnds(t, i)
      PROVE  EndInv'
  <2>1. chan[t] \in [1..Layers[t] -> Held(t)] /\ Layers[t] \in Nat /\ NoEvent # Over
    BY EventFacts DEF StateTypes, TypeOK, Held
  <2>2. /\ chan[t][i] = NoEvent /\ Drained(t, i)
        /\ chan' = [chan EXCEPT ![t] = [chan[t] EXCEPT ![i] = Over]]
        /\ UNCHANGED <<loop, item, stream, watch, closed>>
    BY <1>10 DEF ChanEnds
  <2>3. /\ \A u \in Types \ {t} : chan'[u] = chan[u]
        /\ chan'[t] = [chan[t] EXCEPT ![i] = Over]
    BY <2>2 DEF StateTypes
  <2>4. \A j \in 1..(i - 1) : chan[t][j] = Over
    <3>1. CASE i = 1
      BY <3>1
    <3>2. CASE i # 1
      <4>1. i - 1 \in 1..Layers[t] /\ chan[t][i - 1] = Over
        BY <2>1, <2>2, <3>2 DEF Drained
      <4> QED
        BY <4>1 DEF LayersInv
    <3> QED
      BY <3>1, <3>2
  <2>5. watch[t] # "none"
    <3>1. CASE i = 1
      BY <2>2, <3>1 DEF Drained
    <3>2. CASE i # 1
      <4>1. i - 1 \in 1..Layers[t] /\ chan[t][i - 1] = Over
        BY <2>1, <2>2, <3>2 DEF Drained
      <4> QED
        BY <2>1, <4>1 DEF LayersInv
    <3> QED
      BY <3>1, <3>2
  <2>6. stream[t] # "ended"
    BY <2>1, <2>2, <2>5 DEF LayersInv
  <2>7. \A k \in 1..Layers[t] : chan'[t][k] = Over => \A j \in 1..k : chan'[t][j] = Over
    <3> SUFFICES ASSUME NEW k \in 1..Layers[t], chan'[t][k] = Over, NEW j \in 1..k
                 PROVE  chan'[t][j] = Over
      OBVIOUS
    <3>1. CASE k = i
      BY <2>1, <2>3, <2>4, <3>1
    <3>2. CASE k # i
      <4>1. chan[t][k] = Over
        BY <2>1, <2>3, <3>2
      <4>2. chan[t][j] = Over /\ j \in 1..Layers[t]
        BY <2>1, <4>1 DEF LayersInv
      <4> QED
        BY <2>1, <2>3, <4>2
    <3> QED
      BY <3>1, <3>2
  <2>8. LayersInv(t)'
    BY <2>2, <2>5, <2>6, <2>7 DEF LayersInv
  <2>9. \A u \in Types \ {t} : LayersInv(u)'
    BY <2>2, <2>3 DEF LayersInv
  <2>10. LoopInv'
    BY <2>2 DEF LoopInv
  <2> QED
    BY <2>8, <2>9, <2>10
<1> QED
  BY <1>1, <1>2, <1>3, <1>4, <1>5, <1>6, <1>7, <1>8, <1>9, <1>10 DEF Next, Write, StreamStep, ChanStep

LEMMA EndInit == Init => StateTypes /\ EndInv
<1> SUFFICES ASSUME Init
             PROVE  StateTypes /\ EndInv
  OBVIOUS
<1>1. \A t \in Types : [i \in 1..Layers[t] |-> NoEvent] \in [1..Layers[t] -> Held(t)]
  BY DEF Held
<1>2. chan \in [Types -> AllLayers]
  BY <1>1 DEF Init, AllLayers
<1>3. StateTypes
  <2>1. /\ loop = "start" /\ item = NoEvent /\ cancelled = FALSE /\ closed = FALSE
        /\ reading = "none" /\ conn = "none"
    BY DEF Init
  <2>2. \A t \in Types : /\ stream[t] = "none" /\ offer[t] = NoEvent /\ watch[t] = "none"
                         /\ chan[t] \in [1..Layers[t] -> EventOf(t) \cup {NoEvent, Over}]
    BY <1>1 DEF Init, Held
  <2>3. /\ stream \in [Types -> {"none", "watch", "range", "send", "ended"}]
        /\ watch \in [Types -> {"none", "open", "closed"}]
        /\ offer \in [Types -> Events \cup {NoEvent}]
    BY DEF Init
  <2>4. number \in [Types -> 0..MaxEvents]
    BY SubscribeAssumption DEF Init
  <2>5. due \in [Types -> Seq(1..MaxEvents)] /\ written \in [Types -> Seq(1..MaxEvents)]
    BY DEF Init
  <2> QED
    BY <1>2, <2>1, <2>2, <2>3, <2>4, <2>5 DEF StateTypes, TypeOK
<1>4. EndInv
  BY EventFacts DEF Init, EndInv, LoopInv, LayersInv
<1> QED
  BY <1>3, <1>4

LEMMA EndInductive == StateTypes /\ EndInv /\ [Next]_vars => StateTypes' /\ EndInv'
  BY TypesStep, EndStep

(* The state of a subscription stays within its types, and a stream ranges *)
(* over a channel that its store gave (handler, streamStore).              *)
THEOREM SubscribeTypes == Spec => []TypeOK
<1>1. StateTypes => TypeOK
  BY DEF StateTypes
<1> QED
  BY <1>1, EndInit, EndInductive, PTL DEF Spec

(* No stream and no goroutine of convert.Chan has an event to send once    *)
(* events is closed or the handler has returned.                           *)
THEOREM NoSendAfterClose == Spec => []NobodySendsInVain
<1>1. StateTypes /\ EndInv => NobodySendsInVain
  <2> SUFFICES ASSUME EndInv, closed \/ loop = "done", NEW t \in Types
               PROVE  stream[t] = "ended" /\ \A i \in 1..Layers[t] : chan[t][i] \in {NoEvent, Over}
    BY DEF NobodySendsInVain
  <2>1. stream[t] = "ended"
    BY DEF EndInv, LoopInv
  <2> QED
    BY <2>1 DEF EndInv, LayersInv
<1> QED
  BY <1>1, EndInit, EndInductive, PTL DEF Spec
==============================================================================
