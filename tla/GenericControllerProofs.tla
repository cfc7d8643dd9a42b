---------------------- MODULE GenericControllerProofs -----------------------
(***************************************************************************)
(* For any keys, handlers, workers and bounds: no change is lost between    *)
(* the informer and the handlers, and as long as the controller was started *)
(* once, no handler is called with an older version after a newer one.      *)
(***************************************************************************)
EXTENDS GenericController, TLAPS

(* The bounds of the counters.                                             *)
Types ==
  /\ TypeOK
  /\ generation + (IF caller = "start" THEN 1 ELSE 0) <= attempts
  /\ \A k \in Keys : events[k] <= version[k] + 1
  /\ \A d \in added : d.generation <= generation
  /\ \A n \in DOMAIN handlers : handlers[n] \in added

(* An item is queued at most once and not while it is processed.  A busy   *)
(* worker processes an item of its own.                                    *)
QueueInv ==
  /\ \A n \in DOMAIN queue : queue[n] \in dirty /\ queue[n] \notin processing
  /\ \A m, n \in DOMAIN queue : queue[m] = queue[n] => m = n
  /\ \A w \in Workers : worker[w].pc # "idle" => worker[w].item \in processing
  /\ \A v, w \in Workers :
       worker[v].pc # "idle" /\ worker[w].pc # "idle" /\ worker[v].item = worker[w].item => v = w

(* The items there are.                                                    *)
Present == dirty \cup delayed \cup processing

(* A generation key is of a generation that has been started, and not the  *)
(* first one.                                                              *)
GenerationInv ==
  /\ \A item \in Present : item.generation = -1 \/ item.generation \in 1..generation - 1
  /\ \A item \in delayed : item.generation = -1
  /\ running <=> generation > 0

(* Before the controller runs: nothing has been called, and once the       *)
(* informer runs every object there is is on its way.                      *)
StartInv ==
  /\ ~running => /\ ~down
                 /\ \A w \in Workers : worker[w].pc = "idle"
                 /\ \A h \in Handlers, k \in Keys : seen[h][k] = 0
  /\ ~running /\ informer # "new" => \A k \in live : events[k] > 0 \/ Plain(k) \in dirty
  /\ running => synced
  /\ ~synced /\ caller # "none" => informer = "running"
  /\ ~synced /\ caller = "none" => informer # "running"
  /\ synced => informer # "new"
  /\ informer = "stopped" => ~synced \/ down

(* A handler that was not added yet is not in a list and has seen nothing. *)
OfferedInv ==
  \A h \in offered :
    /\ \A d \in added : d.handler # h
    /\ \A w \in Workers : \A n \in DOMAIN worker[w].todo : worker[w].todo[n].handler # h
    /\ \A k \in Keys : seen[h][k] = 0

(* The versions seen and those at work are versions there have been.       *)
VersionInv ==
  /\ \A h \in Handlers, k \in Keys : seen[h][k] <= version[k]
  /\ \A w \in Workers : worker[w].pc # "idle" => worker[w].version <= version[worker[w].item.key]

Loaded(w) == worker[w].pc \in {"list", "call"}

(* In a controller that was started once the worker on a key is the only   *)
(* one, and has a version no older than those its handlers have seen.      *)
OrderInv ==
  generation <= 1 =>
    \A w \in Workers, h \in Handlers : Loaded(w) => seen[h][worker[w].item.key] <= worker[w].version

(* A worker on a plain key whose version is stale: the change is known to  *)
(* the queue.                                                              *)
StaleInv ==
  \A w \in Workers : \A k \in Keys :
    Loaded(w) /\ worker[w].item = Plain(k) /\ worker[w].version # version[k] =>
      events[k] > 0 \/ Plain(k) \in dirty

(* Worker w will tell handler h of a version of k that is stale.           *)
Stale(w, h, k) == Calls(w, h, k) /\ Loaded(w) /\ worker[w].version # version[k]

(* Handler h is to be told about k: it knows k and is behind, or it has    *)
(* been started and k exists, or a worker will tell it of a stale version. *)
Owed(h, k) ==
  /\ seen[h][k] # version[k]
  /\ \/ seen[h][k] > 0
     \/ k \in live /\ Started(h)
     \/ \E w \in Workers : Stale(w, h, k)

InList(h) == \E n \in DOMAIN handlers : handlers[n].handler = h

Pending(h, k) ==
  \/ events[k] > 0
  \/ \E item \in dirty \cup delayed : item.key = k /\ For(item, h, handlers)
  \/ \E w \in Workers : Attends(w, h, k)

NothingLost == \A h \in Handlers, k \in Keys : InList(h) /\ Owed(h, k) => Pending(h, k)

PendingInv == ~down /\ cancelled = {} => StaleInv /\ NothingLost

ControllerInv ==
  /\ Types /\ QueueInv /\ GenerationInv /\ StartInv /\ OfferedInv
  /\ VersionInv /\ OrderInv /\ PendingInv

(* Most steps are first-order; those with arithmetic or sequences name SMT. *)
USE Zenon

-----------------------------------------------------------------------------
(* The queue.                                                              *)

LEMMA OrdersOf ==
  ASSUME NEW S, NEW q \in Orders(S)
  PROVE  /\ q \in Seq(S) /\ \A n \in DOMAIN q : q[n] \in S
         /\ \A m, n \in DOMAIN q : q[m] = q[n] => m = n
<1>1. PICK size \in 0..Cardinality(Keys) : q \in Bijection(1..size, S)
  BY DEF Orders
<1>2. size \in Nat
  BY ControllerAssumption, SMT
<1>3. q \in [1..size -> S]
  BY <1>1 DEF Bijection, Injection
<1>4. \A m, n \in DOMAIN q : q[m] = q[n] => m = n
  BY <1>1 DEF Bijection, Injection, IsInjective
<1> QED
  BY <1>2, <1>3, <1>4, SMT

LEMMA AddedItems ==
  ASSUME NEW items \in SUBSET Item, TypeOK, Added(items)
  PROVE  /\ queue' \in Seq(Item) /\ dirty' \subseteq Item
         /\ dirty \subseteq dirty' /\ dirty' \subseteq dirty \cup items
         /\ ~down => items \subseteq dirty'
         /\ QueueInv => /\ \A n \in DOMAIN queue' : queue'[n] \in dirty' /\ queue'[n] \notin processing
                        /\ \A m, n \in DOMAIN queue' : queue'[m] = queue'[n] => m = n
<1> DEFINE new == IF down THEN {} ELSE items \ dirty
<1>1. PICK order \in Orders(new \ processing) : queue' = queue \o order
  BY DEF Added
<1>2. dirty' = dirty \cup new
  BY DEF Added
<1>4. /\ order \in Seq(new \ processing) /\ \A n \in DOMAIN order : order[n] \in new \ processing
      /\ \A m, n \in DOMAIN order : order[m] = order[n] => m = n
  BY OrdersOf
<1>5. new \subseteq Item /\ new \cap dirty = {} /\ queue \in Seq(Item) /\ dirty \subseteq Item
  BY DEF TypeOK
<1> HIDE DEF new
<1>6. order \in Seq(Item)
  BY <1>4, <1>5, SMT
<1>7. /\ queue' \in Seq(Item) /\ Len(queue') = Len(queue) + Len(order)
      /\ \A n \in 1..Len(queue) : queue'[n] = queue[n]
      /\ \A n \in Len(queue) + 1..Len(queue) + Len(order) : queue'[n] = order[n - Len(queue)]
  BY <1>1, <1>5, <1>6, SMT
<1>8. ASSUME QueueInv
      PROVE  /\ \A n \in DOMAIN queue' : queue'[n] \in dirty' /\ queue'[n] \notin processing
             /\ \A m, n \in DOMAIN queue' : queue'[m] = queue'[n] => m = n
  <2>1. /\ DOMAIN queue' = 1..Len(queue) + Len(order) /\ DOMAIN queue = 1..Len(queue)
        /\ DOMAIN order = 1..Len(order) /\ Len(queue) \in Nat /\ Len(order) \in Nat
    BY <1>5, <1>6, <1>7, SMT
  <2>2. ASSUME NEW n \in DOMAIN queue', n > Len(queue)
        PROVE  /\ n - Len(queue) \in DOMAIN order /\ queue'[n] = order[n - Len(queue)]
               /\ queue'[n] \in new /\ queue'[n] \notin processing /\ queue'[n] \notin dirty
    <3>1. n - Len(queue) \in DOMAIN order /\ queue'[n] = order[n - Len(queue)]
      BY <1>7, <2>1, <2>2, SMT
    <3> QED
      BY <1>4, <1>5, <3>1
  <2>3. ASSUME NEW n \in DOMAIN queue', n <= Len(queue)
        PROVE  /\ n \in DOMAIN queue /\ queue'[n] = queue[n]
               /\ queue'[n] \in dirty /\ queue'[n] \notin processing
    <3>1. n \in DOMAIN queue /\ queue'[n] = queue[n]
      BY <1>7, <2>1, <2>3, SMT
    <3> QED
      BY <1>8, <3>1 DEF QueueInv
  <2>4. \A n \in DOMAIN queue' : n \in Int /\ Len(queue) \in Int
    BY <2>1, SMT
  <2>5. ASSUME NEW n \in DOMAIN queue' PROVE queue'[n] \in dirty' /\ queue'[n] \notin processing
    <3>1. n > Len(queue) \/ n <= Len(queue)
      BY <2>4, SMT
    <3> QED
      BY <1>2, <2>2, <2>3, <3>1
  <2>6. ASSUME NEW m \in DOMAIN queue', NEW n \in DOMAIN queue', queue'[m] = queue'[n]
        PROVE  m = n
    <3>1. CASE m > Len(queue) /\ n > Len(queue)
      <4>1. m - Len(queue) = n - Len(queue)
        BY <1>4, <2>2, <2>6, <3>1
      <4> QED
        BY <2>4, <4>1, SMT
    <3>2. CASE m <= Len(queue) /\ n <= Len(queue)
      BY <1>8, <2>3, <2>6, <3>2 DEF QueueInv
    <3>3. CASE m > Len(queue) /\ n <= Len(queue)
      BY <2>2, <2>3, <2>6, <3>3
    <3>4. CASE m <= Len(queue) /\ n > Len(queue)
      BY <2>2, <2>3, <2>6, <3>4
    <3> QED
      BY <2>4, <3>1, <3>2, <3>3, <3>4, SMT
  <2> QED
    BY <2>5, <2>6
<1>9. ~down => items \subseteq dirty'
  BY <1>2 DEF new
<1>10. dirty' \subseteq Item /\ dirty \subseteq dirty' /\ dirty' \subseteq dirty \cup items
  BY <1>2, <1>5 DEF new
<1> QED
  BY <1>7, <1>8, <1>9, <1>10

LEMMA Singletons ==
  ASSUME NEW k \in Keys
  PROVE  Plain(k) \in Item /\ Plain(k).key = k /\ Plain(k).generation = -1
BY ControllerAssumption, SMT DEF Plain, Item

LEMMA AppendItem ==
  ASSUME NEW q \in Seq(Item), NEW item \in Item
  PROVE  Append(q, item) \in Seq(Item)
BY SMT

LEMMA StartItems ==
  ASSUME TypeOK
  PROVE  LET items == {[key |-> k, generation |-> generation] : k \in StoreKeys}
         IN  items \in SUBSET Item
<1>1. StoreKeys \subseteq Keys
  BY DEF StoreKeys, TypeOK
<1>2. generation \in -1..MaxStarts
  BY ControllerAssumption, SMT DEF TypeOK
<1> QED
  BY <1>1, <1>2, SMT DEF Item

-----------------------------------------------------------------------------
(* The steps of a worker.                                                  *)

(* A step of worker w leaves the other workers alone.                      *)
Moves(w) ==
  /\ worker' \in [Workers -> Job]
  /\ \A v \in Workers : v # w => worker'[v] = worker[v]

LEMMA IdleJob ==
  /\ Idle \in Job /\ Idle.pc = "idle" /\ Idle.todo = <<>> /\ Idle.errs = <<>>
  /\ Idle.version = 0
<1>1. PICK k \in Keys : (CHOOSE x \in Keys : TRUE) = k
  BY ControllerAssumption
<1>2. Plain(k) \in Item /\ <<>> \in Seq(HandlerDef) /\ <<>> \in Seq({"forget", "error"})
      /\ 0 \in 0..MaxVersion
  BY Singletons, ControllerAssumption, SMT
<1> QED
  BY <1>1, <1>2 DEF Idle, Job

LEMMA JobUpdate ==
  ASSUME TypeOK, NEW w \in Workers, NEW x \in Job, worker' = [worker EXCEPT ![w] = x]
  PROVE  Moves(w) /\ worker'[w] = x
BY DEF Moves, TypeOK

LEMMA GetStep ==
  ASSUME TypeOK, NEW w \in Workers, Get(w)
  PROVE  /\ Moves(w) /\ worker'[w].pc = "load" /\ worker'[w].item = queue[1]
         /\ worker'[w].version = 0 /\ worker'[w].todo = <<>> /\ worker'[w].errs = <<>>
         /\ queue \in Seq(Item) /\ Len(queue) \in Nat \ {0} /\ Head(queue) = queue[1] /\ queue[1] \in Item
<1> DEFINE x == Got
<1>1. /\ queue \in Seq(Item) /\ Len(queue) \in Nat \ {0} /\ Head(queue) = queue[1] /\ queue[1] \in Item
  BY SMT DEF Get, TypeOK
<1>2. /\ x \in Job /\ x.pc = "load" /\ x.item = queue[1]
      /\ x.version = 0 /\ x.todo = <<>> /\ x.errs = <<>>
  BY <1>1, IdleJob DEF Job, Got
<1>3. worker' = [worker EXCEPT ![w] = x]
  BY DEF Get
<1> HIDE DEF x
<1> QED
  BY <1>1, <1>2, <1>3, JobUpdate

LEMMA LoadObjectStep ==
  ASSUME TypeOK, NEW w \in Workers, LoadObject(w)
  PROVE  /\ Moves(w) /\ worker'[w].pc = "list" /\ worker'[w].item = worker[w].item
         /\ worker'[w].version = version[worker[w].item.key]
         /\ worker'[w].todo = worker[w].todo /\ worker'[w].errs = worker[w].errs
<1>1. worker[w] \in Job /\ worker[w].item.key \in Keys
  BY DEF TypeOK, Job, Item
<1>2. version[worker[w].item.key] \in 0..MaxVersion
  BY <1>1 DEF TypeOK
<1> DEFINE x == WithObject(w)
<1>3. /\ x \in Job /\ x.pc = "list" /\ x.item = worker[w].item
      /\ x.version = version[worker[w].item.key]
      /\ x.todo = worker[w].todo /\ x.errs = worker[w].errs
  BY <1>1, <1>2 DEF Job, WithObject
<1>4. worker' = [worker EXCEPT ![w] = x]
  BY DEF LoadObject, TypeOK
<1> HIDE DEF x
<1> QED
  BY <1>3, <1>4, JobUpdate

LEMMA LoadHandlersStep ==
  ASSUME TypeOK, NEW w \in Workers, LoadHandlers(w)
  PROVE  /\ Moves(w) /\ worker'[w].pc = "call" /\ worker'[w].item = worker[w].item
         /\ worker'[w].version = worker[w].version
         /\ worker'[w].todo = handlers /\ worker'[w].errs = worker[w].errs
<1>1. worker[w] \in Job /\ handlers \in Seq(HandlerDef)
  BY DEF TypeOK
<1> DEFINE x == WithHandlers(w)
<1>3. /\ x \in Job /\ x.pc = "call" /\ x.item = worker[w].item
      /\ x.version = worker[w].version
      /\ x.todo = handlers /\ x.errs = worker[w].errs
  BY <1>1 DEF Job, WithHandlers
<1>4. worker' = [worker EXCEPT ![w] = x]
  BY DEF LoadHandlers, TypeOK
<1> HIDE DEF x
<1> QED
  BY <1>3, <1>4, JobUpdate

LEMMA CallStep ==
  ASSUME TypeOK, NEW w \in Workers, NEW n \in DOMAIN worker[w].todo, NEW outcome \in Outcome,
         CallHandler(w, n, outcome)
  PROVE  /\ Moves(w) /\ worker[w].pc = "call" /\ worker'[w].pc = "call"
         /\ worker'[w].item = worker[w].item /\ worker'[w].version = worker[w].version
         /\ worker'[w].todo = Left(w, n, outcome) /\ worker'[w].errs = Errors(w, outcome)
<1>1. /\ worker[w] \in Job /\ worker[w].todo \in Seq(HandlerDef)
      /\ worker[w].errs \in Seq({"forget", "error"})
  BY DEF TypeOK, Job
<1>2. Left(w, n, outcome) \in Seq(HandlerDef)
  BY <1>1, SMT DEF Left
<1>3. Errors(w, outcome) \in Seq({"forget", "error"})
  <2>1. CASE outcome \in {"forget", "error"}
    BY <1>1, <2>1, SMT DEF Errors
  <2>2. CASE outcome = "panic"
    <3>1. <<"error">> \in Seq({"forget", "error"})
      BY SMT
    <3> QED
      BY <2>2, <3>1 DEF Errors
  <2>3. CASE outcome = "ok"
    BY <1>1, <2>3 DEF Errors
  <2> QED
    BY <2>1, <2>2, <2>3 DEF Outcome
<1> DEFINE x == AfterCall(w, n, outcome)
<1>4. /\ x \in Job /\ x.pc = worker[w].pc /\ x.item = worker[w].item
      /\ x.version = worker[w].version
      /\ x.todo = Left(w, n, outcome) /\ x.errs = Errors(w, outcome)
  BY <1>1, <1>2, <1>3 DEF Job, AfterCall
<1>5. worker' = [worker EXCEPT ![w] = x]
  BY DEF CallHandler, TypeOK
<1>6. worker[w].pc = "call"
  BY DEF CallHandler
<1> HIDE DEF x
<1> QED
  BY <1>4, <1>5, <1>6, JobUpdate

LEMMA FinishStep ==
  ASSUME TypeOK, NEW w \in Workers, Finish(w)
  PROVE  Moves(w) /\ worker'[w] = Idle
BY JobUpdate, IdleJob DEF Finish

LEMMA RetriedErrors ==
  ASSUME NEW errs \in Seq({"forget", "error"})
  PROVE  /\ Retried(<<"error">>) /\ Retried(Append(errs, "error"))
         /\ Retried(errs) => Retried(Append(errs, "forget"))
<1>1. Len(errs) \in Nat /\ Len(Append(errs, "error")) = Len(errs) + 1
      /\ Len(Append(errs, "forget")) = Len(errs) + 1
  BY SMT
<1>2. Len(errs) = 0 => Append(errs, "error") = <<"error">>
  BY SMT
<1> QED
  BY <1>1, <1>2, SMT DEF Retried

-----------------------------------------------------------------------------
(* Types.                                                                  *)

LEMMA TypesStep ==
  ASSUME Types, [Next]_vars
  PROVE  Types'
<1> USE ControllerAssumption
<1>0. TypeOK
  BY DEF Types
<1>1. ASSUME NEW h \in Handlers, AddHandler(h) PROVE Types'
  <2> DEFINE d == [handler |-> h, generation |-> generation]
  <2>1. d \in HandlerDef /\ d.generation = generation /\ generation \in Nat
    BY <1>0, SMT DEF TypeOK, HandlerDef
  <2>2. /\ handlers' = Append(handlers, d) /\ added' = added \cup {d} /\ offered' \subseteq offered
        /\ UNCHANGED <<cancelled, informerVars, queueVars, startVars, workVars>>
    BY <1>1 DEF AddHandler
  <2> HIDE DEF d
  <2>3. /\ handlers' \in Seq(HandlerDef) /\ added' \subseteq HandlerDef /\ cancelled' \subseteq added'
        /\ offered' \subseteq Handlers
    BY <1>0, <2>1, <2>2, SMT DEF TypeOK
  <2>4. \A n \in DOMAIN handlers' : handlers'[n] \in added'
    BY <1>0, <2>1, <2>2, SMT DEF Types, TypeOK
  <2>5. \A x \in added' : x.generation <= generation
    BY <2>1, <2>2, SMT DEF Types
  <2> QED
    BY <1>0, <2>2, <2>3, <2>4, <2>5 DEF Types, TypeOK, informerVars, queueVars, startVars, workVars
<1>2. ASSUME NEW d \in added, CancelHandler(d) PROVE Types'
  <2>1. d \in HandlerDef
    BY <1>0 DEF TypeOK
  <2>2. PICK size \in 0..Len(handlers) : handlers' = [i \in 1..size |-> d]
    BY <1>2 DEF CancelHandler
  <2>3. /\ cancelled' = cancelled \cup {d}
        /\ UNCHANGED <<offered, added, informerVars, queueVars, startVars, workVars>>
    BY <1>2 DEF CancelHandler
  <2>4. handlers' \in Seq(HandlerDef) /\ \A n \in DOMAIN handlers' : handlers'[n] = d
    <3>1. size \in Nat
      BY <1>0, SMT DEF TypeOK
    <3> QED
      BY <2>1, <2>2, <3>1, SMT
  <2> QED
    BY <1>0, <2>3, <2>4 DEF Types, TypeOK, informerVars, queueVars, startVars, workVars
<1>3. ASSUME NEW who \in {"sync", "start"}, Begin(who) PROVE Types'
  <2>1. events' \in [Keys -> 0..MaxVersion + 1] /\ \A k \in Keys : events'[k] <= version[k] + 1
    <3>1. CASE events' = events
      BY <1>0, <3>1 DEF Types, TypeOK
    <3>2. CASE events' = [k \in Keys |-> IF k \in live THEN 1 ELSE 0]
      <4>1. \A k \in Keys : version[k] \in Nat
        BY <1>0, SMT DEF TypeOK
      <4>2. 0 \in 0..MaxVersion + 1 /\ 1 \in 0..MaxVersion + 1
        BY SMT
      <4> QED
        BY <3>2, <4>1, <4>2, SMT
    <3> QED
      BY <1>3, <3>1, <3>2 DEF Begin
  <2>2. /\ attempts' = attempts + 1 /\ attempts' \in 0..MaxStarts /\ caller' = who /\ caller = "none"
        /\ generation' = generation /\ generation <= attempts
    BY <1>0, <1>3, SMT DEF Begin, Types, TypeOK
  <2>3. generation' + (IF caller' = "start" THEN 1 ELSE 0) <= attempts'
    BY <1>0, <2>2, SMT DEF TypeOK
  <2>4. informer' \in {"new", "running", "stopped"}
    BY <1>0, <1>3 DEF Begin, TypeOK
  <2> QED
    BY <1>0, <1>3, <2>1, <2>2, <2>3, <2>4
    DEF Begin, Types, TypeOK, queueVars, handlerVars, workVars
<1>4. CASE SyncFails
  <2>1. generation <= attempts
    BY <1>0, SMT DEF Types, TypeOK
  <2> QED
    BY <1>0, <1>4, <2>1, SMT DEF SyncFails, Types, TypeOK, queueVars, handlerVars, workVars
<1>5. CASE SyncEnds
  BY <1>0, <1>5 DEF SyncEnds, Types, TypeOK, informerVars, queueVars, handlerVars, workVars
<1>6. CASE StartEnds
  <2>1. queue' \in Seq(Item) /\ dirty' \subseteq Item
    BY <1>0, <1>6, StartItems, AddedItems DEF StartEnds
  <2>2. /\ generation' = generation + 1 /\ generation + 1 <= attempts /\ attempts' = attempts
        /\ caller' = "none" /\ generation \in Nat /\ attempts \in 0..MaxStarts
    BY <1>0, <1>6, SMT DEF StartEnds, Types, TypeOK
  <2>3. generation' \in 0..MaxStarts /\ generation' + (IF caller' = "start" THEN 1 ELSE 0) <= attempts'
    BY <2>2, SMT
  <2>4. \A d \in added : d.generation <= generation'
    <3>1. \A d \in added : d.generation \in Nat
      BY <1>0, SMT DEF TypeOK, HandlerDef
    <3> QED
      BY <2>2, <3>1, SMT DEF Types
  <2> QED
    BY <1>0, <1>6, <2>1, <2>2, <2>3, <2>4 DEF StartEnds, Types, TypeOK, informerVars, handlerVars, workVars
<1>7. CASE ShutDown
  BY <1>0, <1>7 DEF ShutDown, Types, TypeOK, startVars, handlerVars, workVars
<1>8. ASSUME NEW k \in Keys, NEW exists \in BOOLEAN, Change(k, exists) PROVE Types'
  <2>1. version[k] \in 0..MaxVersion /\ events[k] \in 0..MaxVersion + 1 /\ version[k] < MaxVersion
        /\ events[k] <= version[k] + 1
    BY <1>0, <1>8 DEF Types, TypeOK, Change
  <2>2. version' \in [Keys -> 0..MaxVersion] /\ version'[k] = version[k] + 1
        /\ \A j \in Keys : j # k => version'[j] = version[j]
    BY <1>0, <1>8, <2>1, SMT DEF Change, TypeOK
  <2>3. events' \in [Keys -> 0..MaxVersion + 1]
        /\ \A j \in Keys : events'[j] <= version'[j] + 1
    <3>1. \A j \in Keys : version[j] \in 0..MaxVersion /\ events[j] \in 0..MaxVersion + 1
                           /\ events[j] <= version[j] + 1
      BY <1>0 DEF Types, TypeOK
    <3>2. events[k] + 1 \in 0..MaxVersion + 1
      BY <2>1, SMT
    <3>3. events \in [Keys -> 0..MaxVersion + 1]
      BY <1>0 DEF TypeOK
    <3>4. events' = events \/ events' = [events EXCEPT ![k] = @ + 1]
      BY <1>8 DEF Change
    <3>5. /\ events' \in [Keys -> 0..MaxVersion + 1] /\ (events'[k] = events[k] \/ events'[k] = events[k] + 1)
          /\ \A j \in Keys : j # k => events'[j] = events[j]
      BY <3>2, <3>3, <3>4
    <3>6. ASSUME NEW j \in Keys PROVE events'[j] <= version'[j] + 1
      <4>1. CASE j = k
        BY <2>1, <2>2, <3>5, <4>1, SMT
      <4>2. CASE j # k
        BY <2>2, <3>1, <3>5, <4>2
      <4> QED
        BY <4>1, <4>2
    <3> QED
      BY <3>5, <3>6
  <2>4. live' \subseteq Keys
    BY <1>0, <1>8 DEF Change, TypeOK
  <2> QED
    BY <1>0, <1>8, <2>2, <2>3, <2>4 DEF Change, Types, TypeOK, queueVars, startVars, handlerVars, workVars
<1>9. ASSUME NEW k \in Keys, QueueObject(k) PROVE Types'
  <2>1. queue' \in Seq(Item) /\ dirty' \subseteq Item
    BY <1>0, <1>9, Singletons, AddedItems DEF QueueObject
  <2>2. events' \in [Keys -> 0..MaxVersion + 1] /\ \A j \in Keys : events'[j] <= version[j] + 1
    <3>1. \A j \in Keys : version[j] \in 0..MaxVersion /\ events[j] \in 0..MaxVersion + 1
                           /\ events[j] <= version[j] + 1
      BY <1>0 DEF Types, TypeOK
    <3>2. events[k] - 1 \in 0..MaxVersion + 1 /\ events[k] - 1 <= version[k] + 1
      BY <1>9, <3>1, SMT DEF QueueObject
    <3>3. events \in [Keys -> 0..MaxVersion + 1] /\ events' = [events EXCEPT ![k] = @ - 1]
      BY <1>0, <1>9 DEF QueueObject, TypeOK
    <3> QED
      BY <3>1, <3>2, <3>3
  <2> QED
    BY <1>0, <1>9, <2>1, <2>2 DEF QueueObject, Types, TypeOK, startVars, handlerVars, workVars
<1>10. ASSUME NEW k \in Keys, Enqueue(k) PROVE Types'
  <2>1. queue' \in Seq(Item) /\ dirty' \subseteq Item
    BY <1>0, <1>10, Singletons, AddedItems DEF Enqueue
  <2> QED
    BY <1>0, <1>10, <2>1 DEF Enqueue, Types, TypeOK, informerVars, startVars, handlerVars, workVars
<1>11. ASSUME NEW item \in Item, Retry(item) PROVE Types'
  <2>1. queue' \in Seq(Item) /\ dirty' \subseteq Item
    BY <1>0, <1>11, AddedItems DEF Retry
  <2> QED
    BY <1>0, <1>11, <2>1 DEF Retry, Types, TypeOK, informerVars, startVars, handlerVars, workVars
<1>12. ASSUME NEW w \in Workers, Get(w) PROVE Types'
  <2>1. Moves(w) /\ queue' \in Seq(Item) /\ processing' \subseteq Item /\ dirty' \subseteq Item
    <3>1. /\ Moves(w) /\ queue \in Seq(Item) /\ queue # <<>> /\ Head(queue) \in Item
          /\ queue' = Tail(queue) /\ processing' = processing \cup {Head(queue)}
          /\ dirty' = dirty \ {Head(queue)}
      BY <1>0, <1>12, GetStep DEF Get
    <3> QED
      BY <1>0, <3>1, SMT DEF TypeOK
  <2> QED
    BY <1>0, <1>12, <2>1 DEF Get, Moves, Types, TypeOK, informerVars, startVars, handlerVars
<1>13. ASSUME NEW w \in Workers, LoadObject(w) \/ LoadHandlers(w) PROVE Types'
  <2>1. Moves(w)
    BY <1>0, <1>13, LoadObjectStep, LoadHandlersStep
  <2> QED
    BY <1>0, <1>13, <2>1
    DEF LoadObject, LoadHandlers, Moves, Types, TypeOK, informerVars, queueVars, startVars, handlerVars
<1>14. ASSUME NEW w \in Workers, NEW n \in DOMAIN worker[w].todo, NEW outcome \in Outcome,
              CallHandler(w, n, outcome)
       PROVE  Types'
  <2>1. Moves(w)
    BY <1>0, <1>14, CallStep
  <2>2. failures' \in 0..MaxFailures
    BY <1>0, <1>14, SMT DEF CallHandler, TypeOK
  <2>3. seen' \in [Handlers -> [Keys -> 0..MaxVersion]]
    <3>0. worker[w] \in Job /\ seen \in [Handlers -> [Keys -> 0..MaxVersion]]
      BY <1>0 DEF TypeOK
    <3>1. worker[w] \in Job /\ worker[w].todo[n] \in HandlerDef /\ seen \in [Handlers -> [Keys -> 0..MaxVersion]]
      BY <3>0, SMT DEF Job
    <3>2. worker[w].todo[n].handler \in Handlers /\ worker[w].item.key \in Keys
          /\ worker[w].version \in 0..MaxVersion
      BY <3>1 DEF Job, HandlerDef, Item
    <3> QED
      BY <1>14, <3>1, <3>2 DEF CallHandler
  <2> QED
    BY <1>0, <1>14, <2>1, <2>2, <2>3
    DEF CallHandler, Moves, Types, TypeOK, informerVars, queueVars, startVars, handlerVars
<1>15. ASSUME NEW w \in Workers, Finish(w) PROVE Types'
  <2>1. Moves(w) /\ worker[w].item \in Item /\ worker[w].item.key \in Keys
    BY <1>0, <1>15, FinishStep DEF TypeOK, Job, Item
  <2>2. queue' \in Seq(Item) /\ processing' \subseteq Item /\ delayed' \subseteq Item
    <3>1. Plain(worker[w].item.key) \in Item
      BY <2>1, Singletons
    <3>2. Append(queue, worker[w].item) \in Seq(Item)
      BY <1>0, <2>1, AppendItem DEF TypeOK
    <3> QED
      BY <1>0, <1>15, <2>1, <3>1, <3>2 DEF Finish, TypeOK
  <2> QED
    BY <1>0, <1>15, <2>1, <2>2 DEF Finish, Moves, Types, TypeOK, informerVars, startVars, handlerVars
<1>16. CASE UNCHANGED vars
  BY <1>0, <1>16 DEF vars, Types, TypeOK, informerVars, queueVars, startVars, handlerVars, workVars
<1> QED
  BY <1>1, <1>2, <1>3, <1>4, <1>5, <1>6, <1>7, <1>8, <1>9, <1>10, <1>11, <1>12, <1>13, <1>14, <1>15, <1>16
  DEF Next, CallerStep, WorkerStep

-----------------------------------------------------------------------------
(* The queue and the workers.                                              *)

(* The steps that add to the queue.                                        *)
Adds(items) ==
  /\ Added(items) /\ items \in SUBSET Item
  /\ UNCHANGED <<processing, down, worker, seen, version, live, informer, handlerVars>>

LEMMA AddingStep ==
  ASSUME TypeOK
  PROVE  /\ \A k \in Keys : QueueObject(k) \/ Enqueue(k) => Adds({Plain(k)})
         /\ \A item \in Item : Retry(item) => Adds({item})
         /\ StartEnds => Adds({[key |-> k, generation |-> generation] : k \in StoreKeys})
<1>1. ASSUME NEW k \in Keys, QueueObject(k) \/ Enqueue(k) PROVE Adds({Plain(k)})
  BY <1>1, Singletons DEF QueueObject, Enqueue, Adds, informerVars, workVars
<1>2. ASSUME NEW item \in Item, Retry(item) PROVE Adds({item})
  BY <1>2 DEF Retry, Adds, informerVars, workVars
<1>3. ASSUME StartEnds PROVE Adds({[key |-> k, generation |-> generation] : k \in StoreKeys})
  BY <1>3, StartItems DEF StartEnds, Adds, informerVars, workVars
<1> QED
  BY <1>1, <1>2, <1>3

(* The steps of others that leave the queue and the workers alone.         *)
LEMMA QuietStep ==
  ASSUME [Next]_vars,
         ~\E k \in Keys : QueueObject(k) \/ Enqueue(k),
         ~\E item \in Item : Retry(item),
         ~\E w \in Workers : WorkerStep(w),
         ~StartEnds
  PROVE  /\ UNCHANGED <<queue, dirty, processing, delayed, worker, seen, generation, running>>
         /\ \/ \E h \in Handlers : AddHandler(h)
            \/ \E d \in added : CancelHandler(d)
            \/ \E who \in {"sync", "start"} : Begin(who)
            \/ SyncFails \/ SyncEnds \/ ShutDown
            \/ \E k \in Keys, exists \in BOOLEAN : Change(k, exists)
            \/ UNCHANGED vars
<1>1. \/ \E h \in Handlers : AddHandler(h)
      \/ \E d \in added : CancelHandler(d)
      \/ \E who \in {"sync", "start"} : Begin(who)
      \/ SyncFails \/ SyncEnds \/ ShutDown
      \/ \E k \in Keys, exists \in BOOLEAN : Change(k, exists)
      \/ UNCHANGED vars
  BY DEF Next, CallerStep
<1>2. UNCHANGED <<queue, dirty, processing, delayed, worker, seen, generation, running>>
  BY <1>1 DEF AddHandler, CancelHandler, Begin, SyncFails, SyncEnds, ShutDown, Change,
              vars, queueVars, workVars, startVars
<1> QED
  BY <1>1, <1>2

LEMMA QueueStep ==
  ASSUME TypeOK, QueueInv, [Next]_vars
  PROVE  QueueInv'
<1>0. queue \in Seq(Item) /\ Len(queue) \in Nat /\ DOMAIN queue = 1..Len(queue)
  BY SMT DEF TypeOK
<1>1. ASSUME NEW items, Adds(items) PROVE QueueInv'
  <2>1. /\ \A n \in DOMAIN queue' : queue'[n] \in dirty' /\ queue'[n] \notin processing
        /\ \A m, n \in DOMAIN queue' : queue'[m] = queue'[n] => m = n
    BY <1>1, AddedItems DEF Adds
  <2> QED
    BY <1>1, <2>1 DEF QueueInv, Adds
<1>2. ASSUME NEW w \in Workers, Get(w) PROVE QueueInv'
  <2>1. /\ Moves(w) /\ worker'[w].pc = "load" /\ worker'[w].item = queue[1]
        /\ Len(queue) \in Nat \ {0} /\ Head(queue) = queue[1] /\ 1 \in DOMAIN queue
    BY <1>0, <1>2, GetStep, SMT
  <2>2. /\ queue' = Tail(queue) /\ processing' = processing \cup {queue[1]}
        /\ dirty' = dirty \ {queue[1]} /\ worker[w].pc = "idle"
    BY <1>2, <2>1 DEF Get
  <2>3. \A n \in DOMAIN queue' : n + 1 \in DOMAIN queue /\ n + 1 # 1 /\ queue'[n] = queue[n + 1] /\ n \in Nat
    BY <1>0, <2>1, <2>2, SMT
  <2>4. \A n \in DOMAIN queue' : queue'[n] # queue[1] /\ queue'[n] \in dirty /\ queue'[n] \notin processing
    BY <2>1, <2>3 DEF QueueInv
  <2>5. \A m, n \in DOMAIN queue' : queue'[m] = queue'[n] => m = n
    <3> TAKE m, n \in DOMAIN queue'
    <3> HAVE queue'[m] = queue'[n]
    <3>1. m + 1 = n + 1
      BY <2>3, SMT DEF QueueInv
    <3> QED
      BY <2>3, <3>1, SMT
  <2>6. \A v \in Workers : worker'[v].pc # "idle" => worker'[v].item \in processing'
    BY <2>1, <2>2 DEF QueueInv, Moves
  <2>7. \A v \in Workers : v # w /\ worker'[v].pc # "idle" => worker'[v].item # queue[1]
    BY <2>1, SMT DEF QueueInv, Moves
  <2>8. \A u, v \in Workers :
          worker'[u].pc # "idle" /\ worker'[v].pc # "idle" /\ worker'[u].item = worker'[v].item => u = v
    BY <2>1, <2>7, SMT DEF QueueInv, Moves
  <2> QED
    BY <2>2, <2>4, <2>5, <2>6, <2>8 DEF QueueInv
<1>3. ASSUME NEW w \in Workers, Finish(w) PROVE QueueInv'
  <2>1. /\ Moves(w) /\ worker'[w].pc = "idle" /\ worker[w].pc = "call"
        /\ worker[w].item \in processing
    BY <1>3, FinishStep, IdleJob DEF Finish, QueueInv
  <2>2. /\ processing' = processing \ {worker[w].item} /\ dirty' = dirty
        /\ queue' = IF worker[w].item \in dirty THEN Append(queue, worker[w].item) ELSE queue
    BY <1>3 DEF Finish
  <2>3. \A v \in Workers : worker'[v].pc # "idle" => v # w /\ worker'[v] = worker[v] /\ worker[v].item # worker[w].item
    BY <2>1 DEF QueueInv, Moves
  <2>4. /\ \A v \in Workers : worker'[v].pc # "idle" => worker'[v].item \in processing'
        /\ \A u, v \in Workers :
             worker'[u].pc # "idle" /\ worker'[v].pc # "idle" /\ worker'[u].item = worker'[v].item => u = v
    BY <2>2, <2>3, SMT DEF QueueInv
  <2>5. CASE worker[w].item \notin dirty
    BY <2>2, <2>4, <2>5 DEF QueueInv
  <2>6. CASE worker[w].item \in dirty
    <3>1. worker[w].item \in Item /\ queue' = Append(queue, worker[w].item)
      BY <2>2, <2>6 DEF TypeOK
    <3>2. /\ DOMAIN queue' = 1..Len(queue) + 1 /\ queue'[Len(queue) + 1] = worker[w].item
          /\ \A n \in DOMAIN queue : queue'[n] = queue[n]
      BY <1>0, <3>1, SMT
    <3>3. \A n \in DOMAIN queue' : n \in DOMAIN queue \/ n = Len(queue) + 1
      BY <1>0, <3>2, SMT
    <3>4. \A n \in DOMAIN queue : queue[n] # worker[w].item
      BY <2>1 DEF QueueInv
    <3>5. /\ \A n \in DOMAIN queue' : queue'[n] \in dirty' /\ queue'[n] \notin processing'
          /\ \A m, n \in DOMAIN queue' : queue'[m] = queue'[n] => m = n
      BY <2>2, <2>6, <3>2, <3>3, <3>4, SMT DEF QueueInv
    <3> QED
      BY <2>4, <3>5 DEF QueueInv
  <2> QED
    BY <2>5, <2>6
<1>4. ASSUME NEW w \in Workers, Moves(w), worker'[w].item = worker[w].item, worker[w].pc # "idle",
             UNCHANGED <<queue, dirty, processing>>
      PROVE  QueueInv'
  <2>1. \A v \in Workers : /\ worker'[v].item = worker[v].item
                           /\ worker'[v].pc # "idle" => worker[v].pc # "idle"
    BY <1>4 DEF Moves
  <2>2. ASSUME NEW v \in Workers, worker'[v].pc # "idle"
        PROVE  worker[v].pc # "idle" /\ worker'[v].item = worker[v].item /\ worker[v].item \in processing
    BY <2>1, <2>2 DEF QueueInv
  <2>4. ASSUME NEW u \in Workers, NEW v \in Workers,
               worker'[u].pc # "idle", worker'[v].pc # "idle", worker'[u].item = worker'[v].item
        PROVE  u = v
    BY <2>2, <2>4 DEF QueueInv
  <2>3. queue' = queue /\ dirty' = dirty /\ processing' = processing
    BY <1>4
  <2> QED
    BY <2>2, <2>3, <2>4 DEF QueueInv
<1>5. ASSUME NEW w \in Workers, WorkerStep(w) PROVE QueueInv'
  <2>1. CASE LoadObject(w)
    BY <1>4, <2>1, LoadObjectStep DEF LoadObject, queueVars
  <2>2. CASE LoadHandlers(w)
    BY <1>4, <2>2, LoadHandlersStep DEF LoadHandlers, queueVars
  <2>3. ASSUME NEW n \in DOMAIN worker[w].todo, NEW outcome \in Outcome, CallHandler(w, n, outcome)
        PROVE  QueueInv'
    <3>1. UNCHANGED <<queue, dirty, processing>>
      BY <2>3 DEF CallHandler, queueVars
    <3> QED
      BY <1>4, <2>3, <3>1, CallStep
  <2> QED
    BY <1>2, <1>3, <1>5, <2>1, <2>2, <2>3 DEF WorkerStep
<1>6. CASE UNCHANGED <<queue, dirty, processing, worker>>
  BY <1>6 DEF QueueInv
<1> QED
  BY <1>1, <1>5, <1>6, AddingStep, QuietStep

-----------------------------------------------------------------------------
(* Generations.                                                            *)

LEMMA GenerationStep ==
  ASSUME Types, QueueInv, GenerationInv, [Next]_vars
  PROVE  GenerationInv'
<1> USE DEF Types
<1>0. generation \in Nat /\ running \in BOOLEAN
  BY SMT DEF TypeOK
<1>1. ASSUME NEW items, Adds(items), delayed' \subseteq delayed, UNCHANGED <<generation, running>>,
             \A item \in items : item.generation = -1
      PROVE  GenerationInv'
  <2>1. dirty' \subseteq dirty \cup items /\ processing' = processing
    BY <1>1, AddedItems DEF Adds
  <2> QED
    BY <1>1, <2>1 DEF GenerationInv, Present
<1>2. ASSUME NEW k \in Keys, QueueObject(k) \/ Enqueue(k) PROVE GenerationInv'
  <2>1. Adds({Plain(k)})
    BY <1>2, AddingStep
  <2>2. UNCHANGED <<delayed, generation, running>>
    BY <1>2 DEF QueueObject, Enqueue, startVars
  <2> QED
    BY <1>1, <2>1, <2>2, Singletons
<1>3. ASSUME NEW item \in Item, Retry(item) PROVE GenerationInv'
  <2>1. Adds({item})
    BY <1>3, AddingStep
  <2>2. UNCHANGED <<generation, running>> /\ delayed' \subseteq delayed /\ item.generation = -1
    BY <1>3 DEF Retry, startVars, GenerationInv
  <2> QED
    BY <1>1, <2>1, <2>2
<1>4. CASE StartEnds
  <2> DEFINE items == {[key |-> k, generation |-> generation] : k \in StoreKeys}
  <2>1. dirty' \subseteq dirty \cup items /\ processing' = processing
    BY <1>4, AddingStep, AddedItems DEF Adds
  <2>2. generation' = generation + 1 /\ running' = TRUE /\ delayed' = delayed
    BY <1>4 DEF StartEnds
  <2>3. \A item \in items : generation > 0 /\ item.generation = generation
    BY SMT DEF StoreKeys, GenerationInv
  <2> HIDE DEF items
  <2>4. \A item \in Present' : item \in Present \/ item \in items
    BY <2>1, <2>2 DEF Present
  <2>5. \A item \in Present' : item.generation = -1 \/ item.generation \in 1..generation
    BY <1>0, <2>3, <2>4, SMT DEF GenerationInv
  <2> QED
    BY <1>0, <2>2, <2>5, SMT DEF GenerationInv
<1>5. ASSUME NEW w \in Workers, WorkerStep(w) PROVE GenerationInv'
  <2>1. CASE Get(w)
    <3>1. queue[1] = Head(queue) /\ 1 \in DOMAIN queue
      BY <2>1, GetStep, SMT
    <3>2. Present' \subseteq Present
      BY <2>1, <3>1, SMT DEF Get, Present, QueueInv
    <3> QED
      BY <2>1, <3>2 DEF Get, GenerationInv, startVars
  <2>2. CASE Finish(w)
    <3>1. worker[w].item.key \in Keys
      BY DEF TypeOK, Job, Item
    <3>2. /\ Plain(worker[w].item.key).generation = -1
          /\ delayed' \subseteq delayed \cup {Plain(worker[w].item.key)}
          /\ dirty' = dirty /\ processing' \subseteq processing
      BY <2>2, <3>1, Singletons DEF Finish
    <3>3. generation' = generation /\ running' = running
      BY <2>2 DEF Finish, startVars
    <3> QED
      BY <3>2, <3>3 DEF Present, GenerationInv
  <2>3. CASE \/ LoadObject(w) \/ LoadHandlers(w)
             \/ \E n \in DOMAIN worker[w].todo, outcome \in Outcome : CallHandler(w, n, outcome)
    <3>1. UNCHANGED <<dirty, processing, delayed, generation, running>>
      BY <2>3 DEF LoadObject, LoadHandlers, CallHandler, queueVars, startVars
    <3> QED
      BY <3>1 DEF Present, GenerationInv
  <2> QED
    BY <1>5, <2>1, <2>2, <2>3 DEF WorkerStep
<1>6. CASE UNCHANGED <<dirty, processing, delayed, generation, running>>
  BY <1>6 DEF GenerationInv, Present
<1> QED
  BY <1>2, <1>3, <1>4, <1>5, <1>6, QuietStep

-----------------------------------------------------------------------------
(* The start.                                                              *)

LEMMA StartStep ==
  ASSUME Types, StartInv, [Next]_vars
  PROVE  StartInv'
<1> USE DEF Types
<1>0. /\ running \in BOOLEAN /\ synced \in BOOLEAN /\ down \in BOOLEAN
      /\ caller \in {"none", "sync", "start"} /\ informer \in {"new", "running", "stopped"}
      /\ events \in [Keys -> 0..MaxVersion + 1] /\ live \subseteq Keys
  BY DEF TypeOK
<1>1. ASSUME NEW w \in Workers, WorkerStep(w) PROVE StartInv'
  <2>1. running
    BY <1>0, <1>1 DEF WorkerStep, Get, LoadObject, LoadHandlers, CallHandler, Finish, StartInv
  <2>2. UNCHANGED <<running, synced, caller, informer, down>>
    BY <1>1 DEF WorkerStep, Get, LoadObject, LoadHandlers, CallHandler, Finish, startVars,
                informerVars, queueVars
  <2> QED
    BY <2>1, <2>2 DEF StartInv
<1>2. ASSUME UNCHANGED <<running, synced, caller, informer, down, worker, seen>>,
             ~running /\ informer # "new" => \A k \in live' : events'[k] > 0 \/ Plain(k) \in dirty'
      PROVE  StartInv'
  <2>1. ~running' => /\ ~down'
                     /\ \A w \in Workers : worker'[w].pc = "idle"
                     /\ \A h \in Handlers, k \in Keys : seen'[h][k] = 0
    BY <1>2 DEF StartInv
  <2> QED
    BY <1>2, <2>1 DEF StartInv
<1>3. ASSUME NEW items, Adds(items), UNCHANGED <<running, synced, caller>>,
             ~running /\ informer # "new" =>
               \A k \in live : events[k] > 0 => events'[k] > 0 \/ Plain(k) \in dirty'
      PROVE  StartInv'
  <2>1. dirty \subseteq dirty'
    BY <1>3, AddedItems DEF Adds
  <2>2. UNCHANGED <<down, worker, seen, live, informer>>
    BY <1>3 DEF Adds
  <2> QED
    BY <1>2, <1>3, <2>1, <2>2 DEF StartInv
<1>4. ASSUME NEW k \in Keys, QueueObject(k) PROVE StartInv'
  <2>1. Adds({Plain(k)}) /\ UNCHANGED <<running, synced, caller>>
    BY <1>4, AddingStep DEF QueueObject, startVars
  <2>2. ~running => Plain(k) \in dirty'
    BY <2>1, AddedItems DEF StartInv, Adds
  <2>3. \A j \in Keys : j # k => events'[j] = events[j]
    BY <1>0, <1>4 DEF QueueObject
  <2> QED
    BY <1>0, <1>3, <2>1, <2>2, <2>3
<1>5. ASSUME NEW k \in Keys, Enqueue(k) PROVE StartInv'
  BY <1>3, <1>5, AddingStep DEF Enqueue, startVars, informerVars
<1>6. ASSUME NEW item \in Item, Retry(item) PROVE StartInv'
  BY <1>3, <1>6, AddingStep DEF Retry, startVars, informerVars
<1>7. CASE StartEnds
  <2>1. caller = "start" /\ caller' = "none" /\ synced' /\ running' /\ UNCHANGED <<informer, down>>
    BY <1>7 DEF StartEnds, informerVars
  <2> QED
    BY <1>0, <2>1 DEF StartInv
<1>8. ASSUME NEW k \in Keys, NEW exists \in BOOLEAN, Change(k, exists) PROVE StartInv'
  <2>1. UNCHANGED <<running, synced, caller, informer, down, dirty, worker, seen>>
    BY <1>8 DEF Change, queueVars, startVars, workVars
  <2>2. \A j \in live' : j = k \/ j \in live
    BY <1>8 DEF Change
  <2>3. informer = "running" => events' = [events EXCEPT ![k] = @ + 1]
    BY <1>8 DEF Change
  <2>4. informer = "running" => events'[k] > 0 /\ \A j \in Keys : j # k => events'[j] = events[j]
    BY <1>0, <2>3, ControllerAssumption, SMT
  <2>5. informer # "new" => informer = "running"
    BY <1>0, <1>8 DEF Change
  <2>6. ~running /\ informer # "new" => \A j \in live' : events'[j] > 0 \/ Plain(j) \in dirty'
    BY <1>0, <2>1, <2>2, <2>4, <2>5 DEF StartInv
  <2> QED
    BY <1>2, <2>1, <2>6
<1>9. ASSUME NEW who \in {"sync", "start"}, Begin(who) PROVE StartInv'
  <2>1. /\ UNCHANGED <<running, synced, down, dirty, worker, seen, live>>
        /\ caller' = who /\ caller = "none"
    BY <1>9 DEF Begin, queueVars, workVars
  <2>2. CASE synced
    BY <1>2, <1>9, <2>1, <2>2, SMT DEF Begin, StartInv
  <2>3. CASE ~synced
    <3>1. informer' = "running" /\ \A k \in live' : events'[k] = 1
      BY <1>0, <1>9, <2>1, <2>3 DEF Begin
    <3> QED
      BY <2>1, <2>3, <3>1, SMT DEF StartInv
  <2> QED
    BY <2>2, <2>3
<1>10. CASE SyncFails
  BY <1>0, <1>10 DEF SyncFails, StartInv, queueVars, workVars
<1>11. CASE SyncEnds
  BY <1>0, <1>11 DEF SyncEnds, StartInv, queueVars, workVars, informerVars
<1>12. CASE ShutDown
  BY <1>0, <1>12 DEF ShutDown, StartInv, startVars
<1>13. CASE UNCHANGED <<running, synced, caller, informer, down, worker, seen, live, events, dirty>>
  BY <1>2, <1>13 DEF StartInv
<1>14. CASE (\E h \in Handlers : AddHandler(h)) \/ (\E d \in added : CancelHandler(d)) \/ UNCHANGED vars
  BY <1>13, <1>14 DEF AddHandler, CancelHandler, informerVars, queueVars, startVars, workVars, vars
<1> QED
  BY <1>1, <1>4, <1>5, <1>6, <1>7, <1>8, <1>9, <1>10, <1>11, <1>12, <1>14 DEF Next, CallerStep

-----------------------------------------------------------------------------
(* What has been seen.                                                     *)

(* A call raises what its handler has seen to the version of the call.     *)
LEMMA SeenByCall ==
  ASSUME TypeOK, NEW w \in Workers, NEW n \in DOMAIN worker[w].todo, NEW outcome \in Outcome,
         CallHandler(w, n, outcome), NEW h \in Handlers, NEW k \in Keys
  PROVE  seen'[h][k] = IF /\ outcome \in {"ok", "forget"}
                          /\ h = worker[w].todo[n].handler /\ k = worker[w].item.key
                          /\ seen[h][k] < worker[w].version
                       THEN worker[w].version ELSE seen[h][k]
<1>1. /\ worker[w].todo[n].handler \in Handlers /\ worker[w].item.key \in Keys
      /\ worker[w].version \in Nat
  <2>1. worker[w] \in Job
    BY DEF TypeOK
  <2>2. worker[w].todo[n] \in HandlerDef
    BY <2>1, SMT DEF Job
  <2> QED
    BY <2>1, <2>2, ControllerAssumption, SMT DEF Job, HandlerDef, Item
<1>2. seen' = IF outcome \in {"ok", "forget"} /\ seen[worker[w].todo[n].handler][worker[w].item.key] < worker[w].version
              THEN [seen EXCEPT ![worker[w].todo[n].handler][worker[w].item.key] = worker[w].version]
              ELSE seen
  BY DEF CallHandler
<1> QED
  BY <1>1, <1>2 DEF TypeOK

LEMMA NaturalVersions ==
  ASSUME TypeOK
  PROVE  /\ \A k \in Keys : version[k] \in Nat /\ events[k] \in Nat
         /\ \A w \in Workers : worker[w] \in Job /\ worker[w].version \in Nat /\ worker[w].item.key \in Keys
         /\ \A h \in Handlers, k \in Keys : seen[h][k] \in Nat
         /\ generation \in Nat
<1>1. \A k \in Keys : version[k] \in Nat /\ events[k] \in Nat
  BY ControllerAssumption, SMT DEF TypeOK
<1>2. \A w \in Workers : worker[w] \in Job
  BY DEF TypeOK
<1>3. \A x \in Job : x.version \in Nat /\ x.item.key \in Keys
  BY ControllerAssumption, SMT DEF Job, Item
<1>4. \A h \in Handlers, k \in Keys : seen[h][k] \in 0..MaxVersion
  BY DEF TypeOK
<1>5. \A h \in Handlers, k \in Keys : seen[h][k] \in Nat
  BY <1>4, ControllerAssumption, SMT
<1>6. generation \in Nat
  BY SMT DEF TypeOK
<1> QED
  BY <1>1, <1>2, <1>3, <1>5, <1>6

LEMMA Suffix ==
  ASSUME NEW S, NEW s \in Seq(S), NEW n \in 1..Len(s)
  PROVE  /\ DOMAIN SubSeq(s, n + 1, Len(s)) = 1..Len(s) - n
         /\ \A m \in 1..Len(s) - n : SubSeq(s, n + 1, Len(s))[m] = s[n + m]
<1>1. Len(SubSeq(s, n + 1, Len(s))) = Len(s) - n
  BY SMT
<1> QED
  BY <1>1, SMT

(* What is left of a list is of that list.                                 *)
LEMMA LeftOfList ==
  ASSUME TypeOK, NEW w \in Workers, NEW n \in DOMAIN worker[w].todo, NEW outcome \in Outcome
  PROVE  /\ \A m \in DOMAIN Left(w, n, outcome) :
              /\ n + m \in DOMAIN worker[w].todo
              /\ Left(w, n, outcome)[m] = worker[w].todo[n + m]
         /\ outcome # "panic" => \A m \in DOMAIN worker[w].todo : m > n =>
              m - n \in DOMAIN Left(w, n, outcome) /\ Left(w, n, outcome)[m - n] = worker[w].todo[m]
<1>1. worker[w].todo \in Seq(HandlerDef)
  BY DEF TypeOK, Job
<1>2. n \in 1..Len(worker[w].todo) /\ Len(worker[w].todo) \in Nat
  BY <1>1, SMT
<1>3. CASE outcome = "panic"
  BY <1>3, SMT DEF Left
<1>4. CASE outcome # "panic"
  <2>1. Left(w, n, outcome) = SubSeq(worker[w].todo, n + 1, Len(worker[w].todo))
    BY <1>4 DEF Left
  <2>2. /\ DOMAIN Left(w, n, outcome) = 1..Len(worker[w].todo) - n
        /\ \A m \in 1..Len(worker[w].todo) - n : Left(w, n, outcome)[m] = worker[w].todo[n + m]
    BY <1>1, <1>2, <2>1, Suffix
  <2>3. DOMAIN worker[w].todo = 1..Len(worker[w].todo)
    BY <1>1, SMT
  <2>4. \A m \in 1..Len(worker[w].todo) - n : n + m \in 1..Len(worker[w].todo)
    BY <1>2, SMT
  <2>5. \A m \in 1..Len(worker[w].todo) : m > n => m - n \in 1..Len(worker[w].todo) - n /\ n + (m - n) = m
    BY <1>2, SMT
  <2> QED
    BY <2>2, <2>3, <2>4, <2>5
<1> QED
  BY <1>3, <1>4

LEMMA OfferedStep ==
  ASSUME Types, OfferedInv, [Next]_vars
  PROVE  OfferedInv'
<1> USE DEF Types
<1>1. ASSUME offered' \subseteq offered,
             \A h \in offered', d \in added' : d.handler # h,
             \A h \in offered', k \in Keys : seen'[h][k] = seen[h][k],
             \A w \in Workers : \A n \in DOMAIN worker'[w].todo :
               \/ \E m \in DOMAIN worker[w].todo : worker'[w].todo[n] = worker[w].todo[m]
               \/ worker'[w].todo[n] \in added
      PROVE  OfferedInv'
  BY <1>1, SMT DEF OfferedInv
<1>2. ASSUME NEW w \in Workers, Moves(w), UNCHANGED <<offered, added, seen>>,
             \A n \in DOMAIN worker'[w].todo :
               \/ \E m \in DOMAIN worker[w].todo : worker'[w].todo[n] = worker[w].todo[m]
               \/ worker'[w].todo[n] \in added
      PROVE  OfferedInv'
  BY <1>1, <1>2, SMT DEF OfferedInv, Moves
<1>3. ASSUME NEW w \in Workers, Get(w) PROVE OfferedInv'
  <2>1. Moves(w) /\ worker'[w].todo = <<>>
    BY <1>3, GetStep
  <2>2. UNCHANGED <<offered, added, seen>>
    BY <1>3 DEF Get, handlerVars
  <2> QED
    BY <1>2, <2>1, <2>2, SMT
<1>4. ASSUME NEW w \in Workers, LoadObject(w) PROVE OfferedInv'
  <2>1. Moves(w) /\ worker'[w].todo = worker[w].todo
    BY <1>4, LoadObjectStep
  <2>2. UNCHANGED <<offered, added, seen>>
    BY <1>4 DEF LoadObject, handlerVars
  <2> QED
    BY <1>2, <2>1, <2>2
<1>5. ASSUME NEW w \in Workers, LoadHandlers(w) PROVE OfferedInv'
  <2>1. Moves(w) /\ worker'[w].todo = handlers
    BY <1>5, LoadHandlersStep
  <2>2. UNCHANGED <<offered, added, seen>>
    BY <1>5 DEF LoadHandlers, handlerVars
  <2> QED
    BY <1>2, <2>1, <2>2
<1>6. ASSUME NEW w \in Workers, Finish(w) PROVE OfferedInv'
  <2>1. Moves(w) /\ worker'[w].todo = <<>>
    BY <1>6, FinishStep, IdleJob
  <2>2. UNCHANGED <<offered, added, seen>>
    BY <1>6 DEF Finish, handlerVars
  <2> QED
    BY <1>2, <2>1, <2>2, SMT
<1>7. ASSUME NEW w \in Workers, NEW n \in DOMAIN worker[w].todo, NEW outcome \in Outcome,
             CallHandler(w, n, outcome)
      PROVE  OfferedInv'
  <2>1. Moves(w) /\ worker'[w].todo = Left(w, n, outcome)
    BY <1>7, CallStep
  <2>2. UNCHANGED <<offered, added>>
    BY <1>7 DEF CallHandler, handlerVars
  <2>3. \A m \in DOMAIN worker'[w].todo : \E i \in DOMAIN worker[w].todo : worker'[w].todo[m] = worker[w].todo[i]
    BY <2>1, LeftOfList, SMT
  <2>4. ASSUME NEW h \in offered, NEW k \in Keys PROVE seen'[h][k] = seen[h][k]
    <3>1. h \in Handlers /\ h # worker[w].todo[n].handler
      BY SMT DEF TypeOK, OfferedInv
    <3> QED
      BY <1>7, <3>1, SeenByCall
  <2> QED
    BY <1>1, <2>1, <2>2, <2>3, <2>4, SMT DEF OfferedInv, Moves
<1>8. ASSUME NEW h \in Handlers, AddHandler(h) PROVE OfferedInv'
  <2> DEFINE d == [handler |-> h, generation |-> generation]
  <2>1. offered' = offered \ {h} /\ added' = added \cup {d} /\ UNCHANGED <<worker, seen>>
    BY <1>8 DEF AddHandler, workVars
  <2>2. d.handler = h
    OBVIOUS
  <2> HIDE DEF d
  <2> QED
    BY <2>1, <2>2, SMT DEF OfferedInv
<1>9. CASE UNCHANGED <<offered, added, worker, seen>>
  BY <1>9 DEF OfferedInv
<1> QED
  <2>1. ASSUME NEW items, Adds(items) PROVE OfferedInv'
    BY <1>9, <2>1 DEF Adds, handlerVars
  <2>2. CASE CallerStep
    BY <1>8, <1>9, <2>2, <2>1, AddingStep
       DEF CallerStep, CancelHandler, Begin, SyncFails, SyncEnds, ShutDown, handlerVars, workVars
  <2>3. ASSUME NEW k \in Keys, NEW exists \in BOOLEAN, Change(k, exists) PROVE OfferedInv'
    BY <1>9, <2>3 DEF Change, handlerVars, workVars
  <2>4. CASE UNCHANGED vars
    BY <1>9, <2>4 DEF vars, handlerVars, workVars
  <2>5. ASSUME NEW w \in Workers, WorkerStep(w) PROVE OfferedInv'
    BY <1>3, <1>4, <1>5, <1>6, <1>7, <2>5 DEF WorkerStep
  <2> QED
    BY <2>1, <2>2, <2>3, <2>4, <2>5, AddingStep DEF Next

LEMMA VersionStep ==
  ASSUME Types, VersionInv, [Next]_vars
  PROVE  VersionInv'
<1> USE DEF Types
<1>1. ASSUME NEW w \in Workers, Moves(w), UNCHANGED <<version, seen>>,
             worker'[w].pc # "idle" => worker'[w].version <= version[worker'[w].item.key]
      PROVE  VersionInv'
  BY <1>1 DEF VersionInv, Moves
<1>2. ASSUME NEW w \in Workers, Get(w) PROVE VersionInv'
  <2>1. Moves(w) /\ worker'[w].version = 0 /\ worker'[w].item \in Item
    BY <1>2, GetStep
  <2>2. 0 <= version[worker'[w].item.key]
    BY <2>1, NaturalVersions, SMT DEF Item
  <2>3. UNCHANGED <<version, seen>>
    BY <1>2 DEF Get, informerVars
  <2> QED
    BY <1>1, <2>1, <2>2, <2>3
<1>3. ASSUME NEW w \in Workers, LoadObject(w) PROVE VersionInv'
  <2>1. Moves(w) /\ worker'[w].version = version[worker[w].item.key] /\ worker'[w].item = worker[w].item
    BY <1>3, LoadObjectStep
  <2>2. version[worker[w].item.key] \in Nat
    BY NaturalVersions
  <2>3. UNCHANGED <<version, seen>>
    BY <1>3 DEF LoadObject, informerVars
  <2> QED
    BY <1>1, <2>1, <2>2, <2>3, SMT
<1>4. ASSUME NEW w \in Workers, LoadHandlers(w) PROVE VersionInv'
  <2>1. Moves(w) /\ worker'[w].version = worker[w].version /\ worker'[w].item = worker[w].item
    BY <1>4, LoadHandlersStep
  <2>2. worker[w].version <= version[worker[w].item.key]
    BY <1>4 DEF VersionInv, LoadHandlers
  <2>3. UNCHANGED <<version, seen>>
    BY <1>4 DEF LoadHandlers, informerVars
  <2> QED
    BY <1>1, <2>1, <2>2, <2>3
<1>5. ASSUME NEW w \in Workers, Finish(w) PROVE VersionInv'
  <2>1. Moves(w) /\ worker'[w].pc = "idle"
    BY <1>5, FinishStep, IdleJob
  <2>3. UNCHANGED <<version, seen>>
    BY <1>5 DEF Finish, informerVars
  <2> QED
    BY <1>1, <2>1, <2>3
<1>6. ASSUME NEW w \in Workers, NEW n \in DOMAIN worker[w].todo, NEW outcome \in Outcome,
             CallHandler(w, n, outcome)
      PROVE  VersionInv'
  <2>1. /\ Moves(w) /\ worker'[w].version = worker[w].version /\ worker'[w].item = worker[w].item
        /\ worker[w].pc = "call" /\ worker'[w].pc = "call"
    BY <1>6, CallStep
  <2>2. version' = version
    BY <1>6 DEF CallHandler, informerVars
  <2>3. worker[w].version <= version[worker[w].item.key]
    BY <2>1 DEF VersionInv
  <2>4. \A h \in Handlers, k \in Keys : seen'[h][k] <= version[k]
    BY <1>6, <2>3, SeenByCall, SMT DEF VersionInv
  <2> QED
    BY <2>1, <2>2, <2>4 DEF VersionInv, Moves
<1>7. ASSUME NEW k \in Keys, NEW exists \in BOOLEAN, Change(k, exists) PROVE VersionInv'
  <2>1. /\ version' = [version EXCEPT ![k] = version[k] + 1]
        /\ UNCHANGED <<worker, seen>>
    BY <1>7 DEF Change, workVars
  <2>2. \A j \in Keys : version[j] <= version'[j] /\ version'[j] \in Nat
    <3>1. \A j \in Keys : version'[j] = IF j = k THEN version[k] + 1 ELSE version[j]
      BY <2>1 DEF TypeOK
    <3> QED
      BY <3>1, NaturalVersions, SMT
  <2>4. \A h \in Handlers, j \in Keys : seen'[h][j] <= version'[j]
    BY <2>1, <2>2, NaturalVersions, SMT DEF VersionInv
  <2>5. \A w \in Workers : worker'[w].pc # "idle" => worker'[w].version <= version'[worker'[w].item.key]
    BY <2>1, <2>2, NaturalVersions, SMT DEF VersionInv
  <2> QED
    BY <2>4, <2>5 DEF VersionInv
<1>8. CASE UNCHANGED <<version, worker, seen>>
  BY <1>8 DEF VersionInv
<1> QED
  <2>1. ASSUME NEW items, Adds(items) PROVE VersionInv'
    BY <1>8, <2>1 DEF Adds
  <2>2. CASE CallerStep
    BY <1>8, <2>2, <2>1, AddingStep
       DEF CallerStep, AddHandler, CancelHandler, Begin, SyncFails, SyncEnds, ShutDown, informerVars, workVars
  <2>4. CASE UNCHANGED vars
    BY <1>8, <2>4 DEF vars, informerVars, workVars
  <2>5. ASSUME NEW w \in Workers, WorkerStep(w) PROVE VersionInv'
    BY <1>2, <1>3, <1>4, <1>5, <1>6, <2>5 DEF WorkerStep
  <2> QED
    BY <1>7, <2>1, <2>2, <2>4, <2>5, AddingStep DEF Next

LEMMA OrderStep ==
  ASSUME Types, QueueInv, GenerationInv, VersionInv, OrderInv, [Next]_vars
  PROVE  OrderInv'
<1> USE DEF Types
<1>0. generation' \in Nat /\ generation <= generation'
  <2>1. CASE StartEnds
    BY <2>1, NaturalVersions, SMT DEF StartEnds
  <2>2. ASSUME NEW k \in Keys, QueueObject(k) \/ Enqueue(k) PROVE generation' = generation
    BY <2>2 DEF QueueObject, Enqueue, startVars
  <2>3. ASSUME NEW item \in Item, Retry(item) PROVE generation' = generation
    BY <2>3 DEF Retry, startVars
  <2>4. ASSUME NEW w \in Workers, WorkerStep(w) PROVE generation' = generation
    BY <2>4 DEF WorkerStep, Get, LoadObject, LoadHandlers, CallHandler, Finish, startVars
  <2> QED
    BY <2>1, <2>2, <2>3, <2>4, NaturalVersions, QuietStep, SMT
<1>1. ASSUME NEW w \in Workers, Moves(w), UNCHANGED seen,
             \/ ~Loaded(w)'
             \/ Loaded(w) /\ worker'[w].item = worker[w].item /\ worker'[w].version = worker[w].version
             \/ \A h \in Handlers : seen[h][worker'[w].item.key] <= worker'[w].version
      PROVE  OrderInv'
  <2>1. \A v \in Workers, h \in Handlers :
          Loaded(v)' /\ generation <= 1 => seen[h][worker'[v].item.key] <= worker'[v].version
    BY <1>1 DEF OrderInv, Moves, Loaded
  <2> QED
    BY <1>0, <1>1, <2>1, NaturalVersions, SMT DEF OrderInv
<1>2. ASSUME NEW w \in Workers, Get(w) PROVE OrderInv'
  <2>1. Moves(w) /\ worker'[w].pc = "load" /\ UNCHANGED seen
    BY <1>2, GetStep DEF Get
  <2> QED
    BY <1>1, <2>1 DEF Loaded
<1>3. ASSUME NEW w \in Workers, LoadObject(w) PROVE OrderInv'
  <2>1. /\ Moves(w) /\ worker'[w].version = version[worker[w].item.key] /\ worker'[w].item = worker[w].item
        /\ UNCHANGED seen
    BY <1>3, LoadObjectStep DEF LoadObject
  <2>2. \A h \in Handlers : seen[h][worker[w].item.key] <= version[worker[w].item.key]
    BY NaturalVersions DEF VersionInv
  <2> QED
    BY <1>1, <2>1, <2>2
<1>4. ASSUME NEW w \in Workers, LoadHandlers(w) PROVE OrderInv'
  <2>1. /\ Moves(w) /\ worker'[w].version = worker[w].version /\ worker'[w].item = worker[w].item
        /\ UNCHANGED seen
    BY <1>4, LoadHandlersStep DEF LoadHandlers
  <2>2. Loaded(w)
    BY <1>4 DEF LoadHandlers, Loaded
  <2> QED
    BY <1>1, <2>1, <2>2
<1>5. ASSUME NEW w \in Workers, Finish(w) PROVE OrderInv'
  <2>1. Moves(w) /\ worker'[w].pc = "idle" /\ UNCHANGED seen
    BY <1>5, FinishStep, IdleJob DEF Finish
  <2> QED
    BY <1>1, <2>1 DEF Loaded
<1>6. ASSUME NEW w \in Workers, NEW n \in DOMAIN worker[w].todo, NEW outcome \in Outcome,
             CallHandler(w, n, outcome)
      PROVE  OrderInv'
  <2>1. /\ Moves(w) /\ worker'[w].version = worker[w].version /\ worker'[w].item = worker[w].item
        /\ worker[w].pc = "call" /\ worker'[w].pc = "call"
    BY <1>6, CallStep
  <2> SUFFICES ASSUME generation' <= 1, NEW v \in Workers, NEW h \in Handlers, Loaded(v)'
               PROVE  seen'[h][worker'[v].item.key] <= worker'[v].version
    BY DEF OrderInv
  <2>2. generation <= 1
    BY <1>0, NaturalVersions, SMT
  <2>3. /\ worker'[v].item = worker[v].item /\ worker'[v].version = worker[v].version
        /\ Loaded(v) /\ worker[v].pc # "idle"
    BY <2>1 DEF Moves, Loaded
  <2>4. seen[h][worker[v].item.key] <= worker[v].version
    BY <2>2, <2>3 DEF OrderInv
  <2>5. CASE v = w
    BY <1>6, <2>3, <2>4, <2>5, SeenByCall, NaturalVersions, SMT
  <2>6. CASE v # w
    <3>1. worker[v].item # worker[w].item
      BY <2>1, <2>3, <2>6 DEF QueueInv
    <3>2. /\ worker[v].item \in Present /\ worker[w].item \in Present
          /\ worker[v].item \in Item /\ worker[w].item \in Item
      BY <2>1, <2>3 DEF QueueInv, Present, TypeOK, Job
    <3>3. worker[v].item.generation = -1 /\ worker[w].item.generation = -1
      BY <2>2, <3>2, NaturalVersions, SMT DEF GenerationInv
    <3>4. worker[v].item.key # worker[w].item.key
      BY <3>1, <3>2, <3>3, SMT DEF Item
    <3>5. seen'[h][worker[v].item.key] = seen[h][worker[v].item.key]
      BY <1>6, <3>4, SeenByCall, NaturalVersions
    <3> QED
      BY <2>3, <2>4, <3>5
  <2> QED
    BY <2>5, <2>6
<1>8. CASE UNCHANGED <<worker, seen>>
  BY <1>0, <1>8, NaturalVersions, SMT DEF OrderInv, Loaded
<1> QED
  <2>1. ASSUME NEW items, Adds(items) PROVE OrderInv'
    BY <1>8, <2>1 DEF Adds
  <2>5. ASSUME NEW w \in Workers, WorkerStep(w) PROVE OrderInv'
    BY <1>2, <1>3, <1>4, <1>5, <1>6, <2>5 DEF WorkerStep
  <2> QED
    BY <1>8, <2>1, <2>5, AddingStep, QuietStep

-----------------------------------------------------------------------------
(* Nothing is lost.                                                        *)

LEMMA StaleStep ==
  ASSUME Types, QueueInv, StartInv, StaleInv, [Next]_vars, ~down, ~down'
  PROVE  StaleInv'
<1> USE DEF Types
<1>1. ASSUME UNCHANGED <<worker, version>>,
             \A w \in Workers, k \in Keys : Loaded(w) /\ (events[k] > 0 \/ Plain(k) \in dirty) =>
                                             events'[k] > 0 \/ Plain(k) \in dirty'
      PROVE  StaleInv'
  BY <1>1 DEF StaleInv, Loaded
<1>2. ASSUME NEW w \in Workers, Moves(w), UNCHANGED <<version, events>>,
             \A v \in Workers : v # w /\ Loaded(v) /\ worker[v].item \in dirty => worker[v].item \in dirty',
             \/ ~Loaded(w)'
             \/ /\ Loaded(w) /\ worker'[w].item = worker[w].item /\ worker'[w].version = worker[w].version
                /\ dirty' = dirty
             \/ worker'[w].version = version[worker'[w].item.key]
      PROVE  StaleInv'
  <2> SUFFICES ASSUME NEW v \in Workers, NEW k \in Keys,
                      Loaded(v)', worker'[v].item = Plain(k), worker'[v].version # version'[k]
               PROVE  events'[k] > 0 \/ Plain(k) \in dirty'
    BY DEF StaleInv
  <2>1. version'[k] = version[k] /\ events'[k] = events[k] /\ Plain(k).key = k
    BY <1>2, Singletons
  <2>2. CASE v # w
    BY <1>2, <2>1, <2>2 DEF StaleInv, Moves, Loaded
  <2>3. CASE v = w
    BY <1>2, <2>1, <2>3 DEF StaleInv
  <2> QED
    BY <2>2, <2>3
<1>3. ASSUME NEW w \in Workers, Get(w) PROVE StaleInv'
  <2>1. Moves(w) /\ worker'[w].pc = "load" /\ 1 \in DOMAIN queue /\ Head(queue) = queue[1]
    BY <1>3, GetStep, SMT
  <2>2. UNCHANGED <<version, events>> /\ dirty' = dirty \ {queue[1]}
    BY <1>3, <2>1 DEF Get, informerVars
  <2>3. \A v \in Workers : Loaded(v) => worker[v].item # queue[1]
    BY <2>1 DEF QueueInv, Loaded
  <2> QED
    BY <1>2, <2>1, <2>2, <2>3 DEF Loaded
<1>4. ASSUME NEW w \in Workers, LoadObject(w) PROVE StaleInv'
  <2>1. Moves(w) /\ worker'[w].version = version[worker'[w].item.key]
    BY <1>4, LoadObjectStep
  <2>2. UNCHANGED <<version, events, dirty>>
    BY <1>4 DEF LoadObject, informerVars, queueVars
  <2> QED
    BY <1>2, <2>1, <2>2
<1>5. ASSUME NEW w \in Workers, LoadHandlers(w) PROVE StaleInv'
  <2>1. Moves(w) /\ worker'[w].item = worker[w].item /\ worker'[w].version = worker[w].version
    BY <1>5, LoadHandlersStep
  <2>2. UNCHANGED <<version, events, dirty>> /\ Loaded(w)
    BY <1>5 DEF LoadHandlers, informerVars, queueVars, Loaded
  <2> QED
    BY <1>2, <2>1, <2>2
<1>6. ASSUME NEW w \in Workers, NEW n \in DOMAIN worker[w].todo, NEW outcome \in Outcome,
             CallHandler(w, n, outcome)
      PROVE  StaleInv'
  <2>1. /\ Moves(w) /\ worker'[w].item = worker[w].item /\ worker'[w].version = worker[w].version
        /\ worker[w].pc = "call"
    BY <1>6, CallStep
  <2>2. UNCHANGED <<version, events, dirty>>
    BY <1>6 DEF CallHandler, informerVars, queueVars
  <2> QED
    BY <1>2, <2>1, <2>2 DEF Loaded
<1>7. ASSUME NEW w \in Workers, Finish(w) PROVE StaleInv'
  <2>1. Moves(w) /\ worker'[w].pc = "idle"
    BY <1>7, FinishStep, IdleJob
  <2>2. UNCHANGED <<version, events, dirty>>
    BY <1>7 DEF Finish, informerVars
  <2> QED
    BY <1>2, <2>1, <2>2 DEF Loaded
<1>8. ASSUME NEW items, Adds(items), UNCHANGED events PROVE StaleInv'
  <2>1. dirty \subseteq dirty' /\ UNCHANGED <<worker, version>>
    BY <1>8, AddedItems DEF Adds
  <2> QED
    BY <1>1, <1>8, <2>1
<1>9. ASSUME NEW k \in Keys, QueueObject(k) PROVE StaleInv'
  <2>1. Adds({Plain(k)})
    BY <1>9, AddingStep
  <2>2. dirty \subseteq dirty' /\ Plain(k) \in dirty' /\ UNCHANGED <<worker, version>>
    BY <2>1, AddedItems DEF Adds
  <2>3. \A j \in Keys : j # k => events'[j] = events[j]
    BY <1>9 DEF QueueObject, TypeOK
  <2> QED
    BY <1>1, <2>2, <2>3
<1>10. ASSUME NEW k \in Keys, NEW exists \in BOOLEAN, Change(k, exists) PROVE StaleInv'
  <2>1. UNCHANGED <<worker, dirty>> /\ informer \in {"new", "running"}
    BY <1>10 DEF Change, workVars, queueVars, TypeOK
  <2>2. CASE informer = "new"
    <3>1. \A w \in Workers : worker[w].pc = "idle"
      BY <2>2 DEF StartInv, TypeOK
    <3> QED
      BY <2>1, <3>1 DEF StaleInv, Loaded
  <2>3. CASE informer = "running"
    <3>1. /\ version' = [version EXCEPT ![k] = version[k] + 1]
          /\ events' = [events EXCEPT ![k] = events[k] + 1]
      BY <1>10, <2>3 DEF Change
    <3>2. events[k] + 1 > 0
      BY NaturalVersions, SMT
    <3>3. events'[k] > 0 /\ \A j \in Keys : j # k => events'[j] = events[j] /\ version'[j] = version[j]
      BY <3>1, <3>2 DEF TypeOK
    <3> QED
      BY <2>1, <3>3 DEF StaleInv, Loaded
  <2> QED
    BY <2>1, <2>2, <2>3
<1>11. ASSUME NEW who \in {"sync", "start"}, Begin(who) PROVE StaleInv'
  <2>1. UNCHANGED <<worker, version, dirty>>
    BY <1>11 DEF Begin, workVars, queueVars
  <2>2. CASE synced
    BY <1>1, <1>11, <2>1, <2>2 DEF Begin
  <2>3. CASE ~synced
    <3>1. \A w \in Workers : worker[w].pc = "idle"
      BY <2>3 DEF StartInv, TypeOK
    <3> QED
      BY <2>1, <3>1 DEF StaleInv, Loaded
  <2> QED
    BY <2>2, <2>3
<1>12. CASE UNCHANGED <<worker, version, events, dirty>>
  BY <1>1, <1>12
<1>13. CASE \/ \E h \in Handlers : AddHandler(h)
            \/ \E d \in added : CancelHandler(d)
            \/ SyncFails \/ SyncEnds \/ ShutDown \/ UNCHANGED vars
  BY <1>12, <1>13 DEF AddHandler, CancelHandler, SyncFails, SyncEnds, ShutDown, vars,
                      informerVars, queueVars, workVars
<1>14. CASE StartEnds
  BY <1>8, <1>14, AddingStep DEF StartEnds, informerVars
<1>15. ASSUME NEW k \in Keys, Enqueue(k) PROVE StaleInv'
  BY <1>8, <1>15, AddingStep DEF Enqueue, informerVars
<1>16. ASSUME NEW item \in Item, Retry(item) PROVE StaleInv'
  BY <1>8, <1>16, AddingStep DEF Retry, informerVars
<1>17. ASSUME NEW w \in Workers, WorkerStep(w) PROVE StaleInv'
  BY <1>3, <1>4, <1>5, <1>6, <1>7, <1>17 DEF WorkerStep
<1> QED
  BY <1>9, <1>10, <1>11, <1>13, <1>14, <1>15, <1>16, <1>17 DEF Next, CallerStep


(* A step of worker w: what is still owed is still pending unless it was   *)
(* pending with w or with an item that the step takes away.                *)
LEMMA OthersAttend ==
  ASSUME NothingLost, NEW w \in Workers, Moves(w),
         UNCHANGED <<version, events, handlers>>, NEW h \in Handlers, NEW k \in Keys,
         InList(h)', Owed(h, k),
         \A item \in dirty \cup delayed : item.key = k /\ For(item, h, handlers) =>
           item \in dirty' \cup delayed' \/ Pending(h, k)',
         Attends(w, h, k) => Pending(h, k)'
  PROVE  Pending(h, k)'
<1>1. InList(h)
  BY DEF InList
<1>2. Pending(h, k)
  BY <1>1 DEF NothingLost
<1>3. ASSUME NEW v \in Workers, Attends(v, h, k), v # w PROVE Attends(v, h, k)'
  BY <1>3 DEF Moves, Attends, Calls, For, Concerns
<1>4. ASSUME NEW item \in dirty \cup delayed, item.key = k, For(item, h, handlers)
      PROVE  Pending(h, k)'
  <2>1. CASE item \in dirty' \cup delayed'
    BY <1>4, <2>1 DEF Pending
  <2> QED
    BY <1>4, <2>1
<1> QED
  BY <1>2, <1>3, <1>4 DEF Pending

(* A step of worker w that lets h see nothing.                             *)
LEMMA OthersOwe ==
  ASSUME NEW w \in Workers, Moves(w),
         UNCHANGED <<version, live, handlers, generation>>, NEW h \in Handlers, NEW k \in Keys,
         seen'[h][k] = seen[h][k], Owed(h, k)', Stale(w, h, k)' => Stale(w, h, k)
  PROVE  Owed(h, k)
<1>1. ASSUME NEW v \in Workers, Stale(v, h, k)', v # w PROVE Stale(v, h, k)
  BY <1>1 DEF Moves, Stale, Loaded, Calls, For, Concerns
<1>2. Started(h)' => Started(h)
  BY DEF Started
<1> QED
  BY <1>1, <1>2 DEF Owed

LEMMA GetKeeps ==
  ASSUME TypeOK, NothingLost, NEW w \in Workers, Get(w)
  PROVE  NothingLost'
<1>1. /\ Moves(w) /\ worker'[w].pc = "load" /\ worker'[w].item = queue[1]
      /\ Head(queue) = queue[1] /\ worker[w].pc = "idle"
  BY GetStep DEF Get
<1>2. UNCHANGED <<version, live, events, handlers, generation, seen, delayed>> /\ dirty' = dirty \ {queue[1]}
  BY <1>1 DEF Get, informerVars, handlerVars, startVars
<1> SUFFICES ASSUME NEW h \in Handlers, NEW k \in Keys, InList(h)', Owed(h, k)'
             PROVE  Pending(h, k)'
  BY DEF NothingLost
<1>3. ~Stale(w, h, k)' /\ ~Attends(w, h, k)
  BY <1>1 DEF Stale, Loaded, Attends, Calls
<1>4. Owed(h, k)
  BY <1>1, <1>2, <1>3, OthersOwe
<1>5. ASSUME NEW item \in dirty \cup delayed, item.key = k, For(item, h, handlers), item \notin dirty' \cup delayed'
      PROVE  Attends(w, h, k)'
  <2>1. item = queue[1]
    BY <1>2, <1>5
  <2>2. Calls(w, h, k)'
    BY <1>1, <1>2, <1>5, <2>1 DEF Calls, For, Concerns
  <2> QED
    BY <1>1, <2>2 DEF Attends
<1> QED
  BY <1>1, <1>2, <1>3, <1>4, <1>5, OthersAttend DEF Pending

LEMMA LoadObjectKeeps ==
  ASSUME TypeOK, NothingLost, NEW w \in Workers, LoadObject(w)
  PROVE  NothingLost'
<1>1. /\ Moves(w) /\ worker'[w].pc = "list" /\ worker'[w].item = worker[w].item
      /\ worker'[w].version = version[worker[w].item.key]
      /\ worker'[w].errs = worker[w].errs /\ worker[w].pc = "load"
  BY LoadObjectStep DEF LoadObject
<1>2. UNCHANGED <<version, live, events, handlers, generation, seen, delayed, dirty>>
  BY DEF LoadObject, informerVars, handlerVars, startVars, queueVars
<1> SUFFICES ASSUME NEW h \in Handlers, NEW k \in Keys, InList(h)', Owed(h, k)'
             PROVE  Pending(h, k)'
  BY DEF NothingLost
<1>3. ~Stale(w, h, k)'
  BY <1>1, <1>2 DEF Stale, Calls
<1>4. Owed(h, k)
  BY <1>1, <1>2, <1>3, OthersOwe
<1>5. Attends(w, h, k) => Attends(w, h, k)'
  BY <1>1, <1>2 DEF Attends, Calls, For, Concerns
<1> QED
  BY <1>1, <1>2, <1>4, <1>5, OthersAttend DEF Pending

LEMMA LoadHandlersKeeps ==
  ASSUME TypeOK, NothingLost, NEW w \in Workers, LoadHandlers(w)
  PROVE  NothingLost'
<1>1. /\ Moves(w) /\ worker'[w].pc = "call" /\ worker'[w].item = worker[w].item
      /\ worker'[w].version = worker[w].version /\ worker'[w].todo = handlers
      /\ worker'[w].errs = worker[w].errs /\ worker[w].pc = "list"
  BY LoadHandlersStep DEF LoadHandlers
<1>2. UNCHANGED <<version, live, events, handlers, generation, seen, delayed, dirty>>
  BY DEF LoadHandlers, informerVars, handlerVars, startVars, queueVars
<1> SUFFICES ASSUME NEW h \in Handlers, NEW k \in Keys, InList(h)', Owed(h, k)'
             PROVE  Pending(h, k)'
  BY DEF NothingLost
<1>3. Calls(w, h, k)' <=> Calls(w, h, k)
  BY <1>1, <1>2 DEF Calls, For, Concerns
<1>4. Stale(w, h, k)' => Stale(w, h, k)
  BY <1>1, <1>2, <1>3 DEF Stale, Loaded
<1>5. Owed(h, k)
  BY <1>1, <1>2, <1>4, OthersOwe
<1>6. Attends(w, h, k) => Attends(w, h, k)'
  BY <1>1, <1>2, <1>3 DEF Attends
<1> QED
  BY <1>1, <1>2, <1>5, <1>6, OthersAttend DEF Pending

LEMMA FinishKeeps ==
  ASSUME TypeOK, NothingLost, NEW w \in Workers, Finish(w), ~down
  PROVE  NothingLost'
<1>1. Moves(w) /\ worker'[w].pc = "idle" /\ worker[w].pc = "call"
  BY FinishStep, IdleJob DEF Finish
<1>2. UNCHANGED <<version, live, events, handlers, generation, seen, dirty>> /\ delayed \subseteq delayed'
  BY DEF Finish, informerVars, handlerVars, startVars
<1> SUFFICES ASSUME NEW h \in Handlers, NEW k \in Keys, InList(h)', Owed(h, k)'
             PROVE  Pending(h, k)'
  BY DEF NothingLost
<1>3. ~Stale(w, h, k)'
  BY <1>1 DEF Stale, Loaded
<1>4. Owed(h, k)
  BY <1>1, <1>2, <1>3, OthersOwe
<1>5. ASSUME Attends(w, h, k) PROVE Pending(h, k)'
  <2>1. ~Calls(w, h, k)
    BY <1>1 DEF Calls, For, Finish
  <2>2. worker[w].item.key = k /\ Retried(worker[w].errs)
    BY <1>5, <2>1 DEF Attends
  <2>3. Plain(k) \in delayed' /\ Plain(k).key = k /\ Plain(k).generation = -1
    BY <2>2, Singletons DEF Finish
  <2>4. For(Plain(k), h, handlers')
    BY <2>3 DEF For, Concerns, InList
  <2> QED
    BY <2>3, <2>4 DEF Pending
<1> QED
  BY <1>1, <1>2, <1>4, <1>5, OthersAttend


(* The errors of a worker stay such that it retries.                       *)
LEMMA ErrorsStayRetried ==
  ASSUME TypeOK, NEW w \in Workers, NEW outcome \in Outcome
  PROVE  /\ outcome \in {"error", "panic"} => Retried(Errors(w, outcome))
         /\ Retried(worker[w].errs) => Retried(Errors(w, outcome))
<1>1. worker[w].errs \in Seq({"forget", "error"})
  BY DEF TypeOK, Job
<1>2. CASE outcome = "ok"
  BY <1>2 DEF Errors
<1>3. CASE outcome = "panic"
  BY <1>1, <1>3, RetriedErrors DEF Errors
<1>4. CASE outcome = "error"
  BY <1>1, <1>4, RetriedErrors DEF Errors
<1>5. CASE outcome = "forget"
  BY <1>1, <1>5, RetriedErrors DEF Errors
<1> QED
  BY <1>2, <1>3, <1>4, <1>5 DEF Outcome

LEMMA CallKeeps ==
  ASSUME TypeOK, VersionInv, NothingLost, NEW w \in Workers, NEW n \in DOMAIN worker[w].todo,
         NEW outcome \in Outcome, CallHandler(w, n, outcome)
  PROVE  NothingLost'
<1>1. /\ Moves(w) /\ worker[w].pc = "call" /\ worker'[w].pc = "call"
      /\ worker'[w].item = worker[w].item /\ worker'[w].version = worker[w].version
      /\ worker'[w].todo = Left(w, n, outcome) /\ worker'[w].errs = Errors(w, outcome)
  BY CallStep
<1>2. UNCHANGED <<version, live, events, handlers, generation, delayed, dirty>>
  BY DEF CallHandler, informerVars, handlerVars, startVars, queueVars
<1>3. /\ Concerns(worker[w].item, worker[w].todo[n])
      /\ \A m \in 1..n - 1 : ~Concerns(worker[w].item, worker[w].todo[m])
  BY DEF CallHandler
<1>4. worker[w].todo \in Seq(HandlerDef)
  BY DEF TypeOK, Job
<1> SUFFICES ASSUME NEW h \in Handlers, NEW k \in Keys, InList(h)', Owed(h, k)'
             PROVE  Pending(h, k)'
  BY DEF NothingLost
<1>5. Calls(w, h, k)' => Calls(w, h, k)
  <2>1. SUFFICES ASSUME Calls(w, h, k)' PROVE Calls(w, h, k)
    OBVIOUS
  <2>2. worker[w].item.key = k /\ For(worker[w].item, h, Left(w, n, outcome))
    BY <1>1, <2>1 DEF Calls, For, Concerns
  <2>3. PICK m \in DOMAIN Left(w, n, outcome) :
          Left(w, n, outcome)[m].handler = h /\ Concerns(worker[w].item, Left(w, n, outcome)[m])
    BY <2>2 DEF For
  <2>4. n + m \in DOMAIN worker[w].todo /\ Left(w, n, outcome)[m] = worker[w].todo[n + m]
    BY LeftOfList
  <2>5. For(worker[w].item, h, worker[w].todo)
    BY <2>3, <2>4 DEF For
  <2> QED
    BY <1>1, <2>2, <2>5 DEF Calls
<1>6. Retried(worker[w].errs) => Retried(worker'[w].errs)
  BY <1>1, ErrorsStayRetried
<1>7. ASSUME worker[w].item.key = k, outcome \in {"error", "panic"} PROVE Attends(w, h, k)'
  BY <1>1, <1>7, ErrorsStayRetried DEF Attends
<1>8. ASSUME Owed(h, k),
             Attends(w, h, k) /\ ~Retried(worker[w].errs) => Attends(w, h, k)'
      PROVE  Pending(h, k)'
  <2>1. Attends(w, h, k) => worker[w].item.key = k
    BY DEF Attends, Calls
  <2>2. Attends(w, h, k) => Attends(w, h, k)'
    BY <1>1, <1>6, <1>8, <2>1 DEF Attends
  <2> QED
    BY <1>1, <1>2, <1>8, <2>2, OthersAttend DEF Pending
<1>9. Stale(w, h, k)' => Stale(w, h, k)
  BY <1>1, <1>2, <1>5 DEF Stale, Loaded
<1>10. CASE worker[w].item.key # k
  <2>1. Owed(h, k)
    BY <1>1, <1>2, <1>9, <1>10, SeenByCall, OthersOwe
  <2>2. ~Attends(w, h, k)
    BY <1>10 DEF Attends, Calls
  <2> QED
    BY <1>8, <2>1, <2>2
<1>11. CASE worker[w].item.key = k /\ worker[w].todo[n].handler # h
  <2>1. Owed(h, k)
    BY <1>1, <1>2, <1>9, <1>11, SeenByCall, OthersOwe, SMT
  <2>2. ASSUME Attends(w, h, k), ~Retried(worker[w].errs) PROVE Attends(w, h, k)'
    <3>1. /\ For(worker[w].item, h, worker[w].todo)
          /\ worker[w].version = version[k]
      BY <1>1, <2>2 DEF Attends, Calls
    <3>2. PICK m \in DOMAIN worker[w].todo :
            worker[w].todo[m].handler = h /\ Concerns(worker[w].item, worker[w].todo[m])
      BY <3>1 DEF For
    <3>3. m # n /\ m \notin 1..n - 1 /\ m \in 1..Len(worker[w].todo) /\ n \in 1..Len(worker[w].todo)
      BY <1>3, <1>4, <1>11, <3>2, SMT
    <3>4. m > n
      BY <1>4, <3>3, SMT
    <3>5. CASE outcome = "panic"
      BY <1>7, <1>11, <3>5
    <3>6. CASE outcome # "panic"
      <4>1. m - n \in DOMAIN Left(w, n, outcome) /\ Left(w, n, outcome)[m - n] = worker[w].todo[m]
        BY <3>4, <3>6, LeftOfList
      <4>2. For(worker[w].item, h, Left(w, n, outcome))
        BY <3>2, <4>1 DEF For
      <4>3. Calls(w, h, k)'
        BY <1>1, <1>11, <4>2 DEF Calls, For, Concerns
      <4> QED
        BY <1>1, <1>2, <3>1, <4>3 DEF Attends
    <3> QED
      BY <3>5, <3>6
  <2> QED
    BY <1>8, <2>1, <2>2
<1>12. CASE worker[w].item.key = k /\ worker[w].todo[n].handler = h
  <2>1. CASE outcome \in {"error", "panic"}
    BY <1>7, <1>12, <2>1 DEF Pending
  <2>2. CASE outcome \in {"ok", "forget"}
    <3>1. seen'[h][k] = IF seen[h][k] < worker[w].version THEN worker[w].version ELSE seen[h][k]
      BY <1>12, <2>2, SeenByCall, SMT
    <3>2. seen[h][k] <= version[k] /\ worker[w].version <= version[k]
      BY <1>1, <1>12 DEF VersionInv
    <3>3. seen'[h][k] # version[k]
      BY <1>2 DEF Owed
    <3>4. seen[h][k] # version[k] /\ worker[w].version # version[k]
      BY <3>1, <3>2, <3>3, NaturalVersions, SMT
    <3>5. Stale(w, h, k)
      BY <1>1, <1>3, <1>12, <3>4 DEF Stale, Loaded, Calls, For
    <3>6. Owed(h, k)
      BY <3>4, <3>5 DEF Owed
    <3>7. Attends(w, h, k) => Retried(worker[w].errs)
      BY <1>1, <3>4 DEF Attends
    <3> QED
      BY <1>8, <3>6, <3>7
  <2> QED
    BY <2>1, <2>2 DEF Outcome
<1> QED
  BY <1>10, <1>11, <1>12

(* While the informer is new, or nobody has synced, nothing is owed.       *)
LEMMA NothingOwedEarly ==
  ASSUME Types, GenerationInv, StartInv, ~synced,
         UNCHANGED <<seen, worker, handlers, generation>>, NEW h \in Handlers, NEW k \in Keys
  PROVE  ~Owed(h, k)'
<1>1. ~running
  BY DEF StartInv, Types, TypeOK
<1>2. generation = 0
  BY <1>1, SMT DEF GenerationInv, Types, TypeOK
<1>3. seen'[h][k] = 0 /\ \A w \in Workers : worker'[w].pc = "idle"
  BY <1>1 DEF StartInv
<1>4. ~Started(h)'
  <2>1. \A n \in DOMAIN handlers : handlers[n].generation \in Nat
    BY SMT DEF Types, TypeOK, HandlerDef
  <2> QED
    BY <1>2, <2>1, SMT DEF Started
<1> QED
  BY <1>3, <1>4, SMT DEF Owed, Stale, Loaded

(* A step of others that takes nothing from the queue.                     *)
LEMMA QueueKeeps ==
  ASSUME NothingLost, UNCHANGED <<worker, handlers>>,
         NEW h \in Handlers, NEW k \in Keys, InList(h)', Owed(h, k),
         version'[k] = version[k], events[k] > 0 => Pending(h, k)',
         dirty \cup delayed \subseteq dirty' \cup delayed'
  PROVE  Pending(h, k)'
<1>1. Pending(h, k)
  BY DEF NothingLost, InList
<1>2. \A w \in Workers : Attends(w, h, k) => Attends(w, h, k)'
  BY DEF Attends, Calls, For, Concerns
<1>3. ASSUME NEW item \in dirty \cup delayed, item.key = k, For(item, h, handlers)
      PROVE  Pending(h, k)'
  BY <1>3 DEF Pending
<1> QED
  BY <1>1, <1>2, <1>3 DEF Pending

LEMMA SameOwed ==
  ASSUME UNCHANGED <<worker, handlers, seen>>, NEW h \in Handlers, NEW k \in Keys,
         version'[k] = version[k], k \in live' <=> k \in live, Owed(h, k)',
         Started(h)' => Started(h)
  PROVE  Owed(h, k)
<1>1. \A w \in Workers : Stale(w, h, k)' => Stale(w, h, k)
  BY DEF Stale, Loaded, Calls, For, Concerns
<1> QED
  BY <1>1 DEF Owed

LEMMA PlainIsFor ==
  ASSUME NEW h \in Handlers, NEW k \in Keys, InList(h)', Plain(k) \in dirty'
  PROVE  Pending(h, k)'
<1>1. Plain(k).key = k /\ Plain(k).generation = -1
  BY Singletons
<1>2. For(Plain(k), h, handlers')
  BY <1>1 DEF For, Concerns, InList
<1> QED
  BY <1>1, <1>2 DEF Pending

LEMMA ChangeKeeps ==
  ASSUME Types, GenerationInv, StartInv, NothingLost,
         NEW j \in Keys, NEW exists \in BOOLEAN, Change(j, exists)
  PROVE  NothingLost'
<1> SUFFICES ASSUME NEW h \in Handlers, NEW k \in Keys, InList(h)', Owed(h, k)'
             PROVE  Pending(h, k)'
  BY DEF NothingLost
<1>1. UNCHANGED <<worker, handlers, seen, generation, dirty, delayed>>
  BY DEF Change, workVars, handlerVars, startVars, queueVars
<1>2. informer \in {"new", "running"}
  BY DEF Change, Types, TypeOK
<1>3. CASE informer = "new"
  <2>1. ~synced
    BY <1>3 DEF StartInv
  <2> QED
    BY <1>1, <2>1, NothingOwedEarly
<1>4. CASE informer = "running"
  <2>1. /\ version' = [version EXCEPT ![j] = version[j] + 1]
        /\ events' = [events EXCEPT ![j] = events[j] + 1]
        /\ live' = IF exists THEN live \cup {j} ELSE live \ {j}
    BY <1>4 DEF Change
  <2>2. CASE k = j
    <3>1. events'[k] = events[k] + 1 /\ events[k] \in Nat
      BY <2>1, <2>2, NaturalVersions DEF Types, TypeOK
    <3> QED
      BY <3>1, SMT DEF Pending
  <2>3. CASE k # j
    <3>1. events'[k] = events[k] /\ version'[k] = version[k] /\ (k \in live' <=> k \in live)
      BY <2>1, <2>3 DEF Types, TypeOK
    <3>2. Started(h)' => Started(h)
      BY <1>1 DEF Started
    <3>3. Owed(h, k)
      BY <1>1, <3>1, <3>2, SameOwed
    <3>4. events[k] > 0 => Pending(h, k)'
      BY <3>1 DEF Pending
    <3> QED
      BY <1>1, <3>1, <3>3, <3>4, QueueKeeps
  <2> QED
    BY <2>2, <2>3
<1> QED
  BY <1>2, <1>3, <1>4

LEMMA AddsKeep ==
  ASSUME Types, NothingLost, NEW items, Adds(items), UNCHANGED generation,
         dirty \cup delayed \subseteq dirty' \cup delayed',
         \A k \in Keys : events'[k] = events[k] \/ Plain(k) \in dirty'
  PROVE  NothingLost'
<1> SUFFICES ASSUME NEW h \in Handlers, NEW k \in Keys, InList(h)', Owed(h, k)'
             PROVE  Pending(h, k)'
  BY DEF NothingLost
<1>1. UNCHANGED <<worker, handlers, seen, version, live>>
  BY DEF Adds, handlerVars
<1>2. Started(h)' => Started(h)
  BY <1>1 DEF Started
<1>3. Owed(h, k)
  BY <1>1, <1>2, SameOwed
<1>4. events[k] > 0 => Pending(h, k)'
  BY PlainIsFor DEF Pending
<1> QED
  BY <1>1, <1>3, <1>4, QueueKeeps

LEMMA StartKeeps ==
  ASSUME Types, GenerationInv, StartInv, NothingLost, ~down, StartEnds
  PROVE  NothingLost'
<1> DEFINE items == {[key |-> k, generation |-> generation] : k \in StoreKeys}
<1>1. Adds(items)
  BY AddingStep DEF Types
<1>2. dirty \subseteq dirty' /\ items \subseteq dirty' /\ delayed' = delayed
  BY <1>1, AddedItems DEF Adds, Types, StartEnds
<1>3. UNCHANGED <<worker, handlers, seen, version, live, events>>
  BY <1>1 DEF Adds, handlerVars, StartEnds, informerVars
<1>4. caller = "start" /\ generation' = generation + 1 /\ generation \in Nat
  BY SMT DEF StartEnds, Types, TypeOK
<1> SUFFICES ASSUME NEW h \in Handlers, NEW k \in Keys, InList(h)', Owed(h, k)'
             PROVE  Pending(h, k)'
  BY DEF NothingLost
<1>5. CASE Owed(h, k)
  BY <1>2, <1>3, <1>5, QueueKeeps DEF Pending
<1>6. CASE ~Owed(h, k)
  <2>1. k \in live /\ Started(h)' /\ ~Started(h)
    <3>1. \A w \in Workers : Stale(w, h, k)' => Stale(w, h, k)
      BY <1>3 DEF Stale, Loaded, Calls, For, Concerns
    <3> QED
      BY <1>3, <1>6, <3>1 DEF Owed
  <2>2. CASE running
    <3>1. PICK n \in DOMAIN handlers : handlers[n].handler = h /\ handlers[n].generation < generation + 1
      BY <1>3, <1>4, <2>1 DEF Started
    <3>2. ~(handlers[n].generation < generation) /\ handlers[n].generation \in Nat
      BY <2>1, <3>1, SMT DEF Started, Types, TypeOK, HandlerDef
    <3>3. handlers[n].generation = generation
      BY <1>4, <3>1, <3>2, SMT
    <3>4. k \in StoreKeys
      BY <2>1, <2>2, <3>3 DEF StoreKeys
    <3> DEFINE item == [key |-> k, generation |-> generation]
    <3>5. item \in dirty' /\ item.key = k /\ item.generation = generation
      BY <1>2, <3>4
    <3> HIDE DEF item
    <3>6. For(item, h, handlers')
      BY <1>3, <3>1, <3>3, <3>5 DEF For, Concerns
    <3> QED
      BY <3>5, <3>6 DEF Pending
  <2>3. CASE ~running
    <3>1. informer # "new"
      BY <1>4 DEF StartInv, Types, TypeOK
    <3>2. events[k] > 0 \/ Plain(k) \in dirty
      BY <2>1, <2>3, <3>1 DEF StartInv
    <3> QED
      BY <1>2, <1>3, <3>2, PlainIsFor DEF Pending
  <2> QED
    BY <2>2, <2>3 DEF Types, TypeOK
<1> QED
  BY <1>5, <1>6


(* The list grows by a handler that nobody was to call.                    *)
LEMMA AddHandlerKeeps ==
  ASSUME Types, QueueInv, GenerationInv, OfferedInv, StaleInv, NothingLost, NEW g \in Handlers, AddHandler(g)
  PROVE  NothingLost'
<1> DEFINE d == [handler |-> g, generation |-> generation]
<1>1. handlers' = Append(handlers, d) /\ g \in offered /\ handlers \in Seq(HandlerDef)
  BY DEF AddHandler, Types, TypeOK
<1>2. UNCHANGED <<version, live, events, dirty, delayed, worker, seen, generation>>
  BY DEF AddHandler, informerVars, queueVars, startVars, workVars
<1>3. d.handler = g /\ d.generation = generation
  OBVIOUS
<1>4. d \in HandlerDef
  BY DEF HandlerDef, Types, TypeOK
<1> HIDE DEF d
<1>5. /\ \A n \in DOMAIN handlers : n \in DOMAIN handlers' /\ handlers'[n] = handlers[n]
      /\ \A n \in DOMAIN handlers' : (n \in DOMAIN handlers /\ handlers'[n] = handlers[n]) \/ handlers'[n] = d
  BY <1>1, <1>4, SMT
<1> SUFFICES ASSUME NEW h \in Handlers, NEW k \in Keys, InList(h)', Owed(h, k)'
             PROVE  Pending(h, k)'
  BY DEF NothingLost
<1>6. CASE h # g
  <2>1. \A item : For(item, h, handlers') <=> For(item, h, handlers)
    BY <1>3, <1>5, <1>6 DEF For
  <2>2. \A w \in Workers : Calls(w, h, k)' <=> Calls(w, h, k)
    BY <1>2, <2>1 DEF Calls
  <2>3. (Started(h)' <=> Started(h)) /\ InList(h)
    BY <1>2, <1>3, <1>5, <1>6 DEF Started, InList
  <2>4. Owed(h, k)
    BY <1>2, <2>2, <2>3 DEF Owed, Stale, Loaded
  <2>5. Pending(h, k)
    BY <2>3, <2>4 DEF NothingLost
  <2>6. \A w \in Workers : Attends(w, h, k) => Attends(w, h, k)'
    BY <1>2, <2>2 DEF Attends
  <2> QED
    BY <1>2, <2>1, <2>5, <2>6 DEF Pending
<1>7. CASE h = g
  <2>1. \A n \in DOMAIN handlers : handlers[n].handler # h
    BY <1>1, <1>7 DEF OfferedInv, Types
  <2>2. ~Started(h)'
    BY <1>2, <1>3, <1>5, <2>1, NaturalVersions, SMT DEF Started, Types
  <2>3. seen[h][k] = 0
    BY <1>1, <1>7 DEF OfferedInv
  <2>4. PICK w \in Workers : Stale(w, h, k)'
    BY <1>2, <2>2, <2>3, SMT DEF Owed
  <2>5. /\ Loaded(w) /\ worker[w].version # version[k] /\ worker[w].item.key = k
        /\ For(worker[w].item, h, IF worker[w].pc = "call" THEN worker[w].todo ELSE handlers')
    BY <1>2, <2>4 DEF Stale, Loaded, Calls
  <2>6. worker[w].pc # "call"
    BY <1>1, <1>7, <2>5 DEF For, OfferedInv
  <2>7. Concerns(worker[w].item, d)
    BY <1>5, <2>1, <2>5, <2>6 DEF For
  <2>8. worker[w].item.generation = -1 \/ worker[w].item.generation \in 1..generation - 1
    BY <2>5 DEF QueueInv, Loaded, GenerationInv, Present
  <2>9. worker[w].item.generation = -1
    BY <1>3, <2>7, <2>8, NaturalVersions, SMT DEF Concerns, Types
  <2>10. worker[w].item = Plain(k)
    BY <2>5, <2>9 DEF Plain, Types, TypeOK, Job, Item
  <2>11. events[k] > 0 \/ Plain(k) \in dirty
    BY <2>5, <2>10 DEF StaleInv
  <2> QED
    BY <1>2, <2>11, PlainIsFor DEF Pending
<1> QED
  BY <1>6, <1>7

LEMMA PendingStep ==
  ASSUME ControllerInv, [Next]_vars
  PROVE  PendingInv'
<1>1. SUFFICES ASSUME ~down', cancelled' = {} PROVE StaleInv' /\ NothingLost'
  BY DEF PendingInv
<1>2. /\ TypeOK /\ Types /\ QueueInv /\ GenerationInv /\ StartInv /\ OfferedInv /\ VersionInv
  BY DEF ControllerInv, Types
<1>3. ~down /\ cancelled = {}
  <2>1. ASSUME NEW items, Adds(items) PROVE down' = down /\ cancelled' = cancelled
    BY <2>1 DEF Adds, handlerVars
  <2>2. ASSUME NEW w \in Workers, WorkerStep(w) PROVE down' = down /\ cancelled' = cancelled
    BY <2>2 DEF WorkerStep, Get, LoadObject, LoadHandlers, CallHandler, Finish, queueVars, handlerVars
  <2>3. CASE ~ShutDown /\ ~\E d \in added : CancelHandler(d)
    <3>1. CASE \/ \E h \in Handlers : AddHandler(h)
               \/ \E who \in {"sync", "start"} : Begin(who)
               \/ SyncFails \/ SyncEnds
               \/ \E k \in Keys, exists \in BOOLEAN : Change(k, exists)
               \/ UNCHANGED vars
      <4>1. down' = down /\ cancelled' = cancelled
        BY <3>1 DEF AddHandler, Begin, SyncFails, SyncEnds, Change, queueVars, handlerVars, vars
      <4> QED
        BY <1>1, <4>1
    <3> QED
      BY <1>1, <1>2, <2>1, <2>2, <2>3, <3>1, AddingStep, QuietStep
  <2>4. ~ShutDown /\ \A d \in added : ~CancelHandler(d)
    BY <1>1 DEF ShutDown, CancelHandler
  <2> QED
    BY <2>3, <2>4
<1>4. StaleInv /\ NothingLost
  BY <1>3 DEF ControllerInv, PendingInv
<1>5. StaleInv'
  BY <1>1, <1>2, <1>3, <1>4, StaleStep
<1>6. ASSUME NEW w \in Workers, WorkerStep(w) PROVE NothingLost'
  <2>1. CASE Get(w)
    BY <1>2, <1>4, <2>1, GetKeeps
  <2>2. CASE LoadObject(w)
    BY <1>2, <1>4, <2>2, LoadObjectKeeps
  <2>3. CASE LoadHandlers(w)
    BY <1>2, <1>4, <2>3, LoadHandlersKeeps
  <2>4. CASE Finish(w)
    BY <1>2, <1>3, <1>4, <2>4, FinishKeeps
  <2>5. CASE \E n \in DOMAIN worker[w].todo, outcome \in Outcome : CallHandler(w, n, outcome)
    BY <1>2, <1>4, <2>5, CallKeeps
  <2> QED
    BY <1>6, <2>1, <2>2, <2>3, <2>4, <2>5 DEF WorkerStep
<1>7. ASSUME NEW k \in Keys, QueueObject(k) \/ Enqueue(k) PROVE NothingLost'
  <2>1. Adds({Plain(k)})
    BY <1>2, <1>7, AddingStep
  <2>2. dirty \subseteq dirty' /\ Plain(k) \in dirty'
    BY <1>2, <1>3, <2>1, AddedItems DEF Adds
  <2>3. UNCHANGED <<generation, delayed>>
    BY <1>7 DEF QueueObject, Enqueue, startVars
  <2>4. \A j \in Keys : j # k => events'[j] = events[j]
    BY <1>2, <1>7 DEF QueueObject, Enqueue, informerVars, TypeOK
  <2> QED
    BY <1>2, <1>4, <2>1, <2>2, <2>3, <2>4, AddsKeep
<1>8. ASSUME NEW item \in Item, Retry(item) PROVE NothingLost'
  <2>1. Adds({item})
    BY <1>2, <1>8, AddingStep
  <2>2. dirty \subseteq dirty' /\ item \in dirty'
    BY <1>2, <1>3, <2>1, AddedItems DEF Adds
  <2>3. UNCHANGED <<generation, events>> /\ delayed' = delayed \ {item}
    BY <1>8 DEF Retry, startVars, informerVars
  <2> QED
    BY <1>2, <1>4, <2>1, <2>2, <2>3, AddsKeep
<1>9. CASE StartEnds
  BY <1>2, <1>3, <1>4, <1>5, <1>9, StartKeeps
<1>10. ASSUME NEW k \in Keys, NEW exists \in BOOLEAN, Change(k, exists) PROVE NothingLost'
  BY <1>2, <1>4, <1>10, ChangeKeeps
<1>11. ASSUME NEW h \in Handlers, AddHandler(h) PROVE NothingLost'
  BY <1>2, <1>4, <1>11, AddHandlerKeeps
<1>12. ASSUME UNCHANGED <<worker, handlers, seen, version, live, events, generation, dirty, delayed>>
       PROVE  NothingLost'
  <2> SUFFICES ASSUME NEW h \in Handlers, NEW k \in Keys, InList(h)', Owed(h, k)'
               PROVE  Pending(h, k)'
    BY DEF NothingLost
  <2>1. Owed(h, k)
    BY <1>12, SameOwed DEF Started
  <2> QED
    BY <1>4, <1>12, <2>1, QueueKeeps DEF Pending
<1>13. ASSUME NEW who \in {"sync", "start"}, Begin(who) PROVE NothingLost'
  <2>1. UNCHANGED <<worker, handlers, seen, version, live, generation, dirty, delayed>>
    BY <1>13 DEF Begin, workVars, handlerVars, queueVars
  <2>2. CASE synced
    BY <1>12, <1>13, <2>1, <2>2 DEF Begin
  <2>3. CASE ~synced
    BY <1>2, <2>1, <2>3, NothingOwedEarly DEF NothingLost
  <2> QED
    BY <2>2, <2>3
<1>14. CASE SyncFails \/ SyncEnds \/ UNCHANGED vars
  BY <1>5, <1>12, <1>14 DEF SyncFails, SyncEnds, vars, informerVars, queueVars, handlerVars, startVars, workVars
<1>15. ~ShutDown /\ \A d \in added : ~CancelHandler(d)
  BY <1>1 DEF ShutDown, CancelHandler
<1>16. CASE CallerStep
  BY <1>5, <1>9, <1>11, <1>13, <1>14, <1>15, <1>16 DEF CallerStep
<1> QED
  BY <1>5, <1>6, <1>7, <1>8, <1>10, <1>14, <1>16 DEF Next

-----------------------------------------------------------------------------
(* The theorems.                                                           *)

LEMMA ControllerInit == Init => ControllerInv
<1> SUFFICES ASSUME Init PROVE ControllerInv
  OBVIOUS
<1>1. \A w \in Workers : worker[w] = Idle
  BY DEF Init
<1>2. \A w \in Workers : worker[w].pc = "idle" /\ worker[w].todo = <<>>
  BY <1>1, IdleJob
<1>3. TypeOK
  <2>1. worker \in [Workers -> Job]
    BY IdleJob DEF Init
  <2>2. /\ 0 \in 0..MaxVersion /\ 0 \in 0..MaxVersion + 1 /\ 0 \in 0..MaxStarts /\ 0 \in 0..MaxFailures
        /\ <<>> \in Seq(Item) /\ <<>> \in Seq(HandlerDef)
    BY ControllerAssumption, SMT
  <2> QED
    BY <2>1, <2>2 DEF Init, TypeOK
<1>4. Types
  BY <1>3, SMT DEF Init, Types
<1>5. QueueInv
  BY <1>2, SMT DEF Init, QueueInv
<1>6. GenerationInv
  BY SMT DEF Init, GenerationInv, Present
<1>7. StartInv
  BY <1>2 DEF Init, StartInv
<1>8. OfferedInv
  BY <1>2, SMT DEF Init, OfferedInv
<1>9. VersionInv
  BY <1>2, SMT DEF Init, VersionInv
<1>10. OrderInv
  BY <1>2 DEF OrderInv, Loaded
<1>11. PendingInv
  BY <1>2, SMT DEF Init, PendingInv, StaleInv, NothingLost, InList, Loaded
<1> QED
  BY <1>4, <1>5, <1>6, <1>7, <1>8, <1>9, <1>10, <1>11 DEF ControllerInv

(* What the informer, the queue, the workers, Sync, Start and AddHandler   *)
(* keep of each other's state, whatever they do in whatever order.         *)
THEOREM ControllerInvariant == Spec => []ControllerInv
<1>1. ASSUME ControllerInv, [Next]_vars PROVE ControllerInv'
  <2>1. Types /\ QueueInv /\ GenerationInv /\ StartInv /\ OfferedInv /\ VersionInv /\ OrderInv /\ TypeOK
    BY <1>1 DEF ControllerInv, Types
  <2>2. Types' /\ QueueInv' /\ GenerationInv' /\ StartInv'
    BY <1>1, <2>1, TypesStep, QueueStep, GenerationStep, StartStep
  <2>3. OfferedInv' /\ VersionInv' /\ OrderInv'
    BY <1>1, <2>1, OfferedStep, VersionStep, OrderStep
  <2> QED
    BY <1>1, <2>2, <2>3, PendingStep DEF ControllerInv
<1> QED
  BY <1>1, ControllerInit, PTL DEF Spec

(* Every variable keeps its type and its bound.                            *)
THEOREM ControllerTypes == Spec => []TypeOK
<1>1. ControllerInv => TypeOK
  BY DEF ControllerInv, Types
<1> QED
  BY <1>1, ControllerInvariant, PTL

(* A started handler that is behind will be called: queueObject, the queue,*)
(* a retry or a worker has it on its way (processNextWorkItem, syncHandler,*)
(* Start), for any number of keys, handlers and workers.                   *)
THEOREM NoChangeIsLost == Spec => []ChangeIsPending
<1>1. ASSUME ControllerInv PROVE ChangeIsPending
  <2> SUFFICES ASSUME NEW h \in Handlers, NEW k \in Keys, Started(h), Behind(h, k), ~down, cancelled = {}
               PROVE  Pending(h, k)
    BY DEF ChangeIsPending, Pending
  <2>1. NothingLost
    BY <1>1 DEF ControllerInv, PendingInv
  <2>2. InList(h)
    BY DEF Started, InList
  <2>3. Owed(h, k)
    BY DEF Behind, Owed
  <2> QED
    BY <2>1, <2>2, <2>3 DEF NothingLost
<1> QED
  BY <1>1, ControllerInvariant, PTL

(* In a controller that was started once no handler is called with an      *)
(* older version of an object after a newer one (syncHandler).             *)
THEOREM HandlersCalledInOrder == Spec => CallsInOrder
<1>1. ASSUME ControllerInv
      PROVE  \A w \in Workers : \A n \in DOMAIN worker[w].todo, outcome \in Outcome :
               CallHandler(w, n, outcome) /\ generation <= 1 =>
                 worker[w].version >= seen[worker[w].todo[n].handler][worker[w].item.key]
  <2> SUFFICES ASSUME NEW w \in Workers, NEW n \in DOMAIN worker[w].todo, NEW outcome \in Outcome,
                      CallHandler(w, n, outcome), generation <= 1
               PROVE  worker[w].version >= seen[worker[w].todo[n].handler][worker[w].item.key]
    OBVIOUS
  <2>1. TypeOK /\ OrderInv
    BY <1>1 DEF ControllerInv, Types
  <2>2. worker[w].todo[n].handler \in Handlers /\ Loaded(w)
    <3>1. worker[w].todo \in Seq(HandlerDef)
      BY <2>1 DEF TypeOK, Job
    <3>2. worker[w].todo[n] \in HandlerDef
      BY <3>1, SMT
    <3> QED
      BY <3>2 DEF HandlerDef, CallHandler, Loaded
  <2>3. seen[worker[w].todo[n].handler][worker[w].item.key] <= worker[w].version
    BY <2>1, <2>2 DEF OrderInv
  <2>4. worker[w].version \in Nat /\ seen[worker[w].todo[n].handler][worker[w].item.key] \in Nat
    BY <2>1, <2>2, NaturalVersions
  <2> QED
    BY <2>3, <2>4
<1>2. ControllerInv =>
        [\A w \in Workers : \A n \in DOMAIN worker[w].todo, outcome \in Outcome :
           CallHandler(w, n, outcome) /\ generation <= 1 =>
             worker[w].version >= seen[worker[w].todo[n].handler][worker[w].item.key]]_vars
  BY <1>1
<1> QED
  BY <1>2, ControllerInvariant, PTL DEF CallsInOrder
=============================================================================
