-------------------------- MODULE GenericController --------------------------
(***************************************************************************)
(* controller/generic_controller.go: an informer's store feeds a work queue *)
(* whose workers call every registered handler with the object of a key.    *)
(* Handlers may be added after the controller was started; Start then       *)
(* queues every key once more, for the handlers of the new generation only. *)
(*                                                                          *)
(* The state of an object is its version; creating, changing and deleting   *)
(* it each make a new one.                                                  *)
(***************************************************************************)
EXTENDS Integers, Sequences, FiniteSets, Functions

CONSTANTS
    Keys,        \* keys of objects
    Handlers,    \* handlers that callers of AddHandler may register, once each
    Workers,     \* the threadiness of the controller
    MaxVersion,  \* bound on the versions of an object
    MaxStarts,   \* bound on calls of Start, and on attempts to sync
    MaxFailures  \* bound on the errors handlers return

ASSUME ControllerAssumption ==
    /\ Handlers # {} /\ Workers # {} /\ Keys # {}
    /\ IsFiniteSet(Keys) /\ Cardinality(Keys) \in Nat
    /\ MaxVersion \in Nat /\ MaxStarts \in Nat /\ MaxFailures \in Nat

VARIABLES
    version,     \* latest version of each object the informer knows, 0 for none yet
    live,        \* the keys in the informer's store
    informer,    \* whether the informer runs, with queueObject as its listener
    events,      \* notifications on their way to queueObject, per key
    queue,       \* workqueue.Type.queue
    dirty,       \* workqueue.Type.dirty
    processing,  \* workqueue.Type.processing
    delayed,     \* items of AddRateLimited whose delay has not passed
    down,        \* workqueue.Type.shuttingDown
    handlers,    \* genericController.handlers
    offered,     \* handlers that AddHandler is yet to be called with
    added,       \* handlers AddHandler was called with
    cancelled,   \* handlers whose context is done and whose goroutine has run
    generation, running, synced,  \* fields of genericController
    caller,      \* who holds the mutex across the wait for the informer's cache
    attempts,    \* number of calls of Sync and Start so far
    worker,      \* processNextWorkItem of each worker
    failures,    \* number of errors so far
    seen         \* latest version a handler was called with and did not fail on

informerVars == <<version, live, informer, events>>
queueVars == <<queue, dirty, processing, delayed, down>>
handlerVars == <<handlers, offered, added, cancelled>>
startVars == <<generation, running, synced, caller, attempts>>
workVars == <<worker, failures, seen>>
vars == <<informerVars, queueVars, handlerVars, startVars, workVars>>

\* What the queue holds: a plain key, or a generationKey.
Plain(k) == [key |-> k, generation |-> -1]
Item == [key : Keys, generation : -1..MaxStarts]
HandlerDef == [handler : Handlers, generation : 0..MaxStarts]
Outcome == {"ok", "forget", "error", "panic"}

\* What a worker is at: the item, the version of the object it loaded, the
\* handlers left and the errors so far.
Job == [pc : {"idle", "load", "list", "call"}, item : Item, version : 0..MaxVersion,
        todo : Seq(HandlerDef), errs : Seq({"forget", "error"})]
Idle == [pc |-> "idle", item |-> Plain(CHOOSE k \in Keys : TRUE),
         version |-> 0, todo |-> <<>>, errs |-> <<>>]

TypeOK ==
    /\ version \in [Keys -> 0..MaxVersion]
    /\ live \subseteq Keys
    /\ informer \in {"new", "running", "stopped"}
    /\ events \in [Keys -> 0..MaxVersion + 1]
    /\ queue \in Seq(Item) /\ dirty \subseteq Item /\ processing \subseteq Item
    /\ delayed \subseteq Item /\ down \in BOOLEAN
    /\ handlers \in Seq(HandlerDef) /\ offered \subseteq Handlers
    /\ added \subseteq HandlerDef /\ cancelled \subseteq added
    /\ generation \in 0..MaxStarts /\ running \in BOOLEAN /\ synced \in BOOLEAN
    /\ caller \in {"none", "sync", "start"} /\ attempts \in 0..MaxStarts
    /\ worker \in [Workers -> Job]
    /\ failures \in 0..MaxFailures
    /\ seen \in [Handlers -> [Keys -> 0..MaxVersion]]

------------------------------------------------------------------------------
(* The work queue (k8s.io/client-go/util/workqueue).                        *)

\* The sequences that hold every element of S once, where S has at most one item
\* for each key.
Orders(S) == UNION {Bijection(1..n, S) : n \in 0..Cardinality(Keys)}

\* Mutant: an item that is being processed is queued at once.
AddedAtOnce(items) ==
    LET new == IF down THEN {} ELSE items \ dirty IN
    /\ dirty' = dirty \cup new
    /\ \E order \in Orders(new) : queue' = queue \o order

\* Add of the items, one after the other in some order.
Added(items) ==
    LET new == IF down THEN {} ELSE items \ dirty IN
    /\ dirty' = dirty \cup new
    /\ \E order \in Orders(new \ processing) : queue' = queue \o order

------------------------------------------------------------------------------
(* The informer.                                                            *)

\* An object is created, changed or deleted; the store has it at once and
\* queueObject is told in time.
Change(k, exists) ==
    /\ version[k] < MaxVersion /\ informer # "stopped"
    /\ exists \/ k \in live
    /\ version' = [version EXCEPT ![k] = @ + 1]
    /\ live' = IF exists THEN live \cup {k} ELSE live \ {k}
    /\ events' = IF informer = "running" THEN [events EXCEPT ![k] = @ + 1] ELSE events
    /\ UNCHANGED <<informer, queueVars, handlerVars, startVars, workVars>>

QueueObject(k) ==
    /\ events[k] > 0
    /\ events' = [events EXCEPT ![k] = @ - 1]
    /\ Added({Plain(k)})
    /\ UNCHANGED <<version, live, informer, processing, delayed, down, handlerVars, startVars, workVars>>

\* A caller asks for a key, or the informer's resync does.
Enqueue(k) ==
    /\ Added({Plain(k)})
    /\ UNCHANGED <<informerVars, processing, delayed, down, handlerVars, startVars, workVars>>

------------------------------------------------------------------------------
(* AddHandler, and what its goroutine does when the context is done.        *)

AddHandler(h) ==
    /\ caller = "none" /\ h \in offered
    /\ offered' = offered \ {h}
    /\ LET d == [handler |-> h, generation |-> generation] IN
       /\ handlers' = Append(handlers, d)
       /\ added' = added \cup {d}
    /\ UNCHANGED <<cancelled, informerVars, queueVars, startVars, workVars>>

\* The goroutine builds a new list: for every handler in the list that is not h
\* it appends h.
CancelHandler(d) ==
    /\ caller = "none" /\ d \in added \ cancelled
    /\ cancelled' = cancelled \cup {d}
    /\ \E n \in 0..Len(handlers) :
         /\ n = Cardinality({i \in DOMAIN handlers : handlers[i] # d})
         /\ handlers' = [i \in 1..n |-> d]
    /\ UNCHANGED <<offered, added, informerVars, queueVars, startVars, workVars>>

------------------------------------------------------------------------------
(* Sync and Start.                                                          *)

\* Sync or Start takes the mutex; if nobody synced before it registers
\* queueObject, runs the informer, which lists the objects there are, and waits.
\* An informer that has stopped cannot be run again, and no caller tries: it
\* stopped because the context that its caller waits with is done.
Begin(who) ==
    /\ caller = "none" /\ attempts < MaxStarts
    /\ synced \/ informer # "stopped"
    /\ caller' = who
    /\ attempts' = attempts + 1
    /\ IF synced THEN UNCHANGED <<informer, events>>
       ELSE /\ informer' = "running"
            /\ events' = [k \in Keys |-> IF k \in live THEN 1 ELSE 0]
    /\ UNCHANGED <<version, live, generation, running, synced, queueVars, handlerVars, workVars>>

\* WaitForCacheSync gives up: the context is done, and with it the informer.
SyncFails ==
    /\ caller # "none" /\ ~synced
    /\ caller' = "none"
    /\ informer' = "stopped"
    /\ UNCHANGED <<version, live, events, generation, running, synced, attempts,
                   queueVars, handlerVars, workVars>>

SyncEnds ==
    /\ caller = "sync"
    /\ caller' = "none" /\ synced' = TRUE
    /\ UNCHANGED <<generation, running, attempts, informerVars, queueVars, handlerVars, workVars>>

\* Mutant: Start does not queue the keys for handlers added since.
NoKeys == {}

\* The keys Start queues: all of the store's, if the controller was running and
\* has got a handler since the last Start.
StoreKeys ==
    IF running /\ \E n \in DOMAIN handlers : handlers[n].generation = generation
    THEN live ELSE {}

StartEnds ==
    /\ caller = "start"
    /\ caller' = "none" /\ synced' = TRUE /\ running' = TRUE
    /\ Added({[key |-> k, generation |-> generation] : k \in StoreKeys})
    /\ generation' = generation + 1
    /\ UNCHANGED <<attempts, processing, delayed, down, informerVars, handlerVars, workVars>>

\* The context of the first Start is done: the informer stops and run shuts the
\* queue down.  The controller goes on believing that it is running.
ShutDown ==
    /\ running /\ ~down
    /\ down' = TRUE
    /\ informer' = "stopped"
    /\ UNCHANGED <<queue, dirty, processing, delayed, version, live, events,
                   handlerVars, startVars, workVars>>

------------------------------------------------------------------------------
(* The workers: processNextWorkItem and syncHandler.                        *)

\* workqueue.Get.
Got == [Idle EXCEPT !.pc = "load", !.item = Head(queue)]
Get(w) ==
    /\ running /\ worker[w].pc = "idle" /\ queue # <<>>
    /\ queue' = Tail(queue)
    /\ processing' = processing \cup {Head(queue)}
    /\ dirty' = dirty \ {Head(queue)}
    /\ worker' = [worker EXCEPT ![w] = Got]
    /\ UNCHANGED <<delayed, down, informerVars, handlerVars, startVars, failures, seen>>

\* syncHandler reads the object from the store,
WithObject(w) == [worker[w] EXCEPT !.pc = "list", !.version = version[worker[w].item.key]]
LoadObject(w) ==
    /\ worker[w].pc = "load"
    /\ worker' = [worker EXCEPT ![w] = WithObject(w)]
    /\ UNCHANGED <<informerVars, queueVars, handlerVars, startVars, failures, seen>>

\* and then the list of handlers, without the mutex.
WithHandlers(w) == [worker[w] EXCEPT !.pc = "call", !.todo = handlers]
LoadHandlers(w) ==
    /\ worker[w].pc = "list"
    /\ worker' = [worker EXCEPT ![w] = WithHandlers(w)]
    /\ UNCHANGED <<informerVars, queueVars, handlerVars, startVars, failures, seen>>

\* Whether an item is for handler d.
Concerns(item, d) == item.generation = -1 \/ d.generation = item.generation

\* The handlers left after the nth was called, and the errors then: a panic ends
\* the loop and leaves an error of its own.
Left(w, n, outcome) ==
    IF outcome = "panic" THEN <<>> ELSE SubSeq(worker[w].todo, n + 1, Len(worker[w].todo))
Errors(w, outcome) ==
    IF outcome = "ok" THEN worker[w].errs
    ELSE IF outcome = "panic" THEN <<"error">>
    ELSE Append(worker[w].errs, outcome)
AfterCall(w, n, outcome) ==
    [worker[w] EXCEPT !.todo = Left(w, n, outcome), !.errs = Errors(w, outcome)]

\* It calls the next handler that the item is for, the nth of those left, which
\* succeeds, returns a ForgetError, fails, or panics.  An object that a handler
\* returns for the next one is a change of the version it was called with.
CallHandler(w, n, outcome) ==
    LET todo == worker[w].todo
        item == worker[w].item
    IN
    /\ worker[w].pc = "call" /\ Concerns(item, todo[n])
    /\ \A m \in 1..n - 1 : ~Concerns(item, todo[m])
    /\ seen' = IF outcome \in {"ok", "forget"} /\ seen[todo[n].handler][item.key] < worker[w].version
               THEN [seen EXCEPT ![todo[n].handler][item.key] = worker[w].version] ELSE seen
    /\ failures' = IF outcome = "ok" THEN failures ELSE failures + 1
    /\ failures' <= MaxFailures
    /\ worker' = [worker EXCEPT ![w] = AfterCall(w, n, outcome)]
    /\ UNCHANGED <<informerVars, queueVars, handlerVars, startVars>>

\* Mutant: errors are dropped like ForgetErrors.
NeverRetried(errs) == FALSE

\* types.NewErrors makes one error of several, which is no ForgetError even if
\* all of them are.
Retried(errs) == Len(errs) > 1 \/ errs = <<"error">>

\* The item is done with, and its plain key is added again later if it failed.
Finish(w) ==
    /\ worker[w].pc = "call"
    /\ \A n \in DOMAIN worker[w].todo : ~Concerns(worker[w].item, worker[w].todo[n])
    /\ LET item == worker[w].item IN
       /\ processing' = processing \ {item}
       /\ queue' = IF item \in dirty THEN Append(queue, item) ELSE queue
       /\ delayed' = IF Retried(worker[w].errs) /\ ~down
                     THEN delayed \cup {Plain(item.key)} ELSE delayed
    /\ worker' = [worker EXCEPT ![w] = Idle]
    /\ UNCHANGED <<dirty, down, informerVars, handlerVars, startVars, failures, seen>>

\* The delay of AddRateLimited is over.
Retry(item) ==
    /\ item \in delayed
    /\ delayed' = delayed \ {item}
    /\ Added({item})
    /\ UNCHANGED <<processing, down, informerVars, handlerVars, startVars, workVars>>

------------------------------------------------------------------------------
Init ==
    /\ version = [k \in Keys |-> 0] /\ live = {}
    /\ informer = "new" /\ events = [k \in Keys |-> 0]
    /\ queue = <<>> /\ dirty = {} /\ processing = {} /\ delayed = {} /\ down = FALSE
    /\ handlers = <<>> /\ offered = Handlers /\ added = {} /\ cancelled = {}
    /\ generation = 0 /\ running = FALSE /\ synced = FALSE
    /\ caller = "none" /\ attempts = 0
    /\ worker = [w \in Workers |-> Idle]
    /\ failures = 0
    /\ seen = [h \in Handlers |-> [k \in Keys |-> 0]]

CallerStep ==
    \/ \E h \in Handlers : AddHandler(h)
    \/ \E d \in added : CancelHandler(d)
    \/ \E who \in {"sync", "start"} : Begin(who)
    \/ SyncFails \/ SyncEnds \/ StartEnds \/ ShutDown

WorkerStep(w) ==
    \/ Get(w) \/ LoadObject(w) \/ LoadHandlers(w) \/ Finish(w)
    \/ \E n \in DOMAIN worker[w].todo, outcome \in Outcome : CallHandler(w, n, outcome)

Next ==
    \/ CallerStep
    \/ \E k \in Keys, exists \in BOOLEAN : Change(k, exists)
    \/ \E k \in Keys : QueueObject(k) \/ Enqueue(k)
    \/ \E w \in Workers : WorkerStep(w)
    \/ \E item \in Item : Retry(item)

Spec == Init /\ [][Next]_vars

\* The informer tells its listener, workers work, delays pass, and a cache that
\* is waited for is synced or given up.
Fairness ==
    /\ \A k \in Keys : WF_vars(QueueObject(k))
    /\ \A w \in Workers : WF_vars(WorkerStep(w))
    /\ \A item \in Item : WF_vars(Retry(item))
    /\ WF_vars(SyncFails \/ SyncEnds \/ StartEnds)

FairSpec == Spec /\ Fairness

------------------------------------------------------------------------------
(* Properties.                                                              *)

\* A handler in the list that a Start has followed.
Started(h) == \E n \in DOMAIN handlers : /\ handlers[n].handler = h
                                         /\ handlers[n].generation < generation

\* A handler that has not been called with the latest version of an object, nor
\* missed an object that is gone.
Behind(h, k) == seen[h][k] # version[k] /\ (seen[h][k] > 0 \/ k \in live)

\* Whether an item is for handler h of a list.
For(item, h, list) ==
    \E n \in DOMAIN list : list[n].handler = h /\ Concerns(item, list[n])

\* Whether worker w is yet to call handler h with object k.
Calls(w, h, k) ==
    /\ worker[w].pc # "idle" /\ worker[w].item.key = k
    /\ For(worker[w].item, h, IF worker[w].pc = "call" THEN worker[w].todo ELSE handlers)

\* Whether what worker w is at will bring h up to date with k, or be retried.
Attends(w, h, k) ==
    \/ Calls(w, h, k) /\ (worker[w].pc = "load" \/ worker[w].version = version[k])
    \/ worker[w].pc # "idle" /\ worker[w].item.key = k /\ Retried(worker[w].errs)

\* No change is ever lost between the informer, the queue, the workers, the
\* retries and the handlers added after the start: as long as a started handler
\* is behind, something is on its way that will call it (queueObject,
\* processNextWorkItem, syncHandler, Start).  This holds until a handler is
\* cancelled, upon which the others are gone from the list.
ChangeIsPending ==
    \A h \in Handlers, k \in Keys :
        Started(h) /\ Behind(h, k) /\ ~down /\ cancelled = {} =>
            \/ events[k] > 0
            \/ \E item \in dirty \cup delayed : item.key = k /\ For(item, h, handlers)
            \/ \E w \in Workers : Attends(w, h, k)

\* A handler is called with an older version of an object after a newer one only
\* in a controller that was started again for new handlers, where a plain key
\* and a generation key of one object may be worked on at once (processing of
\* items rather than keys).
CallsInOrder ==
    [][\A w \in Workers : \A n \in DOMAIN worker[w].todo, outcome \in Outcome :
         CallHandler(w, n, outcome) /\ generation <= 1 =>
           worker[w].version >= seen[worker[w].todo[n].handler][worker[w].item.key]]_vars

\* In the end every started handler has been called with the latest version of
\* every object, or has never known it and it is gone (queueObject,
\* processNextWorkItem, Start), until a handler is cancelled.
HandlersCatchUp ==
    <>[](\A h \in Handlers, k \in Keys :
           Started(h) /\ ~down /\ cancelled = {} => ~Behind(h, k))

==============================================================================
