# Norman in TLA+

TLA+ models of `norman`, the Go framework that Rancher builds its API and its
controllers on: an HTTP API whose resources are described by schemas and stored
in Kubernetes, controllers that watch those resources, and `remotedialer`, a
tunnel that lets a server open connections from the network of its clients.
The modules are checked by TLC on small instances; the theorems are proved by
TLAPS for every value of the constants.  Definitions carry the names of the Go
functions they translate; `PROJECT.json` maps each one to its lines.

## 1. The system

### Inventory

| Part | State | Operations | Interacts with | Hard to get right |
|---|---|---|---|---|
| `pkg/remotedialer`: registry | `sessionManager.clients`, `peers`, `listeners`; `Session.remoteClientKeys`; `Server.peers` | `add`, `remove`, `addListener`, `removeListener`, `AddPeer`, `RemovePeer`, `peer.start` | peers over websockets, `getDialer` | listeners registered while sessions change; overlapping peer loops; announcements lost or repeated |
| `pkg/remotedialer`: routing | the slices of `clients`, a dial in progress | `Dial`, `getDialer`, `serverConnect` | registry | dead sessions, stale announcements, forwarding loops |
| `pkg/remotedialer`: tunnel | `Session.conns`, `connection.err`, `connection.buf`, websocket | `Serve`, `serveMessage`, `serverConnect`, `clientConnect`, `clientDial`, `pipe`, `Read`, `Write`, `Close` | callers of `Dial`, targets | close against data in flight, backed up readers, channel closed while sent on |
| `controller` | handlers with generations, informer store, work queue, workers | `AddHandler`, its cancellation, `Sync`, `Start`, `queueObject`, `processNextWorkItem`, `syncHandler` | informers, handlers | handlers added after the start, retries, items processed twice at once, stale objects |
| `lifecycle` | finalizers and annotation of an object | `sync`, `finalize`, `create`, `record`, `update`, `removeFinalizer`, `setInitialized` | API server, controller | stale cached objects, conflicts, crashes between updates |
| `pkg/broadcast`, `store/proxy` share watch, `pkg/subscribe` | subscriber channels, running flag | `Subscribe`, `unsub`, `stream` | watches, websocket clients | slow subscribers, subscribing while the stream ends |
| `store/proxy` | none of its own | `List`, `Create`, `Update` with retry, `Watch`, `Delete` | API server | conflicting updates |
| `pkg/objectset` | applied annotation, hash label | `Apply`, `process`, `compareSets`, `applyPatch` | API server | partial failure, pruning what is still wanted |
| `store/crd` | schemas with status | `CreateCRDs`, `AssignStores`, waiting for CRDs | API server | CRD created by somebody else |
| `condition` | status conditions of an object | `Do`, `Once`, `DoUntilTrue` | lifecycle | reason and message after errors |
| `types` schemas, `types/mapper`, `types/convert`, `types/values` | schema registry | `AddSchema`, `MustImport`, mappers to and from internal form | API, generator | mappers that do not invert each other |
| `parse`, `parse/builder`, `api`, `urlbuilder` | one request | parsing of URLs and queries, validation, handlers, writers | stores | pagination, filters |
| `store/transform`, `store/wrapper`, `store/schema`, `store/subtype`, `store/empty` | none | forwarding with changes | stores | filtered watches |
| `leader`, `build.go`, `signal` | leadership, running controllers | `RunOrDie`, `Build` | controllers | work after leadership is lost |
| `clientbase`, `generator`, `httperror`, `authorization`, `restwatch`, `pkg/kwrapper`, `objectclient` | none | HTTP client, code generation, error types, conversions | everything | – |

### How the parts meet

A controller gets changes of objects from an informer and calls handlers; most
handlers are lifecycles, which write back to the API server and thereby cause
more changes.  The API's proxy store watches the same objects; its watch is
shared by a broadcaster, from which subscriptions take their events.  The tunnel
is separate: its servers keep sessions of clients, tell each other which clients
they have, and route a dial to the server, and through the session, of its
client.

### Plan

Done: the registry, routing and tunnel of `remotedialer`; controllers and
lifecycles; shared watches and subscriptions, with the layers of stores between
them; desired sets and change sets; conditions; the schema registry and the import
of Go types; mappers and merging; requests, bodies, queries and pages, shown to
implement an atomic store; start-up, CRDs and leadership.

Next:

1. Theorems: `ReadsWhatWasWritten` and `TargetGetsAll`, and
   `ConflictMeansContention` (its module reaches recursive operators, so the loop of
   `Store.Update` would first need a module of its own).
2. Abstract specifications beside `AtomicStore`: a pair of pipes that `Tunnel`
   implements, a level-triggered reconciler that `GenericController` implements.
3. Compositions: a `Lifecycle` in a `GenericController`; `Subscribe` on
   `Broadcaster` (each now assumes of the other what that one is shown to do:
   a channel is closed once the context is done, and a reader may be slow).

## 2. Modules

A module has its state as variables, one action per step that the Go scheduler,
the network or another server can put something in between, the fairness, and its
properties at the end.  Modules of pure code (`Values`, `Mappers`, `Merge`,
`Schemas`, `Reflection`, `Builder`, `Query`) are operators only, and are used by the
state machine that calls them.  A definition whose comment begins with "Mutant" is a
faulty variant of the definition after it: with it in its place TLC finds the
property named in `PROJECT.json` violated, so each property is known to depend on
the code it is about.  `MC` modules hold the values of constants and, where one run
covers several instances, the initial states to choose from; these are reachable
from `Init`, or are `Init` with some of the bounds used up.

| Module | Code | Uses |
|---|---|---|
| `SessionRegistry`, `PeerRouting`, `Tunnel` | `pkg/remotedialer` | |
| `GenericController` | `controller` | |
| `Lifecycle` | `lifecycle`, `objectclient` as far as it is used | |
| `Broadcaster` | `pkg/broadcast`, watches of `store/proxy` | |
| `Subscribe` | `pkg/subscribe`, `convert.Chan` and the `Watch` of the stores that use it | |
| `ObjectSet` | `pkg/objectset`, `pkg/changeset` | |
| `Condition` | `condition` | |
| `Values`, `Mappers`, `Merge` | `types/values`, `types/mapper`, `types/mapper.go`, `types/convert/merge` | |
| `SchemaMapping` | a mapper at work between `importType` and the proxy store | `Merge` |
| `Schemas`, `Reflection` | `types/schemas.go`, `types/reflection.go` | `Values` |
| `DynamicSchemas` | the registry in the life of a server, `store/schema` | `Reflection` |
| `Builder`, `Query` | `parse/builder`, `parse/collection.go`, `api/handler/query.go`, `types/condition.go` | `Values` |
| `ApiServer` | `api`, `parse`, `store/wrapper`, `store/proxy` | `Merge`, `Query` |
| `AtomicStore` | what the API promises; nothing of the code | `Values` |
| `Startup` | `build.go`, `store/crd`, `leader`, `controller/starter.go` | |

### SessionRegistry

One row of state per session key: `phase` is the accepting end (`ServeHTTP`, from
the upgrade through `sessions.add` to `sessions.remove`), `dialer` the dialing end
if the session is one between peers (one turn of the loop of `peer.start`),
`queue` the messages in between, `remote` what the accepting end has made of them
(`remoteClientKeys`).  `loops` and `hasPeer` stand for `Server.peers`.  What a
server's `sessionManager` has, `Registry(s)`, is derived.

`add`, `remove` and `addListener` hold the manager's lock while they change the
maps *and* write to the listeners, so each is one step (`AddSession`,
`RemoveSession`, `AddListener`), in which `Notified` appends to the queues of all
listeners.  The map in `addListener` is walked in any order (`Orders`).  A key
with a slash does not survive `parseAddress`, and a message about it ends the
session that serves it (`Parses`).  A websocket may fail at any time
(`Disconnect`), dials fail, loops overlap when a peer is removed and added again.

### PeerRouting

Extends the registry with the order of the sessions of a client (`getDialer` takes
the first) and one dial that goes from server to server.  `Connect` on a peer
session is the far end's `Server.Dial` for the same client key.

### Tunnel

Both ends of one session.  `ws` are the messages on the websocket, `conns`,
`err` and the buffers are those of `Session` and `connection`; `held` is the
connection for which `Serve` waits in `chanWriter.Write`, with its lock.  The
server's end has callers (`ServerConnect`, writes split at the unlock between the
check of `err` and the write, reads, `ServerClose`); the client's end has
`clientDial` with the two directions of `pipe`, and targets that write and close.
Data are numbered chunks.  The timeout of a full buffer may fire at any time.

### GenericController

`version`, `live` and `events` are the informer's store and what it has not told
its listener yet; `queue`, `dirty`, `processing`, `delayed` are the work queue
(external, from client-go's contract: an item is in the queue once, and is queued
again when it is added while it is processed).  Items are plain keys or generation
keys.  `Sync` and `Start` are split where they wait for the cache, under the mutex
(`Begin`, `SyncFails`, `SyncEnds`, `StartEnds`).  A worker gets an item, reads the
object, reads the list of handlers, calls each of them and finishes: five kinds of
steps with everything else in between.  A handler's outcome is success, a
`ForgetError`, another error or a panic.

`CancelHandler` does what the goroutine of `AddHandler` does: it puts the
*cancelled* handler into the new list once for every other handler, so all others
are gone (`generic_controller.go:143`).  The properties are therefore stated up to
the first cancellation.

### Lifecycle

`history` is the sequence of versions that the API server has had of one name,
`pos` how far the informer's store has got.  A worker carries the object it works
on, with its resource version, through `sync`: `addFinalizer`, `Create`, the
update that records its changes, `setInitialized`, `Updated`; or `Finalize`,
`removeFinalizer` and its retry on a fresh copy.  Updates fail on conflict, fail
for no reason, or succeed with the answer lost.  `Crash` drops what is in memory.
`held` is what `Create` acquired and `Finalize` has not released, per incarnation
(`uid`) of the object.

### Broadcaster

`subs` and `running` are the fields of `Broadcaster`; `chan` tells whether a
subscriber's channel is open, `sent` and `read` what went in and out of it.
`unsub` is called by the goroutine of a subscriber's context (`ContextUnsub`), by
one goroutine for each event that did not fit (`SlowUnsub`, counted by `slow`) and
by `stream` at its end.  `watch` is the goroutine of `realWatch`.

### Subscribe

The handler's loop, the goroutine that reads the websocket, one stream per type,
the goroutines of `convert.Chan` that the stores have put between the watch and the
stream (`chan`, one per layer: the proxy store's access filter, transform stores,
the wrapper's filter), and the goroutine that closes `events` behind them.  A send
on an unbuffered channel and its receipt are one step (`Receive`, `Take`).  How many
layers let an event pass is chosen when the watch has it.  A store's watch may fail,
be nil, end, and ends once the context is done.

### ObjectSet

`live` are the objects in the cluster, `cache` the informers' copies, `unseen` what
they have not heard of yet.  `pass` is the `Apply` that is running: it lists,
compares, and then creates, patches and deletes one object per step, in the order of
the code; every request may fail, and the errors are collected.  An object carries
the hash of its set and the fields last applied, from which a three-way patch is
made.  `Resolve` is the handler of `changeset.Watch`, which enqueues the owner.
Others write fields that the owner does not set (`ForeignWrite`), and the owner
changes its mind or goes (`ChangeOwner`).

### Condition

One call of a handler under `Do`, `DoUntilTrue`, `Once` or `Track`, from the copy
of the informer to the update.  Of a message it matters whether it names a
temporary file; the clock may or may not tick between two steps.

### Values, Mappers, Merge and SchemaMapping

A value carries the tag of its Go type; an encoded value keeps what it encodes
(`<<"json", v>>`), so encoding and decoding are what they are and not the identity.
`Mappers` has the three methods of every kind of mapper and `typeMapper`, with its
mappers of sub types; `Merge` is `APIUpdateMerge`.  `SchemaMapping` chooses a chain,
imports the type (a chain that does not fit is refused), and lets a client read,
edit a field and write, or write back what it read.

### Schemas, Reflection and DynamicSchemas

A registry is a record: the schemas by version and ID, the list, and the back
references.  `Reflection` imports Go types into it, recursively, with the half built
schemas that cyclic types find; a struct with Kubernetes' `TypeMeta` and `ObjectMeta`
can be listed.  A type may be named in full, with its version (`FullNames`): lookups
find it, but `addReferences` files a reference to it under a key that `References`
never asks for (`ReferenceKey`).  In `DynamicSchemas` an import is one step (it runs
before the server serves), and every later change is a sequence of steps under the
lock, because lookups read the maps without it: embedding, its removal, and the
lists of references can be seen half done.  `AddSchema` of an ID that is taken
registers nothing and embeds all the same (`unlisted`).

### Builder, Query, ApiServer and AtomicStore

`at[c]` is the request of client `c`: parsed, checked, its body built (`Serve`), and
then one step per call to the cluster: `validateGet`, the rounds of `Store.Update`
(`Get` reads and merges, `Put` writes with the version that was read), `Post`,
`Delete` and the look after it, reads that are tried again after a timeout.  A write
that times out has taken effect, has not, or is still on its way and takes effect or
is refused later (`GivesUp`, `Arrives`).  An object with finalizers stays after a
delete, marked, until its controller lets go of it (`Finalized`).  The controller
also writes `status` in between.  `walk` follows a client through the pages of a
list.

`AtomicStore` knows only the fields of each object and the phases of a request:
asked, acted, answered, or given up with its effect still to come.  `StoreIsAtomic`
is its specification under the mapping `Atomic`: `store` is the view of the objects
without versions and stamps, a request has acted when its last write (or read) took
effect, and what a client wants is computed from the request alone (`Meant`), not
with the parser and the builder.  What a client is shown after a delete is not
compared.

### Startup

Each server runs `Build`: one goroutine per API version lists the CRDs, creates what
is missing, lists again and polls (`batch`), then stores are assigned; then the API
is served and the controllers are started.  A process that ends, by a panic over a
CRD or otherwise, is started again from nothing (`Die`, `Boot`).

The election is client-go's elector (vendored) as `leader.run` configures it.
`holder` is the record of the lock; a server that finds it changed counts time from
that moment (`Observe`: `seen`, `age`).  An update of the record is sent (`Update`),
carried out by the cluster (`Applied`), and answered (`Answered`); each may come late
while the cluster is slow or out of reach for the server (`CutOff`), and the update
may be carried out when its sender has given up or died (`onWay`).  A leader's next
window for a renewal opens `RetryPeriod` after the answer to the last one, and the
process ends when it closes (`left`, `OnStoppedLeading`).  `late` is how long the
answer to a server's last update took: others count the lease from the update, the
leader counts from the answer, and `OneMaster` says that only this difference can
make two of them lead.

Time passes in ticks, alike for all servers: clocks run at one rate and timers go off
when they are due, so that a leader does not outlive its window.  A process that is
suspended for longer than that is not in the model.

## 3. Model checking

All bounds are constants named in the modules (`Max...`); everything else in a
configuration is a small set.

| Run | Instance | States | What holds |
|---|---|---|---|
| `peer_routing` | 2 servers, 2 clients, one with a slash in its key, 4 sessions, from 4 states: linked both ways and both with the client; linked one way; a peer's dial just accepted; no session | 230,524 | `ReplicaAccurate`: a peer's view is the registry up to the messages in flight; `DialTerminates`, `RouteLeadsToClient`: a forwarded dial ends, and goes only where the client is or is being withdrawn; `LiveSessionIsFound`: a dead session does not hide a working one for ever |
| `tunnel` | 1 connection, 2 chunks out, 1 back, buffer of 1 | 378,483 | `ReadsWhatWasWritten`: prefixes, and EOF means all; `TargetGetsAll`; `TunnelDrains`; `CloseEndsPipe` |
| `controller` | 1 handler that comes before or after the first of 2 starts, or 2 handlers and 1 start; 2 workers, 1 object with 2 versions, up to 2 failures | 284,403 | `ChangeIsPending`: a handler that is behind has work on its way; `CallsInOrder`: calls go back in time only with generation keys; `HandlersCatchUp` |
| `lifecycle` | 2 incarnations and 1 worker, or 1 incarnation and 2 workers; up to 2 failures | 702,130 | `HeldIsProtected`: what `Create` acquired is protected by the finalizer; `DeletedIsReleased`; `LiveIsInitialized` |
| `broadcaster` | 2 subscribers, buffer of 1, 3 events, 2 connections | 25,090 | `RegisteredIsOpen`: channels are closed once; `OpenIsComplete`: an open channel has every event; `LeaversAreClosed`: who leaves or is dropped is closed, and the end of a watch is told |
| `subscribe` | 2 types with 2 and 1 layers of stores, 2 events each | 184,002 | `NobodySendsInVain`; `GapEndsSubscription`: every event that passes the layers is written in order, is on its way, or the websocket is ending; `EndsTogether` |
| `mapping` | chains of up to 2 of 23 mappers on top of `NewObject`'s, 4 objects, every edit of one field | 38,788 | `NothingLost`: writing back what was read keeps the stored object; `ReadBack`: an edit is read back; `ShownIsDeclared` |
| `objectset` | 2 kinds, 3 versions of what the owner wants, 1 failure, 1 foreign write | 237,309 | `Settles`: the cluster comes to match; `SilentMeansDone`: no error means the work is done; `NothingForgotten`: every field `Apply` put on an object is on record, so that it can be removed; `ForeignKept` |
| `condition` | 4 wrappers, 1 turn of the answer, 1 newer object, 1 trouble | 325,584 | `NoFlapping`: few updates per answer; `DecidedStays`; `ComesTrue` |
| `schemas` | 3 programs with up to 3 imports into 2 versions, in any order, then 3 changes of 5 dynamic schemas | 33,514 | `ImportIsComplete`; `EmbedIsClean`; `BackReferences`; `ListIsClosed` |
| `api` | 2 clients, 2 objects, one with a finalizer, 5 themes of requests; 3 requests and 1 trouble, or 2 requests and 1 or 2 troubles; 2 rounds | 86,892 | `StoreIsAtomic`: refinement of `AtomicStore`; `ConflictMeansContention`; `PagesCover`: pages miss nothing that stayed |
| `startup` | 2 servers; one stands for the election and both create 2 schemas of 1 version, or none stands and 2 versions share a CRD, or both stand without CRDs; 2 troubles | 345,541 | `OneMaster`: two servers lead at once only after an answer that was too late; `StoresAreReady`; `AllComeUp` |

Why the bounds are enough to be interesting: two versions with two workers and two
starts are the least with a plain key and a generation key of one object in work at
once; two incarnations let an old copy meet a new object of the same name; a buffer
of one is full after one chunk; three events let a slow subscriber miss one and be
given the next; two mappers are the least that can undo or hide each other's work;
three changes add a schema, change it and remove it, or bring in a second one that
embeds itself into the same target; two rounds of `Store.Update` (five in the code)
tell a second round from the first and the last from the others; two servers and two
goroutines of one are the two ways to create one CRD twice; a lease of five
ticks, a deadline of two and a retry period of one leave, like the code's 45, 30 and 2
seconds, room for an answer that is late and one that is too late.

`peer_routing` has one loop per peer; that overlapping loops leave the views right is
proved for any number of them (section 4).

Clients of `api` are interchangeable, and declared symmetric; its properties are
invariants and a refinement, and mention no client by name.  No other run uses
symmetry.

Facts worth knowing that the properties are worded around:

- A handler may see an older version of an object after a newer one if the
  controller has been started again for new handlers: its plain key and its
  generation key are different items of the queue (`CallsInOrder` is limited to
  the first start).
- `HeldIsProtected` fails with two calls for one object at a time, which the same
  two kinds of keys allow: one call may run `Finalize` on a deleted object while
  the other, on an older copy, is about to run `Create`.  It is stated for one
  worker.
- A read shows, and an edit does not change, the sources of `SliceMerge`; an edit of
  `Copy`'s copy is lost, and so is the emptying of a `Base64` field or of the field
  that selects a member of `UnionEmbed` (`Lost` in `SchemaMapping`).
- Two servers, or two versions of a group in one server, that create one CRD: the
  later one is told that it exists, waits for a CRD without a name and panics.
  `AllComeUp` holds because the process is started again, and then finds the CRD.
- A cancelled handler takes all others with it (see `GenericController`).
- `Track` drops the error of its update.  After a step that succeeded the condition
  then stays wrong until the handler is called again (`ComesTrue` leaves this out).
- A patch made of a copy older than the last patch drops the fields of that one from
  the record (`NothingForgotten` leaves such objects out), and an `Apply` that was
  misled by an old list may return without an error (`SilentMeansDone` is for one that
  was not); the next one repairs it (`Settles`).
- A schema that embeds into a target takes away the dynamic fields that another one
  embedded there; the target cannot be found for a moment; and `ForceAddSchema` leaves
  the back references of the version it replaces.  `EmbedIsClean` and `BackReferences`
  allow these.
- A field that leads back to the type that is being imported gets no mapper of its
  sub type (`ImportIsComplete`).
- Two servers can lead at once: a renewal that is answered after 13 seconds or more
  (the lease less retry period and deadline) leaves the old leader with time that the
  lease does not cover.  `OneMaster` says that there is no other way.

Deadlock is checked for `Subscribe`, where an ended subscription is the only state
without another step, and for `Startup`; the other systems may come to rest when
their bounded inputs are used up.

### Fairness

Weak fairness, for goroutines that can run: loops, workers, pipes, timers,
informers that receive their events, the limiter that refills.  Connections whose
far end is gone are noticed (pings with a read deadline).  Nothing makes clients,
callers, users, events or failures come, or targets write and close.  In
`Broadcaster` subscribers need not read.  In `Tunnel` the caller need not read (a
full buffer ends in the timeout of `chanWriter.Write`); the target reads what the
pipe writes to it, or its connection fails: the code sets no deadline for that write,
and `CloseEndsPipe` rests on it.  In `Subscribe` a write completes or fails: the code
sets no write deadline, so a client that stays connected without reading would hold
the loop up.  In `Startup` time passes, the API server carries out calls and
establishes CRDs, an outage ends and a process that ended is started again (by
whatever supervises it).
Failures are bounded (`MaxFailures`, `MaxTroubles`, `MaxFaults`), which is what
"retried until it works" needs.  `SchemaMapping`, `DynamicSchemas` and `ApiServer`
have safety properties only.

## 4. Proofs

`SessionRegistryProofs` proves for any finite sets of servers, clients and
sessions, any keys with slashes and any number of peer loops:

- `TypeCorrect`: the type invariant;
- `ReplicaIsAccurate`: `ReplicaAccurate`, that the last message about an address
  in the queue, or `remoteClientKeys` if there is none, agrees with the registry.

The inductive invariant `RegistryInv` adds to them `SessionInv`: a session at work
has a server and a client key, and a session that no listener has been registered
for has an empty queue and an empty view (without which `AddListener` could start
from a wrong view).  Three lemmas say what appending a message, serving the first
one and announcing a whole set do to a view (`ViewAfterAppend`, `ViewAfterServe`,
`ViewAfterAnnounce`); each action has a lemma of its own.

`BroadcasterProofs` proves for any set of subscribers, any capacity of the
channels and any number of events and connections:

- `TypeCorrect`, including that a channel never holds more than its capacity;
- `ChannelsAreSafe`: `RegisteredIsOpen`, so no channel is closed twice or sent on
  after it was closed;
- `SubscribersMissNothing`: `OpenIsComplete`;
- `OneStream`: `RunningIsStreaming`.

`BroadcasterInv` adds `Flow`: events are streamed, in the hands of `stream`, or in
those of the watch, and nowhere else; no subscriber can have had, missed or
skipped more events than were streamed; the watch is over once its channel is.

`StartupProofs` proves for any servers, CRDs, configurations and number of
troubles:

- `OneServerLeads`: `OneMaster`, for any durations that `NewLeaderElector` accepts;
- `ServedStoresAreAccepted`: `StoresAreReady`.

`LeaseInv` follows the time of the lease.  The record of a leader has been there for
as long as the answer took and the spent part of its term, and nobody has watched it
for longer (`HolderInv`); so another server takes it only when the answer was late,
and then the old leader, which may still lead, does not get it back in its last window
(`LoserInv`).  `WindowInv` bounds a leader's call by its window.  `OneMaster` alone is
not inductive: it says nothing of updates on their way, nor of how long a candidate has
watched a record.  `BuildInv` follows a CRD through `BatchCreateCRDs`: a list of ready
CRDs has accepted ones only, so has the part of `schemaStatus` that the loop is done
with (`StatusSoFar`), so have the stores of a batch that is done (`BatchStored`), and
`Build` goes on once all batches are (`DoneBeforeBuild`).

`GenericControllerProofs` proves for any keys, handlers, workers and bounds:

- `ControllerTypes`: the type invariant;
- `NoChangeIsLost`: `ChangeIsPending`;
- `HandlersCalledInOrder`: `CallsInOrder`.

`ControllerInv` has the contract of the work queue (`QueueInv`: an item is queued
once, and not while it is processed; a worker has its item to itself), what is true
before the controller runs (`StartInv`, `OfferedInv`), that a generation key is of a
generation that was started and is not the first (`GenerationInv`), and that nobody
has seen a version that never was (`VersionInv`).  `OrderInv`, behind
`CallsInOrder`, says that a worker that has read the object has a version no older
than its handlers have seen, in a controller that was started once: with a second
generation two workers can be on the same object, and the claim fails.
`PendingInv` strengthens `ChangeIsPending` in two ways.  A worker may hold a version
that is already stale; then the change is an event or in the queue (`StaleInv`).
And a handler that is about to be told of a stale version is owed the new one
already before the call (`NothingLost` over `Owed`), for the call itself only
records what it was told.

`LifecycleProofs` proves for any number of incarnations of the object, changes,
failures, lost answers and restarts:

- `LifecycleTypes`: the type invariant;
- `HeldStaysProtected`: `HeldIsProtected`.

`HistoryInv` and `CallInv` say that a deletion is never taken back and that a call
works on a version the API server has had.  `ProtectionInv` is what one call at a
time keeps: a version that the informer may still show with a finalizer, and not
deleted, is of the incarnation that has it now, so `Create` is only called while the
finalizer is there, and once `Finalize` has succeeded nothing is held.  It is needed
because calls act on old copies: that the present object has its finalizer says
nothing of the copy the next call gets.

`SubscribeProofs` and `SubscribeGapProofs` prove for any types, any number of layers
of stores and of events:

- `SubscribeTypes`: the types of the state;
- `NoSendAfterClose`: `NobodySendsInVain`;
- `SubscriberMissesNothing`: `GapEndsSubscription`.

`EndInv` has the order in which things end: the layers of a type from the watch to
the stream (`LayersInv`), the streams, `events`, the handler (`LoopInv`).  `WayInv`
follows the events: they are in order on the places of the way from the watch to the
websocket, each has passed the layers it is behind (`PlacesInv`), and as long as
nothing was cancelled what was written and what is on the way is together what was
due (`Complete`).

The assumptions are those named in the modules (`RegistryAssumption`,
`BroadcasterAssumption`, `LeaseAssumption`, `HostAssumption`, `ConfigAssumption`,
`ControllerAssumption`, `LifecycleAssumption`, `SubscribeAssumption`): constants
that count are natural numbers, sets that are walked are finite, the durations of a
lease are in the order `NewLeaderElector` asks for, a configuration names CRDs there
are.  TLC evaluates them in every run of those modules.

Everything else is model-checked only:

- liveness (`TunnelDrains`, that changes reach their handlers, that subscriptions
  end, that servers come up, ...): it needs fairness and `ENABLED`, which these proofs
  do not treat;
- `SchemaMapping`, `DynamicSchemas`, `ApiServer` and the operators on values, schemas
  and bodies: these are recursive on their data, and what they compute for every
  input, and with it the refinement of `AtomicStore`, would need induction over data;
- `Tunnel`, `PeerRouting`, `ObjectSet` and `Condition`, whose invariants have not been made
  inductive.

## 5. What is not modelled

`PROJECT.json` lists every part with its reason.

- `generator`, `example`: templates, run when a project is built.
- `clientbase`, `restwatch`: HTTP requests of one caller without state between
  them (`DoNext` is the walk of `ApiServer`).
- `objectclient`: one request per method; those that `Lifecycle` needs are there.
- `store/transform`, `store/subtype`, `store/empty`: they pass calls on, and the
  embedding program supplies what a transformer does; the goroutine a watch of
  theirs starts is a layer of `Subscribe`.
- `pkg/kwrapper`, `metrics`, `signal`, `pkg/dump`, `pkg/k8scheck` and the helpers on
  names, sets and slices: the start of other programs, counters, one-liners.
- `CheckCSRF`, for browsers; access control other than `authorization.AllAccess`.
- `urlbuilder`, `api/writer`, `parse` as far as they make or take apart text: URLs,
  cookies, JSON, HTML and YAML.

External, and modelled from how the code uses them: the API server with its resource
versions, finalizers and CRDs, client-go's informer, work queue and leader election,
websockets, and the targets and callers of the tunnel.

Inside the modelled parts these are left out: the framing of messages and their
deadlines in `message.go`, the cut of addresses at 100 bytes, time apart from
`Startup` and `Condition` (timeouts may fire at any moment), the jitter of retries and the
drift of clocks in the election, the data race of lookups with writers of a schema map
beyond the states it goes through, the copies of maps that
`cloneMap` makes, the writing of announcements that block under the manager's lock
until the websocket fails, namespaces, sub contexts, actions and links of a request,
lists over several namespaces, and of Go types everything but fields, kinds and tags.
