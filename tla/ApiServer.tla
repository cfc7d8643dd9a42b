------------------------------ MODULE ApiServer ------------------------------
(***************************************************************************)
(* A request through the API server: parse, api/server.go and api/handler  *)
(* decide what it may do, parse/builder checks its body, store/wrapper and *)
(* store/proxy carry it out with several calls to the cluster's API server *)
(* (external: it stores one object per name, each with a resourceVersion), *)
(* and api/writer answers.  Requests of several clients, and a controller  *)
(* that writes status, interleave between those calls; a call may time     *)
(* out before it took effect, after it did, or while it is on its way.     *)
(*                                                                         *)
(* One type is served, without namespaces and sub contexts, to clients     *)
(* that are not browsers (CheckCSRF lets them pass) and that may do what   *)
(* the schema allows (authorization.AllAccess).  A request is              *)
(* a record with the HTTP method, the parts of its URL (type, id, link,    *)
(* action, override for _method), options (edit, export, replace), its     *)
(* query and its body.                                                     *)
(***************************************************************************)
EXTENDS Merge, Query

CONSTANTS
  Clients,
  Menus,                \* [requests, most, troubles]: what clients choose from,
                        \* how often, and how much the rest of the world does
  Type,                 \* the ID of the schema served
  ResourceMethods, CollectionMethods,
  CollectionFilters,
  ApiFields,            \* the fields of the API's schemas, by ID
  InternalSchemas,      \* the schemas of the stored objects, by ID
  TypeMapper,           \* schema.Mapper
  Creator,              \* the user every request is made for
  GeneratedNames,       \* what types.GenerateName may return
  InitialObjects,       \* what the cluster holds at first: name to object
  States,               \* what the controller writes to status.state
  Tries                 \* rounds of Update's loop: 5 in the code

ASSUME TriesAssumption == Tries \in Nat \ {0}

VARIABLES
  objs,      \* the cluster: name to internal object
  clock,     \* the last resourceVersion given out
  at,        \* each client's request, and how far the server is with it
  walk,      \* each client's walk through the pages of a list
  menu,      \* the requests of this behaviour
  left,      \* [requests, troubles]: what may still happen; a trouble is
             \* a write of the controller or a call that times out
  late       \* writes still on their way to the cluster that were given up

vars == <<objs, clock, at, walk, menu, left, late>>

-----------------------------------------------------------------------------
(* What a request is for: Parse, ValidateMethod, ValidateAction and the    *)
(* dispatch of Server.handle.                                              *)

Allowed(id) == IF id = "" THEN CollectionMethods ELSE ResourceMethods

ValidateMethod(x) ==
  \/ x.action # "" /\ x.method = "POST"
  \/ x.method \in {"POST", "GET", "PUT", "DELETE"} /\ (x.link # "" \/ x.method \in Allowed(x.id))

Parse(r) ==
  LET remove == r.action = "remove"
      method == CASE remove -> "DELETE" [] ~remove /\ r.override # "" -> r.override [] OTHER -> r.method
      x      == [method |-> method, action |-> IF remove THEN "" ELSE r.action, link |-> r.link, id |-> r.id, err |-> ""]
  IN  CASE r.type # Type      -> [x EXCEPT !.method = "GET", !.err = "NotFound"]
        [] ValidateMethod(x)  -> x
        [] OTHER              -> [x EXCEPT !.err = "MethodNotAllowed"]

(* The schema has no actions, and the server no handler for links but the  *)
(* default one.  The access control asks for the methods ValidateMethod    *)
(* has asked for already.                                                  *)
Handler(x) ==
  CASE x.err # ""                                             -> "error"
    [] x.action # "" /\ x.link = "" /\ x.method = "POST"       -> "error"
    [] x.link # ""                                            -> "link"
    [] x.method = "GET" /\ x.id = ""                           -> "list"
    [] x.method = "GET"                                       -> "byid"
    [] x.method = "POST"                                      -> "create"
    [] x.method = "PUT"                                       -> "update"
    [] x.method = "DELETE"                                    -> "delete"

Refusal(x) == IF x.err # "" THEN x.err ELSE "InvalidAction"

FirstCall(handler) ==
  CASE handler = "create"             -> "post"
    [] handler \in {"update", "delete"} -> "check"
    [] handler = "link"               -> "byid"
    [] OTHER                          -> handler

ParseAndValidateBody(r, handler) ==
  IF handler \in {"create", "update"} THEN Construct(ApiFields, r.opts, Type, r.body, handler)
                                      ELSE [errs |-> {}, value |-> Empty]
-----------------------------------------------------------------------------
(* The proxy store's side of the cluster.                                  *)

Version(o) == GetValue(o, <<"metadata", "resourceVersion">>)
Stamped(o, v) == PutValue(o, Num(v), <<"metadata", "resourceVersion">>)

(* Store.toInternal and fromInternal.                                      *)
ToStore(d) ==
  ("apiVersion" :> Str("group/version")) @@ ("kind" :> Str("Kind")) @@ TypeToInternal(TypeMapper, d)

FromStore(r, o) ==
  TypeFromInternal(TypeMapper, IF r.opts.export THEN Without(o, {"status"}) ELSE o)

Signed(d) ==
  PutValue(PutValue(d, Str(Creator), <<"metadata", "annotations", "field.cattle.io/creatorId">>),
           Str("norman"), <<"metadata", "labels", "cattle.io/creator">>)

(* The names Create may post the object under.                             *)
Names(d) ==
  LET name == GetValue(d, <<"metadata", "name">>)
  IN  IF name[1] = "str" /\ name # Str("") THEN {name[2]} ELSE GeneratedNames

(* Mutant: the object is sent without the resourceVersion that was read.   *)
MergedUnversioned(a, o) ==
  LET merged == APIUpdateMerge(InternalSchemas, Type, o, a.body, a.req.opts.replace)
  IN  PutValue(RemoveValue(merged, <<"metadata", "resourceVersion">>), Str(a.x.id), <<"metadata", "name">>)

(* The object Update puts: the body laid over the one it read, with that   *)
(* one's resourceVersion.                                                  *)
Merged(a, o) ==
  LET merged == APIUpdateMerge(InternalSchemas, Type, o, a.body, a.req.opts.replace)
  IN  PutValue(PutValue(merged, Version(o), <<"metadata", "resourceVersion">>),
               Str(a.x.id), <<"metadata", "name">>)

(* What the client means by a request, in the terms of AtomicStore.        *)
Plain(r) == ~r.opts.edit /\ ~r.opts.export

Typed(d, op) ==
  [n \in DOMAIN d |-> Convert(ApiFields, [edit |-> FALSE, export |-> FALSE], ApiFields[Type][n].type, d[n], op).value]

FieldsThat(P(_)) == {n \in DOMAIN ApiFields[Type] : P(ApiFields[Type][n])}

Meant(r) ==
  LET method == CASE r.action = "remove" -> "DELETE" [] r.action # "remove" /\ r.override # "" -> r.override [] OTHER -> r.method
      served == r.type = Type /\ r.link = "" /\ r.action \in {"", "remove"} /\ method \in Allowed(r.id)
      op     == CASE ~served -> "none"
                  [] served /\ method = "GET" -> IF r.id = "" THEN "list" ELSE "byid"
                  [] served /\ method # "GET" -> [POST |-> "create", PUT |-> "update", DELETE |-> "delete"][method]
      sets   == FieldsThat(LAMBDA f : (op = "create" /\ f.create) \/ (op = "update" /\ f.update))
  IN  [op |-> op, id |-> r.id, sets |-> Typed(Only(r.body, sets), op), whole |-> r.opts.replace, plain |-> Plain(r)]

Unsent ==
  [pc |-> "idle", req |-> [method |-> ""], want |-> [op |-> "none"], x |-> [id |-> ""], body |-> Empty, existing |-> Empty, tries |-> 0,
   round |-> 0, acted |-> FALSE, adrift |-> FALSE, err |-> "", next |-> "", out |-> <<>>, others |-> 0]

NoWalk == [req |-> [method |-> ""], conditions |-> {}, steady |-> {}, seen |-> {}, next |-> "", on |-> FALSE, done |-> FALSE]

(* WriteResponse: every item through the builder; one it cannot construct  *)
(* is left out.                                                            *)
Written(a, items) ==
  LET op    == IF a.x.method = "POST" THEN "listcreate" ELSE "list"
      built == [i \in DOMAIN items |-> Construct(ApiFields, a.req.opts, Type, items[i], op)]
      good  == SelectSeq(built, LAMBDA r : r.errs = {})
  IN  [i \in DOMAIN good |-> good[i].value]

(* A call that ends the handler's work: with an error, or with data.       *)
Fails(a, e) == [a EXCEPT !.pc = "reply", !.err = e]
Yields(a, items) == [a EXCEPT !.pc = "reply", !.acted = TRUE, !.out = Written(a, items)]

Goes(c, a) == at' = [at EXCEPT ![c] = a]

Admits(conditions, o) ==
  \A k \in conditions : Valid(k, ApiFields[Type], TypeFromInternal(TypeMapper, o))

(* A write of object n, by client c or by the controller ("").             *)
Writes(c, a, n, os) ==
  /\ objs' = os
  /\ clock' = clock + 1
  /\ at' = [d \in Clients |->
              CASE d = c -> a
                [] d # c /\ at[d].pc \in {"get", "put"} /\ at[d].x.id = n -> [at[d] EXCEPT !.others = @ + 1]
                [] OTHER -> at[d]]
  /\ walk' = [d \in Clients |->
                [walk[d] EXCEPT !.steady = {m \in @ : m \in DOMAIN os /\ Admits(walk[d].conditions, os[m])}]]

Reads(c, a) == Goes(c, a) /\ UNCHANGED <<objs, clock, walk>>

Unhurt == UNCHANGED <<left, late>>
TimesOut == left.troubles > 0 /\ left' = [left EXCEPT !.troubles = @ - 1]
-----------------------------------------------------------------------------
(* The cluster.  A write is a record of an operation, the name and the     *)
(* object; a put is for the version it carries.  An object with finalizers *)
(* stays after a delete until its controller has let go of it.             *)
Call(op, n, o) == [op |-> op, name |-> n, object |-> o]

Accepts(w) ==
  CASE w.op = "put"    -> w.name \in DOMAIN objs /\ Version(w.object) \in {Null, Version(objs[w.name])}
    [] w.op = "post"   -> w.name \notin DOMAIN objs
    [] w.op = "delete" -> w.name \in DOMAIN objs

IsHeld(o) == HasValue(o, <<"metadata", "finalizers">>)
Doomed(o) == PutValue(o, Str("now"), <<"metadata", "deletionTimestamp">>)

After(w) ==
  CASE w.op # "delete"           -> Set(objs, w.name, Stamped(w.object, clock + 1))
    [] IsHeld(objs[w.name])      -> Set(objs, w.name, Stamped(Doomed(objs[w.name]), clock + 1))
    [] OTHER                     -> Without(objs, {w.name})

(* Client c makes the write w: it is done, and answered with a or too late.*)
Makes(c, a, w) ==
  /\ Accepts(w)
  /\ \/ Writes(c, a, w.name, After(w)) /\ Unhurt
     \/ /\ Writes(c, [Fails(at[c], "Timeout") EXCEPT !.acted = TRUE], w.name, After(w))
        /\ TimesOut /\ UNCHANGED late
-----------------------------------------------------------------------------
Init ==
  /\ objs = InitialObjects
  /\ clock = Cardinality(DOMAIN InitialObjects)
  /\ at = [c \in Clients |-> Unsent]
  /\ walk = [c \in Clients |-> NoWalk]
  /\ late = <<>>
  /\ \E m \in Menus :
       /\ menu = m.requests
       /\ left = [requests |-> m.most, troubles |-> m.troubles]

(* ServeHTTP up to the handler's first call of the store.                  *)
Serve(c, r) ==
  LET x == Parse(r)
      h == Handler(x)
      b == ParseAndValidateBody(r, h)
  IN  \E e \in (CASE h = "error" -> {Refusal(x)} [] h # "error" /\ b.errs # {} -> b.errs [] OTHER -> {""}) :
        Goes(c, [Unsent EXCEPT !.pc = IF e = "" THEN FirstCall(h) ELSE "reply", !.req = r, !.want = Meant(r), !.x = x, !.err = e,
                               !.body = IF h \in {"create", "update"} /\ e = "" THEN ToStore(b.value) ELSE Empty])

(* A walk begins with a list in the order of ids, a page at a time.        *)
Walks(r) ==
  /\ Handler(Parse(r)) = "list" /\ r.method = "GET"
  /\ ParseSort(CollectionFilters, r.query) = "" /\ r.query.marker = "" /\ ParseLimit(r.query.limit) > 0

Send(c, r) ==
  /\ at[c].pc = "idle" /\ ~walk[c].on /\ left.requests > 0
  /\ Serve(c, r)
  /\ LET conditions == QueryOptions(CollectionFilters, r.method, r.query).conditions
     IN  walk' = [walk EXCEPT ![c] =
           IF Walks(r) THEN [NoWalk EXCEPT !.on = TRUE, !.req = r, !.conditions = conditions,
                                           !.steady = {n \in DOMAIN objs : Admits(conditions, objs[n])}]
           ELSE NoWalk]
  /\ left' = [left EXCEPT !.requests = @ - 1]
  /\ UNCHANGED <<objs, clock, late>>

(* DoNext: the link is the URL of the list with the marker set.            *)
NextPage(c) ==
  /\ at[c].pc = "idle" /\ walk[c].on
  /\ Serve(c, [walk[c].req EXCEPT !.query.marker = walk[c].next])
  /\ UNCHANGED <<objs, clock, walk, left, late>>

Found(c) == at[c].x.id \in DOMAIN objs
Object(c) == objs[at[c].x.id]

ByID(c) ==
  /\ at[c].pc = "byid"
  /\ Reads(c, CASE ~Found(c)          -> Fails(at[c], "NotFound")
                [] at[c].x.link # ""   -> Fails(at[c], "NotFound")
                [] OTHER               -> Yields(at[c], <<FromStore(at[c].req, Object(c))>>))
  /\ Unhurt

(* validateGet, before an update and before a delete.                      *)
Check(c) ==
  /\ at[c].pc = "check"
  /\ Reads(c, IF Found(c) THEN [at[c] EXCEPT !.pc = IF at[c].x.method = "PUT" THEN "get" ELSE "delete"]
                          ELSE Fails(at[c], "NotFound"))
  /\ Unhurt

ListAll(c) ==
  LET a     == at[c]
      items == [i \in 1..Cardinality(DOMAIN objs) |-> FromStore(a.req, objs[InSomeOrder(DOMAIN objs)[i]])]
      r     == ApplyQueryOptions(QueryOptions(CollectionFilters, a.req.method, a.req.query), ApiFields[Type], items)
  IN  /\ a.pc = "list"
      /\ Reads(c, [Yields(a, r.page) EXCEPT !.next = r.next])
      /\ Unhurt

(* A round of Update's loop: read and merge, then put.                     *)
Get(c) ==
  /\ at[c].pc = "get"
  /\ Reads(c, IF Found(c) THEN [at[c] EXCEPT !.pc = "put", !.existing = Merged(at[c], Object(c))]
                          ELSE Fails(at[c], "NotFound"))
  /\ Unhurt

(* Mutant: after a conflict the same object is put again.                  *)
AfterConflictSame(a) ==
  IF a.round + 1 < Tries THEN [a EXCEPT !.pc = "put", !.round = @ + 1] ELSE Fails(a, "Conflict")

AfterConflict(a) ==
  IF a.round + 1 < Tries THEN [a EXCEPT !.pc = "get", !.round = @ + 1, !.existing = Empty] ELSE Fails(a, "Conflict")

Put(c) ==
  LET a == at[c]
      w == Call("put", a.x.id, a.existing)
  IN  /\ a.pc = "put"
      /\ \/ ~Found(c) /\ Reads(c, Fails(a, "NotFound")) /\ Unhurt
         \/ Found(c) /\ ~Accepts(w) /\ Reads(c, AfterConflict(a)) /\ Unhurt
         \/ Makes(c, Yields(a, <<FromStore(a.req, Stamped(a.existing, clock + 1))>>), w)

Posted(d, n) == PutValue(d, Str(n), <<"metadata", "name">>)

Post(c) ==
  LET a == at[c]
      d == Signed(a.body)
  IN  /\ a.pc = "post"
      /\ \E n \in Names(d) :
           \/ n \in DOMAIN objs /\ Reads(c, Fails(a, "AlreadyExists")) /\ Unhurt
           \/ Makes(c, Yields(a, <<FromStore(a.req, Stamped(Posted(d, n), clock + 1))>>), Call("post", n, Posted(d, n)))

(* Store.Delete, then a look whether the object is still there.            *)
Delete(c) ==
  LET a == at[c] IN
  /\ a.pc = "delete"
  /\ \/ ~Found(c) /\ Reads(c, Fails(a, "NotFound")) /\ Unhurt
     \/ Makes(c, [a EXCEPT !.pc = "last", !.acted = TRUE], Call("delete", a.x.id, Empty))

LookAgain(c) ==
  /\ at[c].pc = "last"
  /\ Reads(c, Yields(at[c], IF Found(c) THEN <<FromStore(at[c].req, Object(c))>> ELSE <<>>))
  /\ Unhurt

(* A read is tried three times, the one after a delete once, and failing   *)
(* is then no error; nothing that writes is tried again.                   *)
AfterTimeout(a) ==
  CASE a.pc \in {"byid", "check", "list"} /\ a.tries < 2 -> [a EXCEPT !.tries = @ + 1]
    [] a.pc = "last"                                    -> Yields(a, <<>>)
    [] OTHER                                            -> Fails(a, "Timeout")

Timeout(c) ==
  /\ at[c].pc \in {"byid", "check", "list", "get", "put", "post", "delete", "last"}
  /\ Reads(c, AfterTimeout(at[c]))
  /\ TimesOut /\ UNCHANGED late

(* The caller gives up a write that may still be carried out.              *)
Sent(a) ==
  CASE a.pc = "put"    -> {Call("put", a.x.id, a.existing)}
    [] a.pc = "post"   -> {Call("post", n, Posted(Signed(a.body), n)) : n \in Names(Signed(a.body))}
    [] a.pc = "delete" -> {Call("delete", a.x.id, Empty)}
    [] OTHER           -> {}

GivesUp(c) ==
  /\ \E w \in Sent(at[c]) : late' = Append(late, [write |-> w, want |-> at[c].want])
  /\ Reads(c, [AfterTimeout(at[c]) EXCEPT !.adrift = TRUE])
  /\ TimesOut

(* It arrives, and is carried out or refused.                              *)
Arrives(i) ==
  /\ late' = RemoveAt(late, i)
  /\ LET w == late[i].write IN
       \/ Accepts(w) /\ Writes("", Unsent, w.name, After(w))
       \/ ~Accepts(w) /\ UNCHANGED <<objs, clock, at, walk>>
  /\ UNCHANGED left
-----------------------------------------------------------------------------
(* The answer reaches the client; what is listed extends its walk.         *)
Reply(c) ==
  LET a == at[c] IN
  /\ a.pc = "reply"
  /\ Goes(c, Unsent)
  /\ walk' = [walk EXCEPT ![c] =
       CASE ~@.on -> @
         [] @.on /\ a.err # "" -> NoWalk
         [] OTHER -> [@ EXCEPT !.seen = @ \cup {a.out[i]["id"][2] : i \in DOMAIN a.out},
                               !.next = a.next, !.on = a.next # "", !.done = a.next = ""]]
  /\ UNCHANGED <<objs, clock, left, late>>

(* A controller records the state of an object.                            *)
Status(n, s) ==
  /\ left.troubles > 0 /\ n \in DOMAIN objs
  /\ Writes("", Unsent, n, Set(objs, n, Stamped(PutValue(objs[n], Str(s), <<"status", "state">>), clock + 1)))
  /\ left' = [left EXCEPT !.troubles = @ - 1]
  /\ UNCHANGED late

(* The controller is done with an object that was deleted.                 *)
Finalized(n) ==
  /\ n \in DOMAIN objs /\ HasValue(objs[n], <<"metadata", "deletionTimestamp">>)
  /\ Writes("", Unsent, n, Without(objs, {n}))
  /\ Unhurt

Step ==
  \/ \E c \in Clients :
       \/ \E r \in menu : Send(c, r)
       \/ NextPage(c) \/ ByID(c) \/ Check(c) \/ ListAll(c) \/ Get(c) \/ Put(c) \/ Post(c) \/ Delete(c) \/ LookAgain(c)
       \/ Timeout(c) \/ GivesUp(c) \/ Reply(c)
  \/ \E i \in DOMAIN late : Arrives(i)
  \/ \E n \in DOMAIN objs : Finalized(n) \/ \E s \in States : Status(n, s)

Next == Step /\ UNCHANGED menu
Spec == Init /\ [][Next]_vars
-----------------------------------------------------------------------------
(* The store a client may picture (AtomicStore): the value of each field   *)
(* of each object, and requests that take effect at once or not at all.    *)
View(o) == Only(Sub(o, "metadata"), {"name", "labels", "finalizers", "deletionTimestamp"}) @@ Sub(o, "spec") @@ Sub(o, "status")

Told(a) ==
  IF a.acted /\ a.err = "" /\ Plain(a.req) /\ a.x.method # "DELETE" /\ Handler(a.x) # "list"
  THEN Only(a.out[1], DOMAIN ApiFields[Type]) ELSE Empty

Seen(a) ==
  [phase |-> CASE a.pc = "idle" -> "idle" [] a.acted -> "acted" [] a.adrift -> "adrift" [] OTHER -> "asked",
   want  |-> a.want,
   ok    |-> a.acted /\ a.err = "",
   out   |-> Told(a)]

Atomic ==
  INSTANCE AtomicStore WITH
    Wants          <- {Meant(r) : r \in UNION {m.requests : m \in Menus}},
    Objects        <- [n \in DOMAIN InitialObjects |-> View(InitialObjects[n])],
    NewNames       <- GeneratedNames,
    Specified      <- DOMAIN Fields(InternalSchemas, SubType(Fields(InternalSchemas, Type)["spec"].type)),
    Updatable      <- FieldsThat(LAMBDA f : f.update),
    Hidden         <- FieldsThat(LAMBDA f : f.writeOnly),
    Defaults       <- [n \in FieldsThat(LAMBDA f : f.default # Null) |-> ApiFields[Type][n].default],
    Mark           <- ("cattle.io/creator" :> Str("norman")),
    Protected      <- ProtectedKeys,
    Attached       <- FieldKeys,
    ControllerSets <- States,
    store          <- [n \in DOMAIN objs |-> View(objs[n])],
    call           <- [c \in Clients |-> Seen(at[c])],
    adrift         <- [i \in DOMAIN late |-> late[i].want]

(* Every request is carried out as AtomicStore says: the several calls an  *)
(* update, a delete or a read makes (validateGet, the loop of get, merge   *)
(* and put, retries, the look after a delete) amount to one effect on the  *)
(* objects as they are at that moment.  No write of another client or of   *)
(* the controller is undone by Store.Update, nothing is done twice after a *)
(* timeout, a request refused by ValidateMethod or the builder does        *)
(* nothing, a field the schema does not let the client set keeps its       *)
(* value, and what is answered is the object as the request left it,       *)
(* without its write-only fields.                                          *)
StoreIsAtomic == Atomic!ASpec

(* An update is answered with a conflict only if, in each of the rounds    *)
(* Store.Update makes, somebody else wrote the object in between.          *)
ConflictMeansContention ==
  \A c \in Clients : at[c].err = "Conflict" => at[c].others >= Tries

(* A client that follows the links of ApplyPagination to the last page of  *)
(* a list in the order of ids has seen every object that was there, and    *)
(* matched the filter, all the while: whatever was created, deleted or     *)
(* changed between two pages, the item the link names included.            *)
PagesCover ==
  \A c \in Clients : walk[c].done => walk[c].steady \subseteq walk[c].seen
=============================================================================
