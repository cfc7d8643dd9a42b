----------------------------- MODULE Lifecycle -------------------------------
(***************************************************************************)
(* lifecycle/object.go: the handler that turns an ObjectLifecycle (Create,  *)
(* Finalize, Updated) into a controller's handler.  It keeps two marks on   *)
(* the object in the API server: a finalizer, which holds the object back   *)
(* until Finalize has succeeded, and an annotation, which says that Create  *)
(* has.                                                                     *)
(*                                                                          *)
(* One object name is modelled.  history is the sequence of the states the  *)
(* API server has had it in; a position in it is a resourceVersion.  What   *)
(* the callbacks do is to acquire and release something that belongs to one *)
(* incarnation of the object.                                               *)
(***************************************************************************)
EXTENDS Integers, Sequences

CONSTANTS
    Crews,        \* the sets of calls of the handler that may be going on at once
    MaxObjects,   \* bound on the incarnations of the object
    MaxChanges,   \* bound on the changes others or the callbacks make to it
    MaxFailures   \* bound on failed callbacks, failed or lost answers, crashes

ASSUME LifecycleAssumption ==
    /\ {} \notin Crews
    /\ MaxObjects \in Nat /\ MaxChanges \in Nat /\ MaxFailures \in Nat

VARIABLES
    has,       \* ObjectLifecycleCondition: HasCreate and HasFinalize
    history,   \* states of the object in the API server
    pos,       \* position in history of the informer's store
    pending,   \* whether the key is queued
    worker,    \* the calls of the handler
    held,      \* incarnations that Create acquired something for
    ready,     \* incarnations that Create succeeded on
    changes, failures

vars == <<has, history, pos, pending, worker, held, ready, changes, failures>>

Uids == 1..MaxObjects

Workers == DOMAIN worker

\* An object: its incarnation, whether it has a deletionTimestamp, this
\* lifecycle's finalizer, somebody else's finalizer, and the annotation.
Object == [uid : 0..MaxObjects, deleted : BOOLEAN, fin : BOOLEAN,
           other : BOOLEAN, init : BOOLEAN]
Gone == [uid |-> 0, deleted |-> FALSE, fin |-> FALSE, other |-> FALSE, init |-> FALSE]

Server == history[Len(history)]

Steps == {"idle", "addFinalizer", "create", "finalize", "updated",
          "record", "setInitialized", "removeFinalizer", "get"}

\* obj and rv: the object the call works on and its resourceVersion.  after:
\* where record goes on, "error" if the callback failed.  tries: of removeFinalizer.
Worker == [pc : Steps, obj : Object, rv : Nat, after : Steps \cup {"error"}, tries : 0..3]
Idle == [pc |-> "idle", obj |-> Gone, rv |-> 0, after |-> "idle", tries |-> 0]

TypeOK ==
    /\ has \in [create : BOOLEAN, finalize : BOOLEAN]
    /\ history \in Seq(Object) /\ pos \in 1..Len(history) /\ pending \in BOOLEAN
    /\ Workers \in Crews /\ worker \in [Workers -> Worker]
    /\ \A w \in Workers : worker[w].rv <= Len(history)
    /\ held \subseteq Uids /\ ready \subseteq Uids
    /\ changes \in 0..MaxChanges /\ failures \in 0..MaxFailures

------------------------------------------------------------------------------
(* The API server, its other users, and the informer.                       *)

\* What becomes of the object when o is stored: an object with a
\* deletionTimestamp goes with its last finalizer.
Stored(o) == Append(history, IF o.deleted /\ ~o.fin /\ ~o.other THEN Gone ELSE o)

\* The next incarnation of the object.
UserCreates(uid, other) ==
    /\ Server = Gone
    /\ \A n \in DOMAIN history : history[n].uid < uid
    /\ \E n \in DOMAIN history : history[n].uid = uid - 1
    /\ history' = Append(history, [Gone EXCEPT !.uid = uid, !.other = other])
    /\ UNCHANGED <<has, pos, pending, worker, held, ready, changes, failures>>

UserDeletes ==
    /\ Server # Gone /\ ~Server.deleted
    /\ history' = Stored([Server EXCEPT !.deleted = TRUE])
    /\ UNCHANGED <<has, pos, pending, worker, held, ready, changes, failures>>

\* Something else about the object changes.
UserChanges ==
    /\ Server # Gone /\ changes < MaxChanges
    /\ changes' = changes + 1
    /\ history' = Append(history, Server)
    /\ UNCHANGED <<has, pos, pending, worker, held, ready, failures>>

OtherFinalizes ==
    /\ Server.other /\ Server.deleted
    /\ history' = Stored([Server EXCEPT !.other = FALSE])
    /\ UNCHANGED <<has, pos, pending, worker, held, ready, changes, failures>>

\* The informer's store follows, and the key is queued.
Watch ==
    /\ pos < Len(history)
    /\ pos' = pos + 1
    /\ pending' = TRUE
    /\ UNCHANGED <<has, history, worker, held, ready, changes, failures>>

\* The key is queued for some other reason.
Enqueue ==
    /\ pending' = TRUE
    /\ UNCHANGED <<has, history, pos, worker, held, ready, changes, failures>>

\* The process is restarted and lists the object anew.
Crash ==
    /\ failures < MaxFailures
    /\ failures' = failures + 1
    /\ worker' = [w \in Workers |-> Idle]
    /\ pos' \in pos..Len(history)
    /\ pending' = TRUE
    /\ UNCHANGED <<has, history, held, ready, changes>>

------------------------------------------------------------------------------
(* The handler.                                                             *)

\* Mutant: sync drops the error.
FailsSilently(w) ==
    /\ worker' = [worker EXCEPT ![w] = Idle]
    /\ UNCHANGED pending

\* The call returns an error, upon which the controller queues the key again.
Fails(w) ==
    /\ worker' = [worker EXCEPT ![w] = Idle]
    /\ pending' = TRUE

\* The call goes on at step pc, or returns without an error.
Goes(w, next, pc) ==
    worker' = [worker EXCEPT ![w] = IF pc = "idle" THEN Idle ELSE [next EXCEPT !.pc = pc]]

\* ObjectClient.Update of object o in w's version.  It fails if the object is
\* gone or has changed, or because of the network, before or after it was done.
\* The call goes on at step pc if it worked ("error": it returns the error of the
\* callback); Else is what happens if it failed.
\* An update that changes nothing makes no new version.
Update(w, o, pc, Else) ==
    LET fresh == worker[w].rv = Len(history)
        same  == worker[w].pc # "record" /\ o = Server
    IN
    \/ /\ fresh
       /\ history' = IF same THEN history ELSE Stored(o)
       /\ \/ /\ IF pc = "error" THEN Fails(w)
                ELSE /\ Goes(w, [worker[w] EXCEPT !.obj = o, !.rv = Len(history')], pc)
                     /\ UNCHANGED pending
             /\ UNCHANGED failures
          \/ failures < MaxFailures /\ failures' = failures + 1 /\ Else
    \/ /\ \/ ~fresh /\ UNCHANGED failures
          \/ fresh /\ failures < MaxFailures /\ failures' = failures + 1
       /\ UNCHANGED history
       /\ Else

\* Mutant: Create is called before the finalizer is there.
DispatchCreateFirst(o) ==
    IF has.finalize /\ o.deleted THEN IF o.fin THEN "finalize" ELSE "idle"
    ELSE IF has.create /\ ~o.init THEN "create"
    ELSE "updated"

\* sync: where it goes with an object (finalize, then create, then Updated).
Dispatch(o) ==
    IF has.finalize /\ o.deleted THEN IF o.fin THEN "finalize" ELSE "idle"
    ELSE IF o.init THEN "updated"
    ELSE IF has.finalize /\ ~o.fin THEN "addFinalizer"
    ELSE IF has.create THEN "create"
    ELSE "updated"

\* A worker takes the key and reads the informer's store.
Sync(w) ==
    /\ pending /\ worker[w].pc = "idle"
    /\ pending' = FALSE
    /\ LET o == history[pos] IN
       worker' = IF o = Gone \/ Dispatch(o) = "idle" THEN worker
                 ELSE [worker EXCEPT ![w] = [Idle EXCEPT !.pc = Dispatch(o), !.obj = o, !.rv = pos]]
    /\ UNCHANGED <<has, history, pos, held, ready, changes, failures>>

AddFinalizer(w) ==
    /\ worker[w].pc = "addFinalizer"
    /\ Update(w, [worker[w].obj EXCEPT !.fin = TRUE],
              IF has.create THEN "create" ELSE "updated", Fails(w))
    /\ UNCHANGED <<has, pos, held, ready, changes>>

\* record, after a callback that succeeded or failed, and changed the object or
\* not: a changed object is updated, whether the callback failed or not.
Recorded(w, ok, changed, after) ==
    /\ ok \/ failures < MaxFailures
    /\ changed => changes < MaxChanges
    /\ failures' = IF ok THEN failures ELSE failures + 1
    /\ changes' = IF changed THEN changes + 1 ELSE changes
    /\ IF ok \/ changed
       THEN /\ Goes(w, [worker[w] EXCEPT !.after = IF ~changed THEN "idle"
                                                 ELSE IF ok THEN after ELSE "error"],
                    IF changed THEN "record" ELSE after)
            /\ UNCHANGED pending
       ELSE Fails(w)

\* Create acquires something, and may fail after it did.
Create(w, ok, changed) ==
    /\ worker[w].pc = "create"
    /\ held' = held \cup {worker[w].obj.uid}
    /\ ready' = IF ok THEN ready \cup {worker[w].obj.uid} ELSE ready
    /\ Recorded(w, ok, changed, "setInitialized")
    /\ UNCHANGED <<has, history, pos>>

\* Finalize releases it, if it succeeds.
Finalize(w, ok, changed) ==
    /\ worker[w].pc = "finalize"
    /\ held' = IF ok THEN held \ {worker[w].obj.uid} ELSE held
    /\ Recorded(w, ok, changed, "removeFinalizer")
    /\ UNCHANGED <<has, history, pos, ready>>

Updated(w, ok, changed) ==
    /\ worker[w].pc = "updated"
    /\ Recorded(w, ok, changed, "idle")
    /\ UNCHANGED <<has, history, pos, held, ready>>

\* The update in record; the error of a callback outlives it.
RecordUpdate(w) ==
    /\ worker[w].pc = "record"
    /\ Update(w, worker[w].obj, worker[w].after, Fails(w))
    /\ UNCHANGED <<has, pos, held, ready, changes>>

\* Mutant: a failure to set the annotation is not returned.
SetInitializedOnce(w) ==
    /\ worker[w].pc = "setInitialized"
    /\ Update(w, [worker[w].obj EXCEPT !.init = TRUE], "idle",
              Goes(w, worker[w], "idle") /\ UNCHANGED pending)
    /\ UNCHANGED <<has, pos, held, ready, changes>>

SetInitialized(w) ==
    /\ worker[w].pc = "setInitialized"
    /\ Update(w, [worker[w].obj EXCEPT !.init = TRUE], "idle", Fails(w))
    /\ UNCHANGED <<has, pos, held, ready, changes>>

\* removeFinalizer tries three times, on what the server has after a failure.
RemoveFinalizer(w) ==
    /\ worker[w].pc = "removeFinalizer"
    /\ Update(w, [worker[w].obj EXCEPT !.fin = FALSE], "idle",
              /\ Goes(w, [worker[w] EXCEPT !.tries = @ + 1], "get")
              /\ UNCHANGED pending)
    /\ UNCHANGED <<has, pos, held, ready, changes>>

GetAgain(w) ==
    /\ worker[w].pc = "get"
    /\ IF Server = Gone \/ worker[w].tries = 3 THEN Fails(w)
       ELSE /\ Goes(w, [worker[w] EXCEPT !.obj = Server, !.rv = Len(history)], "removeFinalizer")
            /\ UNCHANGED pending
    /\ UNCHANGED <<has, history, pos, held, ready, changes, failures>>

GetFails(w) ==
    /\ worker[w].pc = "get" /\ failures < MaxFailures
    /\ failures' = failures + 1
    /\ Fails(w)
    /\ UNCHANGED <<has, history, pos, held, ready, changes>>

------------------------------------------------------------------------------
Init ==
    /\ has \in [create : BOOLEAN, finalize : BOOLEAN]
    /\ history = <<Gone>> /\ pos = 1 /\ pending = FALSE
    /\ \E crew \in Crews : worker = [w \in crew |-> Idle]
    /\ held = {} /\ ready = {}
    /\ changes = 0 /\ failures = 0

Callback(w) ==
    \E ok, changed \in BOOLEAN :
        Create(w, ok, changed) \/ Finalize(w, ok, changed) \/ Updated(w, ok, changed)

WorkerStep(w) ==
    \/ Sync(w) \/ AddFinalizer(w) \/ Callback(w) \/ RecordUpdate(w)
    \/ SetInitialized(w) \/ RemoveFinalizer(w) \/ GetAgain(w) \/ GetFails(w)

Next ==
    \/ \E uid \in Uids, other \in BOOLEAN : UserCreates(uid, other)
    \/ UserDeletes \/ UserChanges \/ OtherFinalizes
    \/ Watch \/ Enqueue \/ Crash
    \/ \E w \in Workers : WorkerStep(w)

Spec == Init /\ [][Next]_vars

\* The informer follows the API server and workers work.
Fairness ==
    /\ WF_vars(Watch)
    /\ \A w \in UNION Crews : WF_vars(w \in Workers /\ WorkerStep(w))

FairSpec == Spec /\ Fairness

------------------------------------------------------------------------------
(* Properties.                                                              *)

\* Calls of the handler for one object do not overlap.
OneAtATime == \A v, w \in Workers : v = w

\* What Create acquired for an object is held by the finalizer on the object in
\* the API server, whatever the informer's store shows, whichever updates fail
\* or get lost and wherever the process is restarted (addFinalizer before
\* Create, record of Finalize before removeFinalizer), as long as calls for one
\* object do not overlap.
HeldIsProtected ==
    has.finalize /\ OneAtATime => \A uid \in held : Server.uid = uid /\ Server.fin

\* In the end an object that is being deleted has lost the lifecycle's finalizer
\* (removeFinalizer, and the retries of sync).
DeletedIsReleased == <>[](Server.deleted /\ has.finalize => ~Server.fin)

\* In the end an object that stays has the annotation (create), and Create has
\* succeeded on this very incarnation of it.
LiveIsInitialized ==
    <>[](Server # Gone /\ ~Server.deleted /\ has.create =>
           Server.init /\ Server.uid \in ready)

==============================================================================
