-------------------------- MODULE LifecycleProofs ---------------------------
(***************************************************************************)
(* For any number of incarnations of the object, of changes to it and of    *)
(* failures: what Create acquired is protected by the finalizer, if the     *)
(* calls of the handler for one object do not overlap.                      *)
(***************************************************************************)
EXTENDS Lifecycle, TLAPS

Types ==
  /\ TypeOK
  /\ \A w \in Workers : worker[w].pc # "get" => worker[w].tries <= 2

(* Gone is the only object without a uid; an object that is being deleted  *)
(* has a finalizer; a deletion is never taken back.                        *)
HistoryInv ==
  /\ \A n \in DOMAIN history :
       /\ history[n].uid = 0 => history[n] = Gone
       /\ history[n].deleted => history[n].fin \/ history[n].other
  /\ \A m, n \in DOMAIN history :
       m <= n /\ history[m].uid = history[n].uid /\ history[m].deleted => history[n].deleted

(* A call works on a version that the API server has had, and one that     *)
(* is to add the finalizer on one that the informer's store has had.       *)
CallInv ==
  \A w \in Workers : worker[w].pc # "idle" =>
    /\ worker[w].rv \in DOMAIN history
    /\ worker[w].obj = history[worker[w].rv] /\ worker[w].obj # Gone
    /\ worker[w].pc = "addFinalizer" => worker[w].rv <= pos
    /\ worker[w].pc = "record" =>
         worker[w].after \in {"setInitialized", "removeFinalizer", "idle", "error"}

(* Finalize has succeeded, and the finalizer is to be removed.             *)
Releasing(w) ==
  \/ worker[w].pc \in {"removeFinalizer", "get"}
  \/ worker[w].pc = "record" /\ worker[w].after = "removeFinalizer"

(* What one worker at a time keeps:                                        *)
(*  - the informer's store shows no incarnation before one that has the    *)
(*    finalizer, for the worker added it;                                  *)
(*  - no version that may still be read shows a finalizer on an object     *)
(*    that lives, when the API server has lost it;                         *)
(*  - what is held is protected;                                           *)
(*  - Create is only called while the finalizer is there;                  *)
(*  - Finalize is only called for what is held, and once it succeeded      *)
(*    nothing is; the store has shown the deletion by then.                *)
ProtectedHistory ==
  /\ Server.fin => \A n \in pos..Len(history) : history[n].uid = Server.uid
  /\ \A n \in pos..Len(history) :
       history[n].fin /\ ~history[n].deleted => Server.uid = history[n].uid /\ Server.fin
  /\ \A uid \in held : Server.uid = uid /\ Server.fin

ProtectingCall(w) ==
  /\ worker[w].pc = "create" => Server.uid = worker[w].obj.uid /\ Server.fin
  /\ worker[w].pc = "finalize" => held \subseteq {worker[w].obj.uid}
  /\ Releasing(w) => held = {}
  /\ worker[w].pc = "finalize" \/ Releasing(w) => (Server.fin => history[pos].deleted)

ProtectionInv == ProtectedHistory /\ \A w \in Workers : ProtectingCall(w)

LifecycleInv == Types /\ HistoryInv /\ CallInv /\ (has.finalize /\ OneAtATime => ProtectionInv)

-----------------------------------------------------------------------------
(* The history.                                                            *)

(* What the API server stores is the object, or Gone.                      *)
LEMMA StoredObject ==
  ASSUME TypeOK, NEW o \in Object
  PROVE  \E x \in Object : /\ Stored(o) = Append(history, x)
                           /\ x = o \/ (x = Gone /\ o.deleted /\ ~o.fin /\ ~o.other)
<1>1. Gone \in Object
  BY LifecycleAssumption DEF Gone, Object
<1> QED
  BY <1>1 DEF Stored

LEMMA SomeHistory ==
  ASSUME TypeOK
  PROVE  history \in Seq(Object) /\ Len(history) \in Nat \ {0} /\ Server \in Object
BY DEF TypeOK, Server

(* A version that follows on the latest one keeps its uid and deletion.    *)
LEMMA FollowingVersion ==
  ASSUME TypeOK, HistoryInv, NEW o \in Object, o.uid = Server.uid, o.uid # 0,
         Server.deleted => o.deleted, history' = Stored(o)
  PROVE  HistoryInv'
<1>1. PICK x \in Object : /\ history' = Append(history, x)
                          /\ x = o \/ (x = Gone /\ o.deleted /\ ~o.fin /\ ~o.other)
  BY StoredObject
<1>2. x = o => (x.deleted => x.fin \/ x.other)
  BY <1>1 DEF Stored, Gone, Object
<1>3. /\ Len(history) \in Nat \ {0} /\ DOMAIN history = 1..Len(history)
      /\ DOMAIN history' = 1..Len(history) + 1
      /\ \A n \in DOMAIN history : history'[n] = history[n]
      /\ history'[Len(history) + 1] = x /\ Server = history[Len(history)]
  BY <1>1, SomeHistory DEF Server
<1>4. ASSUME NEW m \in DOMAIN history', NEW n \in DOMAIN history', m <= n,
             history'[m].uid = history'[n].uid, history'[m].deleted
      PROVE  history'[n].deleted
  <2>1. CASE n \in DOMAIN history
    BY <1>3, <1>4, <2>1 DEF HistoryInv
  <2>2. CASE n = Len(history) + 1 /\ m \in DOMAIN history /\ x = o
    BY <1>3, <1>4, <2>2 DEF HistoryInv
  <2>3. CASE n = Len(history) + 1 /\ m \in DOMAIN history /\ x = Gone
    BY <1>3, <1>4, <2>3 DEF HistoryInv, Gone
  <2>4. CASE m = n
    BY <1>4, <2>4
  <2> QED
    BY <1>1, <1>3, <1>4, <2>4, <2>1, <2>2, <2>3
<1>5. ASSUME NEW n \in DOMAIN history'
      PROVE  /\ history'[n].uid = 0 => history'[n] = Gone
             /\ history'[n].deleted => history'[n].fin \/ history'[n].other
  <2>1. CASE n \in DOMAIN history
    BY <1>3, <2>1 DEF HistoryInv
  <2>2. CASE n = Len(history) + 1 /\ x = o
    BY <1>2, <1>3, <2>2
  <2>3. CASE n = Len(history) + 1 /\ x = Gone
    BY <1>3, <2>3 DEF Gone
  <2> QED
    BY <1>1, <1>3, <1>5, <2>1, <2>2, <2>3
<1> QED
  BY <1>4, <1>5 DEF HistoryInv, Gone

-----------------------------------------------------------------------------
(* Types.                                                                  *)

LEMMA GoneIdle == Gone \in Object /\ Idle \in Worker /\ Idle.tries = 0 /\ Idle.rv = 0 /\ Idle.pc = "idle"
BY LifecycleAssumption DEF Gone, Object, Idle, Worker, Steps

(* A step of worker w leaves the other workers alone.                      *)
Moves(w) ==
  /\ worker' \in [Workers -> Worker]
  /\ \A v \in Workers : v # w => worker'[v] = worker[v]

LEMMA WorkerTypes ==
  ASSUME Types, NEW w \in Workers, Moves(w),
         worker'[w].pc # "get" => worker'[w].tries <= 2, worker'[w].rv <= Len(history'),
         history' \in Seq(Object), Len(history') >= Len(history),
         pos' = pos, pending' \in BOOLEAN, has' = has,
         held' \subseteq Uids, ready' \subseteq Uids,
         changes' \in 0..MaxChanges, failures' \in 0..MaxFailures
  PROVE  Types'
<1>1. Workers' = Workers
  BY DEF Workers, Moves
<1>2. worker \in [Workers -> Worker] /\ worker' \in [Workers -> Worker]
  BY <1>1 DEF Types, TypeOK, Moves
<1>3. pos' \in 1..Len(history')
  BY DEF Types, TypeOK
<1>4. \A v \in Workers : worker'[v].rv <= Len(history')
  <2>1. /\ Len(history) \in Nat /\ Len(history') \in Nat
        /\ \A v \in Workers : worker[v].rv \in Nat /\ worker[v].rv <= Len(history)
    BY <1>2, SomeHistory DEF Types, TypeOK, Worker
  <2> QED
    BY <2>1 DEF Moves
<1>5. \A v \in Workers : worker'[v].pc # "get" => worker'[v].tries <= 2
  BY <1>2 DEF Types, Moves
<1> QED
  BY <1>1, <1>2, <1>3, <1>4, <1>5 DEF Types, TypeOK

(* The three ways a step changes its worker.                               *)
LEMMA WorkerFails ==
  ASSUME TypeOK, NEW w \in Workers, worker' = [worker EXCEPT ![w] = Idle]
  PROVE  Moves(w) /\ worker'[w] = Idle
BY GoneIdle DEF Moves, TypeOK

LEMMA WorkerGoes ==
  ASSUME TypeOK, NEW w \in Workers, NEW x \in Worker, NEW pc \in Steps \ {"idle"},
         Goes(w, x, pc)
  PROVE  /\ Moves(w) /\ worker'[w].pc = pc /\ worker'[w].obj = x.obj
         /\ worker'[w].rv = x.rv /\ worker'[w].after = x.after /\ worker'[w].tries = x.tries
<1>1. [x EXCEPT !.pc = pc] \in Worker
  BY DEF Worker
<1>2. worker' = [worker EXCEPT ![w] = [x EXCEPT !.pc = pc]]
  BY DEF Goes
<1>3. worker'[w] = [x EXCEPT !.pc = pc] /\ Moves(w)
  BY <1>1, <1>2 DEF Moves, TypeOK
<1> QED
  BY <1>3 DEF Worker

(* What a step of worker w that makes an Update of o does: the worker      *)
(* gives up, is to try again, or goes on at pc with the version written.   *)
Written(w, o, pc) ==
  /\ history' = history \/ (worker[w].rv = Len(history) /\ history' = Stored(o))
  /\ failures' \in 0..MaxFailures /\ pending' \in BOOLEAN /\ Moves(w)
  /\ \/ worker'[w] = Idle
     \/ /\ worker[w].pc = "removeFinalizer" /\ worker'[w].pc = "get"
        /\ worker'[w].obj = worker[w].obj /\ worker'[w].rv = worker[w].rv
     \/ /\ pc \in Steps \ {"idle"} /\ worker[w].rv = Len(history)
        /\ history' = Stored(o) \/ (history' = history /\ o = Server)
        /\ worker'[w].obj = o /\ worker'[w].rv = Len(history') /\ worker'[w].pc = pc
        /\ worker'[w].tries = worker[w].tries

LEMMA StoredTypes ==
  ASSUME TypeOK, NEW o \in Object, history' = history \/ history' = Stored(o)
  PROVE  /\ history' \in Seq(Object) /\ Len(history') >= Len(history)
         /\ Len(history') \in Nat
         /\ DOMAIN history \subseteq DOMAIN history'
         /\ \A n \in DOMAIN history : history'[n] = history[n]
<1>1. history \in Seq(Object) /\ Len(history) \in Nat \ {0}
  BY SomeHistory
<1>2. CASE history' = history
  BY <1>1, <1>2
<1>3. CASE history' = Stored(o)
  <2>1. PICK x \in Object : Stored(o) = Append(history, x)
    BY StoredObject
  <2> QED
    BY <1>1, <1>3, <2>1
<1> QED
  BY <1>2, <1>3

LEMMA UpdateWrites ==
  ASSUME TypeOK, NEW w \in Workers, NEW o \in Object, NEW pc \in Steps \cup {"error"},
         Update(w, o, pc, Fails(w))
  PROVE  Written(w, o, pc)
<1>1. worker[w] \in Worker
  BY DEF TypeOK
<1>2. /\ history' = history \/ (worker[w].rv = Len(history) /\ history' = Stored(o))
      /\ failures' \in 0..MaxFailures
  <2>1. history' = history \/ (worker[w].rv = Len(history) /\ history' = Stored(o))
    BY DEF Update
  <2>2. failures' = failures \/ (failures < MaxFailures /\ failures' = failures + 1)
    BY DEF Update
  <2> QED
    BY <2>1, <2>2, LifecycleAssumption DEF TypeOK
<1>3. CASE Fails(w)
  BY <1>2, <1>3, WorkerFails DEF Fails, Written
<1>4. CASE ~Fails(w)
  <2> DEFINE x == [worker[w] EXCEPT !.obj = o, !.rv = Len(history')]
  <2>1. /\ worker[w].rv = Len(history)
        /\ history' = Stored(o) \/ (history' = history /\ o = Server)
        /\ pc # "error" /\ Goes(w, x, pc) /\ pending' = pending
    BY <1>4 DEF Update
  <2>2. x \in Worker /\ x.obj = o /\ x.rv = Len(history') /\ x.tries = worker[w].tries
    BY <1>1, <2>1, StoredTypes DEF Worker
  <2>3. CASE pc = "idle"
    BY <1>2, <2>1, <2>3, WorkerFails DEF Goes, Written, TypeOK
  <2>4. CASE pc # "idle"
    <3>1. pc \in Steps \ {"idle"}
      BY <2>1, <2>4
    <3> HIDE DEF x
    <3>2. /\ Moves(w) /\ worker'[w].pc = pc /\ worker'[w].obj = o
          /\ worker'[w].rv = Len(history') /\ worker'[w].tries = worker[w].tries
      BY <2>1, <2>2, <3>1, WorkerGoes
    <3> QED
      BY <1>2, <2>1, <3>1, <3>2 DEF Written, TypeOK
  <2> QED
    BY <2>3, <2>4
<1> QED
  BY <1>3, <1>4

LEMMA RemovalWrites ==
  ASSUME Types, NEW w \in Workers, RemoveFinalizer(w)
  PROVE  Written(w, [worker[w].obj EXCEPT !.fin = FALSE], "idle")
<1> DEFINE o == [worker[w].obj EXCEPT !.fin = FALSE]
<1>1. worker[w] \in Worker /\ TypeOK /\ worker[w].tries <= 2 /\ worker[w].pc = "removeFinalizer"
  BY DEF Types, TypeOK, RemoveFinalizer
<1>2. /\ history' = history \/ (worker[w].rv = Len(history) /\ history' = Stored(o))
      /\ failures' \in 0..MaxFailures /\ pending' \in BOOLEAN
  <2>1. history' = history \/ (worker[w].rv = Len(history) /\ history' = Stored(o))
    BY DEF RemoveFinalizer, Update
  <2>2. failures' = failures \/ (failures < MaxFailures /\ failures' = failures + 1)
    BY DEF RemoveFinalizer, Update
  <2>3. pending' = pending
    BY DEF RemoveFinalizer, Update
  <2> QED
    BY <1>1, <2>1, <2>2, <2>3, LifecycleAssumption DEF TypeOK
<1>3. CASE worker' = [worker EXCEPT ![w] = Idle]
  BY <1>1, <1>2, <1>3, WorkerFails DEF Written
<1>4. CASE worker' # [worker EXCEPT ![w] = Idle]
  <2> DEFINE x == [worker[w] EXCEPT !.tries = @ + 1]
  <2>1. Goes(w, x, "get")
    BY <1>4 DEF RemoveFinalizer, Update, Goes
  <2>2. x \in Worker /\ x.obj = worker[w].obj /\ x.rv = worker[w].rv
    BY <1>1 DEF Worker
  <2> HIDE DEF x
  <2>3. /\ Moves(w) /\ worker'[w].pc = "get" /\ worker'[w].obj = worker[w].obj
        /\ worker'[w].rv = worker[w].rv
    BY <1>1, <2>1, <2>2, WorkerGoes DEF Steps
  <2> QED
    BY <1>1, <1>2, <2>3 DEF Written
<1> QED
  BY <1>3, <1>4

LEMMA WrittenTypes ==
  ASSUME Types, NEW w \in Workers, NEW o \in Object, NEW pc, Written(w, o, pc),
         worker[w].pc # "get", UNCHANGED <<has, pos, held, ready, changes>>
  PROVE  Types'
<1>1. worker[w] \in Worker /\ worker[w].tries <= 2 /\ TypeOK /\ worker[w].rv <= Len(history)
  BY DEF Types, TypeOK
<1>2. /\ history' \in Seq(Object) /\ Len(history') >= Len(history) /\ Len(history') \in Nat
      /\ Len(history) \in Nat
  BY <1>1, StoredTypes, SomeHistory DEF Written
<1>3. (worker'[w].pc # "get" => worker'[w].tries <= 2) /\ worker'[w].rv <= Len(history')
  BY <1>1, <1>2, GoneIdle DEF Written, Worker
<1>4. /\ pending' \in BOOLEAN /\ failures' \in 0..MaxFailures /\ Moves(w)
      /\ held' \subseteq Uids /\ ready' \subseteq Uids /\ changes' \in 0..MaxChanges
  BY <1>1 DEF Written, TypeOK
<1> QED
  BY <1>2, <1>3, <1>4, WorkerTypes

LEMMA RecordedTypes ==
  ASSUME Types, NEW w \in Workers, NEW ok \in BOOLEAN, NEW changed \in BOOLEAN,
         NEW after \in {"setInitialized", "removeFinalizer", "idle"},
         Recorded(w, ok, changed, after), worker[w].pc # "get"
  PROVE  /\ Moves(w) /\ pending' \in BOOLEAN
         /\ changes' \in 0..MaxChanges /\ failures' \in 0..MaxFailures
         /\ \/ worker'[w] = Idle
            \/ /\ worker'[w].pc = IF changed THEN "record" ELSE after
               /\ worker'[w].obj = worker[w].obj /\ worker'[w].rv = worker[w].rv
               /\ worker'[w].after = IF ~changed THEN "idle" ELSE IF ok THEN after ELSE "error"
               /\ worker'[w].tries = worker[w].tries /\ (ok \/ changed)
<1>1. worker[w] \in Worker /\ TypeOK
  BY DEF Types, TypeOK
<1>2. changes' \in 0..MaxChanges /\ failures' \in 0..MaxFailures
  BY <1>1, LifecycleAssumption DEF TypeOK, Recorded
<1>3. CASE Fails(w)
  BY <1>1, <1>2, <1>3, WorkerFails DEF Fails
<1>4. CASE ~Fails(w)
  <2> DEFINE x == [worker[w] EXCEPT !.after = IF ~changed THEN "idle"
                                             ELSE IF ok THEN after ELSE "error"]
             pc == IF changed THEN "record" ELSE after
  <2>1. Goes(w, x, pc) /\ pending' = pending /\ (ok \/ changed)
    BY <1>4 DEF Recorded
  <2>2. /\ x \in Worker /\ x.obj = worker[w].obj /\ x.rv = worker[w].rv
        /\ x.tries = worker[w].tries
        /\ x.after = IF ~changed THEN "idle" ELSE IF ok THEN after ELSE "error"
    BY <1>1 DEF Worker, Steps
  <2>3. pc \in Steps
    BY DEF Steps
  <2> HIDE DEF x, pc
  <2>4. CASE pc = "idle"
    BY <1>1, <1>2, <2>1, <2>4, WorkerFails DEF Goes, TypeOK
  <2>5. CASE pc # "idle"
    <3>1. /\ Moves(w) /\ worker'[w].pc = pc /\ worker'[w].obj = x.obj
          /\ worker'[w].rv = x.rv /\ worker'[w].after = x.after /\ worker'[w].tries = x.tries
      BY <1>1, <2>1, <2>2, <2>3, <2>5, WorkerGoes
    <3> QED
      BY <1>1, <1>2, <2>1, <2>2, <3>1 DEF TypeOK, pc
  <2> QED
    BY <2>4, <2>5
<1> QED
  BY <1>3, <1>4

(* What Sync does.                                                         *)
LEMMA SyncStep ==
  ASSUME Types, NEW w \in Workers, Sync(w)
  PROVE  /\ Moves(w)
         /\ \/ worker'[w] = worker[w]
            \/ /\ worker'[w].pc = Dispatch(history[pos]) /\ worker'[w].pc # "idle"
               /\ worker'[w].obj = history[pos] /\ worker'[w].rv = pos
               /\ worker'[w].tries = 0 /\ history[pos] # Gone
<1>1. worker[w] \in Worker /\ TypeOK /\ history[pos] \in Object
  BY DEF Types, TypeOK
<1>2. CASE worker' = worker
  BY <1>1, <1>2 DEF Moves, TypeOK
<1>3. CASE worker' # worker
  <2> DEFINE x == [Idle EXCEPT !.pc = Dispatch(history[pos]), !.obj = history[pos], !.rv = pos]
  <2>1. /\ worker' = [worker EXCEPT ![w] = x]
        /\ history[pos] # Gone /\ Dispatch(history[pos]) # "idle"
    BY <1>3 DEF Sync
  <2>2. Dispatch(history[pos]) \in Steps
    BY DEF Dispatch, Steps
  <2>3. /\ x \in Worker /\ x.pc = Dispatch(history[pos]) /\ x.obj = history[pos]
        /\ x.rv = pos /\ x.tries = 0
    <3>1. pos \in Nat
      BY <1>1, SomeHistory DEF TypeOK
    <3> QED
      BY <1>1, <2>2, <3>1, GoneIdle DEF Worker
  <2> HIDE DEF x
  <2>4. Moves(w) /\ worker'[w] = x
    BY <1>1, <2>1, <2>3 DEF Moves, TypeOK
  <2> QED
    BY <2>1, <2>3, <2>4
<1> QED
  BY <1>2, <1>3

(* What GetAgain does.                                                     *)
LEMMA GetAgainStep ==
  ASSUME Types, NEW w \in Workers, GetAgain(w)
  PROVE  /\ Moves(w) /\ pending' \in BOOLEAN
         /\ \/ worker'[w] = Idle
            \/ /\ worker'[w].pc = "removeFinalizer" /\ Server # Gone
               /\ worker'[w].obj = Server /\ worker'[w].rv = Len(history)
               /\ worker'[w].tries <= 2
<1>1. worker[w] \in Worker /\ TypeOK /\ Server \in Object /\ Len(history) \in Nat
  BY SomeHistory DEF Types, TypeOK
<1>2. CASE Fails(w)
  BY <1>1, <1>2, WorkerFails DEF Fails
<1>3. CASE ~Fails(w)
  <2> DEFINE x == [worker[w] EXCEPT !.obj = Server, !.rv = Len(history)]
  <2>1. /\ Goes(w, x, "removeFinalizer") /\ pending' = pending
        /\ Server # Gone /\ worker[w].tries # 3
    BY <1>3 DEF GetAgain
  <2>2. /\ x \in Worker /\ x.obj = Server /\ x.rv = Len(history) /\ x.tries <= 2
    <3>1. worker[w].tries \in 0..3 /\ worker[w].tries <= 2
      BY <1>1, <2>1 DEF Worker
    <3>2. x \in Worker /\ x.obj = Server /\ x.rv = Len(history) /\ x.tries = worker[w].tries
      BY <1>1 DEF Worker
    <3> QED
      BY <3>1, <3>2
  <2> HIDE DEF x
  <2>3. /\ Moves(w) /\ worker'[w].pc = "removeFinalizer" /\ worker'[w].obj = x.obj
        /\ worker'[w].rv = x.rv /\ worker'[w].tries = x.tries
    BY <1>1, <2>1, <2>2, WorkerGoes DEF Steps
  <2> QED
    BY <1>1, <2>1, <2>2, <2>3 DEF TypeOK
<1> QED
  BY <1>2, <1>3

(* Versions that are added leave the object types as they are.             *)
LEMMA HistoryTypes ==
  ASSUME Types, NEW o \in Object, history' = Append(history, o) \/ history' = Stored(o),
         changes' \in 0..MaxChanges,
         UNCHANGED <<has, pos, pending, worker, held, ready, failures>>
  PROVE  Types'
<1>1. /\ history' \in Seq(Object) /\ Len(history') \in Nat /\ Len(history) \in Nat
      /\ Len(history') >= Len(history)
  BY SomeHistory, StoredTypes DEF Types
<1>2. \A w \in Workers : worker[w].rv \in Nat /\ worker[w].rv <= Len(history)
  BY DEF Types, TypeOK, Worker
<1>3. \A w \in Workers : worker[w].rv <= Len(history')
  BY <1>1, <1>2
<1>4. Workers' = Workers /\ pos' \in 1..Len(history')
  BY <1>1 DEF Workers, Types, TypeOK
<1> QED
  BY <1>1, <1>3, <1>4 DEF Types, TypeOK

LEMMA CallObject ==
  ASSUME Types, HistoryInv, CallInv, NEW w \in Workers, worker[w].pc # "idle"
  PROVE  /\ worker[w].obj \in Object /\ worker[w].obj.uid \in Uids
         /\ worker[w].rv \in 1..Len(history) /\ worker[w].obj = history[worker[w].rv]
         /\ worker[w].rv = Len(history) => worker[w].obj = Server
         /\ worker[w].obj.deleted => worker[w].obj.fin \/ worker[w].obj.other
<1>1. /\ worker[w].obj \in Object /\ worker[w].rv \in DOMAIN history
      /\ worker[w].obj = history[worker[w].rv] /\ worker[w].obj # Gone
  BY DEF Types, TypeOK, Worker, CallInv
<1>2. worker[w].obj.uid # 0 /\ (worker[w].obj.deleted => worker[w].obj.fin \/ worker[w].obj.other)
  BY <1>1 DEF HistoryInv
<1>3. worker[w].obj.uid \in Uids
  BY <1>1, <1>2, LifecycleAssumption DEF Uids, Object
<1>4. DOMAIN history = 1..Len(history) /\ Server = history[Len(history)]
  BY SomeHistory DEF Types, Server
<1> QED
  BY <1>1, <1>2, <1>3, <1>4

LEMMA TypesStep ==
  ASSUME Types, HistoryInv, CallInv, [Next]_vars
  PROVE  Types'
<1> USE DEF Types
<1>0. TypeOK /\ history \in Seq(Object) /\ Len(history) \in Nat \ {0} /\ Server \in Object
  BY SomeHistory
<1>1. ASSUME NEW uid \in Uids, NEW other \in BOOLEAN, UserCreates(uid, other)
      PROVE  Types'
  <2>1. [Gone EXCEPT !.uid = uid, !.other = other] \in Object
    <3>1. uid \in 0..MaxObjects
      BY LifecycleAssumption DEF Uids
    <3> QED
      BY <3>1, GoneIdle DEF Object
  <2> QED
    BY <1>1, <2>1, <1>0, HistoryTypes DEF UserCreates, TypeOK
<1>2. CASE UserDeletes
  <2>1. [Server EXCEPT !.deleted = TRUE] \in Object
    BY <1>0 DEF Object
  <2> QED
    BY <1>2, <2>1, <1>0, HistoryTypes DEF UserDeletes, TypeOK
<1>3. CASE UserChanges
  BY <1>3, <1>0, HistoryTypes, LifecycleAssumption DEF UserChanges, TypeOK
<1>4. CASE OtherFinalizes
  <2>1. [Server EXCEPT !.other = FALSE] \in Object
    BY <1>0 DEF Object
  <2> QED
    BY <1>4, <2>1, <1>0, HistoryTypes DEF OtherFinalizes, TypeOK
<1>5. CASE Watch
  BY <1>5, <1>0 DEF Watch, TypeOK, Workers
<1>6. CASE Enqueue
  BY <1>6 DEF Enqueue, TypeOK, Workers
<1>7. CASE Crash
  <2>1. Workers' = Workers /\ worker' \in [Workers -> Worker] /\ \A w \in Workers : worker'[w] = Idle
    BY <1>7, GoneIdle DEF Crash, Workers
  <2>2. pos' \in 1..Len(history) /\ failures' \in 0..MaxFailures
    BY <1>7, <1>0, LifecycleAssumption DEF Crash, TypeOK
  <2> QED
    BY <1>7, <2>1, <2>2, <1>0, GoneIdle DEF Crash, TypeOK
<1>8. ASSUME NEW w \in Workers, WorkerStep(w)
      PROVE  Types'
  <2>0. worker[w] \in Worker /\ worker[w].rv \in Nat /\ worker[w].rv <= Len(history)
    BY DEF TypeOK, Worker
  <2>1. CASE Sync(w)
    <3>1. worker'[w].rv <= Len(history) /\ (worker'[w].pc # "get" => worker'[w].tries <= 2)
      BY <2>0, <2>1, SyncStep DEF TypeOK
    <3>2. /\ pending' \in BOOLEAN /\ UNCHANGED <<has, history, pos>>
          /\ held' \subseteq Uids /\ ready' \subseteq Uids
          /\ changes' \in 0..MaxChanges /\ failures' \in 0..MaxFailures
      BY <2>1 DEF Sync, TypeOK
    <3> QED
      BY <2>1, <3>1, <3>2, <1>0, SyncStep, WorkerTypes
  <2>2. CASE AddFinalizer(w)
    <3>1. [worker[w].obj EXCEPT !.fin = TRUE] \in Object
      BY <2>0 DEF Worker, Object
    <3>2. (IF has.create THEN "create" ELSE "updated") \in Steps \cup {"error"}
      BY DEF Steps
    <3> QED
      BY <1>0, <2>2, <3>1, <3>2, UpdateWrites, WrittenTypes DEF AddFinalizer
  <2>3. ASSUME NEW ok \in BOOLEAN, NEW changed \in BOOLEAN, Create(w, ok, changed)
        PROVE  Types'
    <3>1. worker[w].pc = "create" /\ worker[w].obj.uid \in Uids
      BY <2>3, CallObject DEF Create
    <3>2. held' \subseteq Uids /\ ready' \subseteq Uids
      BY <2>3, <3>1 DEF Create, TypeOK
    <3> QED
      BY <1>0, <2>0, <2>3, <3>1, <3>2, RecordedTypes, WorkerTypes, GoneIdle DEF Create
  <2>4. ASSUME NEW ok \in BOOLEAN, NEW changed \in BOOLEAN, Finalize(w, ok, changed)
        PROVE  Types'
    <3>1. held' \subseteq Uids /\ ready' \subseteq Uids
      BY <2>4 DEF Finalize, TypeOK
    <3> QED
      BY <1>0, <2>0, <2>4, <3>1, RecordedTypes, WorkerTypes, GoneIdle DEF Finalize
  <2>5. ASSUME NEW ok \in BOOLEAN, NEW changed \in BOOLEAN, Updated(w, ok, changed)
        PROVE  Types'
    <3>1. held' \subseteq Uids /\ ready' \subseteq Uids
      BY <2>5 DEF Updated, TypeOK
    <3> QED
      BY <1>0, <2>0, <2>5, <3>1, RecordedTypes, WorkerTypes, GoneIdle DEF Updated
  <2>6. CASE RecordUpdate(w)
    <3>1. worker[w].obj \in Object /\ worker[w].after \in Steps \cup {"error"}
      BY <2>0 DEF Worker
    <3> QED
      BY <1>0, <2>6, <3>1, UpdateWrites, WrittenTypes DEF RecordUpdate
  <2>7. CASE SetInitialized(w)
    <3>1. [worker[w].obj EXCEPT !.init = TRUE] \in Object
      BY <2>0 DEF Worker, Object
    <3>2. "idle" \in Steps
      BY DEF Steps
    <3> QED
      BY <1>0, <2>7, <3>1, <3>2, UpdateWrites, WrittenTypes DEF SetInitialized
  <2>8. CASE RemoveFinalizer(w)
    <3>1. [worker[w].obj EXCEPT !.fin = FALSE] \in Object
      BY <2>0 DEF Worker, Object
    <3> QED
      BY <2>8, <3>1, RemovalWrites, WrittenTypes DEF RemoveFinalizer
  <2>9. CASE GetAgain(w)
    <3>1. /\ UNCHANGED <<has, history, pos>> /\ held' \subseteq Uids /\ ready' \subseteq Uids
          /\ changes' \in 0..MaxChanges /\ failures' \in 0..MaxFailures
      BY <2>9 DEF GetAgain, TypeOK
    <3> QED
      BY <1>0, <2>9, <3>1, GetAgainStep, WorkerTypes, GoneIdle
  <2>10. CASE GetFails(w)
    <3>1. failures' \in 0..MaxFailures
      BY <2>10, LifecycleAssumption DEF GetFails, TypeOK
    <3>2. /\ pending' \in BOOLEAN /\ UNCHANGED <<has, history, pos>>
          /\ held' \subseteq Uids /\ ready' \subseteq Uids /\ changes' \in 0..MaxChanges
      BY <2>10 DEF GetFails, Fails, TypeOK
    <3>3. Moves(w) /\ worker'[w] = Idle
      BY <1>0, <2>10, WorkerFails DEF GetFails, Fails
    <3> QED
      BY <1>0, <3>1, <3>2, <3>3, WorkerTypes, GoneIdle
  <2> QED
    BY <1>8, <2>1, <2>2, <2>3, <2>4, <2>5, <2>6, <2>7, <2>8, <2>9, <2>10 DEF WorkerStep, Callback
<1>9. CASE UNCHANGED vars
  BY <1>9 DEF vars, TypeOK, Workers
<1> QED
  BY <1>1, <1>2, <1>3, <1>4, <1>5, <1>6, <1>7, <1>8, <1>9 DEF Next

-----------------------------------------------------------------------------
(* The history and the calls.                                              *)

LEMMA SameHistory == ASSUME HistoryInv, history' = history PROVE HistoryInv'
BY DEF HistoryInv

LEMMA WrittenHistory ==
  ASSUME Types, HistoryInv, CallInv, NEW w \in Workers, worker[w].pc # "idle",
         NEW o \in Object, NEW pc, Written(w, o, pc),
         o.uid = worker[w].obj.uid, o.deleted = worker[w].obj.deleted
  PROVE  HistoryInv'
<1>1. CASE history' = history
  BY <1>1, SameHistory
<1>2. CASE worker[w].rv = Len(history) /\ history' = Stored(o)
  <2>1. worker[w].obj = Server /\ worker[w].obj.uid # 0 /\ TypeOK
    BY <1>2, CallObject, LifecycleAssumption DEF Uids, Types
  <2> QED
    BY <1>2, <2>1, FollowingVersion
<1> QED
  BY <1>1, <1>2 DEF Written

LEMMA HistoryStep ==
  ASSUME Types, HistoryInv, CallInv, [Next]_vars
  PROVE  HistoryInv'
<1>0. /\ TypeOK /\ history \in Seq(Object) /\ Len(history) \in Nat \ {0}
      /\ Server \in Object /\ DOMAIN history = 1..Len(history) /\ Server = history[Len(history)]
  BY SomeHistory DEF Types, Server
<1>a. Server # Gone => Server.uid # 0
  <2>1. Len(history) \in DOMAIN history
    BY <1>0
  <2> QED
    BY <1>0, <2>1 DEF HistoryInv
<1>1. ASSUME NEW uid \in Uids, NEW other \in BOOLEAN, UserCreates(uid, other)
      PROVE  HistoryInv'
  <2> DEFINE x == [Gone EXCEPT !.uid = uid, !.other = other]
  <2>1. x.uid = uid /\ x.uid # 0 /\ x.deleted = FALSE /\ x \in Object
    <3>1. uid \in 0..MaxObjects /\ uid # 0
      BY LifecycleAssumption DEF Uids
    <3>2. x \in Object /\ x.uid = uid /\ x.deleted = Gone.deleted
      BY <3>1, GoneIdle DEF Object
    <3> QED
      BY <3>1, <3>2 DEF Gone
  <2>2. history' = Append(history, x) /\ \A n \in DOMAIN history : history[n].uid < uid
    BY <1>1 DEF UserCreates
  <2> HIDE DEF x
  <2>3. /\ DOMAIN history' = 1..Len(history) + 1 /\ history'[Len(history) + 1] = x
        /\ \A n \in DOMAIN history : history'[n] = history[n]
    BY <1>0, <2>1, <2>2
  <2>4. ASSUME NEW m \in DOMAIN history', NEW n \in DOMAIN history', m <= n,
               history'[m].uid = history'[n].uid, history'[m].deleted
        PROVE  history'[n].deleted
    <3>1. CASE m \in DOMAIN history /\ n \in DOMAIN history
      BY <2>3, <2>4, <3>1 DEF HistoryInv
    <3>2. CASE m = Len(history) + 1
      BY <2>1, <2>3, <2>4, <3>2
    <3>3. CASE m \in DOMAIN history /\ n = Len(history) + 1
      <4>1. history[m].uid < uid /\ history[m].uid \in Int /\ uid \in Int
        <5>1. history[m] \in Object
          BY <1>0, <3>3
        <5>2. history[m].uid \in 0..MaxObjects /\ uid \in 1..MaxObjects
          BY <5>1 DEF Object, Uids
        <5> QED
          BY <2>2, <3>3, <5>2, LifecycleAssumption
      <4> QED
        BY <2>1, <2>3, <2>4, <3>3, <4>1
    <3> QED
      BY <1>0, <2>3, <2>4, <3>1, <3>2, <3>3
  <2>5. ASSUME NEW n \in DOMAIN history'
        PROVE  /\ history'[n].uid = 0 => history'[n] = Gone
               /\ history'[n].deleted => history'[n].fin \/ history'[n].other
    <3>1. CASE n \in DOMAIN history
      BY <2>3, <3>1 DEF HistoryInv
    <3>2. CASE n = Len(history) + 1
      BY <2>1, <2>3, <3>2
    <3> QED
      BY <1>0, <2>3, <2>5, <3>1, <3>2
  <2> QED
    BY <2>4, <2>5 DEF HistoryInv, Gone
<1>2. CASE UserDeletes
  <2>1. /\ [Server EXCEPT !.deleted = TRUE] \in Object /\ Server.uid # 0
        /\ [Server EXCEPT !.deleted = TRUE].uid = Server.uid
        /\ [Server EXCEPT !.deleted = TRUE].deleted
    BY <1>0, <1>a, <1>2 DEF Object, UserDeletes
  <2> QED
    BY <1>0, <1>2, <2>1, FollowingVersion DEF UserDeletes
<1>3. CASE UserChanges
  <2>1. Server.uid # 0 /\ history' = Stored(Server)
    BY <1>0, <1>3 DEF UserChanges, HistoryInv, Stored
  <2> QED
    BY <1>0, <2>1, FollowingVersion
<1>4. CASE OtherFinalizes
  <2>0. Server # Gone
    BY <1>4 DEF OtherFinalizes, Gone
  <2>1. /\ [Server EXCEPT !.other = FALSE] \in Object /\ Server.uid # 0
        /\ [Server EXCEPT !.other = FALSE].uid = Server.uid
        /\ [Server EXCEPT !.other = FALSE].deleted
    BY <1>0, <1>a, <1>4, <2>0 DEF Object, OtherFinalizes
  <2> QED
    BY <1>0, <1>4, <2>1, FollowingVersion DEF OtherFinalizes
<1>5. CASE Watch \/ Enqueue \/ Crash \/ UNCHANGED vars
  BY <1>5, SameHistory DEF Watch, Enqueue, Crash, vars
<1>6. ASSUME NEW w \in Workers, WorkerStep(w)
      PROVE  HistoryInv'
  <2>0. worker[w] \in Worker /\ worker[w].obj \in Object /\ worker[w].after \in Steps \cup {"error"}
    BY <1>0 DEF TypeOK, Worker
  <2>1. CASE AddFinalizer(w)
    <3> DEFINE o == [worker[w].obj EXCEPT !.fin = TRUE]
    <3>1. o \in Object /\ o.uid = worker[w].obj.uid /\ o.deleted = worker[w].obj.deleted
      BY <2>0 DEF Object
    <3>2. Written(w, o, IF has.create THEN "create" ELSE "updated")
      BY <1>0, <2>1, <3>1, UpdateWrites DEF AddFinalizer, Steps
    <3> QED
      BY <2>1, <3>1, <3>2, WrittenHistory DEF AddFinalizer
  <2>2. CASE RecordUpdate(w)
    BY <1>0, <2>0, <2>2, UpdateWrites, WrittenHistory DEF RecordUpdate
  <2>3. CASE SetInitialized(w)
    <3> DEFINE o == [worker[w].obj EXCEPT !.init = TRUE]
    <3>1. o \in Object /\ o.uid = worker[w].obj.uid /\ o.deleted = worker[w].obj.deleted
      BY <2>0 DEF Object
    <3>2. Written(w, o, "idle")
      BY <1>0, <2>3, <3>1, UpdateWrites DEF SetInitialized, Steps
    <3> QED
      BY <2>3, <3>1, <3>2, WrittenHistory DEF SetInitialized
  <2>4. CASE RemoveFinalizer(w)
    <3> DEFINE o == [worker[w].obj EXCEPT !.fin = FALSE]
    <3>1. o \in Object /\ o.uid = worker[w].obj.uid /\ o.deleted = worker[w].obj.deleted
      BY <2>0 DEF Object
    <3> QED
      BY <2>4, <3>1, RemovalWrites, WrittenHistory DEF RemoveFinalizer
  <2>5. CASE Sync(w) \/ Callback(w) \/ GetAgain(w) \/ GetFails(w)
    BY <2>5, SameHistory DEF Sync, Callback, Create, Finalize, Updated, GetAgain, GetFails
  <2> QED
    BY <1>6, <2>1, <2>2, <2>3, <2>4, <2>5 DEF WorkerStep
<1> QED
  BY <1>1, <1>2, <1>3, <1>4, <1>5, <1>6 DEF Next

(* What CallInv says of one worker.                                        *)
CallOK(x) ==
  x.pc # "idle" =>
    /\ x.rv \in DOMAIN history /\ x.obj = history[x.rv] /\ x.obj # Gone
    /\ x.pc = "addFinalizer" => x.rv <= pos
    /\ x.pc = "record" => x.after \in {"setInitialized", "removeFinalizer", "idle", "error"}

LEMMA OtherCalls ==
  ASSUME Types, CallInv, NEW v \in Workers, worker'[v] = worker[v],
         NEW p \in Nat, pos' = p, p >= pos,
         DOMAIN history \subseteq DOMAIN history',
         \A n \in DOMAIN history : history'[n] = history[n]
  PROVE  CallOK(worker[v])'
<1>1. worker[v].rv \in Nat /\ pos \in Nat
  BY SomeHistory DEF Types, TypeOK, Worker
<1> QED
  BY <1>1 DEF CallInv, CallOK

LEMMA WorkerCalls ==
  ASSUME Types, CallInv, NEW w \in Workers, Moves(w), pos' = pos,
         DOMAIN history \subseteq DOMAIN history',
         \A n \in DOMAIN history : history'[n] = history[n],
         CallOK(worker[w])'
  PROVE  CallInv'
<1>1. Workers' = Workers /\ pos \in Nat
  BY SomeHistory DEF Workers, Moves, Types, TypeOK
<1>2. \A v \in Workers : CallOK(worker[v])'
  <2> TAKE v \in Workers
  <2>1. CASE v = w
    BY <2>1
  <2>2. CASE v # w
    BY <1>1, <2>2, OtherCalls DEF Moves
  <2> QED
    BY <2>1, <2>2
<1> QED
  BY <1>1, <1>2 DEF CallInv, CallOK

LEMMA WrittenCalls ==
  ASSUME Types, HistoryInv, CallInv, NEW w \in Workers, worker[w].pc # "idle",
         NEW o \in Object, o # Gone, NEW pc, Written(w, o, pc),
         pc \notin {"idle", "error"} => (o.deleted => o.fin \/ o.other),
         pc \notin {"record", "addFinalizer"}, pos' = pos
  PROVE  CallInv'
<1>0. TypeOK
  BY DEF Types
<1>1. /\ DOMAIN history \subseteq DOMAIN history' /\ Moves(w)
      /\ \A n \in DOMAIN history : history'[n] = history[n]
  BY <1>0, StoredTypes DEF Written
<1>2. CASE worker'[w] = Idle
  BY <1>1, <1>2, GoneIdle, WorkerCalls DEF CallOK
<1>3. CASE worker'[w].pc = "get" /\ worker'[w].obj = worker[w].obj /\ worker'[w].rv = worker[w].rv
  <2>1. CallOK(worker[w])'
    BY <1>1, <1>3 DEF CallInv, CallOK
  <2> QED
    BY <1>1, <2>1, WorkerCalls
<1>4. CASE /\ pc \in Steps \ {"idle"} /\ worker[w].rv = Len(history)
           /\ history' = Stored(o) \/ (history' = history /\ o = Server)
           /\ worker'[w].obj = o /\ worker'[w].rv = Len(history') /\ worker'[w].pc = pc
  <2>1. history \in Seq(Object) /\ Len(history) \in Nat \ {0} /\ Server = history[Len(history)]
    BY <1>0, SomeHistory DEF Server
  <2>2. pc # "error"
    BY <1>4 DEF Steps
  <2>3. Len(history') \in DOMAIN history' /\ history'[Len(history')] = o
    <3>1. CASE history' = history /\ o = Server
      BY <2>1, <3>1
    <3>2. CASE history' = Stored(o)
      <4>1. history' = Append(history, o)
        BY <1>4, <2>2, <3>2 DEF Stored
      <4> QED
        BY <2>1, <4>1
    <3> QED
      BY <1>4, <3>1, <3>2
  <2>4. CallOK(worker[w])'
    BY <1>4, <2>3 DEF CallOK
  <2> QED
    BY <1>1, <2>4, WorkerCalls
<1> QED
  BY <1>2, <1>3, <1>4 DEF Written

LEMMA CallsStep ==
  ASSUME Types, HistoryInv, CallInv, [Next]_vars
  PROVE  CallInv'
<1>0. /\ TypeOK /\ history \in Seq(Object) /\ Len(history) \in Nat \ {0}
      /\ Server \in Object /\ DOMAIN history = 1..Len(history) /\ Server = history[Len(history)]
      /\ pos \in 1..Len(history)
  BY SomeHistory DEF Types, TypeOK, Server
<1>1. CASE \/ \E uid \in Uids, other \in BOOLEAN : UserCreates(uid, other)
           \/ UserDeletes \/ UserChanges \/ OtherFinalizes \/ Watch \/ Enqueue \/ UNCHANGED vars
  <2>0. worker' = worker /\ (pos' = pos \/ pos' = pos + 1)
    BY <1>1 DEF UserCreates, UserDeletes, UserChanges, OtherFinalizes, Watch, Enqueue, vars
  <2>1. worker' = worker /\ pos' \in Nat /\ pos' >= pos
    BY <1>0, <2>0
  <2>2. history' = history \/ \E x : history' = Append(history, x)
    BY <1>1 DEF UserCreates, UserDeletes, UserChanges, OtherFinalizes, Watch, Enqueue, vars, Stored
  <2>3. /\ DOMAIN history \subseteq DOMAIN history'
        /\ \A n \in DOMAIN history : history'[n] = history[n]
    BY <1>0, <2>2
  <2>4. \A v \in Workers : CallOK(worker[v])'
    BY <2>1, <2>3, OtherCalls
  <2> QED
    BY <2>1, <2>4 DEF CallInv, CallOK, Workers
<1>2. CASE Crash
  <2>1. \A v \in Workers' : worker'[v] = Idle
    BY <1>2 DEF Crash, Workers
  <2> QED
    BY <2>1, GoneIdle DEF CallInv
<1>3. ASSUME NEW w \in Workers, WorkerStep(w)
      PROVE  CallInv'
  <2>0. worker[w] \in Worker /\ worker[w].obj \in Object /\ worker[w].after \in Steps \cup {"error"}
    BY <1>0 DEF TypeOK, Worker
  <2>a. worker[w].pc # "idle" => /\ worker[w].obj # Gone
                                 /\ worker[w].obj.deleted => worker[w].obj.fin \/ worker[w].obj.other
    BY CallObject DEF CallInv
  <2>1. CASE AddFinalizer(w)
    <3> DEFINE o == [worker[w].obj EXCEPT !.fin = TRUE]
               pc == IF has.create THEN "create" ELSE "updated"
    <3>1. o \in Object /\ o.fin = TRUE /\ o # Gone
      BY <2>0 DEF Object, Gone
    <3>2. Written(w, o, pc) /\ pc \notin {"record", "addFinalizer"}
      BY <1>0, <2>1, <3>1, UpdateWrites DEF AddFinalizer, Steps
    <3> HIDE DEF o, pc
    <3> QED
      BY <2>1, <3>1, <3>2, WrittenCalls DEF AddFinalizer
  <2>2. CASE RecordUpdate(w)
    <3>1. worker[w].pc = "record" /\ worker[w].after \in {"setInitialized", "removeFinalizer", "idle", "error"}
      BY <2>2 DEF RecordUpdate, CallInv
    <3>2. Written(w, worker[w].obj, worker[w].after) /\ pos' = pos
      BY <1>0, <2>0, <2>2, UpdateWrites DEF RecordUpdate
    <3> QED
      BY <2>0, <2>a, <3>1, <3>2, WrittenCalls
  <2>3. CASE SetInitialized(w)
    <3> DEFINE o == [worker[w].obj EXCEPT !.init = TRUE]
    <3>1. o \in Object /\ o.init = TRUE /\ o # Gone
      BY <2>0 DEF Object, Gone
    <3>2. Written(w, o, "idle")
      BY <1>0, <2>3, <3>1, UpdateWrites DEF SetInitialized, Steps
    <3> HIDE DEF o
    <3> QED
      BY <2>3, <3>1, <3>2, WrittenCalls DEF SetInitialized
  <2>4. CASE RemoveFinalizer(w)
    <3> DEFINE o == [worker[w].obj EXCEPT !.fin = FALSE]
    <3>1. worker[w].pc = "removeFinalizer" /\ pos' = pos
      BY <2>4 DEF RemoveFinalizer
    <3>2. worker[w].obj.uid # 0
      BY <3>1, CallObject, LifecycleAssumption DEF Uids
    <3>3. o \in Object /\ o # Gone
      BY <2>0, <3>2 DEF Object, Gone
    <3>4. Written(w, o, "idle")
      BY <2>4, RemovalWrites
    <3> HIDE DEF o
    <3> QED
      BY <3>1, <3>3, <3>4, WrittenCalls
  <2>5. CASE Sync(w)
    <3>1. CallOK(worker[w])'
      <4>1. history' = history /\ pos' = pos /\ pos \in DOMAIN history
        BY <1>0, <2>5 DEF Sync
      <4>2. Dispatch(history[pos]) # "record"
        BY DEF Dispatch
      <4>3. CASE worker'[w] = worker[w]
        BY <4>1, <4>3 DEF CallInv, CallOK
      <4>4. CASE worker'[w] # worker[w]
        BY <1>0, <2>5, <4>1, <4>2, <4>4, SyncStep DEF CallOK
      <4> QED
        BY <4>3, <4>4
    <3> QED
      BY <2>5, <3>1, SyncStep, WorkerCalls DEF Sync
  <2>6. ASSUME NEW ok \in BOOLEAN, NEW changed \in BOOLEAN,
               NEW after \in {"setInitialized", "removeFinalizer", "idle"},
               Recorded(w, ok, changed, after), worker[w].pc \notin {"get", "idle"},
               UNCHANGED <<history, pos>>
        PROVE  CallInv'
    <3>1. CallOK(worker[w])'
      BY <2>6, RecordedTypes, GoneIdle DEF CallOK, CallInv
    <3> QED
      BY <2>6, <3>1, RecordedTypes, WorkerCalls
  <2>7. CASE Callback(w)
    <3>1. PICK ok \in BOOLEAN, changed \in BOOLEAN :
            Create(w, ok, changed) \/ Finalize(w, ok, changed) \/ Updated(w, ok, changed)
      BY <2>7 DEF Callback
    <3>2. CASE Create(w, ok, changed)
      BY <2>6, <3>2 DEF Create
    <3>3. CASE Finalize(w, ok, changed)
      BY <2>6, <3>3 DEF Finalize
    <3>4. CASE Updated(w, ok, changed)
      BY <2>6, <3>4 DEF Updated
    <3> QED
      BY <3>1, <3>2, <3>3, <3>4
  <2>8. CASE GetAgain(w)
    <3>1. CallOK(worker[w])' /\ UNCHANGED <<history, pos>>
      <4>1. UNCHANGED <<history, pos>> /\ Len(history) \in DOMAIN history
        BY <1>0, <2>8 DEF GetAgain
      <4>2. CASE worker'[w] = Idle
        BY <4>1, <4>2, GoneIdle DEF CallOK
      <4>3. CASE worker'[w] # Idle
        BY <1>0, <2>8, <4>1, <4>3, GetAgainStep DEF CallOK
      <4> QED
        BY <4>1, <4>2, <4>3
    <3> QED
      BY <2>8, <3>1, GetAgainStep, WorkerCalls
  <2>9. CASE GetFails(w)
    <3>1. Moves(w) /\ worker'[w] = Idle /\ UNCHANGED <<history, pos>>
      BY <1>0, <2>9, WorkerFails DEF GetFails, Fails
    <3> QED
      BY <3>1, WorkerCalls, GoneIdle DEF CallOK
  <2> QED
    BY <1>3, <2>1, <2>2, <2>3, <2>4, <2>5, <2>7, <2>8, <2>9 DEF WorkerStep
<1> QED
  BY <1>1, <1>2, <1>3 DEF Next

-----------------------------------------------------------------------------
(* The protection.                                                         *)

(* A version that keeps the finalizer and the uid, or that never had it.   *)
LEMMA KeptVersion ==
  ASSUME Types, ProtectedHistory, NEW x \in Object, UNCHANGED <<pos, held>>,
         history' = history \/ history' = Append(history, x),
         (x.uid = Server.uid /\ x.fin = Server.fin) \/ (~Server.fin /\ ~x.fin)
  PROVE  /\ ProtectedHistory' /\ history'[pos] = history[pos]
         /\ Server'.fin => Server.fin
         /\ Server.fin => Server'.fin /\ Server'.uid = Server.uid
<1>0. /\ history \in Seq(Object) /\ Len(history) \in Nat \ {0} /\ pos \in 1..Len(history)
      /\ Server = history[Len(history)] /\ Server' = history'[Len(history')]
  BY SomeHistory DEF Types, TypeOK, Server
<1>1. CASE history' = history
  BY <1>0, <1>1 DEF ProtectedHistory, Server
<1>2. CASE history' = Append(history, x)
  <2>1. /\ Len(history') = Len(history) + 1 /\ Server' = x
        /\ \A n \in 1..Len(history) : history'[n] = history[n]
        /\ history'[Len(history) + 1] = x
    BY <1>0, <1>2
  <2>2. \A n \in pos..Len(history') : n \in pos..Len(history) \/ n = Len(history) + 1
    BY <1>0, <2>1
  <2>3. \A n \in pos..Len(history) : history'[n] = history[n]
    BY <1>0, <2>1
  <2>4. CASE x.uid = Server.uid /\ x.fin = Server.fin
    BY <1>0, <2>1, <2>2, <2>3, <2>4 DEF ProtectedHistory
  <2>5. CASE ~Server.fin /\ ~x.fin
    BY <1>0, <2>1, <2>2, <2>3, <2>5 DEF ProtectedHistory
  <2> QED
    BY <2>4, <2>5
<1> QED
  BY <1>1, <1>2

(* A change by somebody else.                                              *)
LEMMA ForeignVersion ==
  ASSUME Types, ProtectionInv, NEW x \in Object, UNCHANGED <<pos, held, worker>>,
         history' = Append(history, x),
         (x.uid = Server.uid /\ x.fin = Server.fin) \/ (~Server.fin /\ ~x.fin)
  PROVE  ProtectionInv'
<1>1. /\ ProtectedHistory' /\ history'[pos] = history[pos]
      /\ Server'.fin => Server.fin
      /\ Server.fin => Server'.fin /\ Server'.uid = Server.uid
  BY KeptVersion DEF ProtectionInv
<1>2. Workers' = Workers
  BY DEF Workers
<1>3. \A w \in Workers : ProtectingCall(w)'
  BY <1>1 DEF ProtectionInv, ProtectingCall, Releasing
<1> QED
  BY <1>1, <1>2, <1>3 DEF ProtectionInv

(* A step of the one worker.                                               *)
LEMMA OneWorker ==
  ASSUME OneAtATime, NEW w \in Workers, Moves(w), ProtectedHistory', ProtectingCall(w)'
  PROVE  ProtectionInv'
<1>1. Workers' = Workers /\ \A v \in Workers : v = w
  BY DEF OneAtATime, Moves, Workers
<1> QED
  BY <1>1 DEF ProtectionInv

(* The informer's store follows.                                           *)
LEMMA LaterStore ==
  ASSUME Types, HistoryInv, ProtectionInv, NEW p \in pos..Len(history), pos' = p,
         UNCHANGED <<history, held>>
  PROVE  /\ ProtectedHistory' /\ Server' = Server
         /\ Server.fin => (history[pos].deleted => history[p].deleted)
<1>0. /\ DOMAIN history = 1..Len(history) /\ Len(history) \in Nat \ {0} /\ pos \in 1..Len(history)
      /\ Server' = Server
  BY SomeHistory DEF Types, TypeOK, Server
<1>1. p \in DOMAIN history /\ pos \in DOMAIN history /\ pos \in pos..Len(history) /\ pos <= p
      /\ \A n \in p..Len(history) : n \in pos..Len(history)
  BY <1>0
<1>2. ProtectedHistory'
  BY <1>0, <1>1 DEF ProtectionInv, ProtectedHistory
<1>3. Server.fin => history[pos].uid = history[p].uid
  BY <1>1 DEF ProtectionInv, ProtectedHistory
<1> QED
  BY <1>0, <1>1, <1>2, <1>3 DEF HistoryInv

(* Steps that are not a worker's.                                          *)
LEMMA ForeignStep ==
  ASSUME Types, HistoryInv, ProtectionInv,
         \/ \E uid \in Uids, other \in BOOLEAN : UserCreates(uid, other)
         \/ UserDeletes \/ UserChanges \/ OtherFinalizes \/ Watch \/ Enqueue \/ Crash
         \/ UNCHANGED vars
  PROVE  ProtectionInv'
<1>0. /\ TypeOK /\ history \in Seq(Object) /\ Len(history) \in Nat \ {0} /\ Server \in Object
      /\ pos \in 1..Len(history)
  BY SomeHistory DEF Types, TypeOK
<1>1. ASSUME NEW uid \in Uids, NEW other \in BOOLEAN, UserCreates(uid, other)
      PROVE  ProtectionInv'
  <2>1. uid \in 0..MaxObjects
    BY LifecycleAssumption DEF Uids
  <2>2. /\ [Gone EXCEPT !.uid = uid, !.other = other] \in Object
        /\ [Gone EXCEPT !.uid = uid, !.other = other].fin = Gone.fin
    BY <2>1, GoneIdle DEF Object
  <2>3. Gone.fin = FALSE
    BY DEF Gone
  <2> QED
    BY <1>1, <2>2, <2>3, ForeignVersion DEF UserCreates
<1>2. ASSUME NEW o \in Object, history' = Stored(o), o.uid = Server.uid, o.fin = Server.fin,
             UNCHANGED <<pos, held, worker>>
      PROVE  ProtectionInv'
  <2>1. PICK x \in Object : /\ history' = Append(history, x)
                            /\ x = o \/ (x = Gone /\ o.deleted /\ ~o.fin /\ ~o.other)
    BY <1>0, <1>2, StoredObject
  <2>2. (x.uid = Server.uid /\ x.fin = Server.fin) \/ (~Server.fin /\ ~x.fin)
    BY <1>2, <2>1 DEF Gone
  <2> QED
    BY <1>2, <2>1, <2>2, ForeignVersion
<1>3. CASE UserDeletes
  <2>1. /\ [Server EXCEPT !.deleted = TRUE] \in Object
        /\ [Server EXCEPT !.deleted = TRUE].uid = Server.uid
        /\ [Server EXCEPT !.deleted = TRUE].fin = Server.fin
    BY <1>0 DEF Object
  <2> QED
    BY <1>2, <1>3, <2>1 DEF UserDeletes
<1>4. CASE UserChanges
  BY <1>0, <1>4, ForeignVersion DEF UserChanges
<1>5. CASE OtherFinalizes
  <2>1. /\ [Server EXCEPT !.other = FALSE] \in Object
        /\ [Server EXCEPT !.other = FALSE].uid = Server.uid
        /\ [Server EXCEPT !.other = FALSE].fin = Server.fin
    BY <1>0 DEF Object
  <2> QED
    BY <1>2, <1>5, <2>1 DEF OtherFinalizes
<1>6. ASSUME NEW p \in pos..Len(history), pos' = p, UNCHANGED <<history, held, worker>>
      PROVE  ProtectionInv'
  <2>1. /\ ProtectedHistory' /\ Server' = Server
        /\ Server.fin => (history[pos].deleted => history[p].deleted)
    BY <1>6, LaterStore
  <2>2. Workers' = Workers
    BY <1>6 DEF Workers
  <2>3. \A w \in Workers : ProtectingCall(w)'
    BY <1>6, <2>1 DEF ProtectionInv, ProtectingCall, Releasing
  <2> QED
    BY <2>1, <2>2, <2>3 DEF ProtectionInv
<1>7. CASE Watch
  <2>1. pos + 1 \in pos..Len(history)
    BY <1>0, <1>7 DEF Watch
  <2> QED
    BY <1>6, <1>7, <2>1 DEF Watch
<1>8. CASE Enqueue \/ UNCHANGED vars
  <2>1. pos \in pos..Len(history)
    BY <1>0
  <2> QED
    BY <1>6, <1>8, <2>1 DEF Enqueue, vars
<1>9. CASE Crash
  <2>1. pos' \in pos..Len(history) /\ UNCHANGED <<history, held>>
    BY <1>9 DEF Crash
  <2>2. ProtectedHistory'
    BY <2>1, LaterStore
  <2>3. \A w \in Workers' : worker'[w] = Idle
    BY <1>9 DEF Crash, Workers
  <2>4. \A w \in Workers' : ProtectingCall(w)'
    BY <2>3, GoneIdle DEF ProtectingCall, Releasing
  <2> QED
    BY <2>2, <2>4 DEF ProtectionInv
<1> QED
  BY <1>1, <1>3, <1>4, <1>5, <1>7, <1>8, <1>9

(* A worker that gives up.                                                 *)
LEMMA GivesUp ==
  ASSUME OneAtATime, NEW w \in Workers, Moves(w), ProtectedHistory', worker'[w] = Idle
  PROVE  ProtectionInv'
<1>1. ProtectingCall(w)'
  BY GoneIdle DEF ProtectingCall, Releasing
<1> QED
  BY <1>1, OneWorker

(* The steps of the handler that do not write.                             *)
LEMMA ReadingStep ==
  ASSUME Types, HistoryInv, CallInv, ProtectionInv, has.finalize, OneAtATime, NEW w \in Workers,
         Sync(w) \/ Callback(w) \/ GetAgain(w) \/ GetFails(w)
  PROVE  ProtectionInv'
<1>0. /\ TypeOK /\ Len(history) \in Nat \ {0} /\ pos \in 1..Len(history)
      /\ pos \in pos..Len(history) /\ worker[w] \in Worker
  BY SomeHistory DEF Types, TypeOK
<1>a. ASSUME UNCHANGED <<history, pos, held>>
      PROVE  ProtectedHistory' /\ Server' = Server
  BY <1>0, <1>a, LaterStore
<1>1. CASE Sync(w)
  <2>1. UNCHANGED <<history, pos, held>> /\ Moves(w)
    BY <1>1, SyncStep DEF Sync
  <2>2. CASE worker'[w] = worker[w]
    <3>1. ProtectingCall(w)'
      BY <1>a, <2>1, <2>2 DEF ProtectionInv, ProtectingCall, Releasing
    <3> QED
      BY <1>a, <2>1, <3>1, OneWorker
  <2>3. CASE worker'[w] # worker[w]
    <3>1. worker'[w].pc = Dispatch(history[pos]) /\ worker'[w].obj = history[pos]
      BY <1>1, <2>3, SyncStep
    <3>2. Dispatch(history[pos]) \notin {"removeFinalizer", "get", "record"}
      BY DEF Dispatch
    <3>3. Dispatch(history[pos]) = "create" => history[pos].fin /\ ~history[pos].deleted
      BY DEF Dispatch
    <3>4. Dispatch(history[pos]) = "finalize" => history[pos].deleted
      BY DEF Dispatch
    <3>5. held \subseteq {history[pos].uid}
      BY <1>0 DEF ProtectionInv, ProtectedHistory
    <3>6. history[pos].fin /\ ~history[pos].deleted => Server.uid = history[pos].uid /\ Server.fin
      BY <1>0 DEF ProtectionInv, ProtectedHistory
    <3>7. ProtectingCall(w)'
      BY <1>a, <2>1, <3>1, <3>2, <3>3, <3>4, <3>5, <3>6 DEF ProtectingCall, Releasing
    <3> QED
      BY <1>a, <2>1, <3>7, OneWorker
  <2> QED
    BY <2>2, <2>3
<1>2. ASSUME NEW ok \in BOOLEAN, NEW changed \in BOOLEAN, Create(w, ok, changed)
      PROVE  ProtectionInv'
  <2>1. /\ worker[w].pc = "create" /\ Recorded(w, ok, changed, "setInitialized")
        /\ UNCHANGED <<history, pos>> /\ held' = held \cup {worker[w].obj.uid}
    BY <1>2 DEF Create
  <2>2. Server' = Server /\ Server.uid = worker[w].obj.uid /\ Server.fin
    BY <2>1 DEF Server, ProtectionInv, ProtectingCall
  <2>3. ProtectedHistory'
    BY <2>1, <2>2 DEF ProtectedHistory, ProtectionInv
  <2>4. CASE worker'[w] = Idle
    BY <2>1, <2>3, <2>4, GivesUp, RecordedTypes
  <2>5. CASE worker'[w] # Idle
    <3>1. /\ worker'[w].pc \in {"record", "setInitialized"} /\ Moves(w)
          /\ worker'[w].after # "removeFinalizer"
      BY <2>1, <2>5, RecordedTypes
    <3>2. ProtectingCall(w)'
      BY <3>1 DEF ProtectingCall, Releasing
    <3> QED
      BY <2>3, <3>1, <3>2, OneWorker
  <2> QED
    BY <2>4, <2>5
<1>3. ASSUME NEW ok \in BOOLEAN, NEW changed \in BOOLEAN, Finalize(w, ok, changed)
      PROVE  ProtectionInv'
  <2>1. /\ worker[w].pc = "finalize" /\ Recorded(w, ok, changed, "removeFinalizer")
        /\ UNCHANGED <<history, pos>>
        /\ held' = IF ok THEN held \ {worker[w].obj.uid} ELSE held
    BY <1>3 DEF Finalize
  <2>2. /\ Server' = Server /\ held \subseteq {worker[w].obj.uid}
        /\ Server.fin => history[pos].deleted
    BY <2>1 DEF Server, ProtectionInv, ProtectingCall
  <2>3. ProtectedHistory' /\ (ok => held' = {})
    BY <2>1, <2>2 DEF ProtectedHistory, ProtectionInv
  <2>4. CASE worker'[w] = Idle
    BY <2>1, <2>3, <2>4, GivesUp, RecordedTypes
  <2>5. CASE worker'[w] # Idle
    <3>1. /\ worker'[w].pc \in {"record", "removeFinalizer"} /\ Moves(w)
          /\ ~ok => worker'[w].pc = "record" /\ worker'[w].after = "error"
      BY <2>1, <2>5, RecordedTypes
    <3>2. ProtectingCall(w)'
      BY <2>1, <2>2, <2>3, <3>1 DEF ProtectingCall, Releasing
    <3> QED
      BY <2>3, <3>1, <3>2, OneWorker
  <2> QED
    BY <2>4, <2>5
<1>4. ASSUME NEW ok \in BOOLEAN, NEW changed \in BOOLEAN, Updated(w, ok, changed)
      PROVE  ProtectionInv'
  <2>1. /\ worker[w].pc = "updated" /\ Recorded(w, ok, changed, "idle")
        /\ UNCHANGED <<history, pos, held>>
    BY <1>4 DEF Updated
  <2>2. ProtectedHistory'
    BY <1>a, <2>1
  <2>3. /\ Moves(w) /\ worker'[w].pc \in {"idle", "record"}
        /\ worker'[w].pc = "record" => worker'[w].after # "removeFinalizer"
    BY <2>1, RecordedTypes, GoneIdle
  <2>4. ProtectingCall(w)'
    BY <2>3 DEF ProtectingCall, Releasing
  <2> QED
    BY <2>2, <2>3, <2>4, OneWorker
<1>5. CASE GetAgain(w)
  <2>1. UNCHANGED <<history, pos, held>> /\ worker[w].pc = "get"
    BY <1>5 DEF GetAgain
  <2>2. held = {} /\ (Server.fin => history[pos].deleted)
    BY <2>1 DEF ProtectionInv, ProtectingCall, Releasing
  <2>3. Moves(w) /\ worker'[w].pc \in {"idle", "removeFinalizer"}
    BY <1>5, GetAgainStep, GoneIdle
  <2>4. ProtectingCall(w)'
    BY <1>a, <2>1, <2>2, <2>3 DEF ProtectingCall, Releasing
  <2> QED
    BY <1>a, <2>1, <2>3, <2>4, OneWorker
<1>6. CASE GetFails(w)
  <2>1. UNCHANGED <<history, pos, held>> /\ Moves(w) /\ worker'[w] = Idle
    BY <1>0, <1>6, WorkerFails DEF GetFails, Fails
  <2> QED
    BY <1>a, <2>1, GivesUp
<1> QED
  BY <1>1, <1>2, <1>3, <1>4, <1>5, <1>6 DEF Callback

(* The steps of the handler that write.                                    *)
LEMMA WritingStep ==
  ASSUME Types, HistoryInv, CallInv, ProtectionInv, has.finalize, OneAtATime, NEW w \in Workers,
         AddFinalizer(w) \/ RecordUpdate(w) \/ SetInitialized(w) \/ RemoveFinalizer(w)
  PROVE  ProtectionInv'
<1>0. /\ TypeOK /\ history \in Seq(Object) /\ Len(history) \in Nat \ {0} /\ Server \in Object
      /\ Server = history[Len(history)]
      /\ pos \in 1..Len(history) /\ pos \in pos..Len(history) /\ worker[w] \in Worker
      /\ worker[w].obj \in Object /\ worker[w].after \in Steps \cup {"error"}
  BY SomeHistory DEF Types, TypeOK, Worker, Server
<1>a. UNCHANGED <<pos, held>> /\ worker[w].pc # "idle"
  BY DEF AddFinalizer, RecordUpdate, SetInitialized, RemoveFinalizer
<1>b. /\ worker[w].rv \in 1..Len(history)
      /\ worker[w].rv = Len(history) => worker[w].obj = Server
      /\ worker[w].obj.deleted => worker[w].obj.fin \/ worker[w].obj.other
  BY <1>a, CallObject
<1>c. history' = history => ProtectedHistory' /\ Server' = Server
  BY <1>0, <1>a, LaterStore
<1>1. CASE AddFinalizer(w)
  <2> DEFINE o == [worker[w].obj EXCEPT !.fin = TRUE]
             pc == IF has.create THEN "create" ELSE "updated"
  <2>1. o \in Object /\ o.fin = TRUE /\ o.uid = worker[w].obj.uid
    BY <1>0 DEF Object
  <2>2. pc \in {"create", "updated"} /\ Written(w, o, pc)
    BY <1>0, <1>1, <2>1, UpdateWrites DEF AddFinalizer, Steps
  <2>3. Stored(o) = Append(history, o)
    BY <2>1 DEF Stored
  <2> HIDE DEF o, pc
  <2>4. CASE history' = history
    <3>1. CASE worker'[w] = Idle
      BY <1>c, <2>2, <2>4, <3>1, GivesUp DEF Written
    <3>2. CASE worker'[w] # Idle
      <4>1. Moves(w) /\ o = Server /\ worker'[w].obj = o /\ worker'[w].pc = pc
        <5>1. history # Append(history, o)
          BY <1>0, <2>1
        <5> QED
          BY <1>1, <2>2, <2>3, <2>4, <3>2, <5>1 DEF Written, AddFinalizer
      <4>2. ProtectingCall(w)'
        BY <1>c, <2>1, <2>2, <2>4, <4>1 DEF ProtectingCall, Releasing
      <4> QED
        BY <1>c, <2>4, <4>1, <4>2, OneWorker
    <3> QED
      BY <3>1, <3>2
  <2>5. CASE worker[w].rv = Len(history) /\ history' = Append(history, o)
    <3>1. worker[w].obj = Server /\ pos = Len(history)
      BY <1>0, <1>b, <1>1, <2>5 DEF AddFinalizer, CallInv
    <3>2. /\ Len(history') = Len(history) + 1 /\ Server' = o
          /\ history'[Len(history)] = Server /\ history'[Len(history) + 1] = o
      BY <1>0, <2>1, <2>5 DEF Server
    <3>3. \A n \in pos'..Len(history') : n = Len(history) \/ n = Len(history) + 1
      BY <1>0, <1>a, <3>1, <3>2
    <3>4. ProtectedHistory'
      BY <1>a, <2>1, <3>1, <3>2, <3>3 DEF ProtectedHistory, ProtectionInv
    <3>5. CASE worker'[w] = Idle
      BY <2>2, <3>4, <3>5, GivesUp DEF Written
    <3>6. CASE worker'[w] # Idle
      <4>1. Moves(w) /\ worker'[w].obj = o /\ worker'[w].pc = pc
        BY <1>1, <2>2, <3>6 DEF Written, AddFinalizer
      <4>2. ProtectingCall(w)'
        BY <2>1, <2>2, <3>2, <4>1 DEF ProtectingCall, Releasing
      <4> QED
        BY <3>4, <4>1, <4>2, OneWorker
    <3> QED
      BY <3>5, <3>6
  <2> QED
    BY <2>2, <2>3, <2>4, <2>5 DEF Written
<1>2. CASE RecordUpdate(w)
  <2>1. Written(w, worker[w].obj, worker[w].after) /\ worker[w].pc = "record"
    BY <1>0, <1>2, UpdateWrites DEF RecordUpdate
  <2>2. Stored(worker[w].obj) = Append(history, worker[w].obj)
    BY <1>b DEF Stored
  <2>3. history' = history \/ history' = Append(history, Server)
    BY <1>b, <2>1, <2>2 DEF Written
  <2>4. /\ ProtectedHistory' /\ history'[pos] = history[pos]
        /\ Server'.fin => Server.fin
    BY <1>0, <1>a, <2>3, KeptVersion DEF ProtectionInv
  <2>5. CASE worker'[w] = Idle
    BY <2>1, <2>4, <2>5, GivesUp DEF Written
  <2>6. CASE worker'[w] # Idle
    <3>1. Moves(w) /\ worker'[w].pc = worker[w].after /\ worker[w].after # "idle"
      BY <2>1, <2>6 DEF Written
    <3>2. worker[w].after \in {"setInitialized", "removeFinalizer", "idle", "error"}
      BY <2>1 DEF CallInv
    <3>3. worker[w].after = "removeFinalizer" => held = {} /\ (Server.fin => history[pos].deleted)
      BY <2>1 DEF ProtectionInv, ProtectingCall, Releasing
    <3>4. ProtectingCall(w)'
      BY <1>a, <2>4, <3>1, <3>2, <3>3 DEF ProtectingCall, Releasing
    <3> QED
      BY <2>4, <3>1, <3>4, OneWorker
  <2> QED
    BY <2>5, <2>6
<1>3. CASE SetInitialized(w)
  <2> DEFINE o == [worker[w].obj EXCEPT !.init = TRUE]
  <2>1. o \in Object /\ o.fin = worker[w].obj.fin /\ o.uid = worker[w].obj.uid
    BY <1>0 DEF Object
  <2>2. Written(w, o, "idle") /\ worker[w].pc = "setInitialized"
    BY <1>0, <1>3, <2>1, UpdateWrites DEF SetInitialized, Steps
  <2> HIDE DEF o
  <2>3. ProtectedHistory'
    <3>1. CASE history' = history
      BY <1>c, <3>1
    <3>2. CASE worker[w].rv = Len(history) /\ history' = Stored(o)
      <4>1. PICK x \in Object : /\ history' = Append(history, x)
                                /\ x = o \/ (x = Gone /\ o.deleted /\ ~o.fin /\ ~o.other)
        BY <1>0, <2>1, <3>2, StoredObject
      <4>2. (x.uid = Server.uid /\ x.fin = Server.fin) \/ (~Server.fin /\ ~x.fin)
        BY <1>b, <2>1, <3>2, <4>1 DEF Gone
      <4> QED
        BY <1>a, <4>1, <4>2, KeptVersion DEF ProtectionInv
    <3> QED
      BY <2>2, <3>1, <3>2 DEF Written
  <2> QED
    BY <2>2, <2>3, GivesUp DEF Written
<1>4. CASE RemoveFinalizer(w)
  <2> DEFINE o == [worker[w].obj EXCEPT !.fin = FALSE]
  <2>1. o \in Object /\ o.fin = FALSE
    BY <1>0 DEF Object
  <2>2. Written(w, o, "idle") /\ worker[w].pc = "removeFinalizer"
    BY <1>4, RemovalWrites DEF RemoveFinalizer
  <2> HIDE DEF o
  <2>3. held = {} /\ held' = {} /\ (Server.fin => history[pos].deleted)
    BY <1>a, <2>2 DEF ProtectionInv, ProtectingCall, Releasing
  <2>4. ProtectedHistory' /\ (Server'.fin => history'[pos].deleted)
    <3>1. CASE history' = history
      BY <1>c, <2>3, <3>1
    <3>2. CASE history' = Stored(o)
      <4>1. PICK x \in Object : history' = Append(history, x) /\ ~x.fin
        BY <1>0, <2>1, <3>2, StoredObject DEF Gone
      <4>2. /\ Len(history') = Len(history) + 1 /\ Server' = x
            /\ \A n \in 1..Len(history) : history'[n] = history[n]
            /\ history'[Len(history) + 1] = x
        BY <1>0, <4>1 DEF Server
      <4>3. ASSUME NEW n \in pos..Len(history), history[n].fin, ~history[n].deleted
            PROVE  FALSE
        <5>1. Server.uid = history[n].uid /\ Server.fin
          BY <4>3 DEF ProtectionInv, ProtectedHistory
        <5>2. history[pos].deleted /\ history[pos].uid = history[n].uid
          BY <1>0, <2>3, <5>1 DEF ProtectionInv, ProtectedHistory
        <5>3. pos \in DOMAIN history /\ n \in DOMAIN history /\ pos <= n
          BY <1>0
        <5> QED
          BY <4>3, <5>2, <5>3 DEF HistoryInv
      <4>4. \A n \in pos..Len(history') :
               (n \in pos..Len(history) /\ history'[n] = history[n]) \/ history'[n] = x
        BY <1>0, <4>2
      <4>5. \A n \in pos..Len(history') : ~(history'[n].fin /\ ~history'[n].deleted)
        BY <4>1, <4>3, <4>4
      <4> QED
        BY <1>a, <2>3, <4>1, <4>2, <4>5 DEF ProtectedHistory
    <3> QED
      BY <2>2, <3>1, <3>2 DEF Written
  <2>5. Moves(w) /\ worker'[w].pc \in {"idle", "get"}
    BY <2>2, GoneIdle DEF Written
  <2>6. ProtectingCall(w)'
    BY <1>a, <2>3, <2>4, <2>5 DEF ProtectingCall, Releasing
  <2> QED
    BY <2>4, <2>5, <2>6, OneWorker
<1> QED
  BY <1>1, <1>2, <1>3, <1>4

-----------------------------------------------------------------------------
(* The invariant.                                                          *)

LEMMA SameHandler ==
  ASSUME Types, [Next]_vars
  PROVE  has' = has /\ Workers' = Workers
<1>1. CASE \E w \in Workers : WorkerStep(w)
  <2>1. PICK w \in Workers : WorkerStep(w)
    BY <1>1
  <2>2. has' = has
    BY <2>1 DEF WorkerStep, Sync, AddFinalizer, Callback, Create, Finalize, Updated, RecordUpdate,
                SetInitialized, RemoveFinalizer, GetAgain, GetFails
  <2>3. DOMAIN worker' = DOMAIN worker
    BY <2>1 DEF WorkerStep, Sync, AddFinalizer, Callback, Create, Finalize, Updated, RecordUpdate,
                SetInitialized, RemoveFinalizer, GetAgain, GetFails, Recorded, Update, Goes, Fails
  <2> QED
    BY <2>2, <2>3 DEF Workers
<1>2. CASE ~\E w \in Workers : WorkerStep(w)
  BY <1>2 DEF Next, vars, Workers, UserCreates, UserDeletes, UserChanges, OtherFinalizes,
              Watch, Enqueue, Crash
<1> QED
  BY <1>1, <1>2

LEMMA LifecycleInit == Init => LifecycleInv
<1> SUFFICES ASSUME Init PROVE LifecycleInv
  OBVIOUS
<1>1. PICK crew \in Crews : worker = [w \in crew |-> Idle]
  BY DEF Init
<1>2. Workers = crew /\ \A w \in Workers : worker[w] = Idle
  BY <1>1 DEF Workers
<1>3. history = <<Gone>> /\ history \in Seq(Object) /\ Len(history) = 1 /\ history[1] = Gone
  BY GoneIdle DEF Init
<1>4. worker \in [Workers -> Worker] /\ pos \in 1..Len(history) /\ pos = 1
  BY <1>1, <1>2, <1>3, GoneIdle DEF Init
<1>5. \A w \in Workers : worker[w].rv <= Len(history) /\ worker[w].tries <= 2
  BY <1>2, <1>3, GoneIdle
<1>6. Types
  <2>1. /\ held \subseteq Uids /\ ready \subseteq Uids /\ pending \in BOOLEAN
        /\ changes \in 0..MaxChanges /\ failures \in 0..MaxFailures
        /\ has \in [create : BOOLEAN, finalize : BOOLEAN]
    <3>1. held = {} /\ ready = {} /\ pending = FALSE /\ changes = 0 /\ failures = 0
      BY DEF Init
    <3>2. has \in [create : BOOLEAN, finalize : BOOLEAN]
      BY Zenon DEF Init
    <3>3. 0 \in 0..MaxChanges /\ 0 \in 0..MaxFailures
      BY LifecycleAssumption
    <3> QED
      BY <3>1, <3>2, <3>3, Zenon
  <2> QED
    BY <1>2, <1>3, <1>4, <1>5, <2>1 DEF Types, TypeOK
<1>7. HistoryInv
  <2>1. DOMAIN history = {1}
    BY <1>3
  <2>2. \A n \in DOMAIN history : history[n] = Gone
    BY <1>3, <2>1
  <2> QED
    BY <2>2 DEF HistoryInv, Gone
<1>8. CallInv /\ \A w \in Workers : ProtectingCall(w)
  BY <1>2, GoneIdle DEF CallInv, ProtectingCall, Releasing
<1>9. ProtectedHistory
  BY <1>3, <1>4 DEF Init, ProtectedHistory, Server, Gone
<1> QED
  BY <1>6, <1>7, <1>8, <1>9 DEF LifecycleInv, ProtectionInv

LEMMA LifecycleStep == LifecycleInv /\ [Next]_vars => LifecycleInv'
<1> SUFFICES ASSUME LifecycleInv, [Next]_vars PROVE LifecycleInv'
  OBVIOUS
<1>0. Types /\ HistoryInv /\ CallInv /\ (has.finalize /\ OneAtATime => ProtectionInv)
  BY DEF LifecycleInv
<1>1. Types' /\ HistoryInv' /\ CallInv'
  BY <1>0, TypesStep, HistoryStep, CallsStep
<1>2. has' = has /\ Workers' = Workers
  BY <1>0, SameHandler
<1>3. OneAtATime' => OneAtATime
  BY <1>2 DEF OneAtATime
<1>4. ASSUME has.finalize, OneAtATime PROVE ProtectionInv'
  <2>1. ProtectionInv
    BY <1>0, <1>4
  <2>2. CASE \E w \in Workers : WorkerStep(w)
    <3>1. PICK w \in Workers : WorkerStep(w)
      BY <2>2
    <3>2. CASE Sync(w) \/ Callback(w) \/ GetAgain(w) \/ GetFails(w)
      BY <1>0, <1>4, <2>1, <3>2, ReadingStep
    <3>3. CASE AddFinalizer(w) \/ RecordUpdate(w) \/ SetInitialized(w) \/ RemoveFinalizer(w)
      BY <1>0, <1>4, <2>1, <3>3, WritingStep
    <3> QED
      BY <3>1, <3>2, <3>3 DEF WorkerStep
  <2>3. CASE ~\E w \in Workers : WorkerStep(w)
    BY <1>0, <2>1, <2>3, ForeignStep DEF Next
  <2> QED
    BY <2>2, <2>3
<1> QED
  BY <1>1, <1>2, <1>3, <1>4 DEF LifecycleInv

(* The inductive invariant holds in every state.                           *)
THEOREM LifecycleInvariant == Spec => []LifecycleInv
BY LifecycleInit, LifecycleStep, PTL DEF Spec

(* The type invariant of the lifecycle handler.                            *)
THEOREM LifecycleTypes == Spec => []TypeOK
<1>1. LifecycleInv => TypeOK
  BY DEF LifecycleInv, Types
<1> QED
  BY <1>1, LifecycleInvariant, PTL

(* What Create acquired is protected by the finalizer on the object in the *)
(* API server, whatever the informer's store shows, whichever updates fail *)
(* or get lost, wherever the process is restarted and however often the    *)
(* object is created anew, if the calls for one object do not overlap      *)
(* (lifecycle/object.go: addFinalizer before Create, removeFinalizer after *)
(* Finalize).                                                              *)
THEOREM HeldStaysProtected == Spec => []HeldIsProtected
<1>1. LifecycleInv => HeldIsProtected
  BY DEF LifecycleInv, ProtectionInv, ProtectedHistory, HeldIsProtected
<1> QED
  BY <1>1, LifecycleInvariant, PTL
=============================================================================
