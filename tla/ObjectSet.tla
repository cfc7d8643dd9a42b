------------------------------ MODULE ObjectSet ------------------------------
(***************************************************************************)
(* pkg/objectset: an owner's handler describes the objects it wants and    *)
(* Apply makes the cluster match, with pkg/changeset calling the handler   *)
(* again when one of the objects changes.                                  *)
(*                                                                         *)
(* Apply compares with the informers' copies, which lag; every request is  *)
(* a step of its own and may fail; others write to the same objects.  An   *)
(* object is its fields and what Apply writes on it: the label of its set, *)
(* the fields last applied and the ID of the inputs.  The hash of the set  *)
(* identifies it (sha1 does not collide).                                  *)
(***************************************************************************)
EXTENDS Naturals, SequencesExt

CONSTANTS
  Wants,        \* what the handler may Add: sequences of [kind, ns, name, fields]
  ClientKinds,  \* kinds with a client, and so an informer, in sorted order
  KeySeq,       \* every <<kind, ns, name>>, in sorted order
  Foreign,      \* fields that only others set
  Burst,        \* tokens of the rate limiter
  MaxRev,       \* bound: changes of the owner
  MaxForeign,   \* bound: writes of others
  MaxFaults     \* bound: requests that fail

VARIABLES
  live,      \* the objects in the cluster, or Gone
  cache,     \* the informers' copies
  unseen,    \* keys written since the informer last heard of them
  changed,   \* keys in the queues of the controllers changeset.Watch watches
  owner,     \* [rev, want]: the owner; want = 0 once it is removed
  queued,    \* the owner is in its controller's queue
  tokens,    \* rls[hash]
  pass,      \* the Apply that is running, pass.at = "idle" when none is
  foreign,   \* writes of others so far
  faults,    \* failed requests so far
  stale,     \* keys patched from a copy older than the object
  calm       \* this pass lists what is live and nobody else has written since it began

vars == <<live, cache, unseen, changed, owner, queued, tokens, pass, foreign, faults, stale, calm>>

Keys == ToSet(KeySeq)
Gone == [ours |-> FALSE, gone |-> TRUE]
NoFields == [f \in {} |-> ""]
Idle == [at |-> "idle"]
Is(o) == o # Gone

KeyOf(obj) == <<obj.kind, obj.ns, obj.name>>
Namespaced(obj) == obj.ns # ""

(* ObjectSet.Add, object by object: one without a name, and one that is    *)
(* namespaced when an earlier one of its kind was not, are errors.         *)
Fails(objs, i) ==
  \/ objs[i].name = ""
  \/ \E j \in 1..(i - 1) : /\ objs[j].name # "" /\ objs[j].kind = objs[i].kind
                           /\ Namespaced(objs[j]) # Namespaced(objs[i])

HasErr(objs) == \E i \in DOMAIN objs : Fails(objs, i)

(* objectCollection.add: of two objects with one key the later one stays.  *)
Collect(objs) ==
  [k \in {KeyOf(objs[i]) : i \in DOMAIN objs} |->
     LET i == CHOOSE i \in DOMAIN objs : KeyOf(objs[i]) = k /\ \A j \in DOMAIN objs : KeyOf(objs[j]) = k => j <= i
     IN  objs[i].fields]

(* The kinds of the objects in the order they were added, then the others  *)
(* there are clients for.                                                  *)
GvkOrder(objs) ==
  LET named == FoldLeft(LAMBDA s, o : IF Contains(s, o.kind) THEN s ELSE Append(s, o.kind), <<>>, objs)
  IN  named \o SelectSeq(ClientKinds, LAMBDA kind : ~Contains(named, kind))

(* The digest of the code version, the set and the versions of the owner   *)
(* and the inputs; here only the owner has one.                            *)
InputID == owner.rev

Wanted == IF owner.want = 0 THEN <<>> ELSE Wants[owner.want]
-----------------------------------------------------------------------------
(* What was last applied, as the object itself records it.                 *)
Original(old) == old.applied

(* Mutant: two ways, against the object as it is.                          *)
PatchTwoWay(old, fields, input) ==
  [set     |-> {f \in DOMAIN fields : f \notin DOMAIN old.fields \/ old.fields[f] # fields[f]},
   delete  |-> DOMAIN old.fields \ DOMAIN fields,
   label   |-> ~old.ours,
   applied |-> old.applied # fields,
   input   |-> old.input # input]

(* The patch compareObjects makes of the copy it has: three ways, so that  *)
(* a field is deleted only if it was applied before.                       *)
Patch(old, fields, input) ==
  [set     |-> {f \in DOMAIN fields : f \notin DOMAIN old.fields \/ old.fields[f] # fields[f]},
   delete  |-> DOMAIN Original(old) \ DOMAIN fields,
   label   |-> ~old.ours,
   applied |-> old.applied # fields,
   input   |-> old.input # input]

(* sanitizePatch: a patch of nothing but the input ID is not sent.         *)
NoPatch(p) == p.set = {} /\ p.delete = {} /\ ~p.label /\ ~p.applied

(* Mutant: the patch of an object does not record what it applies.         *)
PatchedUnrecorded(o, p, fields, input) ==
  [o EXCEPT !.fields  = [f \in (DOMAIN @ \ p.delete) \cup p.set |-> IF f \in p.set THEN fields[f] ELSE @[f]],
            !.ours    = @ \/ p.label,
            !.input   = IF p.input THEN input ELSE @]

Patched(o, p, fields, input) ==
  [o EXCEPT !.fields  = [f \in (DOMAIN @ \ p.delete) \cup p.set |-> IF f \in p.set THEN fields[f] ELSE @[f]],
            !.ours    = @ \/ p.label,
            !.applied = IF p.applied THEN fields ELSE @,
            !.input   = IF p.input THEN input ELSE @]

(* A wanted object with the label of the set, and no annotations of an     *)
(* earlier Apply; and with those of this one.                              *)
Injected(fields) == [ours |-> TRUE, fields |-> fields, applied |-> NoFields, input |-> 0]
Prepared(fields, input) == [Injected(fields) EXCEPT !.applied = fields, !.input = input]

(* list: what the informer has with the label of the set.  Without an      *)
(* informer the items of the API server's list cannot be used as objects   *)
(* and are dropped.                                                        *)
ListOf(kind) ==
  IF Contains(ClientKinds, kind)
  THEN [k \in {k \in Keys : k[1] = kind /\ Is(cache[k]) /\ cache[k].ours} |-> cache[k]]
  ELSE [k \in {} |-> Gone]

Written(k) == IF Contains(ClientKinds, k[1]) THEN unseen \cup {k} ELSE unseen

Sorted(S) == SelectSeq(KeySeq, LAMBDA k : k \in S)
-----------------------------------------------------------------------------
Init ==
  /\ live = [k \in Keys |-> Gone] /\ cache = live
  /\ unseen = {} /\ changed = {} /\ queued = TRUE
  /\ owner = [rev |-> 1, want |-> 1]
  /\ tokens = Burst
  /\ pass = Idle
  /\ foreign = 0 /\ faults = 0 /\ stale = {} /\ calm = TRUE

(* Apply up to the first request.  An ObjectSet with errors, and a rate    *)
(* limiter without tokens, are errors the handler returns: the owner stays *)
(* queued.  Removing a set takes no token.                                 *)
Start ==
  /\ pass = Idle /\ queued
  /\ ~HasErr(Wanted)
  /\ owner.want # 0 => tokens > 0
  /\ tokens' = IF owner.want = 0 THEN Burst ELSE tokens - 1
  /\ queued' = FALSE
  /\ pass' = [at |-> "next", kinds |-> GvkOrder(Wanted), objs |-> Collect(Wanted), input |-> InputID, err |-> FALSE]
  /\ calm' = TRUE
  /\ UNCHANGED <<live, cache, unseen, changed, owner, foreign, faults, stale>>

Fault == faults < MaxFaults /\ faults' = faults + 1

(* process, up to its first write: find the client, list, compareSets.     *)
List ==
  LET kind     == Head(pass.kinds)
      existing == ListOf(kind)
      new      == {k \in DOMAIN pass.objs : k[1] = kind}
  IN  /\ pass.at = "next" /\ pass.kinds # <<>>
      /\ pass' = [at |-> "write", kinds |-> Tail(pass.kinds), objs |-> pass.objs, input |-> pass.input, err |-> pass.err,
                  existing |-> existing,
                  create   |-> Sorted(new \ DOMAIN existing),
                  update   |-> Sorted(new \cap DOMAIN existing),
                  delete   |-> Sorted(DOMAIN existing \ new)]
      /\ calm' = (calm /\ \A k \in Keys : k[1] = kind => cache[k] = live[k])
      /\ UNCHANGED <<live, cache, unseen, changed, owner, queued, tokens, foreign, faults, stale>>

(* No client can be found, or the list fails: the kind is skipped.         *)
ListFails ==
  /\ pass.at = "next" /\ pass.kinds # <<>> /\ Fault
  /\ pass' = [pass EXCEPT !.kinds = Tail(@), !.err = TRUE]
  /\ UNCHANGED <<live, cache, unseen, changed, owner, queued, tokens, foreign, stale, calm>>

(* Mutant: an object that is there already is left as it is.               *)
CreateKeepsExisting ==
  LET k == Head(pass.create) IN
  /\ pass.at = "write" /\ pass.create # <<>>
  /\ pass' = [pass EXCEPT !.create = Tail(@)]
  /\ IF live[k] = Gone
     THEN live' = [live EXCEPT ![k] = Prepared(pass.objs[k], pass.input)] /\ unseen' = Written(k)
     ELSE UNCHANGED <<live, unseen>>
  /\ UNCHANGED <<cache, changed, owner, queued, tokens, foreign, faults, stale, calm>>

(* Create; an object that is there already is taken over.                  *)
Create ==
  LET k == Head(pass.create) IN
  /\ pass.at = "write" /\ pass.create # <<>>
  /\ IF live[k] = Gone
     THEN /\ live' = [live EXCEPT ![k] = Prepared(pass.objs[k], pass.input)] /\ unseen' = Written(k)
          /\ pass' = [pass EXCEPT !.create = Tail(@)]
     ELSE /\ pass' = [pass EXCEPT !.at = "take"]
          /\ UNCHANGED <<live, unseen>>
  /\ UNCHANGED <<cache, changed, owner, queued, tokens, foreign, faults, stale, calm>>

(* GetNamespaced of the object to take over.                               *)
Take ==
  LET k == Head(pass.create) IN
  /\ pass.at = "take"
  /\ pass' = IF live[k] = Gone
             THEN [pass EXCEPT !.at = "write", !.create = Tail(@), !.err = TRUE]
             ELSE [pass EXCEPT !.at = "write", !.create = Tail(@), !.update = Append(@, k),
                               !.existing = [j \in DOMAIN @ \cup {k} |-> IF j = k THEN live[k] ELSE @[j]]]
  /\ UNCHANGED <<live, cache, unseen, changed, owner, queued, tokens, foreign, faults, stale, calm>>

(* Mutant: an error of a creation is forgotten.                            *)
CreateFailsQuietly ==
  /\ pass.at \in {"write", "take"} /\ pass.create # <<>> /\ Fault
  /\ pass' = [pass EXCEPT !.at = "write", !.create = Tail(@)]
  /\ UNCHANGED <<live, cache, unseen, changed, owner, queued, tokens, foreign, stale, calm>>

CreateFails ==
  /\ pass.at \in {"write", "take"} /\ pass.create # <<>> /\ Fault
  /\ pass' = [pass EXCEPT !.at = "write", !.create = Tail(@), !.err = TRUE]
  /\ UNCHANGED <<live, cache, unseen, changed, owner, queued, tokens, foreign, stale, calm>>

(* compareObjects: the patch is made of the copy, and applied to whatever  *)
(* is in the cluster by now.                                               *)
Update ==
  LET k == Head(pass.update)
      p == Patch(pass.existing[k], pass.objs[k], pass.input)
  IN  /\ pass.at = "write" /\ pass.create = <<>> /\ pass.update # <<>>
      /\ pass' = [pass EXCEPT !.update = Tail(@), !.err = @ \/ (~NoPatch(p) /\ live[k] = Gone)]
      /\ IF NoPatch(p) \/ live[k] = Gone THEN UNCHANGED <<live, unseen, stale>>
         ELSE /\ live' = [live EXCEPT ![k] = Patched(@, p, pass.objs[k], pass.input)]
              /\ unseen' = Written(k)
              /\ stale' = IF pass.existing[k].applied # live[k].applied THEN stale \cup {k} ELSE stale
      /\ UNCHANGED <<cache, changed, owner, queued, tokens, foreign, faults, calm>>

UpdateFails ==
  /\ pass.at = "write" /\ pass.create = <<>> /\ pass.update # <<>> /\ Fault
  /\ pass' = [pass EXCEPT !.update = Tail(@), !.err = TRUE]
  /\ UNCHANGED <<live, cache, unseen, changed, owner, queued, tokens, foreign, stale, calm>>

(* DeleteNamespaced; that there is nothing to delete is an error too.      *)
Delete ==
  LET k == Head(pass.delete) IN
  /\ pass.at = "write" /\ pass.create = <<>> /\ pass.update = <<>> /\ pass.delete # <<>>
  /\ live' = [live EXCEPT ![k] = Gone]
  /\ unseen' = IF live[k] = Gone THEN unseen ELSE Written(k)
  /\ pass' = [pass EXCEPT !.delete = Tail(@), !.err = @ \/ live[k] = Gone]
  /\ stale' = stale \ {k}
  /\ UNCHANGED <<cache, changed, owner, queued, tokens, foreign, faults, calm>>

DeleteFails ==
  /\ pass.at = "write" /\ pass.create = <<>> /\ pass.update = <<>> /\ pass.delete # <<>> /\ Fault
  /\ pass' = [pass EXCEPT !.delete = Tail(@), !.err = TRUE]
  /\ UNCHANGED <<live, cache, unseen, changed, owner, queued, tokens, foreign, stale, calm>>

KindDone ==
  /\ pass.at = "write" /\ pass.create = <<>> /\ pass.update = <<>> /\ pass.delete = <<>>
  /\ pass' = [at |-> "next", kinds |-> pass.kinds, objs |-> pass.objs, input |-> pass.input, err |-> pass.err]
  /\ UNCHANGED <<live, cache, unseen, changed, owner, queued, tokens, foreign, faults, stale, calm>>

(* Apply returns o.Err(); the controller calls the handler again if it is  *)
(* an error.                                                               *)
Finish ==
  /\ pass.at = "next" /\ pass.kinds = <<>>
  /\ queued' = (queued \/ pass.err)
  /\ pass' = Idle
  /\ UNCHANGED <<live, cache, unseen, changed, owner, tokens, foreign, faults, stale, calm>>

ApplyStep ==
  \/ Start \/ List \/ ListFails \/ Create \/ Take \/ CreateFails \/ Update \/ UpdateFails
  \/ Delete \/ DeleteFails \/ KindDone \/ Finish
-----------------------------------------------------------------------------
(* An informer hears of a change, and its controller queues the key.       *)
Sync(k) ==
  /\ k \in unseen
  /\ unseen' = unseen \ {k}
  /\ cache' = [cache EXCEPT ![k] = live[k]]
  /\ changed' = changed \cup {k}
  /\ UNCHANGED <<live, owner, queued, tokens, pass, foreign, faults, stale, calm>>

(* changeset.watch: the handler of the key enqueues the owners the         *)
(* resolver finds for it; here it finds the owner for each of its keys.    *)
Resolve(k) ==
  /\ k \in changed
  /\ changed' = changed \ {k}
  /\ queued' = TRUE
  /\ UNCHANGED <<live, cache, unseen, owner, tokens, pass, foreign, faults, stale, calm>>

Refill ==
  /\ tokens < Burst
  /\ tokens' = tokens + 1
  /\ UNCHANGED <<live, cache, unseen, changed, owner, queued, pass, foreign, faults, stale, calm>>

ChangeOwner ==
  /\ owner.rev < MaxRev /\ owner.want # 0
  /\ \E w \in 0..Len(Wants) : owner' = [rev |-> owner.rev + 1, want |-> w]
  /\ queued' = TRUE
  /\ UNCHANGED <<live, cache, unseen, changed, tokens, pass, foreign, faults, stale, calm>>

(* Others create the object, set one of its fields or delete it.           *)
ForeignWrite(k) ==
  /\ foreign < MaxForeign /\ foreign' = foreign + 1
  /\ \/ /\ live[k] = Gone
        /\ live' = [live EXCEPT ![k] = [ours |-> FALSE, fields |-> [f \in Foreign |-> "x"], applied |-> NoFields, input |-> 0]]
     \/ /\ Is(live[k])
        /\ \E f \in Foreign \cup DOMAIN live[k].fields :
             live' = [live EXCEPT ![k].fields = [g \in DOMAIN @ \cup {f} |-> IF g = f THEN "x" ELSE @[g]]]
     \/ /\ Is(live[k])
        /\ live' = [live EXCEPT ![k] = Gone]
  /\ stale' = IF live'[k] = Gone THEN stale \ {k} ELSE stale
  /\ unseen' = Written(k)
  /\ calm' = FALSE
  /\ UNCHANGED <<cache, changed, owner, queued, tokens, pass, faults>>

Next ==
  \/ ApplyStep \/ Refill \/ ChangeOwner
  \/ \E k \in Keys : Sync(k) \/ Resolve(k) \/ ForeignWrite(k)

(* The controller runs its worker, the informers receive their events and  *)
(* the limiter refills with time.                                          *)
Fairness ==
  /\ WF_vars(ApplyStep) /\ WF_vars(Refill)
  /\ \A k \in Keys : WF_vars(Sync(k)) /\ WF_vars(Resolve(k))

Spec == Init /\ [][Next]_vars /\ Fairness
-----------------------------------------------------------------------------
Matches(objs, kinds) ==
  /\ \A k \in DOMAIN objs : k[1] \in kinds =>
       /\ Is(live[k]) /\ live[k].ours
       /\ \A f \in DOMAIN objs[k] : f \in DOMAIN live[k].fields /\ live[k].fields[f] = objs[k][f]
  /\ \A k \in Keys \ DOMAIN objs : Contains(ClientKinds, k[1]) => ~live[k].ours

(* The cluster comes to match what the owner wants and Apply comes to      *)
(* rest, although requests fail, copies lag, the limiter delays and others *)
(* change or delete the objects: every error keeps the owner queued and    *)
(* every change of an object queues it again.  It holds for the kinds with *)
(* an informer: of the others nothing is pruned and no change is heard.    *)
Settles ==
  <>[](\/ HasErr(Wanted)
       \/ pass = Idle /\ ~queued /\ Matches(Collect(Wanted), ToSet(ClientKinds)))

(* An Apply that returns no error has done what was asked, for kinds found *)
(* by discovery too, if it compared with what was live and nobody else     *)
(* wrote meanwhile: no object is skipped, whether it had to be created,    *)
(* taken over, patched or deleted.                                         *)
SilentMeansDone ==
  [][Finish /\ ~pass.err /\ calm => Matches(pass.objs, {k[1] : k \in Keys})]_vars

(* Apply changes no field that only others set: the patch is three ways,   *)
(* also when it is made of an old copy or takes an object over.            *)
ForeignKept ==
  [][ApplyStep => \A k \in Keys : Is(live[k]) /\ Is(live'[k]) =>
       \A f \in Foreign \cap DOMAIN live[k].fields :
         f \in DOMAIN live'[k].fields /\ live'[k].fields[f] = live[k].fields[f]]_vars

(* The applied annotation accounts for every field Apply put on an object, *)
(* so that a later Apply can remove it.  The exception is an object that   *)
(* was patched from a copy older than its last patch: the fields of the    *)
(* patch in between are then on no record and stay for ever.               *)
NothingForgotten ==
  \A k \in Keys : Is(live[k]) /\ k \notin stale =>
    \A f \in DOMAIN live[k].fields : live[k].fields[f] # "x" => f \in DOMAIN live[k].applied
=============================================================================
