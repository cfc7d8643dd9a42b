------------------------------ MODULE Startup ------------------------------
(***************************************************************************)
(* Servers that start beside each other against one cluster: Config.Build  *)
(* with the goroutines it leaves behind, the CRD factory and the election  *)
(* of the server that runs the master controllers.                         *)
(*                                                                         *)
(* BatchCreateCRDs runs one goroutine per API version.  Each lists the     *)
(* CRDs, creates what is not ready, lists again and polls for the rest; an *)
(* error anywhere panics and ends the process.  Build goes on when every   *)
(* goroutine is done.  A process that ends is started again from nothing.  *)
(*                                                                         *)
(* Time passes in ticks, and alike for all: clocks run at one rate and a   *)
(* timer goes off when it is due.  The cluster answers a server's calls    *)
(* within the tick, except that for a while it may be slow or out of reach *)
(* for one.  Then a call fails, or is answered late, or takes effect after *)
(* the caller has given up or died.                                        *)
(***************************************************************************)
EXTENDS Naturals, Sequences, FiniteSets

CONSTANTS
  Servers,       \* host names, each the identity of one server
  Configs,       \* the configurations: [crds, controllers], the schemas by
                 \* API version, and the servers without Options.DisableControllers
  NameOf,        \* the name of a schema's CRD; versions of a group share it
  LeaseDuration, \* in ticks, as are
  RenewDeadline, \* this
  RetryPeriod,   \* and this
  MaxTroubles    \* bound: failed calls, crashes and outages

(* NewLeaderElector refuses other durations.                               *)
ASSUME LeaseAssumption ==
  /\ LeaseDuration \in Nat /\ RenewDeadline \in Nat /\ RetryPeriod \in Nat \ {0}
  /\ RetryPeriod < RenewDeadline /\ RenewDeadline < LeaseDuration

ASSUME HostAssumption == "" \notin Servers

ASSUME ConfigAssumption ==
  \A c \in Configs : \A v \in DOMAIN c.crds : c.crds[v] \in Seq(DOMAIN NameOf)

Nobody == ""
Schemas == DOMAIN NameOf
Names == {NameOf[x] : x \in Schemas}

VARIABLES
  conf,     \* the configuration
  crd,      \* the CRDs of the cluster: "absent", "created" or "established"
  main,     \* where the Build of each server is
  batch,    \* its goroutines of BatchCreateCRDs
  store,    \* the kind behind each schema's store: "none", "accepted" or "empty"
  master,   \* masterControllers: "off", "candidate", "elected" or "running"
  holder,   \* the identity in the record of the lock
  seen,     \* the server has observed the present record
  age,      \* the ticks since it did: observedTime
  call,     \* its update of the lock: "none", "sent", or "done" but not answered
  onWay,    \* the servers with an update on its way that the record still allows
  late,     \* the ticks that the answer to its last update took
  left,     \* the ticks until a leader gives up
  away,     \* the servers for which the cluster is slow or out of reach
  troubles  \* what is left of MaxTroubles

election == <<holder, seen, age, call, onWay, late, left>>
world == <<conf, away, troubles>>
vars == <<world, crd, main, batch, store, master, election>>

Batches == DOMAIN conf.crds

NotStarted == [at |-> "list", ready |-> <<>>, status |-> <<>>, left |-> {}]
NoStores == [x \in Schemas |-> "none"]

Init ==
  /\ conf \in Configs
  /\ crd = [n \in Names |-> "absent"]
  /\ main = [s \in Servers |-> "down"]
  /\ batch = [s \in Servers |-> [b \in Batches |-> NotStarted]]
  /\ store = [s \in Servers |-> NoStores]
  /\ master = [s \in Servers |-> "off"]
  /\ holder = Nobody
  /\ seen = [s \in Servers |-> FALSE]
  /\ age = [s \in Servers |-> 0]
  /\ call = [s \in Servers |-> "none"]
  /\ onWay = {}
  /\ late = [s \in Servers |-> 0]
  /\ left = [s \in Servers |-> 0]
  /\ away = {}
  /\ troubles = MaxTroubles
-----------------------------------------------------------------------------
(* panic, logrus.Fatalf or an error Build returns: all of the process goes *)
(* and the record of the lock stays, as does an update on its way.         *)
Die(s) ==
  /\ main' = [main EXCEPT ![s] = "down"]
  /\ batch' = [batch EXCEPT ![s] = [b \in Batches |-> NotStarted]]
  /\ store' = [store EXCEPT ![s] = NoStores]
  /\ master' = [master EXCEPT ![s] = "off"]
  /\ seen' = [seen EXCEPT ![s] = FALSE]
  /\ age' = [age EXCEPT ![s] = 0]
  /\ call' = [call EXCEPT ![s] = "none"]
  /\ late' = [late EXCEPT ![s] = 0]
  /\ left' = [left EXCEPT ![s] = 0]

(* A failed call of the CRD factory, a CRD that is not established for a   *)
(* minute, an error of one of Build's steps or of the master's, a kill.    *)
Crash(s) ==
  /\ main[s] # "down"
  /\ troubles > 0
  /\ troubles' = troubles - 1
  /\ Die(s)
  /\ UNCHANGED <<conf, crd, holder, onWay, away>>

(* Without the cluster a start ends with the first list of the CRDs.      *)
Boot(s) ==
  /\ main[s] = "down"
  /\ s \notin away
  /\ main' = [main EXCEPT ![s] = "crds"]
  /\ UNCHANGED <<world, crd, batch, store, master, election>>
-----------------------------------------------------------------------------
(* The factory.  Of a CRD's object it keeps the name and the accepted      *)
(* kind, which is empty until the CRD is established.                      *)
Kind(n) == IF crd[n] = "established" THEN "accepted" ELSE "empty"

(* Mutant: the CRDs of the list, whatever their conditions.                *)
GetReadyCRDsAny == [n \in {m \in Names : crd[m] # "absent"} |-> Kind(n)]

GetReadyCRDs == [n \in {m \in Names : crd[m] = "established"} |-> Kind(n)]

At(s, b, at) == main[s] = "crds" /\ batch[s][b].at = at
Goes(s, b, g) == batch' = [batch EXCEPT ![s][b] = g]

ListCRDs(s, b) ==
  /\ At(s, b, "list")
  /\ Goes(s, b, [batch[s][b] EXCEPT !.at = "create", !.ready = GetReadyCRDs])
  /\ UNCHANGED <<world, crd, main, store, master, election>>

(* Create answers with the new object, or says AlreadyExists, which counts *)
(* as success, and leaves an object without a name.                        *)
Create(n) ==
  /\ crd' = [crd EXCEPT ![n] = IF @ = "absent" THEN "created" ELSE @]
  /\ UNCHANGED <<world, main, store, master, election>>

Created(n) == [name |-> IF crd[n] = "absent" THEN n ELSE "", kind |-> "empty"]

(* Mutant: a CRD is created without a look at the ready ones.              *)
CreateCRDAlways(s, b) ==
  LET g == batch[s][b]
      n == NameOf[conf.crds[b][Len(g.status) + 1]]
  IN /\ At(s, b, "create")
     /\ Len(g.status) < Len(conf.crds[b])
     /\ Goes(s, b, [g EXCEPT !.status = Append(@, Created(n))])
     /\ Create(n)

(* The next schema of the batch.                                           *)
CreateCRD(s, b) ==
  LET g == batch[s][b]
      n == NameOf[conf.crds[b][Len(g.status) + 1]]
  IN /\ At(s, b, "create")
     /\ Len(g.status) < Len(conf.crds[b])
     /\ \/ /\ n \in DOMAIN g.ready
           /\ Goes(s, b, [g EXCEPT !.status =
                             Append(@, [name |-> n, kind |-> g.ready[n]])])
           /\ UNCHANGED <<world, crd, main, store, master, election>>
        \/ /\ n \notin DOMAIN g.ready
           /\ Goes(s, b, [g EXCEPT !.status = Append(@, Created(n))])
           /\ Create(n)

ListAgain(s, b) ==
  LET g == batch[s][b] IN
  /\ At(s, b, "create")
  /\ Len(g.status) = Len(conf.crds[b])
  /\ Goes(s, b, [g EXCEPT !.at = "wait", !.ready = GetReadyCRDs, !.left = DOMAIN conf.crds[b]])
  /\ UNCHANGED <<world, crd, main, store, master, election>>

(* One round of the loop over schemaStatus, a map, so in any order: the    *)
(* object of the list, or waitCRD.  The API server has nothing under an    *)
(* empty name, and the error of the first poll ends the process.           *)
Await(s, b) ==
  /\ At(s, b, "wait")
  /\ \E i \in batch[s][b].left :
       LET g == batch[s][b]
           n == g.status[i].name
           Has(kind) == Goes(s, b, [g EXCEPT !.left = @ \ {i}, !.status[i].kind = kind])
       IN \/ /\ n \in DOMAIN g.ready
             /\ Has(g.ready[n])
             /\ UNCHANGED <<world, crd, main, store, master, election>>
          \/ /\ n \in Names \ DOMAIN g.ready
             /\ crd[n] = "established"
             /\ Has(Kind(n))
             /\ UNCHANGED <<world, crd, main, store, master, election>>
          \/ /\ n = ""
             /\ Die(s)
             /\ UNCHANGED <<world, crd, holder, onWay>>

(* The stores of the batch, and wg.Done.                                   *)
AssignStores(s, b) ==
  LET g == batch[s][b]
      Index(x) == CHOOSE i \in DOMAIN conf.crds[b] : conf.crds[b][i] = x
  IN /\ At(s, b, "wait")
     /\ g.left = {}
     /\ Goes(s, b, [g EXCEPT !.at = "done", !.ready = <<>>, !.status = <<>>])
     /\ store' = [store EXCEPT ![s] = [x \in Schemas |->
                    IF \E i \in DOMAIN conf.crds[b] : conf.crds[b][i] = x
                    THEN g.status[Index(x)].kind ELSE @[x]]]
     /\ UNCHANGED <<world, crd, main, master, election>>

(* The API server establishes a CRD when it gets to it.                    *)
Establish ==
  /\ \E n \in Names : crd[n] = "created" /\ crd' = [crd EXCEPT ![n] = "established"]
  /\ UNCHANGED <<world, main, batch, store, master, election>>
-----------------------------------------------------------------------------
(* Build after the CRDs: setup, the goroutine of the master controllers and *)
(* apiServer, from where on requests reach the stores.                     *)
BatchWait(s) == \A b \in Batches : batch[s][b].at = "done"

Register(s) ==
  /\ main[s] = "crds"
  /\ BatchWait(s)
  /\ main' = [main EXCEPT ![s] = "api"]
  /\ master' = [master EXCEPT ![s] = IF s \in conf.controllers THEN "candidate" ELSE @]
  /\ UNCHANGED <<world, crd, batch, store, election>>

(* PreStart and the server's own SyncThenStart.                            *)
SyncThenStart(s) ==
  /\ main[s] = "api"
  /\ s \notin away
  /\ main' = [main EXCEPT ![s] = "up"]
  /\ UNCHANGED <<world, crd, batch, store, master, election>>
-----------------------------------------------------------------------------
(* The election: client-go's elector with the identity and the times of    *)
(* leader.run.  Updates carry the version of the record that was read, so  *)
(* a change of the record makes those on their way fail.                   *)
Leads(s) == master[s] \in {"elected", "running"}

(* tryAcquireOrRenew: a candidate's loop calls it, and a leader's once its *)
(* wait of RetryPeriod is over.                                            *)
Tries(s) ==
  /\ call[s] = "none"
  /\ master[s] = "candidate" \/ (Leads(s) /\ left[s] <= RenewDeadline)

(* The record has changed and is another server's: time counts from now.   *)
Observe(s) ==
  /\ Tries(s)
  /\ ~seen[s] /\ holder \notin {Nobody, s}
  /\ seen' = [seen EXCEPT ![s] = TRUE]
  /\ age' = [age EXCEPT ![s] = 0]
  /\ UNCHANGED <<world, crd, main, batch, store, master, holder, call, onWay, late, left>>

(* There is no record, or it is the server's own, or one that has not      *)
(* changed for LeaseDuration: it is created or updated.                    *)
Update(s) ==
  /\ Tries(s)
  /\ holder \in {Nobody, s} \/ (seen[s] /\ age[s] >= LeaseDuration)
  /\ call' = [call EXCEPT ![s] = "sent"]
  /\ onWay' = onWay \cup {s}
  /\ UNCHANGED <<world, crd, main, batch, store, master, holder, seen, age, late, left>>

(* The cluster carries an update out, whether or not somebody waits for    *)
(* the answer.                                                             *)
Applied(s) ==
  /\ s \in onWay
  /\ holder' = s
  /\ onWay' = {}
  /\ seen' = [r \in Servers |-> FALSE]
  /\ age' = [r \in Servers |-> 0]
  /\ late' = [late EXCEPT ![s] = 0]
  /\ call' = [call EXCEPT ![s] = IF @ = "sent" THEN "done" ELSE @]
  /\ UNCHANGED <<world, crd, main, batch, store, master, left>>

(* The answer: a candidate is elected and opens its first window for a     *)
(* renewal; a leader's next one opens after RetryPeriod.                   *)
Answered(s) ==
  /\ call[s] = "done"
  /\ call' = [call EXCEPT ![s] = "none"]
  /\ master' = [master EXCEPT ![s] = IF @ = "candidate" THEN "elected" ELSE @]
  /\ left' = [left EXCEPT ![s] = RenewDeadline + IF Leads(s) THEN RetryPeriod ELSE 0]
  /\ UNCHANGED <<world, crd, main, batch, store, holder, seen, age, onWay, late>>

(* A conflict, or a call to a cluster out of reach: it is tried again.  An *)
(* update on its way may get lost or not.                                  *)
Fails(s) ==
  /\ call[s] # "none"
  /\ s \in away \/ (call[s] = "sent" /\ s \notin onWay)
  /\ call' = [call EXCEPT ![s] = "none"]
  /\ onWay' \in {onWay, onWay \ {s}}
  /\ late' = [late EXCEPT ![s] = IF Leads(s) THEN @ ELSE 0]
  /\ UNCHANGED <<world, crd, main, batch, store, master, holder, seen, age, left>>

(* The callback of masterControllers: setup, registration, SyncThenStart.  *)
MasterControllers(s) ==
  /\ master[s] = "elected"
  /\ master' = [master EXCEPT ![s] = "running"]
  /\ UNCHANGED <<world, crd, main, batch, store, election>>

(* Mutant: a server that has lost the election goes on.                    *)
OnStoppedLeadingGoesOn(s) ==
  /\ Leads(s)
  /\ left[s] = 0
  /\ left' = [left EXCEPT ![s] = RenewDeadline]
  /\ UNCHANGED <<world, crd, main, batch, store, master, holder, seen, age, call, onWay, late>>

(* No renewal within the deadline: logrus.Fatalf.                          *)
OnStoppedLeading(s) ==
  /\ Leads(s)
  /\ left[s] = 0
  /\ Die(s)
  /\ UNCHANGED <<world, crd, holder, onWay>>

(* For a server that takes part in the election the cluster is slow or out *)
(* of reach for a while.                                                   *)
CutOff(s) ==
  /\ master[s] # "off"
  /\ s \notin away
  /\ troubles > 0
  /\ troubles' = troubles - 1
  /\ away' = away \cup {s}
  /\ UNCHANGED <<conf, crd, main, batch, store, master, election>>

Reconnect(s) ==
  /\ s \in away
  /\ away' = away \ {s}
  /\ UNCHANGED <<conf, crd, main, batch, store, master, election, troubles>>

(* With the cluster at hand, calls are answered and a lease that can be    *)
(* renewed is before time goes on.                                         *)
Prompt(s) == s \notin away =>
  /\ call[s] = "none"
  /\ Leads(s) /\ holder = s => left[s] > RenewDeadline

(* Time does not go on past the moment at which a leader gives up.         *)
Tick ==
  /\ \A s \in Servers : Prompt(s) /\ (Leads(s) => left[s] > 0)
  /\ left' = [s \in Servers |-> IF Leads(s) THEN left[s] - 1 ELSE 0]
  /\ age' = [s \in Servers |->
               IF seen[s] /\ age[s] < LeaseDuration THEN age[s] + 1 ELSE age[s]]
  /\ late' = [s \in Servers |->
                IF call[s] = "done" /\ late[s] < LeaseDuration THEN late[s] + 1 ELSE late[s]]
  /\ UNCHANGED <<world, crd, main, batch, store, master, holder, seen, call, onWay>>
-----------------------------------------------------------------------------
BuildStep(s) ==
  \/ Boot(s) \/ Register(s) \/ SyncThenStart(s)
  \/ \E b \in Batches :
       ListCRDs(s, b) \/ CreateCRD(s, b) \/ ListAgain(s, b) \/ Await(s, b) \/ AssignStores(s, b)

ElectionStep(s) ==
  Observe(s) \/ Update(s) \/ Answered(s) \/ Fails(s) \/ OnStoppedLeading(s)

Next ==
  \/ \E s \in Servers :
       \/ BuildStep(s) \/ ElectionStep(s) \/ MasterControllers(s) \/ Applied(s)
       \/ Crash(s) \/ CutOff(s) \/ Reconnect(s)
  \/ Establish
  \/ Tick

(* Goroutines run, the API server gets to every call and CRD, time passes, *)
(* an outage ends, and whatever runs the servers starts them again.        *)
Fairness ==
  /\ \A s \in Servers :
       WF_vars(BuildStep(s)) /\ WF_vars(ElectionStep(s)) /\ WF_vars(MasterControllers(s))
  /\ WF_vars(\E s \in Servers : Applied(s)) /\ WF_vars(\E s \in Servers : Reconnect(s))
  /\ WF_vars(Establish)
  /\ WF_vars(Tick)

Spec == Init /\ [][Next]_vars /\ Fairness
-----------------------------------------------------------------------------
(* The master controllers run in two servers at once only if the answer to *)
(* the last update of one of them was late: by the 13 seconds that a lease *)
(* of 45 leaves beside the 2 before a window for renewal and the 30 of the *)
(* window.  Crashes, conflicts, outages and updates that take effect late  *)
(* do not lead there.  leader.go:57-72, leaderelection.go:203-292.         *)
OneMaster ==
  \A r, s \in Servers : Leads(r) /\ Leads(s) /\ r # s =>
    \E x \in {r, s} : late[x] + RetryPeriod + RenewDeadline >= LeaseDuration

(* A server whose API is up, or that stands for the election, has for each *)
(* of its schemas a store with the names the cluster accepted, of whatever *)
(* batch, and whoever created the CRD.  init.go:70-131, build.go:64.       *)
StoresAreReady ==
  \A s \in Servers : main[s] \notin {"down", "crds"} =>
    \A b \in Batches : \A i \in DOMAIN conf.crds[b] :
      store[s][conf.crds[b][i]] = "accepted"

(* Servers that trip over each other's CRDs come up in the end, all of     *)
(* them, and if one has its controllers enabled the master controllers run *)
(* somewhere.  init.go:197-200, build.go:64-108.                           *)
AllComeUp ==
  <>[](/\ \A s \in Servers : main[s] = "up"
       /\ (conf.controllers # {} => \E s \in Servers : master[s] = "running"))
=============================================================================
