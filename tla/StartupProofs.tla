--------------------------- MODULE StartupProofs ---------------------------
(***************************************************************************)
(* For any number of servers, CRDs and configurations and any durations of *)
(* the lease, two servers run the master controllers at once only after an *)
(* answer that was too late, and a server serves only accepted CRDs.       *)
(***************************************************************************)
EXTENDS Startup, TLAPS

LeaseTypes ==
  /\ master \in [Servers -> {"off", "candidate", "elected", "running"}]
  /\ seen \in [Servers -> BOOLEAN]
  /\ age \in [Servers -> Nat]
  /\ call \in [Servers -> {"none", "sent", "done"}]
  /\ onWay \subseteq Servers
  /\ late \in [Servers -> Nat]
  /\ left \in [Servers -> Nat]

(* The longest time between an answer and the end of the window for the    *)
(* next renewal.                                                           *)
Term == RetryPeriod + RenewDeadline

(* A leader updates the lock in a window that it does not outlive.         *)
WindowInv ==
  \A s \in Servers : Leads(s) =>
    /\ left[s] <= Term
    /\ call[s] # "none" => left[s] <= RenewDeadline
    /\ call[s] = "done" => late[s] + left[s] <= RenewDeadline

(* The record of r has been there for n ticks, of which an answer took its *)
(* time and the rest of r's term the others.                               *)
Watched(r, n) ==
  /\ call[r] = "done" => n <= late[r]
  /\ Leads(r) /\ call[r] # "done" => n + left[r] <= late[r] + Term

(* Nobody has watched the holder's record for longer than it is there, and *)
(* an update of another server is only on its way after a lease.           *)
HolderInv ==
  \A r, s \in Servers : holder = r /\ s # r =>
    /\ seen[s] => Watched(r, age[s])
    /\ s \in onWay => Watched(r, LeaseDuration)

(* Who leads, or is about to, without the lock has had a late answer, and  *)
(* will not get the lock in its last window.                               *)
LoserInv ==
  \A r \in Servers : holder # r =>
    /\ call[r] = "done" => LeaseDuration <= late[r] /\ ~seen[r]
    /\ Leads(r) => LeaseDuration <= late[r] + Term
    /\ Leads(r) /\ seen[r] => age[r] + left[r] <= RenewDeadline
    /\ Leads(r) => r \notin onWay /\ holder # Nobody

(* An update that was carried out is no longer on its way.                 *)
DoneInv ==
  \A s \in Servers : call[s] = "done" => s \notin onWay /\ holder # Nobody

LeaseInv == LeaseTypes /\ WindowInv /\ HolderInv /\ LoserInv /\ DoneInv

LEMMA InitLease == Init => LeaseInv
  BY DEF Init, LeaseInv, LeaseTypes, WindowInv, HolderInv, LoserInv, DoneInv, Watched, Leads

(* A step that leaves the election alone.                                  *)
LEMMA ElsewhereLease ==
  ASSUME LeaseInv, UNCHANGED <<master, election>>
  PROVE  LeaseInv'
  BY DEF LeaseInv, LeaseTypes, WindowInv, HolderInv, LoserInv, DoneInv, Watched, Leads, election

(* Nobody comes to lead and who leads keeps its clock, the record stays,   *)
(* and what servers know of it grows no older.                             *)
LEMMA CalmLease ==
  ASSUME LeaseInv, LeaseTypes', UNCHANGED holder, onWay' \subseteq onWay,
         \A s \in Servers : Leads(s)' => Leads(s) /\ left'[s] = left[s] /\ late'[s] = late[s],
         \A s \in Servers : call'[s] # "none" => call'[s] = call[s] /\ late'[s] = late[s],
         \A s \in Servers : seen'[s] => seen[s] /\ age'[s] = age[s]
  PROVE  LeaseInv'
<1> USE DEF LeaseInv
<1>1. WindowInv'
  BY DEF WindowInv
<1>2. ASSUME NEW r \in Servers, NEW n \in Nat, Watched(r, n)
      PROVE  Watched(r, n)'
  <2>1. call'[r] = "done" => n <= late'[r]
    BY <1>2 DEF Watched
  <2>2. ASSUME Leads(r)', call'[r] # "done"
        PROVE  n + left'[r] <= late'[r] + Term
    <3>1. CASE call[r] = "done"
      BY <1>2, <2>2, <3>1, LeaseAssumption DEF Watched, WindowInv, LeaseTypes, Term
    <3>2. CASE call[r] # "done"
      BY <1>2, <2>2, <3>2 DEF Watched
    <3> QED
      BY <3>1, <3>2
  <2> QED
    BY <2>1, <2>2 DEF Watched
<1>3. HolderInv'
  <2> SUFFICES ASSUME NEW r \in Servers, NEW s \in Servers, holder = r, s # r
               PROVE  /\ seen'[s] => Watched(r, age[s])'
                      /\ s \in onWay' => Watched(r, LeaseDuration)'
    BY DEF HolderInv
  <2>1. ASSUME seen'[s] PROVE Watched(r, age[s])'
    <3>1. Watched(r, age[s]) /\ age'[s] = age[s] /\ age[s] \in Nat
      BY <2>1 DEF HolderInv, LeaseTypes
    <3> QED
      BY <3>1, <1>2
  <2>2. ASSUME s \in onWay' PROVE Watched(r, LeaseDuration)'
    BY <2>2, <1>2, LeaseAssumption DEF HolderInv
  <2> QED
    BY <2>1, <2>2
<1>4. LoserInv'
  BY DEF LoserInv
<1>5. DoneInv'
  BY DEF DoneInv
<1> QED
  BY <1>1, <1>3, <1>4, <1>5

(* The end of a process: it leads no more, and the others are as before.   *)
LEMMA DieLease ==
  ASSUME LeaseInv, NEW s \in Servers, Die(s), UNCHANGED <<holder, onWay>>
  PROVE  LeaseInv'
<1> USE DEF Die
<1>1. LeaseTypes'
  BY DEF LeaseInv, LeaseTypes
<1>2. \A r \in Servers : Leads(r)' => Leads(r) /\ left'[r] = left[r] /\ late'[r] = late[r]
  BY DEF LeaseInv, LeaseTypes, Leads
<1>3. \A r \in Servers : call'[r] # "none" => call'[r] = call[r] /\ late'[r] = late[r]
  BY DEF LeaseInv, LeaseTypes
<1>4. \A r \in Servers : seen'[r] => seen[r] /\ age'[r] = age[r]
  BY DEF LeaseInv, LeaseTypes
<1> QED
  BY <1>1, <1>2, <1>3, <1>4, CalmLease

(* The end of BatchWait makes a candidate of a server.                     *)
LEMMA RegisterLease ==
  ASSUME LeaseInv, NEW s \in Servers, Register(s)
  PROVE  LeaseInv'
<1>1. LeaseTypes'
  BY DEF LeaseInv, LeaseTypes, Register, election
<1>2. \A r \in Servers : Leads(r)' => Leads(r)
  BY DEF LeaseInv, LeaseTypes, Register, Leads
<1> QED
  BY <1>1, <1>2, CalmLease DEF Register, election

LEMMA MasterLease ==
  ASSUME LeaseInv, NEW s \in Servers, MasterControllers(s)
  PROVE  LeaseInv'
<1>1. LeaseTypes'
  BY DEF LeaseInv, LeaseTypes, MasterControllers, election
<1>2. \A r \in Servers : Leads(r)' => Leads(r)
  BY DEF LeaseInv, LeaseTypes, MasterControllers, Leads
<1> QED
  BY <1>1, <1>2, CalmLease DEF MasterControllers, election

LEMMA FailsLease ==
  ASSUME LeaseInv, NEW s \in Servers, Fails(s)
  PROVE  LeaseInv'
<1>1. LeaseTypes'
  BY DEF LeaseInv, LeaseTypes, Fails
<1>2. \A r \in Servers : Leads(r)' => Leads(r) /\ left'[r] = left[r] /\ late'[r] = late[r]
  BY DEF LeaseInv, LeaseTypes, Fails, Leads
<1>3. \A r \in Servers : call'[r] # "none" => call'[r] = call[r] /\ late'[r] = late[r]
  BY DEF LeaseInv, LeaseTypes, Fails
<1>4. onWay' \subseteq onWay
  BY DEF Fails
<1> QED
  BY <1>1, <1>2, <1>3, <1>4, CalmLease DEF Fails

LEMMA ObserveLease ==
  ASSUME LeaseInv, NEW s \in Servers, Observe(s)
  PROVE  LeaseInv'
<1> USE DEF LeaseInv, Observe
<1>1. LeaseTypes'
  BY DEF LeaseTypes
<1>2. WindowInv'
  BY DEF WindowInv, Leads
<1>3. \A r \in Servers : r # s => seen'[r] = seen[r] /\ age'[r] = age[r]
  BY DEF LeaseTypes
<1>4. age'[s] = 0 /\ call[s] = "none"
  BY DEF LeaseTypes, Tries
<1>5. ASSUME NEW r \in Servers PROVE Watched(r, 0)
  BY <1>5, LeaseAssumption DEF Watched, WindowInv, LeaseTypes, Term
<1>6. HolderInv'
  <2>1. ASSUME NEW r \in Servers, NEW n PROVE Watched(r, n)' = Watched(r, n)
    BY DEF Watched, Leads
  <2> SUFFICES ASSUME NEW r \in Servers, NEW q \in Servers, holder = r, q # r
               PROVE  /\ seen'[q] => Watched(r, age[q])'
                      /\ q \in onWay' => Watched(r, LeaseDuration)'
    BY DEF HolderInv
  <2> QED
    BY <2>1, <1>3, <1>4, <1>5 DEF HolderInv
<1>7. LoserInv'
  <2>1. Leads(s) => left[s] <= RenewDeadline /\ left[s] \in Nat
    BY DEF Tries, LeaseTypes, Leads
  <2> QED
    BY <1>3, <1>4, <2>1 DEF LoserInv, Leads
<1>8. DoneInv'
  BY DEF DoneInv
<1> QED
  BY <1>1, <1>2, <1>6, <1>7, <1>8

(* Who updates the record of another server has watched it for a lease;    *)
(* one that has lost the lock does not get there.                          *)
LEMMA UpdateLease ==
  ASSUME LeaseInv, NEW s \in Servers, Update(s)
  PROVE  LeaseInv'
<1> USE DEF LeaseInv, Update
<1>0. \A r \in Servers : r # Nobody
  BY HostAssumption DEF Nobody
<1>1. LeaseTypes'
  BY DEF LeaseTypes
<1>2. call[s] = "none" /\ call'[s] = "sent" /\ \A r \in Servers : r # s => call'[r] = call[r]
  BY DEF LeaseTypes, Tries
<1>3. WindowInv'
  BY <1>2, LeaseAssumption DEF WindowInv, Leads, Tries, LeaseTypes
<1>4. ASSUME NEW r \in Servers, NEW n PROVE Watched(r, n)' = Watched(r, n)
  BY <1>2 DEF Watched, Leads
<1>5. HolderInv'
  <2> SUFFICES ASSUME NEW r \in Servers, NEW q \in Servers, holder = r, q # r
               PROVE  /\ seen'[q] => Watched(r, age[q])'
                      /\ q \in onWay' => Watched(r, LeaseDuration)'
    BY DEF HolderInv
  <2>1. CASE q # s
    BY <2>1, <1>4 DEF HolderInv
  <2>2. CASE q = s
    <3>1. seen[s] /\ age[s] >= LeaseDuration /\ Watched(r, age[s])
      BY <1>0, <2>2 DEF HolderInv
    <3>2. Watched(r, LeaseDuration)
      BY <3>1, LeaseAssumption DEF Watched, LeaseTypes, Term
    <3> QED
      BY <1>4, <2>2, <3>1, <3>2
  <2> QED
    BY <2>1, <2>2
<1>6. LoserInv'
  <2>1. ~(Leads(s) /\ holder # s)
    <3> SUFFICES ASSUME Leads(s), holder # s PROVE FALSE
      OBVIOUS
    <3>1. CASE holder = Nobody
      BY <3>1 DEF LoserInv
    <3>2. CASE holder # Nobody
      BY <3>2, LeaseAssumption DEF LoserInv, LeaseTypes
    <3> QED
      BY <3>1, <3>2
  <2> QED
    BY <1>2, <2>1 DEF LoserInv, Leads
<1>7. DoneInv'
  BY <1>2 DEF DoneInv
<1> QED
  BY <1>1, <1>3, <1>5, <1>6, <1>7

(* The update of another server is carried out when the holder's answer    *)
(* was late; those who hold no lock stay without it.                       *)
LEMMA AppliedLease ==
  ASSUME LeaseInv, NEW s \in Servers, Applied(s)
  PROVE  LeaseInv'
<1> USE DEF LeaseInv, Applied
<1>0. s # Nobody
  BY HostAssumption DEF Nobody
<1>1. LeaseTypes'
  BY DEF LeaseTypes
<1>2. /\ late'[s] = 0 /\ call'[s] = (IF call[s] = "sent" THEN "done" ELSE call[s])
      /\ \A r \in Servers : r # s => late'[r] = late[r] /\ call'[r] = call[r]
      /\ \A r \in Servers : ~seen'[r]
  BY DEF LeaseTypes
<1>3. call[s] # "done"
  BY DEF DoneInv
<1>4. WindowInv'
  BY <1>2, <1>3 DEF WindowInv, LeaseTypes, Leads
<1>5. HolderInv'
  BY <1>2 DEF HolderInv
<1>6. LoserInv'
  <2> SUFFICES ASSUME NEW r \in Servers, r # s
               PROVE  /\ call[r] = "done" => LeaseDuration <= late[r]
                      /\ Leads(r) => LeaseDuration <= late[r] + Term
    BY <1>0, <1>2 DEF LoserInv, Leads
  <2>1. CASE holder # r
    BY <2>1 DEF LoserInv
  <2>2. CASE holder = r
    <3>1. Watched(r, LeaseDuration)
      BY <2>2 DEF HolderInv
    <3>2. CASE call[r] = "done"
      BY <3>1, <3>2, LeaseAssumption DEF Watched, LeaseTypes, Term
    <3>3. CASE call[r] # "done"
      BY <3>1, <3>3, LeaseAssumption DEF Watched, LeaseTypes, Term
    <3> QED
      BY <3>2, <3>3
  <2> QED
    BY <2>1, <2>2
<1>7. DoneInv'
  BY <1>0 DEF DoneInv
<1> QED
  BY <1>1, <1>4, <1>5, <1>6, <1>7

LEMMA AnsweredLease ==
  ASSUME LeaseInv, NEW s \in Servers, Answered(s)
  PROVE  LeaseInv'
<1> USE LeaseAssumption DEF LeaseInv, Answered
<1>1. LeaseTypes'
  BY DEF LeaseTypes
<1>2. /\ call'[s] = "none" /\ left'[s] \in Nat /\ left'[s] <= Term
      /\ \A r \in Servers : r # s => left'[r] = left[r] /\ call'[r] = call[r]
  BY DEF LeaseTypes, Term
<1>3. \A r \in Servers : r # s => (Leads(r)' <=> Leads(r))
  BY DEF LeaseTypes, Leads
<1>4. WindowInv'
  BY <1>2, <1>3 DEF WindowInv
<1>5. HolderInv'
  <2> SUFFICES ASSUME NEW r \in Servers, NEW q \in Servers, holder = r, q # r
               PROVE  /\ seen[q] => Watched(r, age[q])'
                      /\ q \in onWay => Watched(r, LeaseDuration)'
    BY DEF HolderInv
  <2>1. CASE r # s
    BY <2>1, <1>2, <1>3 DEF HolderInv, Watched
  <2>2. CASE r = s
    BY <2>2, <1>2 DEF HolderInv, Watched, LeaseTypes, Term
  <2> QED
    BY <2>1, <2>2
<1>6. LoserInv'
  <2>1. holder # s => LeaseDuration <= late[s] /\ ~seen[s] /\ s \notin onWay
    BY DEF LoserInv, DoneInv
  <2>2. holder # Nobody
    BY DEF DoneInv
  <2> QED
    BY <1>2, <1>3, <2>1, <2>2 DEF LoserInv, LeaseTypes, Term
<1>7. DoneInv'
  BY <1>2 DEF DoneInv
<1> QED
  BY <1>1, <1>4, <1>5, <1>6, <1>7

(* Time passes alike for the leader and for those who watch it.            *)
LEMMA TickLease ==
  ASSUME LeaseInv, Tick
  PROVE  LeaseInv'
<1> USE LeaseAssumption DEF LeaseInv
<1>1. UNCHANGED <<master, holder, seen, call, onWay>>
  BY DEF Tick
<1>2. \A s \in Servers : left[s] \in Nat /\ late[s] \in Nat /\ age[s] \in Nat
  BY DEF LeaseTypes
<1>3. ASSUME NEW s \in Servers
      PROVE  /\ Leads(s) => left[s] > 0 /\ left'[s] = left[s] - 1
             /\ age'[s] \in {age[s], age[s] + 1}
             /\ call[s] # "done" => late'[s] = late[s]
             /\ call[s] = "done" =>
                  late'[s] = late[s] + 1 \/ (late'[s] = late[s] /\ late[s] >= LeaseDuration)
  BY <1>2 DEF Tick
<1>4. LeaseTypes'
  BY DEF LeaseTypes, Tick, Leads
<1>5. \A s \in Servers : Leads(s)' <=> Leads(s)
  BY <1>1, <1>3 DEF Leads
<1>6. WindowInv'
  BY <1>1, <1>2, <1>3, <1>5 DEF WindowInv, Term
<1>7. HolderInv'
  <2> SUFFICES ASSUME NEW r \in Servers, NEW s \in Servers, holder = r, s # r
               PROVE  /\ seen[s] => Watched(r, age[s])'
                      /\ s \in onWay => Watched(r, LeaseDuration)'
    BY <1>1, <1>3 DEF HolderInv
  <2>1. seen[s] => Watched(r, age[s])'
    <3>1. seen[s] => Watched(r, age[s])
      BY DEF HolderInv
    <3>2. age'[s] <= LeaseDuration \/ age'[s] = age[s]
      BY <1>2 DEF Tick
    <3> QED
      BY <1>1, <1>2, <1>3, <1>5, <3>1, <3>2 DEF Watched, Term
  <2>2. s \in onWay => Watched(r, LeaseDuration)'
    BY <1>1, <1>2, <1>3, <1>5 DEF HolderInv, Watched, Term
  <2> QED
    BY <2>1, <2>2
<1>8. LoserInv'
  BY <1>1, <1>2, <1>3, <1>5 DEF LoserInv, Term
<1>9. DoneInv'
  BY <1>1, <1>3 DEF DoneInv
<1> QED
  BY <1>4, <1>6, <1>7, <1>8, <1>9

LEMMA NextLease ==
  ASSUME LeaseInv, [Next]_vars
  PROVE  LeaseInv'
<1>1. ASSUME NEW s \in Servers, BuildStep(s)
      PROVE  LeaseInv'
  <2>1. CASE Boot(s) \/ SyncThenStart(s)
    BY <2>1, ElsewhereLease DEF Boot, SyncThenStart
  <2>2. CASE Register(s)
    BY <2>2, RegisterLease
  <2>3. ASSUME NEW b \in Batches,
               ListCRDs(s, b) \/ CreateCRD(s, b) \/ ListAgain(s, b) \/ AssignStores(s, b)
        PROVE  LeaseInv'
    <3>1. UNCHANGED <<master, election>>
      BY <2>3, Zenon DEF ListCRDs, CreateCRD, Create, ListAgain, AssignStores
    <3> QED
      BY <3>1, ElsewhereLease
  <2>4. ASSUME NEW b \in Batches, Await(s, b)
        PROVE  LeaseInv'
    <3>1. \/ UNCHANGED <<master, election>>
          \/ Die(s) /\ UNCHANGED <<holder, onWay>>
      BY <2>4, Zenon DEF Await
    <3> QED
      BY <3>1, ElsewhereLease, DieLease
  <2> QED
    BY <1>1, <2>1, <2>2, <2>3, <2>4 DEF BuildStep
<1>2. ASSUME NEW s \in Servers, ElectionStep(s)
      PROVE  LeaseInv'
  <2>1. CASE OnStoppedLeading(s)
    BY <2>1, DieLease DEF OnStoppedLeading
  <2> QED
    BY <1>2, <2>1, ObserveLease, UpdateLease, AnsweredLease, FailsLease DEF ElectionStep
<1>3. ASSUME NEW s \in Servers, Crash(s)
      PROVE  LeaseInv'
  BY <1>3, DieLease DEF Crash
<1>4. ASSUME NEW s \in Servers, CutOff(s) \/ Reconnect(s)
      PROVE  LeaseInv'
  BY <1>4, ElsewhereLease DEF CutOff, Reconnect
<1>5. ASSUME NEW s \in Servers, MasterControllers(s) \/ Applied(s)
      PROVE  LeaseInv'
  BY <1>5, MasterLease, AppliedLease
<1>6. CASE Establish
  BY <1>6, ElsewhereLease DEF Establish
<1>7. CASE Tick
  BY <1>7, TickLease
<1>8. CASE UNCHANGED vars
  BY <1>8, ElsewhereLease DEF vars, election
<1> QED
  BY <1>1, <1>2, <1>3, <1>4, <1>5, <1>6, <1>7, <1>8 DEF Next

(* Two servers run the master controllers at once only if the answer to    *)
(* the last update of one was later than the lease leaves room for, for    *)
(* any durations that NewLeaderElector accepts, any number of servers and  *)
(* whatever crashes, restarts, outages and lost or delayed updates there   *)
(* are: every leader but the holder of the lock has had such an answer.    *)
(* leader.go:57-72, leaderelection.go:203-312.                             *)
THEOREM OneServerLeads == Spec => []OneMaster
<1>1. LeaseInv => OneMaster
  <2> SUFFICES ASSUME LeaseInv, NEW r \in Servers, NEW s \in Servers,
                      Leads(r), Leads(s), r # s
               PROVE  \E x \in {r, s} : late[x] + RetryPeriod + RenewDeadline >= LeaseDuration
    BY DEF OneMaster
  <2>1. PICK x \in {r, s} : holder # x
    OBVIOUS
  <2> QED
    BY <2>1, LeaseAssumption DEF LeaseInv, LoserInv, LeaseTypes, Term
<1> QED
  BY InitLease, NextLease, <1>1, PTL DEF Spec
-----------------------------------------------------------------------------
(* The goroutines of BatchCreateCRDs: what a list of the ready CRDs had is *)
(* accepted, ...                                                           *)
Objects == [name : Names \cup {""}, kind : {"accepted", "empty"}]

Lists == UNION {[N -> {"accepted"}] : N \in SUBSET Names}

Goroutines == [at : {"list", "create", "wait", "done"}, ready : Lists,
               status : Seq(Objects), left : SUBSET Nat]

BuildTypes ==
  /\ conf \in Configs
  /\ main \in [Servers -> {"down", "crds", "api", "up"}]
  /\ batch \in [Servers -> [Batches -> Goroutines]]
  /\ store \in [Servers -> [Schemas -> {"none", "accepted", "empty"}]]

(* ... and so is what the loop over schemaStatus is done with, ...         *)
StatusSoFar ==
  \A s \in Servers, b \in Batches : batch[s][b].at = "wait" =>
    /\ Len(batch[s][b].status) = Len(conf.crds[b])
    /\ batch[s][b].left \subseteq DOMAIN conf.crds[b]
    /\ \A i \in DOMAIN conf.crds[b] \ batch[s][b].left : batch[s][b].status[i].kind = "accepted"

(* ... and what the stores of a batch have that is done; all of them are   *)
(* when Build goes on.                                                     *)
BatchStored ==
  \A s \in Servers, b \in Batches : batch[s][b].at = "done" =>
    \A i \in DOMAIN conf.crds[b] : store[s][conf.crds[b][i]] = "accepted"

DoneBeforeBuild ==
  \A s \in Servers : main[s] \notin {"down", "crds"} => BatchWait(s)

BuildInv == BuildTypes /\ StatusSoFar /\ BatchStored /\ DoneBeforeBuild

LEMMA StartType == NotStarted \in Goroutines /\ <<>> \in Lists /\ <<>> \in Seq(Objects)
<1>1. <<>> \in [{} -> {"accepted"}]
  OBVIOUS
<1>2. <<>> \in Lists
  BY <1>1 DEF Lists
<1> QED
  BY <1>2 DEF NotStarted, Goroutines

LEMMA InitBuild == Init => BuildInv
<1> SUFFICES ASSUME Init
             PROVE  BuildInv
  OBVIOUS
<1>1. BuildTypes
  BY StartType DEF Init, BuildTypes, NoStores
<1>2. \A s \in Servers, b \in Batches : batch[s][b].at = "list"
  BY DEF Init, NotStarted
<1>3. StatusSoFar /\ BatchStored
  BY <1>2 DEF StatusSoFar, BatchStored
<1>4. DoneBeforeBuild
  BY DEF Init, DoneBeforeBuild
<1> QED
  BY <1>1, <1>3, <1>4 DEF BuildInv

(* A step of Build itself, or one elsewhere.                               *)
LEMMA MainBuild ==
  ASSUME BuildInv, UNCHANGED <<conf, batch, store>>,
         main' \in [Servers -> {"down", "crds", "api", "up"}],
         \A s \in Servers : main'[s] \in {main[s], "crds"} \/ BatchWait(s)
  PROVE  BuildInv'
<1>1. Batches' = Batches
  BY DEF Batches
<1>2. BuildTypes'
  BY <1>1 DEF BuildInv, BuildTypes
<1>3. StatusSoFar' /\ BatchStored'
  BY <1>1 DEF BuildInv, StatusSoFar, BatchStored
<1>4. \A s \in Servers : BatchWait(s)' <=> BatchWait(s)
  BY <1>1 DEF BatchWait
<1>5. DoneBeforeBuild'
  BY <1>4 DEF BuildInv, DoneBeforeBuild
<1> QED
  BY <1>2, <1>3, <1>5 DEF BuildInv

LEMMA ElsewhereBuild ==
  ASSUME BuildInv, UNCHANGED <<conf, main, batch, store>>
  PROVE  BuildInv'
  BY MainBuild DEF BuildInv, BuildTypes

(* The end of a process leaves its goroutines to be started again.         *)
LEMMA DieBuild ==
  ASSUME BuildInv, NEW s \in Servers, Die(s), UNCHANGED conf
  PROVE  BuildInv'
<1>1. Batches' = Batches
  BY DEF Batches
<1>2. BuildTypes'
  BY <1>1, StartType DEF BuildInv, BuildTypes, Die, NoStores
<1>3. \A b \in Batches : batch'[s][b].at = "list"
  BY DEF BuildInv, BuildTypes, Die, NotStarted
<1>4. /\ \A r \in Servers : r # s => batch'[r] = batch[r] /\ store'[r] = store[r] /\ main'[r] = main[r]
      /\ main'[s] = "down"
  BY DEF BuildInv, BuildTypes, Die
<1>5. StatusSoFar'
  BY <1>1, <1>3, <1>4 DEF BuildInv, StatusSoFar
<1>6. BatchStored'
  BY <1>1, <1>3, <1>4 DEF BuildInv, BatchStored
<1>7. DoneBeforeBuild'
  BY <1>1, <1>4 DEF BuildInv, DoneBeforeBuild, BatchWait
<1> QED
  BY <1>2, <1>5, <1>6, <1>7 DEF BuildInv

(* What one goroutine does to its own state is seen nowhere else.          *)
LEMMA GoesOn ==
  ASSUME BuildInv, NEW s \in Servers, NEW b \in Batches, NEW g \in Goroutines, Goes(s, b, g)
  PROVE  /\ batch' \in [Servers -> [Batches -> Goroutines]]
         /\ batch'[s][b] = g
         /\ \A r \in Servers, c \in Batches : r # s \/ c # b => batch'[r][c] = batch[r][c]
  BY DEF BuildInv, BuildTypes, Goes

LEMMA ReadyAccepted ==
  /\ GetReadyCRDs \in Lists
  /\ \A n \in Names : crd[n] = "established" => Kind(n) = "accepted"
<1>1. {m \in Names : crd[m] = "established"} \in SUBSET Names
  OBVIOUS
<1>2. GetReadyCRDs \in [{m \in Names : crd[m] = "established"} -> {"accepted"}]
  BY DEF GetReadyCRDs, Kind
<1> QED
  BY <1>1, <1>2 DEF Lists, Kind

LEMMA ListedAccepted ==
  ASSUME NEW l \in Lists, NEW n \in DOMAIN l
  PROVE  l[n] = "accepted"
  BY DEF Lists

LEMMA BatchNames ==
  ASSUME BuildInv, NEW b \in Batches
  PROVE  /\ conf.crds[b] \in Seq(Schemas)
         /\ \A i \in 1..Len(conf.crds[b]) :
              conf.crds[b][i] \in Schemas /\ NameOf[conf.crds[b][i]] \in Names
<1>1. conf.crds[b] \in Seq(Schemas)
  BY ConfigAssumption DEF BuildInv, BuildTypes, Batches, Schemas
<1> QED
  BY <1>1 DEF Names

(* A step of a goroutine before its stores.                                *)
LEMMA GoroutineBuild ==
  ASSUME BuildInv, NEW s \in Servers, NEW b \in Batches, NEW g \in Goroutines, Goes(s, b, g),
         UNCHANGED <<conf, main, store>>,
         main[s] = "crds",
         g.at \in {"create", "wait"},
         g.at = "wait" =>
           /\ Len(g.status) = Len(conf.crds[b])
           /\ g.left \subseteq DOMAIN conf.crds[b]
           /\ \A i \in DOMAIN conf.crds[b] \ g.left : g.status[i].kind = "accepted"
  PROVE  BuildInv'
<1>1. /\ batch' \in [Servers -> [Batches -> Goroutines]]
      /\ batch'[s][b] = g
      /\ \A r \in Servers, c \in Batches : r # s \/ c # b => batch'[r][c] = batch[r][c]
  BY GoesOn
<1>2. Batches' = Batches /\ conf' = conf
  BY DEF Batches
<1>3. BuildTypes'
  BY <1>1, <1>2 DEF BuildInv, BuildTypes
<1>4. StatusSoFar'
  <2> SUFFICES ASSUME NEW r \in Servers, NEW c \in Batches, batch'[r][c].at = "wait"
               PROVE  /\ Len(batch'[r][c].status) = Len(conf.crds[c])
                      /\ batch'[r][c].left \subseteq DOMAIN conf.crds[c]
                      /\ \A i \in DOMAIN conf.crds[c] \ batch'[r][c].left :
                           batch'[r][c].status[i].kind = "accepted"
    BY <1>2, Zenon DEF StatusSoFar
  <2>1. CASE r = s /\ c = b
    BY <1>1, <2>1, Zenon
  <2>2. CASE r # s \/ c # b
    <3>1. batch'[r][c] = batch[r][c]
      BY <1>1, <2>2
    <3> QED
      BY <3>1, Zenon DEF BuildInv, StatusSoFar
  <2> QED
    BY <2>1, <2>2
<1>5. BatchStored'
  BY <1>1, <1>2 DEF BuildInv, BatchStored
<1>6. DoneBeforeBuild'
  BY <1>1, <1>2 DEF BuildInv, DoneBeforeBuild, BatchWait
<1> QED
  BY <1>3, <1>4, <1>5, <1>6 DEF BuildInv

LEMMA ListBuild ==
  ASSUME BuildInv, NEW s \in Servers, NEW b \in Batches, ListCRDs(s, b)
  PROVE  BuildInv'
<1> DEFINE g == [batch[s][b] EXCEPT !.at = "create", !.ready = GetReadyCRDs]
<1>1. g \in Goroutines /\ g.at = "create"
  <2>1. batch[s][b] \in Goroutines
    BY DEF BuildInv, BuildTypes
  <2> QED
    BY <2>1, ReadyAccepted DEF Goroutines
<1>2. Goes(s, b, g) /\ main[s] = "crds" /\ UNCHANGED <<conf, main, store>>
  BY Zenon DEF ListCRDs, At, world
<1> HIDE DEF g
<1> QED
  BY <1>1, <1>2, GoroutineBuild

LEMMA CreateBuild ==
  ASSUME BuildInv, NEW s \in Servers, NEW b \in Batches, CreateCRD(s, b)
  PROVE  BuildInv'
<1> DEFINE n == NameOf[conf.crds[b][Len(batch[s][b].status) + 1]]
<1>1. /\ main[s] = "crds" /\ batch[s][b].at = "create"
      /\ Len(batch[s][b].status) < Len(conf.crds[b])
      /\ UNCHANGED <<conf, main, store>>
      /\ \/ /\ n \in DOMAIN batch[s][b].ready
            /\ Goes(s, b, [batch[s][b] EXCEPT !.status =
                             Append(@, [name |-> n, kind |-> batch[s][b].ready[n]])])
         \/ Goes(s, b, [batch[s][b] EXCEPT !.status = Append(@, Created(n))])
  BY Zenon DEF CreateCRD, Create, At, world
<1>2. batch[s][b] \in Goroutines
  BY DEF BuildInv, BuildTypes
<1>3. n \in Names
  <2>1. Len(batch[s][b].status) \in Nat /\ Len(conf.crds[b]) \in Nat
    BY <1>2, BatchNames DEF Goroutines
  <2>2. Len(batch[s][b].status) + 1 \in 1..Len(conf.crds[b])
    <3>1. Len(batch[s][b].status) < Len(conf.crds[b])
      BY <1>1
    <3>2. \A k, m \in Nat : k < m => k + 1 \in 1..m
      OBVIOUS
    <3> QED
      BY <2>1, <3>1, <3>2, Zenon
  <2> QED
    BY <2>2, BatchNames, Zenon
<1> HIDE DEF n
<1>4. PICK o \in Objects : Goes(s, b, [batch[s][b] EXCEPT !.status = Append(@, o)])
  <2>1. Created(n) \in Objects
    BY <1>3 DEF Objects, Created
  <2>2. ASSUME n \in DOMAIN batch[s][b].ready
        PROVE  [name |-> n, kind |-> batch[s][b].ready[n]] \in Objects
    <3>1. batch[s][b].ready[n] = "accepted"
      BY <1>2, <2>2, ListedAccepted DEF Goroutines
    <3> QED
      BY <1>3, <3>1 DEF Objects
  <2> QED
    BY <1>1, <2>1, <2>2, Zenon
<1> DEFINE l == Append(batch[s][b].status, o)
           g == [batch[s][b] EXCEPT !.status = l]
<1>5. g \in Goroutines /\ g.at = "create"
  <2>1. l \in Seq(Objects)
    BY <1>2 DEF Goroutines
  <2> HIDE DEF l
  <2> QED
    BY <1>1, <1>2, <2>1 DEF Goroutines
<1>6. Goes(s, b, g)
  BY <1>4
<1> HIDE DEF g
<1> QED
  BY <1>1, <1>5, <1>6, GoroutineBuild

LEMMA ListAgainBuild ==
  ASSUME BuildInv, NEW s \in Servers, NEW b \in Batches, ListAgain(s, b)
  PROVE  BuildInv'
<1> DEFINE g == [batch[s][b] EXCEPT !.at = "wait", !.ready = GetReadyCRDs, !.left = DOMAIN conf.crds[b]]
<1>1. DOMAIN conf.crds[b] \in SUBSET Nat
  BY BatchNames
<1>2. /\ g \in Goroutines /\ g.at = "wait"
      /\ g.left = DOMAIN conf.crds[b] /\ g.status = batch[s][b].status
  <2>1. batch[s][b] \in Goroutines
    BY DEF BuildInv, BuildTypes
  <2> QED
    BY <1>1, <2>1, ReadyAccepted DEF Goroutines
<1>3. /\ Goes(s, b, g) /\ main[s] = "crds"
      /\ Len(batch[s][b].status) = Len(conf.crds[b])
      /\ UNCHANGED <<conf, main, store>>
  BY Zenon DEF ListAgain, At, world
<1> HIDE DEF g
<1> QED
  BY <1>2, <1>3, GoroutineBuild

(* A round of the loop ends with an accepted kind, or with the process.    *)
LEMMA AwaitBuild ==
  ASSUME BuildInv, NEW s \in Servers, NEW b \in Batches, Await(s, b)
  PROVE  BuildInv'
<1>1. main[s] = "crds" /\ batch[s][b].at = "wait"
  BY DEF Await, At
<1>2. batch[s][b] \in Goroutines
  BY DEF BuildInv, BuildTypes
<1>3. PICK i \in batch[s][b].left :
        \/ /\ Goes(s, b, [batch[s][b] EXCEPT !.left = @ \ {i}, !.status[i].kind = "accepted"])
           /\ UNCHANGED <<conf, main, store>>
        \/ Die(s) /\ UNCHANGED conf
  <2>1. PICK i \in batch[s][b].left :
          LET g == batch[s][b]
              n == g.status[i].name
              Has(kind) == Goes(s, b, [g EXCEPT !.left = @ \ {i}, !.status[i].kind = kind])
          IN \/ /\ n \in DOMAIN g.ready
                /\ Has(g.ready[n])
                /\ UNCHANGED <<world, crd, main, store, master, election>>
             \/ /\ n \in Names \ DOMAIN g.ready
                /\ crd[n] = "established"
                /\ Has(Kind(n))
                /\ UNCHANGED <<world, crd, main, store, master, election>>
             \/ /\ n = ""
                /\ Die(s)
                /\ UNCHANGED <<world, crd, holder>>
    BY Zenon DEF Await
  <2>2. \A n \in DOMAIN batch[s][b].ready : batch[s][b].ready[n] = "accepted"
    BY <1>2, ListedAccepted DEF Goroutines
  <2> QED
    BY <2>1, <2>2, ReadyAccepted, Zenon DEF world
<1>4. CASE Die(s) /\ UNCHANGED conf
  BY <1>4, DieBuild
<1>5. CASE /\ Goes(s, b, [batch[s][b] EXCEPT !.left = @ \ {i}, !.status[i].kind = "accepted"])
           /\ UNCHANGED <<conf, main, store>>
  <2> DEFINE o == [batch[s][b].status[i] EXCEPT !.kind = "accepted"]
             l == [batch[s][b].status EXCEPT ![i] = o]
             g == [batch[s][b] EXCEPT !.left = @ \ {i}, !.status = l]
  <2>1. Goes(s, b, g)
    BY <1>5
  <2>2. conf.crds[b] \in Seq(Schemas) /\ batch[s][b].status \in Seq(Objects)
    BY <1>2, BatchNames DEF Goroutines
  <2>3. /\ Len(batch[s][b].status) = Len(conf.crds[b])
        /\ batch[s][b].left \subseteq DOMAIN conf.crds[b]
        /\ \A j \in DOMAIN conf.crds[b] \ batch[s][b].left : batch[s][b].status[j].kind = "accepted"
    BY <1>1 DEF BuildInv, StatusSoFar
  <2>4. DOMAIN conf.crds[b] = 1..Len(batch[s][b].status) /\ i \in 1..Len(batch[s][b].status)
    BY <2>2, <2>3
  <2>5. batch[s][b].status[i] \in Objects
    BY <2>2, <2>4
  <2>6. o \in Objects /\ o.kind = "accepted"
    BY <2>5 DEF Objects
  <2> HIDE DEF o
  <2>7. /\ l \in Seq(Objects) /\ Len(l) = Len(batch[s][b].status)
        /\ \A j \in 1..Len(batch[s][b].status) : l[j] = IF j = i THEN o ELSE batch[s][b].status[j]
    BY <2>2, <2>4, <2>6
  <2> HIDE DEF l
  <2>8. /\ g \in Goroutines /\ g.at = "wait"
        /\ g.left = batch[s][b].left \ {i} /\ g.status = l
    BY <1>1, <1>2, <2>7 DEF Goroutines
  <2> HIDE DEF g
  <2>9. \A j \in DOMAIN conf.crds[b] \ g.left : g.status[j].kind = "accepted"
    BY <2>3, <2>4, <2>6, <2>7, <2>8
  <2> QED
    BY <1>1, <1>5, <2>1, <2>3, <2>7, <2>8, <2>9, GoroutineBuild
<1> QED
  BY <1>3, <1>4, <1>5, Zenon

(* The stores of a batch all have an accepted kind, and take nothing from  *)
(* the stores of another.                                                  *)
LEMMA AssignBuild ==
  ASSUME BuildInv, NEW s \in Servers, NEW b \in Batches, AssignStores(s, b)
  PROVE  BuildInv'
<1> DEFINE g == [batch[s][b] EXCEPT !.at = "done", !.ready = <<>>, !.status = <<>>]
           Has(x) == \E i \in DOMAIN conf.crds[b] : conf.crds[b][i] = x
           Index(x) == CHOOSE i \in DOMAIN conf.crds[b] : conf.crds[b][i] = x
           given == [x \in Schemas |->
                       IF Has(x) THEN batch[s][b].status[Index(x)].kind ELSE store[s][x]]
<1>1. g \in Goroutines /\ g.at = "done"
  <2>1. batch[s][b] \in Goroutines
    BY DEF BuildInv, BuildTypes
  <2>2. ASSUME NEW l \in Lists, NEW o \in Seq(Objects)
        PROVE  LET h == [batch[s][b] EXCEPT !.at = "done", !.ready = l, !.status = o]
               IN h \in Goroutines /\ h.at = "done"
    BY <2>1 DEF Goroutines
  <2> QED
    BY <2>2, StartType, Zenon
<1>2. /\ Goes(s, b, g) /\ main[s] = "crds" /\ batch[s][b].at = "wait" /\ batch[s][b].left = {}
      /\ UNCHANGED <<conf, main>>
      /\ store' = [store EXCEPT ![s] = given]
  BY Zenon DEF AssignStores, At, world
<1> HIDE DEF g
<1>3. \A x \in Schemas : Has(x) => batch[s][b].status[Index(x)].kind = "accepted"
  <2> SUFFICES ASSUME NEW x \in Schemas, Has(x)
               PROVE  batch[s][b].status[Index(x)].kind = "accepted"
    OBVIOUS
  <2>1. Index(x) \in DOMAIN conf.crds[b]
    BY Zenon
  <2> HIDE DEF Index
  <2> QED
    BY <1>2, <2>1 DEF BuildInv, StatusSoFar
<1> HIDE DEF Index
<1>4. \A x \in Schemas : given[x] = IF Has(x) THEN "accepted" ELSE store[s][x]
  BY <1>3, Zenon
<1>5. given \in [Schemas -> {"none", "accepted", "empty"}]
  <2>1. \A x \in Schemas : given[x] \in {"none", "accepted", "empty"}
    BY <1>4 DEF BuildInv, BuildTypes
  <2>2. given = [x \in Schemas |-> given[x]]
    BY Zenon
  <2> HIDE DEF given
  <2> QED
    BY <2>1, <2>2, Zenon
<1> HIDE DEF given
<1>6. /\ batch' \in [Servers -> [Batches -> Goroutines]]
      /\ batch'[s][b] = g
      /\ \A r \in Servers, c \in Batches : r # s \/ c # b => batch'[r][c] = batch[r][c]
  BY <1>1, <1>2, GoesOn
<1>7. Batches' = Batches /\ conf' = conf
  BY <1>2 DEF Batches
<1>8. store'[s] = given /\ \A r \in Servers : r # s => store'[r] = store[r]
  BY <1>2, Zenon DEF BuildInv, BuildTypes
<1>9. BuildTypes'
  BY <1>2, <1>5, <1>6, <1>7 DEF BuildInv, BuildTypes
<1>10. StatusSoFar'
  <2>1. ASSUME NEW r \in Servers, NEW c \in Batches, batch'[r][c].at = "wait"
        PROVE  batch'[r][c] = batch[r][c]
    BY <1>1, <1>6, <2>1, Zenon
  <2> QED
    BY <1>7, <2>1 DEF BuildInv, StatusSoFar
<1>11. BatchStored'
  <2> SUFFICES ASSUME NEW r \in Servers, NEW c \in Batches, batch'[r][c].at = "done",
                      NEW i \in DOMAIN conf.crds[c]
               PROVE  store'[r][conf.crds[c][i]] = "accepted"
    BY <1>7, Zenon DEF BatchStored
  <2>1. conf.crds[c][i] \in Schemas
    BY BatchNames
  <2>2. CASE r = s /\ c = b
    BY <1>4, <1>8, <2>1, <2>2, Zenon
  <2>3. CASE r # s \/ c # b
    <3>1. store[r][conf.crds[c][i]] = "accepted"
      BY <1>6, <2>3 DEF BuildInv, BatchStored
    <3>2. CASE r = s
      BY <1>4, <1>8, <2>1, <3>1, <3>2
    <3> QED
      BY <1>8, <3>1, <3>2
  <2> QED
    BY <2>2, <2>3
<1>12. DoneBeforeBuild'
  BY <1>2, <1>6, <1>7 DEF BuildInv, DoneBeforeBuild, BatchWait
<1> QED
  BY <1>9, <1>10, <1>11, <1>12 DEF BuildInv

LEMMA NextBuild ==
  ASSUME BuildInv, [Next]_vars
  PROVE  BuildInv'
<1>1. ASSUME NEW s \in Servers, BuildStep(s)
      PROVE  BuildInv'
  <2>1. CASE Boot(s)
    BY <2>1, MainBuild DEF Boot, world, BuildInv, BuildTypes
  <2>2. CASE Register(s)
    BY <2>2, MainBuild DEF Register, world, BuildInv, BuildTypes
  <2>3. CASE SyncThenStart(s)
    <3>1. BatchWait(s)
      BY <2>3 DEF SyncThenStart, BuildInv, DoneBeforeBuild
    <3> QED
      BY <2>3, <3>1, MainBuild DEF SyncThenStart, world, BuildInv, BuildTypes
  <2> QED
    BY <1>1, <2>1, <2>2, <2>3, ListBuild, CreateBuild, ListAgainBuild, AwaitBuild, AssignBuild
       DEF BuildStep
<1>2. ASSUME NEW s \in Servers, ElectionStep(s)
      PROVE  BuildInv'
  <2>1. CASE OnStoppedLeading(s)
    BY <2>1, DieBuild DEF OnStoppedLeading, world
  <2>2. CASE Observe(s) \/ Update(s) \/ Answered(s) \/ Fails(s)
    BY <2>2, ElsewhereBuild DEF Observe, Update, Answered, Fails, world
  <2> QED
    BY <1>2, <2>1, <2>2 DEF ElectionStep
<1>3. ASSUME NEW s \in Servers, Crash(s)
      PROVE  BuildInv'
  BY <1>3, DieBuild DEF Crash
<1>4. ASSUME NEW s \in Servers, CutOff(s) \/ Reconnect(s) \/ MasterControllers(s) \/ Applied(s)
      PROVE  BuildInv'
  BY <1>4, ElsewhereBuild DEF CutOff, Reconnect, MasterControllers, Applied, world
<1>5. CASE Establish \/ Tick
  BY <1>5, ElsewhereBuild DEF Establish, Tick, world
<1>6. CASE UNCHANGED vars
  BY <1>6, ElsewhereBuild DEF vars, world
<1> QED
  BY <1>1, <1>2, <1>3, <1>4, <1>5, <1>6 DEF Next

(* A server never serves its API, and never stands for the election, with  *)
(* a store whose CRD the cluster has not accepted, whatever servers create *)
(* the same CRDs beside it, crash and start again: a goroutine that has    *)
(* tripped over a CRD of another server ends the process instead of        *)
(* assigning a store.  init.go:70-131, build.go:64.                        *)
THEOREM ServedStoresAreAccepted == Spec => []StoresAreReady
<1>1. BuildInv => StoresAreReady
  BY DEF BuildInv, DoneBeforeBuild, BatchStored, BatchWait, StoresAreReady
<1> QED
  BY InitBuild, NextBuild, <1>1, PTL DEF Spec
=============================================================================
