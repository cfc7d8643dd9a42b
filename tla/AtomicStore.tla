----------------------------- MODULE AtomicStore -----------------------------
(***************************************************************************)
(* What the API promises its clients: a request takes effect once, at one  *)
(* moment between the call and the answer, on the objects as they are at   *)
(* that moment; or it is refused, and has no effect.  An answer may be     *)
(* lost after the effect; and a client that is told that its request timed *)
(* out may find that it takes effect later, still once and at one moment.  *)
(* There are no versions, rounds or conflicts here, no bodies to build and *)
(* nothing to map or merge: an object is the value of each of its fields.  *)
(***************************************************************************)
EXTENDS Values, SequencesExt

CONSTANTS
  Clients,
  Wants,         \* what a client may ask for: [op, id, sets, whole, plain]
  Objects,       \* the objects at first: name to fields
  NewNames,      \* the names an object without one may get
  Specified,     \* the fields of the object's own specification
  Updatable,     \* the fields an update may set
  Hidden,        \* the fields only the answer to a create shows
  Defaults,      \* the fields that have a default, with it
  Mark,          \* the label of every object created here
  Protected,     \* labels no client changes
  Attached,      \* labels that stay when an update does not name them
  ControllerSets \* what the controller may set state to

VARIABLES
  store,
  call,
  adrift  \* what was asked for, given up, and may still take effect

avars == <<store, call, adrift>>

NobodyAsks == [phase |-> "idle", want |-> [op |-> "none"], ok |-> FALSE, out |-> Empty]

AInit ==
  /\ store = Objects
  /\ call = [c \in Clients |-> NobodyAsks]
  /\ adrift = <<>>

(* The labels of an object that had old and is given new.                  *)
Labels(old, new) ==
  Only(old, Protected) @@ Without(new, Protected) @@ Only(old, Attached)

Created(w, n) ==
  LET given == w.sets @@ Defaults
      named == ("name" :> Str(n)) @@ ("labels" :> Map(Mark @@ Sub(given, "labels")))
  IN  named @@ given

(* Replaced as a whole, an object loses what an update could set and does  *)
(* not; and all of its specification if the update sets none of it.        *)
Updated(w, old) ==
  LET lost == CASE ~w.whole                        -> {}
                [] DOMAIN w.sets \cap Specified = {}    -> Specified
                [] OTHER                           -> (Specified \cap Updatable) \ DOMAIN w.sets
      set  == IF Has(w.sets, "labels") THEN Set(w.sets, "labels", Map(Labels(Sub(old, "labels"), Sub(w.sets, "labels"))))
                                       ELSE w.sets
      base == IF Has(old, "labels") THEN old ELSE Set(old, "labels", Map(Empty))
  IN  set @@ Without(base, lost)

(* An object that somebody holds on to is marked.                          *)
Deleted(n) ==
  IF Has(store[n], "finalizers") THEN [store EXCEPT ![n] = Set(@, "deletionTimestamp", Str("now"))]
                                 ELSE Without(store, {n})

Shown(w, v) ==
  IF ~w.plain \/ w.op \in {"delete", "list"} THEN Empty
  ELSE Without(v @@ Defaults, {"finalizers", "deletionTimestamp"} \cup IF w.op = "create" THEN {} ELSE Hidden)

-----------------------------------------------------------------------------
Ask(c) ==
  /\ call[c].phase = "idle" /\ call'[c].phase = "asked"
  /\ call'[c].want \in Wants
  /\ call' = [call EXCEPT ![c] = [NobodyAsks EXCEPT !.phase = "asked", !.want = call'[c].want]]
  /\ UNCHANGED <<store, adrift>>

(* What w may do: the store and its object afterwards.                     *)
Outcomes(w) ==
  LET names == (IF Has(w.sets, "name") THEN {w.sets["name"][2]} ELSE NewNames) \ DOMAIN store
      to(os, o) == [store |-> os, object |-> o]
  IN  CASE w.op = "create" -> {to(Set(store, n, Created(w, n)), Created(w, n)) : n \in names}
        [] w.op = "list"   -> {to(store, Empty)}
        [] w.op \in {"update", "delete", "byid"} /\ w.id \in DOMAIN store ->
             {CASE w.op = "update" -> to(Set(store, w.id, Updated(w, store[w.id])), Updated(w, store[w.id]))
                [] w.op = "delete" -> to(Deleted(w.id), Empty)
                [] w.op = "byid"   -> to(store, store[w.id])}
        [] OTHER -> {}

(* The effect, and what the client will be told of it unless that is lost. *)
Act(c) ==
  LET w == call[c].want IN
  /\ call[c].phase = "asked"
  /\ \E r \in Outcomes(w) :
       /\ store' = r.store
       /\ call' \in {[call EXCEPT ![c].phase = "acted", ![c].ok = TRUE, ![c].out = Shown(w, r.object)],
                    [call EXCEPT ![c].phase = "acted"]}
  /\ UNCHANGED adrift

(* A write is given up, and is done later or never.                        *)
GiveUp(c) ==
  /\ call[c].phase = "asked" /\ call[c].want.op \in {"create", "update", "delete"}
  /\ call' = [call EXCEPT ![c].phase = "adrift"]
  /\ adrift' = Append(adrift, call[c].want)
  /\ UNCHANGED store

Arrive(i) ==
  /\ store' \in {store} \cup {r.store : r \in Outcomes(adrift[i])}
  /\ adrift' = RemoveAt(adrift, i)
  /\ UNCHANGED call

(* The answer, or the refusal, is with the client, which may ask again.    *)
Answer(c) ==
  /\ call[c].phase # "idle"
  /\ call' = [call EXCEPT ![c] = NobodyAsks]
  /\ UNCHANGED <<store, adrift>>

(* The controller writes the one field that is its own.                    *)
Record(n, s) ==
  /\ n \in DOMAIN store
  /\ store' = [store EXCEPT ![n] = Set(@, "state", Str(s))]
  /\ UNCHANGED <<call, adrift>>

(* Whoever held on to a deleted object lets go of it.                      *)
LetGo(n) ==
  /\ Has(store[n], "deletionTimestamp")
  /\ store' = Without(store, {n})
  /\ UNCHANGED <<call, adrift>>

ANext ==
  \/ \E c \in Clients : Ask(c) \/ Act(c) \/ GiveUp(c) \/ Answer(c)
  \/ \E i \in DOMAIN adrift : Arrive(i)
  \/ \E n \in DOMAIN store : LetGo(n) \/ \E s \in ControllerSets : Record(n, s)

ASpec == AInit /\ [][ANext]_avars
=============================================================================
