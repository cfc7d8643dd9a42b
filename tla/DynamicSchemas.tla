---------------------------- MODULE DynamicSchemas ----------------------------
(***************************************************************************)
(* A registry of schemas in the life of a server: types are imported while *)
(* it starts, and then schemas come, change and go while requests look     *)
(* schemas up.  The lock of the registry keeps writers apart; a lookup     *)
(* (Schemas.doSchema) takes it only to find the map of its version, and    *)
(* reads the map without it, so every step of a writer can be seen.        *)
(***************************************************************************)
EXTENDS Reflection

CONSTANTS
  Programs,  \* what a program imports, in any order: sets of records of a path,
             \* a type and its overrides
  Customs,   \* types named by the actions that MustCustomizeType adds, per type
  Dynamics,  \* dynamic schemas, in all their versions
  MaxCalls   \* bound: changes of dynamic schemas

VARIABLES
  reg,       \* the registry
  roots,     \* the imports of this program
  imported,  \* those that are done
  failed,    \* an import failed, which is a panic
  todo,      \* what the writer that holds the lock has still to do
  unlisted,  \* what AddSchema embedded and did not register, the ID being taken
  calls      \* changes of dynamic schemas so far

vars == <<reg, roots, imported, failed, todo, unlisted, calls>>

Init ==
  /\ reg = NewSchemas
  /\ roots \in Programs
  /\ imported = {} /\ failed = FALSE /\ todo = <<>> /\ unlisted = {} /\ calls = 0

(* MustImportAndCustomize.                                                 *)
Customized(r, root) ==
  IF root.type \notin DOMAIN Customs THEN r
  ELSE LET id == GetTypeName(root.type) IN [r EXCEPT !.byPath[root.path][id].actions = Customs[root.type]]

MustImport(root) ==
  /\ root \in roots \ imported /\ ~failed
  /\ LET st == Import(reg, root.path, root.type, root.overrides) IN
     /\ failed' = st.failed
     /\ reg' = IF st.failed THEN st.reg ELSE Customized(st.reg, root)
  /\ imported' = imported \cup {root}
  /\ UNCHANGED <<roots, todo, unlisted, calls>>

Call(first) ==
  /\ todo = <<>> /\ ~failed /\ imported = roots /\ calls < MaxCalls
  /\ todo' = <<first>> /\ calls' = calls + 1
  /\ UNCHANGED <<reg, roots, imported, failed>>

AddSchema(d) ==
  /\ Call([op |-> "add", schema |-> d, replace |-> FALSE])
  /\ unlisted' = IF d.id \in DOMAIN SchemasForVersion(reg, d.path) THEN unlisted \cup {d} ELSE unlisted
ForceAddSchema(d) ==
  Call([op |-> "add", schema |-> d, replace |-> TRUE]) /\ UNCHANGED unlisted
RemoveSchema(d) ==
  /\ d \in DoSchema(reg, d.path, d.id)
  /\ Call([op |-> "remove", schema |-> d])
  /\ UNCHANGED unlisted

Step ==
  /\ todo # <<>>
  /\ LET done == Apply(reg, Head(todo)) IN reg' = done.reg /\ todo' = done.todo \o Tail(todo)
  /\ UNCHANGED <<roots, imported, failed, unlisted, calls>>

Next ==
  \/ \E root \in roots : MustImport(root)
  \/ \E d \in Dynamics : AddSchema(d) \/ ForceAddSchema(d) \/ RemoveSchema(d)
  \/ Step

Spec == Init /\ [][Next]_vars
-----------------------------------------------------------------------------
All == UNION {{<<p, id>> : id \in DOMAIN reg.byPath[p]} : p \in DOMAIN reg.byPath}
At(e) == reg.byPath[e[1]][e[2]]
Quiet == todo = <<>> /\ ~failed

(* What a set of nodes leads to, along next.                               *)
RECURSIVE Reached(_, _)
Reached(next, S) ==
  LET more == S \cup UNION {next[i] : i \in S} IN IF more = S THEN S ELSE Reached(next, more)

FieldTypes(schemas) ==
  [i \in DOMAIN schemas |-> {SubType(schemas[i].fields[n].type) : n \in DOMAIN schemas[i].fields} \cap DOMAIN schemas]

(* Import takes in all that a type is made of: the type of every field is  *)
(* a schema of the same version, and the type mapper of a schema hands the *)
(* values of the field on to the mapper of that schema, but for a type     *)
(* that contains itself, whose half built schema is not there to be found. *)
ImportIsComplete ==
  ~failed /\ calls = 0 =>
    \A e \in All : \A n \in DOMAIN At(e).internal :
      LET type == At(e).internal[n].type
          sub  == SubType(type)
      IN  ~IsReferenceType(type) /\ sub \in {GetTypeName(t) : t \in DOMAIN GoTypes} =>
            /\ sub \in DOMAIN reg.byPath[e[1]]
            /\ n \in At(e).mapped \/ e[2] \in Reached(FieldTypes(reg.byPath[e[1]]), {sub})

(* Embedding leaves the target as it should be: dynamic fields are those   *)
(* of schemas that are registered, as they are now ("in case they've been  *)
(* removed from the dynamic schema so they won't be accidentally left      *)
(* over"), or of one that AddSchema embedded although another of its ID is *)
(* registered, and the target keeps the fields it was imported with unless *)
(* a dynamic schema has one of that name.  A lookup finds the target at    *)
(* any time but the one between its removal and its return.                *)
EmbedsInto(d, e) == d.path = e[1] /\ d.into \in {e[2], Plural[e[2]]}
Shadowing(e) == UNION {DOMAIN d.fields : d \in {x \in Dynamics : EmbedsInto(x, e)}}
EmbedIsClean ==
  /\ Quiet => \A e \in All : \A n \in DOMAIN At(e).fields :
                At(e).fields[n].dynamic /\ At(e).into = "" =>
                  \E d \in {At(x) : x \in All} \cup unlisted :
                    /\ EmbedsInto(d, e)
                    /\ n \in DOMAIN d.fields /\ d.fields[n] = At(e).fields[n]
  /\ \A root \in imported : ~failed =>
       LET id == GetTypeName(root.type)
           e  == <<root.path, id>>
       IN  IF e \in All THEN DOMAIN At(e).internal \ Shadowing(e) \subseteq DOMAIN At(e).fields
           ELSE \E i \in DOMAIN todo : todo[i].op = "add" /\ todo[i].schema.path = e[1] /\ todo[i].schema.id = id

(* Whoever asks what refers to a schema (the links of a resource) is told  *)
(* of every schema with a reference to it that is registered, also when    *)
(* the reference came with an embedded schema, and of none that is gone.   *)
(* A reference by a full name is not found: see ReferenceKey.              *)
BackReferences ==
  Quiet =>
    /\ \A e \in All : \A n \in DOMAIN At(e).fields :
         LET type == At(e).fields[n].type IN
         At(e).into = "" /\ IsReferenceType(type) /\ SubType(type) \notin DOMAIN FullNames =>
           [field |-> n, path |-> e[1], id |-> e[2]]
             \in References(reg, [path |-> e[1], id |-> SubType(type)])
    /\ \A k \in DOMAIN reg.refs : \A r \in Range(reg.refs[k]) : <<r.path, r.id>> \in All

(* The schemas shown to a client are those it may list and what they lead  *)
(* to by fields and actions, each of them once.                            *)
ListIsClosed ==
  \A p \in DOMAIN reg.byPath :
    LET schemas == reg.byPath[p]
        types   == FieldTypes(schemas)
        next    == [i \in DOMAIN schemas |-> types[i] \cup (schemas[i].actions \cap DOMAIN schemas)]
    IN  \A may \in SUBSET DOMAIN schemas : Cardinality(may) <= 2 =>
          LET listed == ListSchemas(schemas, may) IN
          /\ Len(listed) = Cardinality(Range(listed))
          /\ Range(listed) = Reached(next, may)
=============================================================================
