------------------------------- MODULE Schemas -------------------------------
(***************************************************************************)
(* types.Schemas, the registry of schemas: what its methods do to it, as   *)
(* operators on a registry                                                 *)
(*                                                                         *)
(*   byPath    from paths of API versions to functions from IDs to schemas *)
(*   list      Schemas.schemas, as pairs of path and ID                    *)
(*   refs      from full references to sequences of back references        *)
(*                                                                         *)
(* A schema has an id, a path, its fields, where it embeds itself (into,   *)
(* "" for nowhere), the version of a dynamic schema, whether it can be     *)
(* listed, the types its actions name, and what its type mapper knows: the *)
(* fields of the internal schema and those it maps.  A field type is a     *)
(* tuple: <<"string">>, <<"item">>, <<"array", "item">>, and for a         *)
(* reference <<"reference", "item">>.                                      *)
(***************************************************************************)
EXTENDS Values, SequencesExt

CONSTANTS
  Plural, Lower,  \* on names: GuessPluralName and lower case
  FullNames       \* names like /v1/schemas/item, to their path and ID

SubType(type) == type[Len(type)]
IsReferenceType(type) == Len(type) = 2 /\ type[1] = "reference"

NewSchemas == [byPath |-> <<>>, list |-> <<>>, refs |-> <<>>]
SchemasForVersion(reg, path) == IF path \in DOMAIN reg.byPath THEN reg.byPath[path] ELSE <<>>
ToFullReference(path, id) == <<"reference", path, id>>
-----------------------------------------------------------------------------
(* doSchema: the ID as it is, or else some schema that has it as its ID or *)
(* its plural but for the case; a full name is looked up in its version.   *)
Matches(check, name) == Lower[check.id] = Lower[name] \/ Lower[Plural[check.id]] = Lower[name]

DoSchema(reg, path, name) ==
  LET full    == IF name \in DOMAIN FullNames THEN FullNames[name] ELSE <<path, name>>
      schemas == SchemasForVersion(reg, full[1])
  IN  IF full[2] \in DOMAIN schemas THEN {schemas[full[2]]}
      ELSE {schemas[i] : i \in {j \in DOMAIN schemas : Matches(schemas[j], full[2])}}

(* The key that addReferences files a reference under: a full name is one  *)
(* already, though not one that References ever asks for.                  *)
ReferenceKey(path, name) == IF name \in DOMAIN FullNames THEN <<name>> ELSE ToFullReference(path, name)

(* Mutant: the fields of a schema that was embedded have no references.    *)
AddReferencesStatic(reg, schema) ==
  LET named   == {n \in DOMAIN schema.fields : IsReferenceType(schema.fields[n].type) /\ ~schema.fields[n].dynamic}
      key(n)  == ReferenceKey(schema.path, SubType(schema.fields[n].type))
      back(n) == [field |-> n, path |-> schema.path, id |-> schema.id]
      old(k)  == IF k \in DOMAIN reg.refs THEN reg.refs[k] ELSE <<>>
  IN  [reg EXCEPT !.refs = [k \in DOMAIN @ \cup {key(n) : n \in named} |->
                              old(k) \o InSomeOrder({back(n) : n \in {m \in named : key(m) = k}})]]

AddReferences(reg, schema) ==
  LET named   == {n \in DOMAIN schema.fields : IsReferenceType(schema.fields[n].type)}
      key(n)  == ReferenceKey(schema.path, SubType(schema.fields[n].type))
      back(n) == [field |-> n, path |-> schema.path, id |-> schema.id]
      old(k)  == IF k \in DOMAIN reg.refs THEN reg.refs[k] ELSE <<>>
  IN  [reg EXCEPT !.refs = [k \in DOMAIN @ \cup {key(n) : n \in named} |->
                              old(k) \o InSomeOrder({back(n) : n \in {m \in named : key(m) = k}})]]

RemoveReferences(reg, schema) ==
  [reg EXCEPT !.refs = [k \in DOMAIN @ |->
     SelectSeq(@[k], LAMBDA r : ~(r.id = schema.id /\ r.path = schema.path))]]

References(reg, schema) ==
  LET key == ToFullReference(schema.path, schema.id) IN
  IF key \in DOMAIN reg.refs THEN Range(reg.refs[key]) ELSE {}

(* Where replace finds its schema in the list: the first of that ID, of    *)
(* whatever version.                                                       *)
Relisted(list, schema, replace) ==
  IF ~replace THEN Append(list, <<schema.path, schema.id>>)
  ELSE LET i == SelectInSeq(list, LAMBDA e : e[2] = schema.id) IN
       IF i = 0 THEN list ELSE [list EXCEPT ![i] = <<schema.path, schema.id>>]

(* doAddSchema and doRemoveSchema up to the embedding.                     *)
DoAddSchema(reg, schema, replace) ==
  LET schemas == SchemasForVersion(reg, schema.path)
      put     == schema.id \notin DOMAIN schemas
                 \/ (replace /\ schema.version # schemas[schema.id].version)
      entered == [reg EXCEPT !.byPath = Set(@, schema.path, Set(schemas, schema.id, schema)),
                             !.list = Relisted(@, schema, replace)]
  IN  IF ~put THEN reg ELSE IF schema.into = "" THEN AddReferences(entered, schema) ELSE entered

DoRemoveSchema(reg, schema) ==
  RemoveReferences([reg EXCEPT !.byPath = Set(@, schema.path, Without(SchemasForVersion(reg, schema.path), {schema.id}))], schema)
-----------------------------------------------------------------------------
(* embed and removeEmbed replace the target: what is left to be done then, *)
(* a sequence of removals and additions that the caller does under the     *)
(* same lock.                                                              *)
Replaced(target, fields) ==
  << [op |-> "remove", schema |-> target], [op |-> "add", schema |-> [target EXCEPT !.fields = fields], replace |-> FALSE] >>

(* Mutant: embed keeps the dynamic fields that are there.                  *)
EmbedKeeps(reg, schema) ==
  LET targets == DoSchema(reg, schema.path, schema.into) IN
  IF targets = {} THEN <<>>
  ELSE LET target == CHOOSE t \in targets : TRUE IN
       Replaced(target, [n \in DOMAIN target.fields \cup DOMAIN schema.fields |->
                           IF n \in DOMAIN schema.fields THEN schema.fields[n] ELSE target.fields[n]])

Embed(reg, schema) ==
  LET targets == DoSchema(reg, schema.path, schema.into) IN
  IF targets = {} THEN <<>>
  ELSE LET target == CHOOSE t \in targets : TRUE
           static == {n \in DOMAIN target.fields : ~target.fields[n].dynamic}
       IN  Replaced(target, [n \in static \cup DOMAIN schema.fields |->
                               IF n \in DOMAIN schema.fields THEN schema.fields[n] ELSE target.fields[n]])

RemoveEmbed(reg, schema) ==
  LET targets == DoSchema(reg, schema.path, schema.into) IN
  IF targets = {} THEN <<>>
  ELSE LET target == CHOOSE t \in targets : TRUE IN
       Replaced(target, Without(target.fields, DOMAIN schema.fields))

(* One of the operations that hold the lock, with what it leaves to do.    *)
Apply(reg, todo) ==
  LET s    == todo.schema
      next == IF todo.op = "add" THEN DoAddSchema(reg, s, todo.replace) ELSE DoRemoveSchema(reg, s)
      more == CASE s.into = ""        -> <<>>
                [] todo.op = "add"    -> Embed(next, s)
                [] todo.op = "remove" -> RemoveEmbed(next, s)
  IN  [reg |-> next, todo |-> more]
-----------------------------------------------------------------------------
(* store/schema: the schemas a client may list, and what they lead to.     *)

(* Mutant: the types of actions are not followed.                          *)
NamedByFields(schema, schemas) ==
  {SubType(schema.fields[n].type) : n \in DOMAIN schema.fields} \cap DOMAIN schemas

Named(schema, schemas) ==
  ({SubType(schema.fields[n].type) : n \in DOMAIN schema.fields} \cup schema.actions) \cap DOMAIN schemas

RECURSIVE AddListed(_, _, _)
AddListed(schemas, acc, ids) ==
  IF ids = <<>> THEN acc
  ELSE LET id    == Head(ids)
           below == AddListed(schemas, [acc EXCEPT !.included = @ \cup {id}], InSomeOrder(Named(schemas[id], schemas)))
       IN  AddListed(schemas, IF id \in acc.included THEN acc ELSE [below EXCEPT !.listed = Append(@, id)], Tail(ids))

ListSchemas(schemas, may) == AddListed(schemas, [included |-> {}, listed |-> <<>>], InSomeOrder(may)).listed
=============================================================================
