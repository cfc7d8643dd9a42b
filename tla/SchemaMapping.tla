---------------------------- MODULE SchemaMapping ----------------------------
(***************************************************************************)
(* A schema's mapper at work: the mappers are fitted to the schema when    *)
(* the type is imported, and from then on every read of the proxy store    *)
(* maps the stored object to the API and every update maps the client's    *)
(* object back.  The chain of mappers is chosen at Init, from Extras on    *)
(* top of mapper.NewObject's own; an object is read, edited and stored     *)
(* again, and read once more.                                              *)
(***************************************************************************)
EXTENDS Merge

CONSTANTS
  Extras,       \* the mappers a type may add to NewObject's
  MaxExtras,    \* how many of them a chain has
  Schemas,      \* the schemas before any mapper ran
  Root,         \* the ID of the schema of the type
  SubMappers,   \* the typeMapper of each sub schema that has one
  Objects,      \* internal objects, as the cluster stores them
  Edits         \* the values a client may set a field to

VARIABLES
  chain,     \* the typeMapper of the schema, with what it learned
  schemas,   \* the schemas as the mappers leave them
  stored,    \* the internal object in the cluster
  shown,     \* what the client last read, or wrote
  phase      \* "import" "idle" "read" "edited" "written" "refused"

vars == <<chain, schemas, stored, shown, phase>>

Move(from, to) == [kind |-> "Move", from |-> from, to |-> to, destDefined |-> FALSE, noDelete |-> FALSE]
Drop(field) == [kind |-> "Drop", field |-> field, ignoreDefinition |-> FALSE]
Embed(field, optional) ==
  [kind |-> "Embed", field |-> field, embedded |-> {}, ignore |-> {}, optional |-> optional,
   readOnly |-> FALSE, override |-> FALSE, emptyValueOk |-> FALSE]
Access(fields, access) == [kind |-> "Access", fields |-> fields, access |-> access]

UntypedMove(from, to) == [kind |-> "UntypedMove", from |-> from, to |-> to]
BatchMove(names, to) == [kind |-> "Mappers", mappers |-> [i \in DOMAIN names |-> Move(<<names[i]>>, <<to, names[i]>>)]]

DisplayName ==
  [kind |-> "Mappers", mappers |->
    << Move(<<"name">>, <<"id">>), Move(<<"displayName">>, <<"name">>),
       Access({"id"}, {}), Access({"name"}, {"c", "r", "u"}) >>]

NewObject(extra) ==
  [kind |-> "Mappers", mappers |->
    << [kind |-> "APIGroup"], Embed("metadata", FALSE), Embed("spec", TRUE),
       [kind |-> "ReadOnly", field |-> "status", optional |-> TRUE, subFields |-> TRUE],
       Drop("kind"), Drop("apiVersion"),
       [Move(<<"selfLink">>, <<".selfLink">>) EXCEPT !.destDefined = TRUE],
       [kind |-> "Scope", if |-> "", ifNot |-> "namespace", run |-> FALSE, mappers |-> <<Drop("namespace")>>],
       [Drop("finalizers") EXCEPT !.ignoreDefinition = TRUE] >> \o extra]

(* The mapper of the sub schema every object has, metav1.ObjectMeta.       *)
NewMetadataMapper ==
  [kind |-> "Mappers", mappers |->
    << [kind |-> "ChangeType", fields |-> {"name"}, type |-> <<"dnsLabel">>],
       Move(<<"uid">>, <<"uuid">>), Drop("resourceVersion"),
       Move(<<"creationTimestamp">>, <<"created">>), Move(<<"deletionTimestamp">>, <<"removed">>),
       [kind |-> "ReadOnly", field |-> "*", optional |-> FALSE, subFields |-> FALSE],
       Access({"name", "namespace"}, {"c"}), Access({"labels", "annotations"}, {"c", "u"}) >>]

Init ==
  /\ \E n \in 0..MaxExtras : \E e \in Injection(1..n, 1..Len(Extras)) :
       chain = [mappers |-> NewObject([i \in 1..n |-> Extras[e[i]]]), root |-> TRUE,
                typeName |-> Root, subs |-> Empty]
  /\ schemas = Schemas
  /\ stored \in Objects
  /\ shown = Empty
  /\ phase = "import"

(* importType: a chain that does not fit its schema stops the import.      *)
Import ==
  LET r == TypeModifySchema(chain, schemas, Root, Fields(Schemas, Root), SubMappers) IN
  /\ phase = "import"
  /\ chain' = r.m
  /\ schemas' = r.schemas
  /\ phase' = IF r.ok THEN "idle" ELSE "refused"
  /\ UNCHANGED <<stored, shown>>

(* Store.fromInternal on what a GET returned.                              *)
Read ==
  /\ phase = "idle"
  /\ shown' = TypeFromInternal(chain, stored)
  /\ phase' = "read"
  /\ UNCHANGED <<chain, schemas, stored>>

(* A client changes a field it was shown and may update.                   *)
Edit ==
  /\ phase = "read"
  /\ \E n \in DOMAIN shown \cap DOMAIN Fields(schemas, Root) : \E v \in Edits :
       /\ Fields(schemas, Root)[n].update
       /\ Fields(schemas, Root)[n].type = v.type
       /\ shown' = Set(shown, n, v.value)
  /\ phase' = "edited"
  /\ UNCHANGED <<chain, schemas, stored>>

(* An update: the builder passes on the fields the schema lets an update   *)
(* set; Store.Update merges them into the stored object, and names the     *)
(* object itself.                                                          *)
Body == Only(shown, {n \in DOMAIN Fields(schemas, Root) : Fields(schemas, Root)[n].update})

Named(d) ==
  PutValue(PutValue(d, GetValue(stored, <<"metadata", "namespace">>), <<"metadata", "namespace">>),
           GetValue(stored, <<"metadata", "name">>), <<"metadata", "name">>)

Write ==
  /\ phase \in {"read", "edited"}
  /\ stored' = Named(APIUpdateMerge(Schemas, Root, stored, TypeToInternal(chain, Body), FALSE))
  /\ phase' = IF phase = "read" THEN "idle" ELSE "written"
  /\ UNCHANGED <<chain, schemas, shown>>

Next == Import \/ Read \/ Edit \/ Write
Spec == Init /\ [][Next]_vars
-----------------------------------------------------------------------------
(* v holds everything w holds, up to the order of lists (a list made from  *)
(* a map is in the order the map was ranged) and to white space around a   *)
(* string (convert.ToString trims it).                                     *)
RECURSIVE Holds(_, _)
Holds(v, w) ==
  CASE IsMap(w)  -> IsMap(v) /\ \A k \in DOMAIN w[2] : Has(v[2], k) /\ Holds(v[2][k], w[2][k])
    [] IsList(w) -> /\ IsList(v) /\ Len(v[2]) = Len(w[2])
                    /\ \A i \in DOMAIN w[2] : \E j \in DOMAIN v[2] : Holds(v[2][j], w[2][i])
    [] OTHER     -> AsString(v) = AsString(w)

Of(kind) ==
  LET top   == ToSet(chain.mappers.mappers)
      inner == UNION {ToSet(m.mappers) : m \in {m \in top : m.kind \in Wrappers}}
  IN  {m \in top \cup inner : m.kind = kind}

(* A client that writes back exactly what it read loses nothing of the     *)
(* stored object: ToInternal of any chain of mappers, merged over the      *)
(* object (merge.APIUpdateMerge), keeps every value FromInternal moved,    *)
(* renamed, encoded, regrouped or dropped on the way out.                  *)
NothingLost ==
  [][phase = "read" /\ phase' = "idle" => Holds(Map(stored'), Map(stored))]_vars

(* What a read shows is what the schema declares: for every chain that     *)
(* ModifySchema accepts, FromInternal produces no field the mappers did    *)
(* not also give the schema.  SliceMerge alone leaves its sources in the   *)
(* data after it took them out of the schema.                              *)
ShownIsDeclared ==
  phase = "read" =>
    DOMAIN shown \ ({"id", "type"} \cup UNION {ToSet(m.from) : m \in Of("SliceMerge")})
      \subseteq DOMAIN Fields(schemas, Root)

(* A client that sets a field the schema lets it update reads the value    *)
(* back, and every other field as it was, whatever mappers the value       *)
(* passes through.  Three cases are lost by the code: a change to the copy *)
(* Copy makes, a change to the sources SliceMerge hides or to the list it  *)
(* makes of them, and an empty string in a Base64 field (dropped, so the   *)
(* stored secret stays) or in the field that tells UnionEmbed's members    *)
(* apart.                                                                  *)
Lost ==
  LET blank(n) == Has(shown, n) /\ shown[n] = Str("")
      told     == UNION {u.check : u \in UNION {ToSet(m.members) : m \in Of("UnionEmbed")}}
  IN  {m.to : m \in Of("Copy")}
      \cup UNION {ToSet(m.from) \cup {m.to} : m \in Of("SliceMerge")}
      \cup {n \in {m.path[1] : m \in Of("Base64")} \cup told : blank(n)}

ReadBack ==
  phase = "written" => Holds(Map(TypeFromInternal(chain, stored)), Map(Without(shown, Lost)))
=============================================================================
