-------------------------------- MODULE Merge --------------------------------
(***************************************************************************)
(* types/convert/merge: what an update stores.  The client's object, in    *)
(* internal form, is laid over the one in the cluster: a field it does not *)
(* name is kept (unless the client asked to replace the object), status    *)
(* and metadata stay the cluster's except for labels and annotations, and  *)
(* of those the protected ones stay too.                                   *)
(*                                                                         *)
(* S are the internal schemas (InternalSchema where a schema has one); ""  *)
(* is the nil schema.                                                      *)
(***************************************************************************)
EXTENDS Mappers

CONSTANTS
  ProtectedKeys,   \* labels and annotations for which isProtected holds
  FieldKeys        \* those for which isField holds: the store of a field

CopyMapReplace(S, id, replace, d) ==
  IF replace /\ id # ""
  THEN Without(d, {k \in DOMAIN Fields(S, id) : Fields(S, id)[k].update})
  ELSE d

(* getSchema: the type of field k of a map of the given type and schema.   *)
FieldType(S, type, id, k) ==
  CASE id # "" /\ HasField(S, id, k)   -> Fields(S, id)[k].type
    [] id = "" /\ IsType(type, "map")  -> <<SubType(type)>>
    [] OTHER                           -> <<"">>

SchemaOf(S, type) == IF Len(type) = 1 /\ type[1] \in DOMAIN S THEN type[1] ELSE ""

(* isMap: a map whose values have no schema is replaced as a whole.        *)
IsPlainMap(S, type, id, k) ==
  LET t == FieldType(S, type, id, k)
  IN  id # "" /\ IsType(t, "map") /\ SubType(t) \notin DOMAIN S

RECURSIVE MergeMaps(_, _, _, _, _, _)
MergeMaps(S, type, id, replace, dest, src) ==
  [k \in DOMAIN src |->
     IF Has(dest, k) /\ IsMap(dest[k]) /\ IsMap(src[k]) /\ ~IsPlainMap(S, type, id, k)
     THEN LET t == FieldType(S, type, id, k)
          IN  Map(MergeMaps(S, t, SchemaOf(S, t), replace, dest[k][2], src[k][2]))
     ELSE src[k]]
  @@ CopyMapReplace(S, id, replace, dest)

UpdateMerge(S, id, dest, src, replace) == MergeMaps(S, <<"">>, id, replace, dest, src)

(* Mutant: what the cluster has wins over the client, for fields too.      *)
MergeProtectedStale(dest, src) ==
  [k \in {k \in DOMAIN dest : k \in ProtectedKeys \cup FieldKeys} \cup (DOMAIN src \ ProtectedKeys) |->
     IF k \in DOMAIN dest THEN dest[k] ELSE src[k]]

(* Labels or annotations.  A nil map from the client changes nothing.      *)
MergeProtected(dest, src) ==
  [k \in {k \in DOMAIN dest : k \in ProtectedKeys \cup FieldKeys} \cup (DOMAIN src \ ProtectedKeys) |->
     IF k \in DOMAIN src \ ProtectedKeys THEN src[k] ELSE dest[k]]

MergeMetadata(dest, src) ==
  LET merged(k) == IF Has(src, k) /\ IsMap(src[k]) THEN MergeProtected(Sub(dest, k), Sub(src, k))
                                                   ELSE Sub(dest, k)
  IN  ("labels" :> Map(merged("labels"))) @@ ("annotations" :> Map(merged("annotations"))) @@ dest

APIUpdateMerge(S, id, dest, src, replace) ==
  LET own == [k \in DOMAIN dest \cap {"status", "metadata"} |->
                IF k = "status" THEN dest[k] ELSE Map(MergeMetadata(Sub(dest, k), Sub(src, k)))]
  IN  own @@ UpdateMerge(S, id, dest, src, replace)
=============================================================================
