------------------------------- MODULE Mappers -------------------------------
(***************************************************************************)
(* The mappers of types/mapper, and types/mapper.go that chains them: how  *)
(* a stored ("internal") resource becomes the one the API shows, and back. *)
(*                                                                         *)
(* A mapper is a record with its kind and parameters.  Its three methods   *)
(* are an operator of FromInternal, ToInternal and ModifySchema each.      *)
(* ModifySchema also fills in what the mapper learns from the schema       *)
(* (Embed.embeddedFields, Scope.run, Root.enabled), so it returns the      *)
(* mapper with the schemas.  No mapper's ToInternal can return an error.   *)
(*                                                                         *)
(* schemas is a function from schema IDs to [fields, scope, listable].  A  *)
(* field type is a tuple: <<"string">>, <<"item">>, <<"array", "item">>,   *)
(* <<"map", "item">>, <<"reference", "item">>.                             *)
(***************************************************************************)
EXTENDS Values, SequencesExt

SubType(type) == type[Len(type)]
IsType(type, wrapper) == Len(type) = 2 /\ type[1] = wrapper

Field(type) ==
  [type |-> type, create |-> TRUE, update |-> TRUE, writeOnly |-> FALSE, required |-> FALSE]

ReadOnlyField(f) == [f EXCEPT !.create = FALSE, !.update = FALSE]

-----------------------------------------------------------------------------
(* FromInternal and ToInternal, one operator per kind of mapper.           *)

MoveValue(d, from, to) ==
  IF HasValue(d, from) THEN PutValue(RemoveValue(d, from), GetValue(d, from), to) ELSE d

(* Embed lifts the fields it learned out of one field, and deletes it.     *)
EmbedFrom(m, d) ==
  Without(Only(Sub(d, m.field), m.embedded) @@ d, {m.field})

EmbedTo(m, d) ==
  LET sub  == Only(d, m.embedded)
      rest == Without(d, m.embedded)
  IN  CASE DOMAIN sub # {}  -> Set(rest, m.field, Map(sub))
        [] m.emptyValueOk   -> Set(rest, m.field, Null)
        [] OTHER            -> rest

(* UnionEmbed lifts every member, and puts back the first whose check      *)
(* fields are all set.                                                     *)
UnionFrom(m, d) == FoldLeft(LAMBDA x, e : EmbedFrom(e, x), d, m.embeds)

UnionMember(m, d) ==
  SelectInSeq(m.members, LAMBDA u : /\ u.check # {}
                                   /\ \A c \in u.check : Has(d, c) /\ ~IsAPIObjectEmpty(d[c]))

UnionTo(m, d) ==
  LET i == UnionMember(m, d) IN IF i = 0 THEN d ELSE EmbedTo(m.embeds[i], d)

CopyFrom(m, d) == IF Has(d, m.from) THEN Set(d, m.to, d[m.from]) ELSE d
CopyTo(m, d) == IF Has(d, m.to) /\ ~Has(d, m.from) THEN Set(d, m.from, d[m.to]) ELSE d

LabelFrom(m, d) == MoveValue(d, <<"labels", m.key>>, <<m.field>>)
LabelTo(m, d) ==
  IF Has(d, m.field) THEN PutValue(d, d[m.field], <<"labels", m.key>>) ELSE d

(* An annotation holds text: an object or a list is marshalled into it.    *)
AnnotationFrom(m, d) ==
  LET at == <<"annotations", m.key>>
      v  == GetValue(d, at)
  IN  IF ~HasValue(d, at) THEN d
      ELSE Set(RemoveValue(d, at), m.field,
               IF m.as # "text" /\ IsJSON(AsString(v), m.as) THEN AsString(v)[2] ELSE v)

AnnotationTo(m, d) ==
  IF ~Has(d, m.field) THEN d
  ELSE LET v == IF m.as # "text" THEN Marshal(d[m.field]) ELSE d[m.field]
       IN  Without(PutValue(d, AsString(v), <<"annotations", m.key>>), {m.field})

Decode(v) == IF v[1] = "b64" THEN v[2] ELSE Str("undecodable")

Base64From(m, d) ==
  LET v == AsString(GetValue(d, m.path)) IN
  CASE ~HasValue(d, m.path) -> d
    [] v = Str("")          -> RemoveValue(d, m.path)
    [] OTHER                -> PutValue(d, Decode(v), m.path)

Base64To(m, d) ==
  LET v == AsString(GetValue(d, m.path)) IN
  CASE ~HasValue(d, m.path) -> d
    [] v = Str("")          -> RemoveValue(d, m.path)
    [] OTHER                -> PutValue(d, <<"b64", v>>, m.path)

JSONFrom(m, d) ==
  LET v == AsString(GetValue(d, m.path)) IN
  CASE ~HasValue(d, m.path) -> d
    [] IsJSON(v, "map")     -> PutValue(d, v[2], m.path)
    [] OTHER                -> RemoveValue(d, m.path)

JSONTo(m, d) ==
  LET v == GetValue(d, m.path) IN
  CASE ~HasValue(d, m.path) -> d
    [] v = Null             -> RemoveValue(d, m.path)
    [] OTHER                -> PutValue(d, Marshal(v), m.path)

(* The items of a list keyed by one of their fields; a later item replaces *)
(* an earlier one with its key, and an empty result leaves the list.       *)
SliceToMapFrom(m, d) ==
  LET items  == SelectSeq(Items(d, m.field), IsMap)
      key(v) == LET k == GetValue(v[2], <<m.key>>) IN IF k[1] = "str" THEN k[2] ELSE ""
      keyed  == FoldLeft(LAMBDA f, v : Set(f, key(v), Map(Without(v[2], {m.key}))), Empty, items)
  IN  IF items = <<>> THEN d ELSE Set(d, m.field, Map(keyed))

(* Mutant: the items are put back without the field they were keyed by.    *)
SliceToMapToUnkeyed(m, d) ==
  LET datas == Sub(d, m.field)
      keys  == SetToSeq({k \in DOMAIN datas : IsMap(datas[k])})
  IN  IF ~(Has(d, m.field) /\ IsMap(d[m.field])) THEN d
      ELSE Set(d, m.field, List([i \in DOMAIN keys |-> datas[keys[i]]]))

(* The order of the list is the order the map is ranged over.              *)
SliceToMapTo(m, d) ==
  LET datas == Sub(d, m.field)
      keys  == SetToSeq({k \in DOMAIN datas : IsMap(datas[k])})
  IN  IF ~(Has(d, m.field) /\ IsMap(d[m.field])) THEN d
      ELSE Set(d, m.field, List([i \in DOMAIN keys |->
                                   Map(Set(datas[keys[i]][2], m.key, Str(keys[i])))]))

SliceMergeFrom(m, d) ==
  LET all == FlattenSeq([i \in DOMAIN m.from |-> Items(d, m.from[i])])
  IN  IF all = <<>> THEN d ELSE Set(d, m.to, List(all))

SetValueFrom(m, d) ==
  IF \/ m.ifEq = Null
     \/ HasValue(d, m.path) /\ GetValue(d, m.path) = m.ifEq
  THEN PutValue(d, m.value, m.to) ELSE d

SetValueTo(m, d) ==
  CASE ~HasValue(d, m.to)           -> d
    [] m.ifEq = Null                -> RemoveValue(d, m.path)
    [] GetValue(d, m.to) = m.value  -> PutValue(d, m.ifEq, m.path)
    [] OTHER                        -> d

PendingFrom(d) ==
  IF /\ Has(d, "state") /\ d["state"] = Str("active")
     /\ Items(Sub(d, "status"), "conditions") = <<>>
  THEN Set(d, "state", Str("pending")) ELSE d

APIGroupTo(d) ==
  d @@ ("apiVersion" :> Str("group/version")) @@ ("kind" :> Str("Kind"))

(* A mapper that wraps others runs them or does not: Scope and Root by     *)
(* what they learned from the schema, Condition by the data itself.        *)
Runs(m, d) ==
  CASE m.kind = "Condition"         -> Has(d, m.field) /\ d[m.field] = m.value
    [] m.kind \in {"Scope", "Root"} -> m.run
    [] OTHER                        -> TRUE

Wrappers == {"Mappers", "Scope", "Root", "Condition"}

RECURSIVE FromInternal(_, _)
FromInternal(m, d) ==
  CASE m.kind = "Move"            -> MoveValue(d, m.from, m.to)
    [] m.kind = "UntypedMove"     -> MoveValue(d, m.from, m.to)
    [] m.kind = "Embed"           -> EmbedFrom(m, d)
    [] m.kind = "UnionEmbed"      -> UnionFrom(m, d)
    [] m.kind = "Drop"            -> Without(d, {m.field})
    [] m.kind = "Copy"            -> CopyFrom(m, d)
    [] m.kind = "LabelField"      -> LabelFrom(m, d)
    [] m.kind = "AnnotationField" -> AnnotationFrom(m, d)
    [] m.kind = "Base64"          -> Base64From(m, d)
    [] m.kind = "JSONEncode"      -> JSONFrom(m, d)
    [] m.kind = "SliceToMap"      -> SliceToMapFrom(m, d)
    [] m.kind = "SliceMerge"      -> SliceMergeFrom(m, d)
    [] m.kind = "SetValue"        -> SetValueFrom(m, d)
    [] m.kind = "PendingStatus"   -> PendingFrom(d)
    [] m.kind \in Wrappers        -> IF Runs(m, d) THEN Through(FromInternal, d, m.mappers) ELSE d
    [] OTHER                      -> d

(* Mappers.ToInternal undoes the chain from its last mapper to its first.  *)
RECURSIVE ToInternal(_, _)
ToInternal(m, d) ==
  CASE m.kind = "Move"            -> MoveValue(d, m.to, m.from)
    [] m.kind = "UntypedMove"     -> MoveValue(d, m.to, m.from)
    [] m.kind = "Embed"           -> EmbedTo(m, d)
    [] m.kind = "UnionEmbed"      -> UnionTo(m, d)
    [] m.kind = "Copy"            -> CopyTo(m, d)
    [] m.kind = "LabelField"      -> LabelTo(m, d)
    [] m.kind = "AnnotationField" -> AnnotationTo(m, d)
    [] m.kind = "Base64"          -> Base64To(m, d)
    [] m.kind = "JSONEncode"      -> JSONTo(m, d)
    [] m.kind = "SliceToMap"      -> SliceToMapTo(m, d)
    [] m.kind = "SetValue"        -> SetValueTo(m, d)
    [] m.kind = "APIGroup"        -> APIGroupTo(d)
    [] m.kind \in Wrappers        -> IF Runs(m, d) THEN Through(ToInternal, d, Reverse(m.mappers)) ELSE d
    [] OTHER                      -> d
-----------------------------------------------------------------------------
(* ModifySchema: checks that the mapper fits the schema and changes the    *)
(* schema the way FromInternal changes the data.                           *)

Accept(m, S) == [ok |-> TRUE, m |-> m, schemas |-> S]
Refuse(m, S) == [ok |-> FALSE, m |-> m, schemas |-> S]

Fields(S, id) == S[id].fields
HasField(S, id, name) == Has(Fields(S, id), name)
SetField(S, id, name, f) == [S EXCEPT ![id].fields = Set(@, name, f)]
DropField(S, id, name) == [S EXCEPT ![id].fields = Without(@, {name})]

(* getField: the schema the path leads to, "" when there is none.          *)
RECURSIVE FieldSchema(_, _, _)
FieldSchema(S, id, path) ==
  LET type == Fields(S, id)[path[1]].type
      next == IF IsType(type, "array") THEN SubType(type) ELSE type[1]
  IN  CASE Len(path) = 1                                        -> id
        [] HasField(S, id, path[1]) /\ next \in DOMAIN S        -> FieldSchema(S, next, Tail(path))
        [] OTHER                                                -> ""

(* Mutant: the schema loses the field that moves and does not get it back. *)
MoveModifyForgets(m, S, id) ==
  IF FieldSchema(S, id, m.from) = id /\ HasField(S, id, m.from[1])
  THEN Accept(m, DropField(S, id, m.from[1])) ELSE Refuse(m, S)

(* Only a field of the schema itself is taken out of it: a path is not the *)
(* name of a field.                                                        *)
MoveModify(m, S, id) ==
  LET from  == FieldSchema(S, id, m.from)
      to    == FieldSchema(S, id, m.to)
      field == Fields(S, from)[Last(m.from)]
      taken == IF Len(m.from) = 1 /\ ~m.noDelete THEN DropField(S, from, m.from[1]) ELSE S
  IN  IF \/ from = "" \/ ~HasField(S, from, Last(m.from))
         \/ to = ""
         \/ HasField(S, to, Last(m.to)) /\ Len(m.to) = 1 /\ ~m.destDefined
      THEN Refuse(m, S)
      ELSE Accept(m, IF m.destDefined THEN taken ELSE SetField(taken, to, Last(m.to), field))

EmbedModify(m, S, id) ==
  LET sub   == Fields(S, id)[m.field].type[1]
      new   == Without(Fields(S, sub), m.ignore)
      added == IF m.readOnly THEN [n \in DOMAIN new |-> ReadOnlyField(new[n])] ELSE new
      kept  == IF Has(new, m.field) THEN Fields(S, id) ELSE Without(Fields(S, id), {m.field})
  IN  CASE ~HasField(S, id, m.field) -> IF m.optional THEN Accept(m, S) ELSE Refuse(m, S)
        [] sub \notin DOMAIN S       -> IF m.optional THEN Accept(m, S) ELSE Refuse(m, S)
        [] ~m.override /\ (DOMAIN new \cap DOMAIN Fields(S, id)) \ {m.field} # {} -> Refuse(m, S)
        [] OTHER -> Accept([m EXCEPT !.embedded = DOMAIN new],
                           [S EXCEPT ![id].fields = added @@ kept])

UnionModify(m, S, id) ==
  LET step(r, u) ==
        LET e == EmbedModify([kind |-> "Embed", field |-> u.field, embedded |-> {}, ignore |-> {},
                              optional |-> FALSE, readOnly |-> FALSE, override |-> TRUE,
                              emptyValueOk |-> FALSE], r.schemas, id)
        IN  IF r.ok /\ e.ok /\ \A c \in u.check : HasField(e.schemas, id, c)
            THEN Accept([r.m EXCEPT !.embeds = Append(@, e.m)], e.schemas)
            ELSE Refuse(r.m, e.schemas)
  IN  FoldLeft(step, Accept([m EXCEPT !.embeds = <<>>], S), m.members)

SliceToMapModify(m, S, id) ==
  LET sub  == FieldSchema(S, id, <<m.field, m.key>>)
      type == Fields(S, id)[m.field].type
  IN  IF HasField(S, id, m.field) /\ sub # "" /\ IsType(type, "array")
      THEN Accept(m, DropField([S EXCEPT ![id].fields[m.field].type = <<"map", SubType(type)>>],
                               sub, m.key))
      ELSE Refuse(m, S)

SliceMergeModify(m, S, id) ==
  LET gone == ToSet(m.from) \ {m.to} IN
  IF m.ignoreDefinition THEN Accept(m, S)
  ELSE IF \A n \in ToSet(m.from) \cup {m.to} : HasField(S, id, n)
       THEN Accept(m, [S EXCEPT ![id].fields = Without(@, gone)])
       ELSE Refuse(m, S)

CopyModify(m, S, id) ==
  IF HasField(S, id, m.from) THEN Accept(m, SetField(S, id, m.to, Fields(S, id)[m.from]))
  ELSE Refuse(m, S)

DropModify(m, S, id) ==
  IF HasField(S, id, m.field) \/ m.ignoreDefinition THEN Accept(m, DropField(S, id, m.field))
  ELSE Refuse(m, S)

ReadOnlyModify(m, S, id) ==
  LET names == IF m.field = "*" THEN DOMAIN Fields(S, id) ELSE {m.field}
      subs  == {Fields(S, id)[n].type[1] : n \in names} \cap DOMAIN S
      protect(i, N) == [n \in DOMAIN Fields(S, i) |->
                          IF n \in N THEN ReadOnlyField(Fields(S, i)[n]) ELSE Fields(S, i)[n]]
  IN  CASE ~(names \subseteq DOMAIN Fields(S, id)) -> IF m.optional THEN Accept(m, S) ELSE Refuse(m, S)
        [] OTHER -> Accept(m, [i \in DOMAIN S |->
                      CASE i = id -> [S[i] EXCEPT !.fields = protect(i, names)]
                        [] i \in subs /\ m.subFields -> [S[i] EXCEPT !.fields = protect(i, DOMAIN @)]
                        [] OTHER -> S[i]])

(* Access, Required, Enum and ChangeType rewrite the fields they name.     *)
Rewrite(m, S, id, new(_)) ==
  IF m.fields \subseteq DOMAIN Fields(S, id)
  THEN Accept(m, [S EXCEPT ![id].fields = [n \in DOMAIN @ |-> IF n \in m.fields THEN new(@[n]) ELSE @[n]]])
  ELSE Refuse(m, S)

AccessModify(m, S, id) ==
  Rewrite(m, S, id, LAMBDA f : [f EXCEPT !.create = "c" \in m.access, !.update = "u" \in m.access,
                                         !.writeOnly = "o" \in m.access])

RequiredModify(m, S, id) == Rewrite(m, S, id, LAMBDA f : [f EXCEPT !.required = TRUE])
EnumModify(m, S, id) == Rewrite(m, S, id, LAMBDA f : [f EXCEPT !.type = <<"enum">>])
ChangeTypeModify(m, S, id) == Rewrite(m, S, id, LAMBDA f : [f EXCEPT !.type = m.type])

(* A mapper that only looks at one field, unless told to ignore the schema.*)
ValidateField(m, S, id, name) ==
  IF m.ignoreDefinition \/ HasField(S, id, name) THEN Accept(m, S) ELSE Refuse(m, S)

LabelModify(m, S, id) == ValidateField(m, S, id, m.field)
AnnotationModify(m, S, id) == ValidateField(m, S, id, m.field)

(* A path is not the name of a field.                                      *)
PathName(path) == IF Len(path) = 1 THEN path[1] ELSE "a.path"
Base64Modify(m, S, id) == ValidateField(m, S, id, PathName(m.path))
JSONModify(m, S, id) == ValidateField(m, S, id, PathName(m.path))

SetValueModify(m, S, id) ==
  LET to == FieldSchema(S, id, m.to)
  IN  IF m.ignoreDefinition \/ (to # "" /\ HasField(S, to, Last(m.to))) THEN Accept(m, S) ELSE Refuse(m, S)

(* RenameReference becomes the moves of the reference fields it renames.   *)
Renames(m, S, id) ==
  SetToSeq({[kind |-> "Move", from |-> <<n>>, to |-> <<m.names[n]>>, destDefined |-> FALSE,
             noDelete |-> FALSE] :
             n \in {n \in DOMAIN m.names \cap DOMAIN Fields(S, id) : IsType(Fields(S, id)[n].type, "reference")}})

ScopeRuns(m, S, id) ==
  CASE m.ifNot # "" -> S[id].scope # m.ifNot
    [] m.if # ""    -> S[id].scope = m.if
    [] OTHER        -> FALSE

RECURSIVE ModifySchema(_, _, _)
ModifySchema(m, S, id) ==
  LET chain(mm) ==  \* Mappers.ModifySchema stops at the first error
        LET r == Through(LAMBDA n, r : IF ~r.ok THEN r
                                       ELSE LET x == ModifySchema(n, r.schemas, id)
                                            IN  [x EXCEPT !.m = Append(r.m, x.m)],
                         Accept(<<>>, S), mm.mappers)
        IN  [r EXCEPT !.m = [mm EXCEPT !.mappers = IF r.ok THEN r.m ELSE @]]
  IN CASE m.kind = "Move"            -> MoveModify(m, S, id)
       [] m.kind = "Embed"           -> EmbedModify(m, S, id)
       [] m.kind = "UnionEmbed"      -> UnionModify(m, S, id)
       [] m.kind = "Drop"            -> DropModify(m, S, id)
       [] m.kind = "Copy"            -> CopyModify(m, S, id)
       [] m.kind = "SliceToMap"      -> SliceToMapModify(m, S, id)
       [] m.kind = "SliceMerge"      -> SliceMergeModify(m, S, id)
       [] m.kind = "ReadOnly"        -> ReadOnlyModify(m, S, id)
       [] m.kind = "Access"          -> AccessModify(m, S, id)
       [] m.kind = "Required"        -> RequiredModify(m, S, id)
       [] m.kind = "Enum"            -> EnumModify(m, S, id)
       [] m.kind = "ChangeType"      -> ChangeTypeModify(m, S, id)
       [] m.kind = "LabelField"      -> LabelModify(m, S, id)
       [] m.kind = "AnnotationField" -> AnnotationModify(m, S, id)
       [] m.kind = "Base64"          -> Base64Modify(m, S, id)
       [] m.kind = "JSONEncode"      -> JSONModify(m, S, id)
       [] m.kind = "SetValue"        -> SetValueModify(m, S, id)
       [] m.kind = "RenameReference" -> chain([kind |-> "Mappers", mappers |-> Renames(m, S, id)])
       [] m.kind = "Scope"           ->
            IF ScopeRuns(m, S, id) THEN chain([m EXCEPT !.run = TRUE]) ELSE Accept([m EXCEPT !.run = FALSE], S)
       [] m.kind = "Root"            ->
            IF S[id].listable THEN chain([m EXCEPT !.run = TRUE]) ELSE Accept(m, S)
       [] m.kind \in {"Mappers", "Condition"} -> chain(m)
       [] OTHER                      -> Accept(m, S)
-----------------------------------------------------------------------------
(* typeMapper: the mapper of a schema.  t.subs names the fields whose own  *)
(* type has a mapper, and whether the field holds one of it, a map or an   *)
(* array of it (subSchemas, subMapSchemas, subArraySchemas).               *)

EachSub(sub, f(_, _), d, k) ==
  LET at(v) == IF IsMap(v) THEN Map(f(sub.mapper, v[2])) ELSE v
  IN  CASE ~Has(d, k) -> d
        [] sub.holds = "one"   -> Set(d, k, at(d[k]))
        [] sub.holds = "map" /\ IsMap(d[k]) ->
             Set(d, k, Map([n \in DOMAIN d[k][2] |-> at(d[k][2][n])]))
        [] sub.holds = "array" /\ IsList(d[k]) ->
             Set(d, k, List([i \in DOMAIN d[k][2] |-> at(d[k][2][i])]))
        [] OTHER -> d

Qualified(namespace, id) ==
  IF namespace[1] = "str" /\ namespace # Str("") THEN <<"id", namespace[2], id>> ELSE id

WithID(d, name, namespace) ==
  CASE Has(d, "id")                          -> Set(d, "id", Qualified(namespace, d["id"]))
    [] name[1] = "str" /\ name # Str("")     -> Set(d, "id", Qualified(namespace, name))
    [] OTHER                                 -> d

WithType(t, d) == IF Has(d, "type") THEN d ELSE Set(d, "type", Str(t.typeName))

RECURSIVE TypeFromInternal(_, _)
TypeFromInternal(t, d) ==
  LET subs    == Through(LAMBDA k, x : EachSub(t.subs[k], TypeFromInternal, x, k), d, SetToSeq(DOMAIN t.subs))
      mapped  == FromInternal(t.mappers, WithType(t, subs))
      withID  == IF t.root THEN WithID(mapped, GetValue(d, <<"metadata", "name">>),
                                               GetValue(d, <<"metadata", "namespace">>))
                           ELSE mapped
  IN  IF Has(withID, "id") THEN WithType(t, withID) ELSE withID

RECURSIVE TypeToInternal(_, _)
TypeToInternal(t, d) ==
  Through(LAMBDA k, x : EachSub(t.subs[k], TypeToInternal, x, k), ToInternal(t.mappers, d), SetToSeq(DOMAIN t.subs))

(* mappers: the typeMapper of each schema that has one.                    *)
TypeModifySchema(t, S, id, internal, mappers) ==
  LET holds(type) == CASE IsType(type, "array") -> "array" [] IsType(type, "map") -> "map" [] OTHER -> "one"
      names == {n \in DOMAIN internal : SubType(internal[n].type) \in DOMAIN mappers}
      r     == ModifySchema(t.mappers, S, id)
  IN  [r EXCEPT !.m = [t EXCEPT !.mappers = r.m,
                                !.subs = [n \in names |->
                                  [holds  |-> holds(internal[n].type),
                                   mapper |-> mappers[SubType(internal[n].type)]]]]]
=============================================================================
