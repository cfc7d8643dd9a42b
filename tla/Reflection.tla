------------------------------ MODULE Reflection ------------------------------
(***************************************************************************)
(* types/reflection.go: schemas made of Go types.                          *)
(*                                                                         *)
(* GoTypes gives the fields of every struct type in their order.  A field  *)
(* has the name it ends up with ("-" for one that is not to be seen), a Go *)
(* type, whether it is an anonymous struct to be read in place (inline),   *)
(* and the norman tag as a function from keys to values.  A Go type is a   *)
(* tuple of wrappers that end in a kind: <<"string">>, <<"Slice", "uint8">>*)
(* <<"Ptr", "Struct", "item">>.                                            *)
(*                                                                         *)
(* Import is a recursion that carries the registry, the types that are     *)
(* being processed and whether it has failed.                              *)
(***************************************************************************)
EXTENDS Schemas

CONSTANTS
  GoTypes,    \* struct types: sequences of fields
  TypeNames,  \* what TypeName was told: a function from some of the types
  Mapped      \* the types with mappers of their own

Tags == {"type", "default", "nullable", "notnullable", "nocreate", "writeOnly", "required", "noupdate",
         "minLength", "maxLength", "min", "max", "options", "validChars", "invalidChars", "codeName"}
Numbers == {"int", "uint32", "int32", "uint64", "int64", "float32", "float64"}
NumberWords == {"0", "1", "63"}   \* the values of tags that are numbers
Listable == "Resource"   \* the struct that makes a type a resource of the API

GetTypeName(t) == IF t \in DOMAIN TypeNames THEN TypeNames[t] ELSE t
Fail(st) == [st EXCEPT !.failed = TRUE]
-----------------------------------------------------------------------------
(* applyTag, on the field that the kind of the Go type makes.              *)
FieldOfKind(kind) ==
  [type |-> <<>>, create |-> TRUE, update |-> TRUE, required |-> FALSE, writeOnly |-> FALSE, dynamic |-> FALSE,
   nullable |-> kind \notin Numbers \cup {"bool"},
   default |-> IF kind = "bool" THEN "false" ELSE IF kind \in Numbers THEN "0" ELSE ""]

ApplyTag(f, tag) ==
  LET has(k) == k \in DOMAIN tag IN
  [f EXCEPT !.type = IF has("type") THEN tag["type"] ELSE IF has("options") THEN <<"enum">> ELSE @,
            !.default = IF has("default") THEN tag["default"] ELSE @,
            !.nullable = (@ \/ has("nullable")) /\ ~has("notnullable"),
            !.create = @ /\ ~has("nocreate"), !.update = @ /\ ~has("noupdate"),
            !.writeOnly = has("writeOnly"), !.required = has("required")]

TagIsValid(tag) ==
  /\ DOMAIN tag \subseteq Tags
  /\ \A k \in DOMAIN tag \cap {"minLength", "maxLength", "min", "max"} : tag[k] \in NumberWords
DefaultIsValid(default, type) ==
  default # "" /\ type \in {<<"int">>, <<"float">>} => default \in NumberWords

(* determineSchemaType for what is not a struct.                           *)
SimpleType(kind) ==
  CASE kind = "uint8"                             -> <<"byte">>
    [] kind = "bool"                              -> <<"boolean">>
    [] kind \in Numbers \ {"float32", "float64"}  -> <<"int">>
    [] kind \in {"float32", "float64"}            -> <<"float">>
    [] kind = "interface"                         -> <<"json">>
    [] kind = "Time"                              -> <<"date">>
    [] kind = "IntOrString"                       -> <<"intOrString">>
    [] kind \in {"string", "Quantity"}            -> <<"string">>
    [] OTHER                                      -> <<>>

DeRef(type) == IF Head(type) = "Ptr" THEN Tail(type) ELSE type
Wrap(wrapper, type) == IF wrapper = "array" /\ type = <<"byte">> THEN <<"base64">> ELSE <<wrapper>> \o type

(* setupFilters: the types a list can be filtered by.                      *)
Filterable(type) == type \in {<<t>> : t \in {"enum", "date", "dnsLabel", "hostname", "string", "int", "boolean"}}
                    \/ IsReferenceType(type)
SetupFilters(schema) ==
  [schema EXCEPT !.filters =
     IF schema.listable THEN {n \in DOMAIN schema.fields : Filterable(schema.fields[n].type)} ELSE {}]
-----------------------------------------------------------------------------
(* Schemas.mapper, and the default mappers of what can be listed.          *)
HasMappers(schema) == schema.id \in Mapped \/ schema.listable

RECURSIVE ImportType(_, _, _, _), ReadFields(_, _, _), DetermineSchemaType(_, _, _)

DetermineSchemaType(st, path, type) ==
  CASE type[1] \in {"Map", "Slice"} ->
         LET sub == DetermineSchemaType(st, path, DeRef(Tail(type))) IN
         [st |-> sub.st, type |-> Wrap(IF type[1] = "Map" THEN "map" ELSE "array", sub.type)]
    [] type[1] = "Struct" ->
         LET r == ImportType(st, path, type[2], <<>>) IN [st |-> r.st, type |-> <<r.id>>]
    [] OTHER ->
         LET simple == SimpleType(type[1]) IN
         [st |-> IF simple = <<>> THEN Fail(st) ELSE st, type |-> simple]

(* One field: inline ones are read in place, hidden and reserved ones are  *)
(* passed over.                                                            *)
ReadField(f, acc) ==
  LET st     == acc.st
      schema == acc.schema
  IN
  CASE st.failed \/ f.name \in {"-", "links", "actions"} -> [st |-> st, schema |-> schema]
    [] f.inline -> ReadFields(st, schema, f.type[Len(f.type)])
    [] OTHER ->
         LET go     == DeRef(f.type)
             tagged == ApplyTag(FieldOfKind(Head(f.type)), f.tag)
             found  == IF tagged.type = <<>> THEN DetermineSchemaType(st, schema.path, go)
                       ELSE [st |-> st, type |-> tagged.type]
         IN  IF ~TagIsValid(f.tag) \/ ~DefaultIsValid(tagged.default, found.type) THEN [st |-> Fail(st), schema |-> schema]
             ELSE [st |-> found.st,
                   schema |-> [schema EXCEPT !.fields = Set(@, f.name, [tagged EXCEPT !.type = found.type])]]

(* A struct of Kubernetes, with its TypeMeta in place and an ObjectMeta.   *)
IsK8sObject(t) ==
  LET fields == Range(GoTypes[t]) IN
  /\ \E f \in fields : f.inline /\ f.type = <<"Struct", "TypeMeta">>
  /\ \E f \in fields : f.name = "metadata" /\ f.type = <<"Struct", "ObjectMeta">>

ReadFields(st, schema, t) ==
  Through(ReadField,
          [st |-> st, schema |-> [schema EXCEPT !.listable = @ \/ t = Listable \/ IsK8sObject(t)]], GoTypes[t])

NewSchema(path, id) ==
  [id |-> id, path |-> path, fields |-> <<>>, into |-> "", version |-> "", listable |-> FALSE,
   actions |-> {}, filters |-> {}, internal |-> <<>>, mapped |-> {}]

NewSchemaFromType(st, path, t) ==
  LET r == ReadFields([st EXCEPT !.processing = @ \cup {t}], NewSchema(path, GetTypeName(t)), t)
  IN  [st |-> [r.st EXCEPT !.processing = @ \ {t}], schema |-> r.schema]

(* Mutant: the elements of arrays and maps are not mapped.                 *)
TypeMappedPlain(reg, path, fields) ==
  {n \in DOMAIN fields : Len(fields[n].type) = 1 /\ DoSchema(reg, path, SubType(fields[n].type)) # {}}

(* typeMapper.ModifySchema: the fields whose schemas are known by now.     *)
TypeMapped(reg, path, fields) ==
  {n \in DOMAIN fields : LET type == fields[n].type IN
     /\ Len(type) = 1 \/ (Len(type) = 2 /\ type[1] \in {"array", "map"})
     /\ DoSchema(reg, path, SubType(type)) # {}}

(* importType from the type mapper on.  It sees the internal schema, and   *)
(* without one the schema with the fields of the overrides.                *)
Completed(over, copy, path) ==
  LET inner  == IF HasMappers(copy.schema) THEN copy.schema.fields ELSE over.schema.fields
      schema == SetupFilters([over.schema EXCEPT !.internal = inner, !.mapped = TypeMapped(over.st.reg, path, inner)])
  IN  IF over.st.failed THEN over.st ELSE [over.st EXCEPT !.reg = DoAddSchema(@, schema, FALSE)]

ImportType(st, path, t, overrides) ==
  LET id == GetTypeName(t)
      existing == DoSchema(st.reg, path, id)
  IN  CASE st.failed         -> [st |-> st, id |-> id]
        [] existing # {}     -> [st |-> st, id |-> (CHOOSE s \in existing : TRUE).id]
        [] t \in st.processing -> [st |-> st, id |-> id]
        [] OTHER ->
             LET first  == NewSchemaFromType(st, path, t)
                 copy   == IF HasMappers(first.schema) THEN NewSchemaFromType(first.st, path, t) ELSE first
                 over   == Through(LAMBDA o, acc : ReadFields(acc.st, acc.schema, o),
                                   [st |-> copy.st, schema |-> first.schema], overrides)
             IN  [id |-> id, st |-> Completed(over, copy, path)]

Import(reg, path, t, overrides) ==
  ImportType([reg |-> reg, processing |-> {}, failed |-> FALSE], path, t, overrides).st
=============================================================================
