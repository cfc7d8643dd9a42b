-------------------------- MODULE MCDynamicSchemas --------------------------
(* Two versions; a tree, a diamond, cycles, a type that cannot be imported;*)
(* two schemas that embed themselves into one target, and one that does    *)
(* not embed itself.                                                       *)
EXTENDS DynamicSchemas

F(name, type) == [name |-> name, type |-> type, inline |-> FALSE, tag |-> <<>>]
T(name, type, tag) == [F(name, type) EXCEPT !.tag = tag]
Inline(t) == [F("", <<"Struct", t>>) EXCEPT !.inline = TRUE]

MCGoTypes ==
  [Resource |-> << F("id", <<"string">>), F("links", <<"Map", "string">>) >>,
   node     |-> << Inline("Resource"), F("spec", <<"Struct", "nodeSpec">>), F("state", <<"Ptr", "Struct", "state">>),
                   T("owner", <<"string">>, "type" :> <<"reference", "user">>), F("-", <<"chan">>) >>,
   nodeSpec |-> << F("parts", <<"Slice", "Ptr", "Struct", "part">>), T("mode", <<"string">>, "options" :> "a|b"),
                   F("raw", <<"Slice", "uint8">>) >>,
   state    |-> << F("parts", <<"Map", "Struct", "part">>), F("since", <<"Time">>) >>,
   part     |-> << T("n", <<"int">>, "min" :> "1" @@ "default" :> "1"), F("sub", <<"Slice", "Struct", "part">>),
                   F("of", <<"Ptr", "Struct", "nodeSpec">>) >>,
   TypeMeta |-> << F("kind", <<"string">>) >>,
   ObjectMeta |-> << F("labels", <<"Map", "string">>) >>,
   user     |-> << Inline("TypeMeta"), F("metadata", <<"Struct", "ObjectMeta">>), T("secret", <<"string">>, "writeOnly" :> "" @@ "required" :> "") >>,
   more     |-> << F("extra", <<"Struct", "state">>) >>,
   bad      |-> << F("parts", <<"Slice", "Struct", "part">>), F("c", <<"chan">>) >>]

MCTypeNames == [nodeSpec |-> "spec"]
Names == DOMAIN MCGoTypes \cup {"spec", "e1", "e2", "plain", "drain", "string", "boolean", "int", "byte", "base64", "enum", "date"}
MCPlural == [n \in Names |-> n \o "s"]
MCLower == [n \in Names \cup {MCPlural[x] : x \in Names} |-> n]
MCFullNames == [other |-> <<"/v2", "node">>]   \* /v2/schemas/node

Import1(path, type, overrides) == [path |-> path, type |-> type, overrides |-> overrides]
MCPrograms ==
  {{Import1("/v1", "node", <<>>), Import1("/v1", "user", <<>>), Import1("/v1", "part", <<>>)},
   {Import1("/v1", "node", <<>>), Import1("/v2", "node", <<"more">>),
    Import1("/v2", "nodeSpec", <<"more">>)},
   {Import1("/v1", "part", <<>>), Import1("/v2", "bad", <<>>)}}
MCCustoms == [node |-> {"spec", "user", "drain"}, user |-> {"node"}]

D(type) == [FieldOfKind("string") EXCEPT !.type = type, !.dynamic = TRUE]
S(type) == [D(type) EXCEPT !.dynamic = FALSE]
Dynamic(id, into, version, fields) ==
  [NewSchema("/v1", id) EXCEPT !.into = into, !.version = version, !.fields = fields]
MCDynamics ==
  {Dynamic("e1", "node", "1", "f" :> D(<<"string">>) @@ "by" :> D(<<"reference", "user">>)),
   Dynamic("e1", "node", "2", "f" :> D(<<"reference", "user">>)),
   Dynamic("e2", "nodes", "1", "g" :> D(<<"part">>) @@ "f" :> D(<<"string">>) @@ "owner" :> D(<<"string">>)),
   Dynamic("plain", "", "1", "to" :> S(<<"reference", "node">>)),
   Dynamic("plain", "", "2", "to" :> S(<<"reference", "user">>) @@ "n" :> S(<<"node">>) @@ "up" :> S(<<"reference", "other">>))}
=============================================================================
