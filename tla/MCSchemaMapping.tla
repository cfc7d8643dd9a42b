--------------------------- MODULE MCSchemaMapping ---------------------------
(* Chains of two extra mappers over a type with every shape of field.      *)
EXTENDS SchemaMapping

F(names, type) == [n \in names |-> Field(type)]
String == <<"string">>
Schema(fields) == [fields |-> fields, scope |-> "namespace", listable |-> TRUE]

RawSchemas ==
  [thing  |-> Schema(F({"kind", "apiVersion", "description", "team"}, String) @@ F({"options"}, <<"map", "json">>)
                     @@ F({"metadata"}, <<"meta">>) @@ F({"spec"}, <<"spec">>) @@ F({"status"}, <<"status">>)),
   meta   |-> Schema(F({"name", "namespace", "selfLink", "uid", "resourceVersion", "creationTimestamp", "deletionTimestamp"}, String) @@ F({"labels", "annotations"}, <<"map", "string">>)),
   spec   |-> Schema(F({"a", "b", "displayName", "secret", "token", "mode"}, String) @@ F({"blob"}, <<"map", "json">>)
                     @@ F({"clusterName"}, <<"reference", "cluster">>) @@ F({"items", "more", "all"}, <<"array", "item">>)
                     @@ F({"one"}, <<"one">>) @@ F({"two"}, <<"two">>)),
   status |-> Schema(F({"state"}, String)),
   item   |-> Schema(F({"key", "v", "w"}, String)),
   one    |-> Schema(F({"p"}, String)),
   two    |-> Schema(F({"q"}, String))]

MCSchemas == ModifySchema(NewMetadataMapper, RawSchemas, "meta").schemas

MCExtras ==
  << Move(<<"a">>, <<"z">>), Move(<<"z">>, <<"y">>), Move(<<"b">>, <<"status", "b">>),
     DisplayName, UntypedMove(<<"b">>, <<"status", "b">>), BatchMove(<<"b", "clusterName">>, "status"),
     [kind |-> "Copy", from |-> "a", to |-> "c"],
     [kind |-> "AnnotationField", field |-> "description", key |-> "field.cattle.io/description", as |-> "text", ignoreDefinition |-> FALSE],
     [kind |-> "AnnotationField", field |-> "options", key |-> "field.cattle.io/options", as |-> "map", ignoreDefinition |-> FALSE],
     [kind |-> "LabelField", field |-> "team", key |-> "field.cattle.io/team", ignoreDefinition |-> FALSE],
     [kind |-> "Base64", path |-> <<"secret">>, ignoreDefinition |-> FALSE],
     [kind |-> "JSONEncode", path |-> <<"blob">>, ignoreDefinition |-> FALSE],
     [kind |-> "SliceToMap", field |-> "items", key |-> "key"],
     [kind |-> "SetValue", path |-> <<"a">>, to |-> <<"a">>, ifEq |-> Str("x"), value |-> Str("X"), ignoreDefinition |-> FALSE],
     [kind |-> "RenameReference", names |-> ("clusterName" :> "clusterId")],
     [kind |-> "UnionEmbed", embeds |-> <<>>, members |-> << [field |-> "one", check |-> {"p"}], [field |-> "two", check |-> {"q"}] >>],
     [kind |-> "PendingStatus"],
     [kind |-> "Required", fields |-> {"b"}], [kind |-> "Enum", fields |-> {"a"}],
     Drop("b"),
     [kind |-> "SliceMerge", from |-> <<"items", "more">>, to |-> "all", ignoreDefinition |-> FALSE],
     [kind |-> "Condition", field |-> "mode", value |-> Str("m"),
      mappers |-> << [kind |-> "Base64", path |-> <<"token">>, ignoreDefinition |-> FALSE] >>],
     [kind |-> "Root", run |-> FALSE, mappers |-> << Move(<<"b">>, <<"root">>) >>] >>

TypeMapper(id, mappers, subs) ==
  [mappers |-> [kind |-> "Mappers", mappers |-> mappers], root |-> FALSE, typeName |-> id, subs |-> subs]

MCSubMappers ==
  [meta |-> [TypeMapper("meta", <<>>, Empty) EXCEPT !.mappers = NewMetadataMapper],
   spec |-> TypeMapper("spec", <<>>, [items |->
              [holds  |-> "array",
               mapper |-> TypeMapper("item", << Move(<<"v">>, <<"value">>) >>, Empty)]])]

Meta == ("name" :> Str("n") @@ "namespace" :> Str("ns") @@ "uid" :> Str("u1") @@ "resourceVersion" :> Str("1")
         @@ "labels" :> Map("field.cattle.io/team" :> Str("t") @@ "l" :> Str("1"))
         @@ "annotations" :> Map("field.cattle.io/description" :> Str("d")
                                 @@ "field.cattle.io/options" :> Marshal(Map("o" :> Str("1")))))
Item(k) == Map("key" :> Str(k) @@ "v" :> Str("1"))
Object(spec) == ("kind" :> Str("Kind") @@ "apiVersion" :> Str("group/version")
                 @@ "metadata" :> Map(Meta) @@ "spec" :> Map(spec) @@ "status" :> Map("state" :> Str("active")))

MCObjects ==
  { Object("a" :> Str("x") @@ "b" :> Str("b") @@ "displayName" :> Str("shown") @@ "clusterName" :> Str("c1")
           @@ "token" :> <<"b64", Str("t")>> @@ "mode" :> Str("m")),
    Object("secret" :> <<"b64", Str("s")>> @@ "blob" :> Marshal(Map("j" :> Str("1"))) @@ "b" :> Str("b")),
    Object("items" :> List(<<Item("k1"), Item("k2")>>) @@ "one" :> Map("p" :> Str("1")) @@ "b" :> Str("b")),
    Object("items" :> List(<<>>) @@ "two" :> Map("q" :> Str("1")) @@ "a" :> Str("y")) }

MCEdits ==
  { [type |-> String, value |-> v] : v \in {Str("new"), Str(""), Pad("new")} }
  \cup {[type |-> <<"map", "json">>, value |-> Map("k" :> Str("1"))]}
=============================================================================
