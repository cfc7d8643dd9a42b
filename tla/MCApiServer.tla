----------------------------- MODULE MCApiServer -----------------------------
(* Two clients and a controller on two objects of one type; each menu of   *)
(* requests is a theme: writes that meet, pages, filters, forms, refusals. *)
EXTENDS ApiServer

ApiField(type, access) ==
  [type |-> type, create |-> "c" \in access, update |-> "u" \in access, writeOnly |-> "w" \in access,
   required |-> "r" \in access, nullable |-> "n" \in access, default |-> Null, min |-> 0, max |-> 100,
   options |-> {}, misfits |-> {}, refused |-> {}]

MCApiFields ==
  [thing |->
    [name   |-> [ApiField(<<"dnsLabel">>, {"c"}) EXCEPT !.refused = {"-"}],
     color  |-> [ApiField(<<"enum">>, {"c", "u"}) EXCEPT !.default = Str("red"), !.options = {Str("red"), Str("blue")}],
     size   |-> [ApiField(<<"int">>, {"c", "r"}) EXCEPT !.min = 1, !.max = 3],
     secret |-> ApiField(<<"string">>, {"c", "u", "w"}),
     extra  |-> ApiField(<<"extra">>, {"c", "u"}),
     labels |-> ApiField(<<"map", "string">>, {"c", "u"}),
     made   |-> ApiField(<<"date">>, {"c"}),
     state  |-> ApiField(<<"string">>, {})],
   extra |->
    [flags |-> ApiField(<<"array", "boolean">>, {"c", "u", "n"}),
     port  |-> ApiField(<<"intOrString">>, {"c", "u"}),
     owner |-> ApiField(<<"reference", "thing">>, {"c", "u"})]]

Internal(fields) == [fields |-> fields, scope |-> "", listable |-> TRUE]
MCInternal ==
  [thing  |-> Internal([metadata |-> Field(<<"meta">>), spec |-> Field(<<"spec">>), status |-> Field(<<"status">>)]),
   meta   |-> Internal([name |-> Field(<<"string">>), labels |-> Field(<<"map", "string">>)]),
   spec   |-> Internal([color |-> Field(<<"string">>), size |-> ReadOnlyField(Field(<<"int">>)),
                        secret |-> Field(<<"string">>), extra |-> Field(<<"map", "json">>),
                        made |-> ReadOnlyField(Field(<<"date">>))]),
   status |-> Internal([state |-> Field(<<"string">>)])]

MoveUp(from, n) == [kind |-> "Move", from |-> <<from, n>>, to |-> <<n>>, destDefined |-> FALSE, noDelete |-> FALSE]
MCTypeMapper ==
  [mappers |-> [kind |-> "Mappers", mappers |->
    << MoveUp("metadata", "name"), MoveUp("metadata", "labels"), MoveUp("spec", "color"), MoveUp("spec", "size"),
       MoveUp("spec", "secret"), MoveUp("spec", "extra"), MoveUp("spec", "made"), MoveUp("status", "state") >>],
   root |-> TRUE, typeName |-> "thing", subs |-> Empty]

Thing(n, v, color) ==
  [kind |-> Str("Kind"), apiVersion |-> Str("group/version"),
   metadata |-> Map([name |-> Str(n), labels |-> Map("cattle.io/creator" :> Str("norman") @@ "l" :> Str("0")),
                     resourceVersion |-> Num(v)]),
   spec |-> Map([color |-> Str(color), size |-> Num(2), secret |-> Str("s")])]

(* A controller holds on to b.                                             *)
MCObjects == [a |-> Thing("a", 1, "red"),
              b |-> PutValue(Thing("b", 2, "red"), List(<<Str("f")>>), <<"metadata", "finalizers">>)]

NoOpts == [edit |-> FALSE, export |-> FALSE, replace |-> FALSE]
NoQuery == [limit |-> NoLimit, marker |-> "", sort |-> "", order |-> "", filters |-> {}]
Req(method, id, body) ==
  [method |-> method, override |-> "", type |-> "thing", id |-> id, link |-> "", action |-> "",
   opts |-> NoOpts, query |-> NoQuery, body |-> body]

Blue == [color |-> Str("blue"), size |-> Num(3), state |-> Str("mine")]
Label == [labels |-> Map("cattle.io/creator" :> Str("me") @@ "m" :> Str("1")), secret |-> Str("t")]
New(n) == [name |-> Str(n), size |-> Digits(1), secret |-> Str("u"), bogus |-> Str("z"), made |-> Str("noon"),
           extra |-> Map([flags |-> List(<<Str("yes")>>), port |-> Str("http"), owner |-> Str("a")])]
Listing(n, filters) == [Req("GET", "", Empty) EXCEPT !.query.limit = n, !.query.filters = filters]
Red == {[name |-> "color", op |-> "eq", values |-> <<Str("red")>>]}

Meet   == {Req("PUT", "a", Blue), Req("PUT", "a", Label), Req("DELETE", "a", Empty), Req("POST", "", New("a"))}
Page   == {Listing(1, {}), Req("DELETE", "b", Empty), Req("POST", "", New("c"))}
Filter == {Listing(1, Red), Req("DELETE", "b", Empty), Req("PUT", "b", Blue)}
Form   == {Req("GET", "a", Empty), [Req("GET", "a", Empty) EXCEPT !.opts.edit = TRUE],
           [Req("GET", "a", Empty) EXCEPT !.opts.export = TRUE], [Req("GET", "a", Empty) EXCEPT !.link = "logs"],
           [Req("PUT", "a", Blue) EXCEPT !.opts.replace = TRUE],
           [Req("PUT", "a", Only(Label, {"labels"})) EXCEPT !.opts.replace = TRUE],
           [Listing(5000, {}) EXCEPT !.query.sort = "color", !.query.order = "desc"]}
Errors == {Req("POST", "", [name |-> Str("c")]), Req("POST", "", [size |-> Num(9)]), Req("PATCH", "a", Blue),
           Req("PUT", "", Blue), Req("POST", "a", New("c")), [Req("GET", "a", Empty) EXCEPT !.type = "other"],
           [Req("POST", "a", Empty) EXCEPT !.action = "remove"], [Req("POST", "a", Empty) EXCEPT !.action = "start"],
           [Req("POST", "", Empty) EXCEPT !.override = "GET", !.query.limit = 0],
           Req("POST", "", [size |-> Num(1), labels |-> Map("l" :> Str("1"))])}

CONSTANTS p, q
MCClients == {p, q}
Alike == Permutations(MCClients)

Menu(requests, n, t) == [requests |-> requests, most |-> n, troubles |-> t]
MCMenus == {Menu(Meet, 3, 1), Menu(Meet, 2, 2), Menu(Page, 3, 1), Menu(Filter, 3, 1), Menu(Form, 2, 1), Menu(Errors, 2, 1)}
MCFilters == [color |-> {"eq"}]
MCCollation == << Str(""), Str("a"), Str("b"), Str("blue"), Str("c"), Str("g"), Str("red") >>
MCWellFormed == [dnsLabel |-> {"a", "b", "c"}, dnsLabelRestricted |-> {}, hostname |-> {}, date |-> {"noon"}]
MCReferable == {<<"thing", Str("a")>>}
=============================================================================
