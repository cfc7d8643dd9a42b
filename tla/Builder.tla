------------------------------- MODULE Builder -------------------------------
(***************************************************************************)
(* parse/builder: the one gate between what a client sends or is sent and  *)
(* what the stores hold.  Construct copies the fields of a resource that   *)
(* the operation may touch, converts each to its type, checks it, and      *)
(* fills in defaults; it runs on every body (create, update) and on every  *)
(* answer (list, and listcreate for the answer to a POST).                 *)
(*                                                                         *)
(* A field is a record with type (a tuple: <<"string">>, <<"map", "x">>),  *)
(* create, update, writeOnly, required, nullable, default (Null if none),  *)
(* min and max, options ({} if any value will do), misfits, the strings    *)
(* outside its length limits, and refused, those with characters it does   *)
(* not admit.  Go ranges maps in any order, so which of several errors is  *)
(* reported is open: a result has the set of them.                         *)
(***************************************************************************)
EXTENDS Values, Integers

CONSTANTS
  WellFormed,    \* dnsLabel, dnsLabelRestricted, hostname, date: the strings of that form
  Referable      \* what the ReferenceValidator finds: <<type, string>> pairs

Num(n) == <<"num", n>>
Bool(b) == <<"bool", b>>
Digits(n) == <<"digits", n>>     \* the decimal text of n

Good(v) == [errs |-> {}, value |-> v]
Bad(e) == [errs |-> {e}, value |-> Null]

IsListOp(op) == op \in {"list", "listcreate"}
IsWrite(op) == op \in {"create", "update"}

Kind(type, wrapper) == Len(type) = 2 /\ type[1] = wrapper

FieldMatchesOp(f, op) ==
  CASE op = "create"     -> f.create
    [] op = "update"     -> f.update
    [] op = "list"       -> f.type # <<"password">> /\ ~f.writeOnly
    [] op = "listcreate" -> f.type # <<"password">>
    [] OTHER             -> FALSE

(* convert.ToString.                                                       *)
RECURSIVE Text(_)
Text(v) ==
  CASE v[1] = "num"  -> Digits(v[2])
    [] v[1] = "list" /\ v[2] # <<>> -> Text(v[2][1])
    [] v[1] = "bool" -> Str(IF v[2] THEN "true" ELSE "false")
    [] OTHER         -> AsString(v)

ToNumber(v) ==
  CASE v[1] = "num"            -> Good(v)
    [] Text(v)[1] = "digits"   -> Good(Num(Text(v)[2]))
    [] OTHER                   -> Bad("InvalidFormat")

ToBool(v) ==
  Bool(IF v[1] = "bool" THEN v[2] ELSE Text(v) \in {Str("true"), Str("t"), Str("yes"), Str("y")})

Simple ==
  {"json", "date", "boolean", "enum", "int", "float", "password", "string", "dnsLabel",
   "dnsLabelRestricted", "hostname", "intOrString", "base64", "reference"}

(* v is not nil.                                                           *)
ConvertSimple(type, v, op) ==
  CASE type = "json"    -> Good(v)
    [] type = "date"    -> Good(IF Text(v) = Str("") THEN Null ELSE Text(v))
    [] type = "boolean" -> Good(ToBool(v))
    [] type \in {"int", "float"} -> ToNumber(v)
    [] type = "string" /\ IsListOp(op) /\ v[1] = "pad" -> Good(v)
    [] type \in {"dnsLabel", "dnsLabelRestricted", "hostname"} ->
         IF IsWrite(op) /\ Text(v) # Str("") /\ Text(v) \notin {Str(s) : s \in WellFormed[type]}
         THEN Bad("InvalidFormat") ELSE Good(Text(v))
    [] type = "intOrString" /\ ToNumber(v).errs = {} -> ToNumber(v)
    [] OTHER -> Good(Text(v))

(* The checks a nil value passes through take the default in its place.    *)
CheckFieldCriteria(f, value) ==
  LET v       == IF value = Null THEN f.default ELSE value
      text    == IF v \in {Null, Str("")} THEN Str("") ELSE Text(v)
      hasText == v \notin {Null, Str("")}
  IN  CASE ~hasText /\ ~f.nullable /\ f.default = Null                -> {"NotNullable"}
        [] value[1] = "num" /\ value[2] < f.min                       -> {"MinLimitExceeded"}
        [] value[1] = "num" /\ value[2] > f.max                       -> {"MaxLimitExceeded"}
        [] v # Null /\ text \in {Str(s) : s \in f.misfits}            -> {"LengthLimit"}
        [] f.options # {} /\ (hasText \/ ~f.nullable) /\ text \notin f.options -> {"InvalidOption"}
        [] hasText /\ text \in {Str(s) : s \in f.refused}             -> {"InvalidCharacters"}
        [] OTHER                                                      -> {}

(* A list is checked item by item, and holds no nil.                       *)
CheckValue(f, v) ==
  IF IsList(v)
  THEN UNION {IF i = Null THEN {"NotNullable"} ELSE CheckFieldCriteria(f, i) : i \in {v[2][n] : n \in DOMAIN v[2]}}
  ELSE CheckFieldCriteria(f, v)
-----------------------------------------------------------------------------
(* What an export leaves out: what a create could not set, and what it     *)
(* would get without asking.                                               *)
DropDefaultsAndReadOnly(fields, d) ==
  Only(d, {n \in DOMAIN d \cap DOMAIN fields :
             fields[n].create /\ d[n] # fields[n].default /\ ~IsAPIObjectEmpty(d[n])})

(* The form for editing: the fields an update may set and the name; one    *)
(* that has its default, or no value, is a comment ("zzz#").               *)
PopulateMissingFieldsForEdit(fields, d) ==
  LET fixed   == {n \in DOMAIN fields : ~fields[n].update}
      implied == {n \in DOMAIN fields \ fixed : ~Has(d, n) \/ (fields[n].default # Null /\ d[n] = fields[n].default)}
  IN  Through(LAMBDA n, x : Set(x, "zzz#" \o n, fields[n].default),
              Without(d, (fixed \ {"name"}) \cup implied), InSomeOrder(implied))

(* checkDefaultAndRequired, the part that fills in.                        *)
Defaulted(fields, op, d) ==
  LET created == {n \in DOMAIN fields : fields[n].default # Null /\ (~Has(d, n) \/ d[n] = Str(""))}
      listed  == {n \in DOMAIN fields \ DOMAIN d :
                    /\ FieldMatchesOp(fields[n], "list")
                    /\ Kind(fields[n].type, "reference") \/ fields[n].default # Null}
      more    == IF op = "create" THEN created ELSE IF IsListOp(op) THEN listed ELSE {}
  IN  [n \in more |-> IF op # "create" /\ Kind(fields[n].type, "reference") THEN Null ELSE fields[n].default] @@ d

MissingRequired(fields, op, d) ==
  {"MissingRequired" : n \in {n \in DOMAIN fields :
     /\ op = "create" /\ fields[n].create /\ fields[n].required
     /\ ~Has(d, n) \/ (Kind(fields[n].type, "array") /\ Items(d, n) = <<>>)}}

(* S: the fields of every schema.  opts: [edit, export], what the request  *)
(* asked for.  An array or map field given anything else is emptied.       *)
RECURSIVE Convert(_, _, _, _, _)
RECURSIVE Construct(_, _, _, _, _)

Convert(S, opts, type, v, op) ==
  LET at(x) == Convert(S, opts, <<type[2]>>, x, op)
      errs(f) == UNION {f[k].errs : k \in DOMAIN f}
      values(f) == [k \in DOMAIN f |-> f[k].value]
      each(f) == CHOOSE r \in {IF errs(g) = {} THEN Good(values(g)) ELSE [errs |-> errs(g), value |-> Null]
                               : g \in {[k \in DOMAIN f |-> at(f[k])]}} : TRUE
  IN  CASE v = Null -> Good(Null)
        [] Kind(type, "map") ->
             LET r == each(IF IsMap(v) THEN v[2] ELSE Empty)
             IN  IF r.errs = {} THEN Good(Map(r.value)) ELSE r
        [] Kind(type, "array") ->
             LET r == each(IF IsList(v) THEN v[2] ELSE <<>>)
             IN  IF r.errs = {} THEN Good(List(r.value)) ELSE r
        [] Kind(type, "reference") ->
             IF <<type[2], Text(v)>> \in Referable THEN Good(Text(v)) ELSE Bad("InvalidReference")
        [] type[1] \in Simple -> ConvertSimple(type[1], v, op)
        [] type[1] \notin DOMAIN S -> Bad("InvalidType")
        [] ~IsMap(v) -> Bad("InvalidFormat")
        [] OTHER ->
             LET r == Construct(S, opts, type[1], v[2], op)
             IN  IF r.errs = {} THEN Good(Map(r.value)) ELSE r

(* copyInputs, then checkDefaultAndRequired.                               *)
Construct(S, opts, id, input, op) ==
  LET fields == S[id]
      taken  == {n \in DOMAIN input \cap DOMAIN fields : FieldMatchesOp(fields[n], op)}
      was(n) == input[n] = Null /\ (fields[n].nullable \/ fields[n].default = Null)
      finish(conv) ==
        LET kept   == {n \in taken : conv[n].value # Null \/ was(n)}
            errs   == UNION {conv[n].errs : n \in taken}
                      \cup (IF IsListOp(op) THEN {} ELSE UNION {CheckValue(fields[n], conv[n].value) : n \in kept})
            names  == IF IsListOp(op) /\ ~opts.edit /\ ~opts.export
                      THEN {n \in {"type", "id"} \cap DOMAIN input : ~IsAPIObjectEmpty(input[n])} ELSE {}
            stamps == IF IsListOp(op) /\ ~opts.edit
                      THEN {n \in kept : fields[n].type = <<"date">> /\ conv[n].value \in {Str(s) : s \in WellFormed["date"]}}
                      ELSE {}
            copied == Through(LAMBDA n, x : Set(x, n \o "TS", <<"stamp", conv[n].value>>),
                              Only(input, names) @@ [n \in kept |-> conv[n].value], InSomeOrder(stamps))
            filled == Defaulted(fields, op, copied)
            edited == IF IsListOp(op) /\ opts.edit THEN PopulateMissingFieldsForEdit(fields, filled) ELSE filled
            shown  == IF IsListOp(op) /\ opts.export THEN DropDefaultsAndReadOnly(fields, edited) ELSE edited
        IN  IF errs # {} THEN [errs |-> errs, value |-> Empty]
            ELSE IF MissingRequired(fields, op, filled) # {}
            THEN [errs |-> {"MissingRequired"}, value |-> Empty]
            ELSE [errs |-> {}, value |-> shown]
  IN  CHOOSE r \in {finish(conv) : conv \in {[n \in taken |-> Convert(S, opts, fields[n].type, input[n], op)]}} : TRUE
=============================================================================
