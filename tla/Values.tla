------------------------------- MODULE Values -------------------------------
(***************************************************************************)
(* Untyped resource data, the map[string]interface{} every layer of norman *)
(* passes around, and the helpers of types/values on it.                   *)
(*                                                                         *)
(* A resource is a function from field names to values.  A value carries   *)
(* the tag of its Go type, so that a string is never compared with a map.  *)
(* An encoded value keeps what it encodes: <<"json", v>> is the text       *)
(* json.Marshal gives for v, <<"b64", v>> the base64 text of v.            *)
(***************************************************************************)
EXTENDS Naturals, Sequences, FiniteSets, TLC

Null == <<"null">>
Str(s) == <<"str", s>>
Map(f) == <<"map", f>>
List(s) == <<"list", s>>

Empty == [k \in {} |-> Null]

IsMap(v) == v[1] = "map"
IsList(v) == v[1] = "list"

Has(d, k) == k \in DOMAIN d
Set(d, k, v) == (k :> v) @@ d
Without(d, K) == [k \in DOMAIN d \ K |-> d[k]]
Only(d, K) == [k \in DOMAIN d \cap K |-> d[k]]

(* data[key].(map[string]interface{}): the nil map when there is no map.   *)
Sub(d, k) == IF Has(d, k) /\ IsMap(d[k]) THEN d[k][2] ELSE Empty
Items(d, k) == IF Has(d, k) /\ IsList(d[k]) THEN d[k][2] ELSE <<>>

(* x run through f with each of ms in turn.  FoldLeft, with the value of   *)
(* every step bound to a variable, so that TLC computes it once.           *)
RECURSIVE Through(_, _, _)
Through(f(_, _), x, ms) ==
  IF ms = <<>> THEN x
  ELSE CHOOSE z \in {Through(f, y, Tail(ms)) : y \in {f(Head(ms), x)}} : TRUE

RECURSIVE InSomeOrder(_)
InSomeOrder(S) ==
  IF S = {} THEN <<>> ELSE LET e == CHOOSE x \in S : TRUE IN <<e>> \o InSomeOrder(S \ {e})

RECURSIVE HasValue(_, _)
HasValue(d, path) ==
  IF Len(path) = 1 THEN Has(d, path[1]) ELSE HasValue(Sub(d, path[1]), Tail(path))

RECURSIVE GetValue(_, _)
GetValue(d, path) ==
  CASE Len(path) > 1     -> GetValue(Sub(d, path[1]), Tail(path))
    [] Has(d, path[1])   -> d[path[1]]
    [] OTHER             -> Null

RECURSIVE RemoveValue(_, _)
RemoveValue(d, path) ==
  CASE ~HasValue(d, path) -> d
    [] Len(path) = 1      -> Without(d, {path[1]})
    [] OTHER -> Set(d, path[1], Map(RemoveValue(Sub(d, path[1]), Tail(path))))

(* A value on the way that is not a map swallows the one being put.        *)
RECURSIVE PutValue(_, _, _)
PutValue(d, v, path) ==
  CASE Len(path) = 1 -> Set(d, path[1], v)
    [] Has(d, path[1]) /\ ~IsMap(d[path[1]]) -> d
    [] OTHER -> Set(d, path[1], Map(PutValue(Sub(d, path[1]), v, Tail(path))))

(* convert.ToString: nil is the empty string, a list is its first item,    *)
(* surrounding white space (a padded string) is trimmed, a map is printed. *)
Pad(s) == <<"pad", s>>

RECURSIVE AsString(_)
AsString(v) ==
  CASE v = Null      -> Str("")
    [] v[1] = "pad"  -> Str(v[2])
    [] v[1] = "list" -> IF v[2] = <<>> THEN Str("") ELSE AsString(v[2][1])
    [] v[1] = "map"  -> <<"printed", v>>
    [] OTHER         -> v

Marshal(v) == <<"json", v>>
IsJSON(v, tag) == v[1] = "json" /\ v[2][1] = tag

(* convert.IsAPIObjectEmpty: nil, "" and the empty map or list.            *)
IsAPIObjectEmpty(v) ==
  \/ v \in {Null, Str("")}
  \/ IsMap(v) /\ DOMAIN v[2] = {}
  \/ IsList(v) /\ v[2] = <<>>
=============================================================================
