-------------------------------- MODULE Query --------------------------------
(***************************************************************************)
(* The query of a list: parse/collection.go turns the parameters of the    *)
(* URL into options, api/handler/query.go applies them to the items, and   *)
(* types/condition.go decides which item a filter admits.                  *)
(*                                                                         *)
(* A query is a record: limit (the parameter, NoLimit if there is none),   *)
(* marker (an id, or ""), sort, order and filters, a set of [name, op,     *)
(* values].  parseNameAndOp splits a key at its last "_": a query here has *)
(* it split, and a key without one has the op "eq".                        *)
(***************************************************************************)
EXTENDS Builder, SequencesExt

CONSTANTS
  DefaultLimit, MaxLimit,
  Collation             \* the texts items are sorted by, in the order of strings

NoLimit == -2
NotANumber == -3

Modifiers == {"eq", "ne", "null", "notnull", "in", "notin", "or", "and"}

ParseLimit(limit) ==
  CASE limit \in {NoLimit, NotANumber}    -> DefaultLimit
    [] limit > MaxLimit \/ limit = -1     -> MaxLimit
    [] limit >= 0                         -> limit
    [] OTHER                              -> DefaultLimit

(* filters: schema.CollectionFilters, from names to the modifiers allowed. *)
ParseSort(filters, q) == IF q.sort \in DOMAIN filters THEN q.sort ELSE ""

ParseFilters(filters, q) ==
  {[field |-> c.name, op |-> c.op, values |-> c.values] :
     c \in {c \in q.filters : c.name \in DOMAIN filters /\ c.op \in filters[c.name] \cap Modifiers}}

NoOptions == [sort |-> "", desc |-> FALSE, limit |-> NoLimit, marker |-> "", conditions |-> {}]

(* Only a GET has options; anything else lists all, in the order of ids.   *)
QueryOptions(filters, method, q) ==
  IF method # "GET" THEN NoOptions
  ELSE [sort |-> ParseSort(filters, q), desc |-> q.order = "desc", limit |-> ParseLimit(q.limit),
        marker |-> q.marker, conditions |-> ParseFilters(filters, q)]
-----------------------------------------------------------------------------
ValueOrDefault(fields, d, name) ==
  CASE Has(d, name) /\ d[name] # Null -> d[name]
    [] Has(fields, name)              -> fields[name].default
    [] OTHER                          -> Null

(* QueryCondition.Valid.  A condition made from a URL has no left or right *)
(* for "and" and "or" to combine.                                          *)
Valid(c, fields, d) ==
  LET text   == Text(ValueOrDefault(fields, d, c.field))
      values == {Text(v) : v \in ToSet(c.values)}
      value  == IF c.values = <<>> THEN Str("") ELSE Text(c.values[1])
  IN  CASE c.op = "eq"      -> text = value
        [] c.op = "ne"      -> text # value
        [] c.op = "in"      -> text \in values
        [] c.op = "notin"   -> text \notin values
        [] c.op = "null"    -> text = Str("")
        [] c.op = "notnull" -> text # Str("")
        [] OTHER            -> FALSE

ApplyQueryConditions(conditions, fields, items) ==
  SelectSeq(items, LAMBDA d : \A c \in conditions : Valid(c, fields, d))

Rank(v) == CHOOSE i \in DOMAIN Collation : Collation[i] = Text(v)

ApplySort(sort, desc, items) ==
  LET name    == IF sort = "" THEN "id" ELSE sort
      rank(d) == Rank(IF Has(d, name) THEN d[name] ELSE Null)
      before(d, e) == IF desc THEN rank(e) < rank(d) ELSE rank(d) < rank(e)
  IN  SortSeq(items, before)

(* Mutant: the next page begins after the item its link names.             *)
StartIndexAfter(marker, items) ==
  LET at == SelectInSeq(items, LAMBDA d : d["id"] = Str(marker)) IN IF marker = "" THEN 0 ELSE at

(* Where the marker is, the first item when none has its id (any more).    *)
StartIndex(marker, items) ==
  LET at == SelectInSeq(items, LAMBDA d : d["id"] = Str(marker))
  IN  IF marker = "" \/ at = 0 THEN 0 ELSE at - 1

(* The page at the marker and the ids of the pages around it.  Indices are *)
(* from 0.                                                                 *)
ApplyPagination(limit, marker, items) ==
  LET n     == Len(items)
      lim   == IF limit < 0 THEN 0 ELSE limit
      start == StartIndex(marker, items)
      prev  == IF start - lim <= 0 THEN 0 ELSE start - lim
      next  == IF start + lim > n THEN n ELSE start + lim
      id(i) == items[i + 1]["id"][2]
      part  == start > 0 \/ next < n
  IN  [page |-> SubSeq(items, start + 1, next),
       next |-> IF next > start /\ next < n THEN id(next) ELSE "",
       previous |-> IF prev < start THEN id(prev) ELSE "",
       first |-> IF part THEN id(0) ELSE "",
       last |-> IF part /\ n - lim > 0 /\ n - lim < n THEN id(n - lim) ELSE ""]

Unpaged(items) == [page |-> items, next |-> "", previous |-> "", first |-> "", last |-> ""]

ApplyQueryOptions(o, fields, items) ==
  LET sorted == ApplySort(o.sort, o.desc, ApplyQueryConditions(o.conditions, fields, items))
  IN  IF o.limit = NoLimit THEN Unpaged(sorted) ELSE ApplyPagination(o.limit, o.marker, sorted)
=============================================================================
