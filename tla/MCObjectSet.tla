----------------------------- MODULE MCObjectSet -----------------------------
(* A kind with a client and one found by discovery; an owner that adds, *)
(* changes and withdraws objects and fields, and one that makes a mistake. *)
EXTENDS ObjectSet, TLC

Obj(kind, fields) == [kind |-> kind, ns |-> "ns", name |-> "o", fields |-> fields]

MCWants ==
  << << Obj("d", "f" :> "1"), Obj("a", "f" :> "1") >>,
     << Obj("a", "f" :> "1" @@ "g" :> "1") >>,
     << Obj("a", "f" :> "2"), [Obj("a", "f" :> "2") EXCEPT !.ns = ""] >> >>
MCClientKinds == <<"a">>
MCKeySeq == [i \in 1..2 |-> << <<"a", "d">>[i], "ns", "o" >>]
=============================================================================
