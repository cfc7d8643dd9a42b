----------------------------- MODULE MCStartup -----------------------------
(* Two servers that stand for the election, with no CRDs; or two servers   *)
(* of which one runs the master controllers, with one version of two       *)
(* schemas, or two versions of a group that share the CRD of a schema.     *)
EXTENDS Startup

MCNameOf == [a1 |-> "a", a2 |-> "a", b1 |-> "b"]

MCConfigs ==
  LET One == [v1 |-> <<"a1", "b1">>]
      Two == [v1 |-> <<"a1">>, v2 |-> <<"a2">>]
      No == [v \in {} |-> <<>>]
  IN {[crds |-> One, controllers |-> {"p"}],
      [crds |-> Two, controllers |-> {}],
      [crds |-> No, controllers |-> {"p", "q"}]}
=============================================================================
