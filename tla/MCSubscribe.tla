----------------------------- MODULE MCSubscribe -----------------------------
(* Subscribe for TLC.  With two types one stream may have an event to send   *)
(* while the other one ends; with two events a client may get one after a    *)
(* gap.  One type has a layer of stores more than the other.                 *)
EXTENDS Subscribe, TLC

CONSTANTS t1, t2

MCLayers == (t1 :> 2) @@ (t2 :> 1)
==============================================================================
