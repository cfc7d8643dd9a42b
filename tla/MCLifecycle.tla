---------------------------- MODULE MCLifecycle ------------------------------
(* Instances of Lifecycle for TLC.                                          *)
EXTENDS Lifecycle

CONSTANTS w1, w2

MCCrews == {{w1}, {w1, w2}}

\* The workers of crew start after past, the states the object has been in;
\* what is left of the bounds is chg and fail.
From(crew, past, chg, fail) ==
    /\ has \in [create : BOOLEAN, finalize : BOOLEAN]
    /\ history = past /\ pos = Len(past) /\ pending = FALSE
    /\ worker = [w \in crew |-> Idle]
    /\ held = {} /\ ready = {}
    /\ changes = MaxChanges - chg /\ failures = MaxFailures - fail

\* One worker and two incarnations of the object; or two workers and, after an
\* object that has gone before the start, one incarnation.
MCInit ==
    \/ From({w1}, <<Gone>>, 1, 2)
    \/ From({w1, w2}, <<Gone, [Gone EXCEPT !.uid = 1], Gone>>, 1, 1)

MCSpec == MCInit /\ [][Next]_vars /\ Fairness
==============================================================================
