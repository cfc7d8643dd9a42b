------------------------ MODULE MCGenericController --------------------------
(* Instances of GenericController for TLC.                                  *)
EXTENDS GenericController

CONSTANTS h1, h2

\* The handlers hs have been registered before anything else, the handlers of
\* late may come at any time; what is left of the bounds is calls and errors.
Registered(hs, late, calls, errors) ==
    /\ version = [k \in Keys |-> 0] /\ live = {}
    /\ informer = "new" /\ events = [k \in Keys |-> 0]
    /\ queue = <<>> /\ dirty = {} /\ processing = {} /\ delayed = {} /\ down = FALSE
    /\ handlers = [i \in DOMAIN hs |-> [handler |-> hs[i], generation |-> 0]]
    /\ offered = late /\ added = Range(handlers) /\ cancelled = {}
    /\ generation = 0 /\ running = FALSE /\ synced = FALSE
    /\ caller = "none" /\ attempts = MaxStarts - calls
    /\ worker = [w \in Workers |-> Idle]
    /\ failures = MaxFailures - errors
    /\ seen = [h \in Handlers |-> [k \in Keys |-> 0]]

\* One handler that comes before or after the first Start, or two handlers.
MCInit == Registered(<<>>, {h1}, 2, 1) \/ Registered(<<h1, h2>>, {}, 1, 2)

MCSpec == MCInit /\ [][Next]_vars /\ Fairness
==============================================================================
