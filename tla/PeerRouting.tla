----------------------------- MODULE PeerRouting -----------------------------
(***************************************************************************)
(* Server.Dial on top of the session registry: how a dial for a client key  *)
(* finds a session (sessionManager.getDialer), and how a server whose peer  *)
(* announced the client makes that peer dial on its behalf.  The dial is    *)
(* followed from server to server while the registries change under it.     *)
(***************************************************************************)
EXTENDS SessionRegistry, SequencesExt

VARIABLES
    order,  \* the sessions of clients in the order of sessionManager.add
    dial    \* one call of Server.Dial, followed across the servers

vars == <<regVars, order, dial>>

idle == [pc |-> "idle", key |-> None, on |-> None, via |-> None]

------------------------------------------------------------------------------
(* The slices of sm.clients: add appends to one, remove keeps their order.  *)

SessionAdded(k) ==
    /\ AddSession(k)
    /\ order' = IF IsPeer(k) THEN order ELSE Append(order, k)

\* Mutant: remove leaves the session in the slice.
SessionStaysListed(k) == RemoveSession(k) /\ UNCHANGED order

SessionRemoved(k) == RemoveSession(k) /\ order' = SelectSeq(order, LAMBDA x : x # k)

\* sm.clients[key] of server s.
Clients(s, key) == SelectSeq(order, LAMBDA k : at[k] = s /\ clientKey[k] = key)

\* Mutant: any peer that announced anything will do.
RoutesAnyKey(s, key) == {k \in Sessions(s) : IsPeer(k) /\ remote[k] # {}}

\* The peer sessions of s whose far end announced the client key.
Routes(s, key) ==
    {k \in Sessions(s) : IsPeer(k) /\ \E x \in SessionKeys : <<key, x>> \in remote[k]}

------------------------------------------------------------------------------
(* Server.Dial, and the dials the peers make on its behalf.                 *)

StartDial(s, key) ==
    /\ dial.pc = "idle"
    /\ dial' = [pc |-> "lookup", key |-> key, on |-> s, via |-> None]

\* getDialer: sessions[0] of the client if there is one, or else a peer's.
GetDialer ==
    /\ dial.pc = "lookup"
    /\ LET sessions == Clients(dial.on, dial.key)
           routes   == Routes(dial.on, dial.key)
       IN \/ /\ sessions # <<>>
             /\ dial' = [dial EXCEPT !.pc = "connect", !.via = Head(sessions)]
          \/ /\ sessions = <<>>
             /\ \E k \in routes : dial' = [dial EXCEPT !.pc = "connect", !.via = k]
          \/ /\ sessions = <<>> /\ routes = {}
             /\ dial' = [dial EXCEPT !.pc = "failed"]

\* serverConnect writes the Connect message and the far end serves it: a client
\* dials the target, a peer calls its own Server.Dial for the same client key.
Connect ==
    /\ dial.pc = "connect"
    /\ up[dial.via]
    /\ \/ /\ IsPeer(dial.via) /\ dialer[dial.via] = "listening"
          /\ dial' = [dial EXCEPT !.pc = "lookup", !.on = clientKey[dial.via], !.via = None]
       \/ /\ ~IsPeer(dial.via)
          /\ dial' = [dial EXCEPT !.pc = "reached"]

\* The Connect message cannot be written, or the far end no longer serves it.
ConnectFails ==
    /\ dial.pc = "connect"
    /\ ~up[dial.via] \/ dialer[dial.via] = "closing"
    /\ dial' = [dial EXCEPT !.pc = "failed"]

\* The caller is done with the outcome and may dial again.
EndDial ==
    /\ dial.pc \in {"reached", "failed"}
    /\ dial' = idle

------------------------------------------------------------------------------
RoutingInit == Init /\ order = <<>> /\ dial = idle

\* The steps of the registry that leave the slices of sm.clients alone.
RegistryStep ==
    \/ \E i, j \in Servers : i # j /\ (AddPeer(i, j) \/ RemovePeer(i, j))
    \/ \E k \in SessionKeys :
         \/ \E s \in Servers, key \in ClientKeys : ClientUpgrade(s, key, k)
         \/ Disconnect(k)
         \/ ServeMessage(k)
         \/ PeerStep(k)

DialStep ==
    \/ \E s \in Servers, key \in ClientKeys : StartDial(s, key)
    \/ GetDialer
    \/ Connect
    \/ ConnectFails
    \/ EndDial

RoutingNext ==
    \/ RegistryStep /\ UNCHANGED <<order, dial>>
    \/ \E k \in SessionKeys : (SessionAdded(k) \/ SessionRemoved(k)) /\ UNCHANGED dial
    \/ DialStep /\ UNCHANGED <<regVars, order>>

\* The fairness of the registry, and of the goroutines a dial runs in.
RoutingFairness ==
    /\ Fairness
    /\ WF_vars(GetDialer /\ UNCHANGED <<regVars, order>>)
    /\ WF_vars((Connect \/ ConnectFails) /\ UNCHANGED <<regVars, order>>)

RoutingSpec == RoutingInit /\ [][RoutingNext]_vars /\ RoutingFairness

------------------------------------------------------------------------------
(* Properties.                                                              *)

\* A dial ends, although the servers it is forwarded to may each believe that
\* the other one has the client (getDialer on stale remoteClientKeys).
DialTerminates ==
    dial.pc \in {"lookup", "connect"} ~> dial.pc \in {"reached", "failed"}

\* Once sessions stop coming and going, getDialer chooses a working session of
\* every client that has one: it takes the oldest, so the dead ones must have
\* been removed (the read deadline that the pings extend).
LiveSessionIsFound ==
    <>[](\A k \in SessionKeys :
           Contains(order, k) /\ up[k] => up[Head(Clients(at[k], clientKey[k]))])

\* A dial is only forwarded to a peer that has the client, unless that peer's
\* word is on its way out: it has withdrawn the client and the message has not
\* been served, or the session that carries its word is going down (getDialer
\* looks the client key up in remoteClientKeys).
RouteLeadsToClient ==
    [][(dial.pc = "lookup" /\ dial'.pc = "connect" /\ IsPeer(dial'.via)) =>
         LET k == dial'.via IN
         \/ Clients(clientKey[k], dial.key) # <<>>
         \/ \E m \in ToSet(queue[k]) : m.type = "RemoveClient" /\ m.address[1] = dial.key
         \/ ~Announcing(k)]_vars
==============================================================================
