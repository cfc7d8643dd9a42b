--------------------------- MODULE SessionRegistry ---------------------------
(***************************************************************************)
(* The session registry of pkg/remotedialer: what sessionManager, the peer  *)
(* loop (peer.start) and the two ends of a peer session do together.        *)
(*                                                                          *)
(* Every server keeps the websocket sessions it accepted (sm.clients and    *)
(* sm.peers).  A server i that has j as a peer dials j; the session j       *)
(* accepts from i is a "peer session".  The dialing end of that session is  *)
(* a listener of i's sessionManager: it writes one AddClient message per    *)
(* session i already has, and then one AddClient or RemoveClient message    *)
(* per change.  The accepting end applies the messages, in order, to its    *)
(* remoteClientKeys, which j's getDialer consults to route a dial for a     *)
(* client that is connected to i.                                           *)
(***************************************************************************)
EXTENDS Integers, Sequences, FiniteSets, Functions

CONSTANTS
    Servers,      \* the servers (the PeerID of a server is the server itself)
    ClientKeys,   \* the client keys the authorizer hands out
    SlashKeys,    \* the client keys that contain a "/" (see parseAddress)
    SessionKeys,  \* the values rand.Int63 hands out, never the same one twice
    MaxLoops,     \* bound on the peer loops AddPeer starts for one peer
    None          \* no session

ASSUME RegistryAssumption ==
    /\ IsFiniteSet(Servers)
    /\ IsFiniteSet(ClientKeys)
    /\ IsFiniteSet(SessionKeys)
    /\ Servers \cap ClientKeys = {}
    /\ SlashKeys \subseteq ClientKeys
    /\ MaxLoops \in Nat
    /\ None \notin SessionKeys \cup ClientKeys \cup Servers

VARIABLES
    phase,     \* accepting end of a session (ServeHTTP)
    at,        \* the server that accepted the session
    clientKey, \* Session.clientKey at the accepting end
    up,        \* whether the websocket still carries messages
    dialer,    \* dialing end of a peer session (one turn of peer.start's loop)
    loop,      \* the peer loop that opened the session, numbered per peer
    loops,     \* how many loops AddPeer has started for a peer
    hasPeer,   \* Server.peers: is the last of those loops not cancelled?
    queue,     \* messages written by the dialing end and not yet served
    remote     \* Session.remoteClientKeys at the accepting end

peerVars == <<loops, hasPeer>>
identity == <<at, clientKey, loop>>
regVars == <<phase, identity, up, dialer, peerVars, queue, remote>>

\* An address "<clientKey>/<sessionKey>" as the messages carry it.
Address == (ClientKeys \cup Servers) \X SessionKeys

Message == [type : {"AddClient", "RemoveClient"}, address : Address]

\* Where peer.start is with the session: "none" for the sessions of clients.
DialerState == {"none", "dialing", "dialed", "listening", "closing", "closed"}

TypeOK ==
    /\ phase \in [SessionKeys -> {"unused", "upgraded", "registered", "removed"}]
    /\ at \in [SessionKeys -> Servers \cup {None}]
    /\ clientKey \in [SessionKeys -> ClientKeys \cup Servers \cup {None}]
    /\ up \in [SessionKeys -> BOOLEAN]
    /\ dialer \in [SessionKeys -> DialerState]
    /\ loop \in [SessionKeys -> 0..MaxLoops]
    /\ loops \in [Servers -> [Servers -> 0..MaxLoops]]
    /\ hasPeer \in [Servers -> [Servers -> BOOLEAN]]
    /\ queue \in [SessionKeys -> Seq(Message)]
    /\ remote \in [SessionKeys -> SUBSET Address]

------------------------------------------------------------------------------
(* What the sessionManager of a server holds.                               *)

\* sm.clients and sm.peers of server s together.
Sessions(s) == {k \in SessionKeys : phase[k] = "registered" /\ at[k] = s}

Registry(s) == {<<clientKey[k], k>> : k \in Sessions(s)}

\* The peer parameter of sessionManager.add: is k in sm.peers?
IsPeer(k) == clientKey[k] \in Servers

\* The dialing end of k is a listener of its server's sessionManager and what
\* it writes still has a reader.
Announcing(k) ==
    dialer[k] = "listening" /\ up[k] /\ phase[k] \in {"upgraded", "registered"}

\* Mutant: remove does not tell the listeners.
NotifiedAddOnly(s, type, address) ==
    [k \in SessionKeys |->
        IF Announcing(k) /\ clientKey[k] = s /\ type = "AddClient"
        THEN Append(queue[k], [type |-> type, address |-> address])
        ELSE queue[k]]

\* sessionAdded and sessionRemoved of every listener of s.  A write that fails
\* closes the websocket: Disconnect, after which nothing is announced.
Notified(s, type, address) ==
    [k \in SessionKeys |->
        IF Announcing(k) /\ clientKey[k] = s
        THEN Append(queue[k], [type |-> type, address |-> address])
        ELSE queue[k]]

------------------------------------------------------------------------------
(* Sessions of clients.                                                     *)

\* A client opens a websocket and ServeHTTP upgrades it.
ClientUpgrade(s, key, k) ==
    /\ phase[k] = "unused" /\ dialer[k] = "none"
    /\ phase' = [phase EXCEPT ![k] = "upgraded"]
    /\ at' = [at EXCEPT ![k] = s]
    /\ clientKey' = [clientKey EXCEPT ![k] = key]
    /\ up' = [up EXCEPT ![k] = TRUE]
    /\ UNCHANGED <<loop, dialer, peerVars, queue, remote>>

\* sessionManager.add, for sessions of clients and of peers.
AddSession(k) ==
    /\ phase[k] = "upgraded"
    /\ phase' = [phase EXCEPT ![k] = "registered"]
    /\ queue' = Notified(at[k], "AddClient", <<clientKey[k], k>>)
    /\ UNCHANGED <<identity, up, dialer, peerVars, remote>>

\* Session.Serve of the accepting end returns (the websocket fails, the read
\* deadline passes without a ping) and ServeHTTP calls sessionManager.remove.
\* It does not close the websocket, but nobody reads it any more.
RemoveSession(k) ==
    /\ phase[k] = "registered"
    /\ phase' = [phase EXCEPT ![k] = "removed"]
    /\ queue' = [Notified(at[k], "RemoveClient", <<clientKey[k], k>>) EXCEPT ![k] = <<>>]
    /\ remote' = [remote EXCEPT ![k] = {}]
    /\ UNCHANGED <<identity, up, dialer, peerVars>>

\* The websocket fails, or a client closes its end.
Disconnect(k) ==
    /\ up[k]
    /\ up' = [up EXCEPT ![k] = FALSE]
    /\ UNCHANGED <<phase, identity, dialer, peerVars, queue, remote>>

------------------------------------------------------------------------------
(* Peer sessions, dialing end: AddPeer, RemovePeer and the loop of start.   *)

\* AddPeer with new settings: the loop of the previous settings is cancelled.
AddPeer(i, j) ==
    /\ loops[i][j] < MaxLoops
    /\ loops' = [loops EXCEPT ![i][j] = @ + 1]
    /\ hasPeer' = [hasPeer EXCEPT ![i][j] = TRUE]
    /\ UNCHANGED <<phase, identity, up, dialer, queue, remote>>

RemovePeer(i, j) ==
    /\ hasPeer[i][j]
    /\ hasPeer' = [hasPeer EXCEPT ![i][j] = FALSE]
    /\ UNCHANGED <<phase, identity, up, dialer, loops, queue, remote>>

\* The sessions the current loop of i for j has in hand.
InHand(i, j) ==
    {k \in SessionKeys : /\ dialer[k] \notin {"none", "closed"}
                         /\ clientKey[k] = i /\ at[k] = j /\ loop[k] = loops[i][j]}

\* The loop finds its context not cancelled and goes on to dial.
LoopTop(i, j, k) ==
    /\ hasPeer[i][j]
    /\ InHand(i, j) = {}
    /\ phase[k] = "unused" /\ dialer[k] = "none"
    /\ dialer' = [dialer EXCEPT ![k] = "dialing"]
    /\ at' = [at EXCEPT ![k] = j]
    /\ clientKey' = [clientKey EXCEPT ![k] = i]
    /\ loop' = [loop EXCEPT ![k] = loops[i][j]]
    /\ UNCHANGED <<phase, up, peerVars, queue, remote>>

\* The dial succeeds: j knows i as a peer (Server.auth) and upgrades.
PeerDial(k) ==
    /\ dialer[k] = "dialing"
    /\ hasPeer[at[k]][clientKey[k]]
    /\ dialer' = [dialer EXCEPT ![k] = "dialed"]
    /\ phase' = [phase EXCEPT ![k] = "upgraded"]
    /\ up' = [up EXCEPT ![k] = TRUE]
    /\ UNCHANGED <<identity, peerVars, queue, remote>>

\* The dial fails; the loop sleeps and starts over.
PeerDialFails(k) ==
    /\ dialer[k] = "dialing"
    /\ dialer' = [dialer EXCEPT ![k] = "none"]
    /\ at' = [at EXCEPT ![k] = None]
    /\ clientKey' = [clientKey EXCEPT ![k] = None]
    /\ loop' = [loop EXCEPT ![k] = 0]
    /\ UNCHANGED <<phase, up, peerVars, queue, remote>>

\* The orders in which a loop over the maps of the registry may visit S.
Orders(S) == Bijection(1..Cardinality(S), S)

\* Mutant: addListener forgets the second loop, over sm.peers.
KnownClientsOnly(s) == {a \in Registry(s) : a[1] \in ClientKeys}

\* What addListener announces: the sessions in sm.clients and in sm.peers.
Known(s) == Registry(s)

\* addListener: register and announce every session, under one lock.
AddListener(k) ==
    /\ dialer[k] = "dialed"
    /\ dialer' = [dialer EXCEPT ![k] = "listening"]
    /\ \E q \in Orders(Known(clientKey[k])) :
         queue' = IF up[k] /\ phase[k] # "removed"
                  THEN [queue EXCEPT ![k] = [n \in DOMAIN q |->
                                              [type |-> "AddClient", address |-> q[n]]]]
                  ELSE queue
    /\ UNCHANGED <<phase, identity, up, peerVars, remote>>

\* Session.Serve of the dialing end returns and removeListener is called.
RemoveListener(k) ==
    /\ dialer[k] = "listening"
    /\ dialer' = [dialer EXCEPT ![k] = "closing"]
    /\ UNCHANGED <<phase, identity, up, peerVars, queue, remote>>

\* session.Close and ws.Close, after which the loop sleeps and starts over.
CloseWS(k) ==
    /\ dialer[k] = "closing"
    /\ dialer' = [dialer EXCEPT ![k] = "closed"]
    /\ up' = [up EXCEPT ![k] = FALSE]
    /\ UNCHANGED <<phase, identity, peerVars, queue, remote>>

------------------------------------------------------------------------------
(* Peer sessions, accepting end: serveMessage on AddClient, RemoveClient.   *)

\* parseAddress splits "<clientKey>/<sessionKey>" at the first "/": with a "/"
\* in the client key what follows it is no number.  serveMessage then returns
\* an error, Serve ends, and RemoveSession is the only step left to the session.
Parses(address) == address[1] \notin SlashKeys

\* addRemoteClient and removeRemoteClient.
Served(R, m) == IF m.type = "AddClient" THEN R \cup {m.address} ELSE R \ {m.address}

ServeMessage(k) ==
    /\ phase[k] = "registered"
    /\ queue[k] # <<>>
    /\ Parses(Head(queue[k]).address)
    /\ remote' = [remote EXCEPT ![k] = Served(@, Head(queue[k]))]
    /\ queue' = [queue EXCEPT ![k] = Tail(@)]
    /\ UNCHANGED <<phase, identity, up, dialer, peerVars>>

------------------------------------------------------------------------------
Init ==
    /\ phase = [k \in SessionKeys |-> "unused"]
    /\ at = [k \in SessionKeys |-> None]
    /\ clientKey = [k \in SessionKeys |-> None]
    /\ up = [k \in SessionKeys |-> FALSE]
    /\ dialer = [k \in SessionKeys |-> "none"]
    /\ loop = [k \in SessionKeys |-> 0]
    /\ loops = [i \in Servers |-> [j \in Servers |-> 0]]
    /\ hasPeer = [i \in Servers |-> [j \in Servers |-> FALSE]]
    /\ queue = [k \in SessionKeys |-> <<>>]
    /\ remote = [k \in SessionKeys |-> {}]

SessionStep(k) ==
    \/ \E s \in Servers, key \in ClientKeys : ClientUpgrade(s, key, k)
    \/ AddSession(k)
    \/ RemoveSession(k)
    \/ Disconnect(k)
    \/ ServeMessage(k)

PeerStep(k) ==
    \/ \E i, j \in Servers : i # j /\ LoopTop(i, j, k)
    \/ PeerDial(k)
    \/ PeerDialFails(k)
    \/ AddListener(k)
    \/ RemoveListener(k)
    \/ CloseWS(k)

Next ==
    \/ \E i, j \in Servers : i # j /\ (AddPeer(i, j) \/ RemovePeer(i, j))
    \/ \E k \in SessionKeys : SessionStep(k) \/ PeerStep(k)

Spec == Init /\ [][Next]_regVars

\* A goroutine that can run does run: the handler of an upgraded request calls
\* add, Serve reads what has arrived and returns once the websocket failed or
\* (pings, with their read deadline) once the other end stopped serving it, and
\* a dial in progress goes on.  Nothing makes clients, peers or callers come.
Fairness ==
    /\ \A k \in SessionKeys :
         /\ WF_regVars(AddSession(k))
         /\ WF_regVars(ServeMessage(k))
         /\ WF_regVars(RemoveSession(k) /\ (~up[k] \/ (queue[k] # <<>> /\ ~Parses(Head(queue[k]).address))))
         /\ WF_regVars(AddListener(k))
         /\ WF_regVars(RemoveListener(k) /\ (~up[k] \/ phase[k] = "removed"))
         /\ WF_regVars(CloseWS(k))

------------------------------------------------------------------------------
(* Properties.                                                              *)

Pending(q, a) == {n \in DOMAIN q : q[n].address = a}

\* Whether a is in remoteClientKeys R once the messages q are served: the last
\* message about a decides.
InView(q, R, a) ==
    \/ a \in R /\ Pending(q, a) = {}
    \/ \E n \in Pending(q, a) : /\ q[n].type = "AddClient"
                                /\ \A m \in Pending(q, a) : m <= n

\* A peer's view of a registry is the registry, up to the messages still on
\* their way: no interleaving of add, remove, addListener and the serving of
\* messages makes a session stay announced that is gone, or unannounced while
\* it is there (the locking of add, remove and addListener in
\* session_manager.go).
ReplicaAccurate ==
    \A k \in SessionKeys : Announcing(k) =>
        \A a \in Address : InView(queue[k], remote[k], a) <=> a \in Registry(clientKey[k])

==============================================================================
