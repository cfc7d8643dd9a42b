------------------------ MODULE SessionRegistryProofs ------------------------
(***************************************************************************)
(* Proofs about the session registry for every set of servers, clients and  *)
(* sessions: the type invariant, and that a peer's view of a registry is    *)
(* accurate up to the messages on their way.                                *)
(***************************************************************************)
EXTENDS SessionRegistry, SequenceTheorems, FiniteSetTheorems, TLAPS

------------------------------------------------------------------------------
(* What a message does to the view of the reader.                           *)

\* A message written at the end of the queue decides about its own address and
\* about no other (writeMessage on an ordered websocket).
LEMMA ViewAfterAppend ==
    ASSUME NEW q \in Seq(Message), NEW m \in Message, NEW R, NEW a \in Address
    PROVE  InView(Append(q, m), R, a) <=>
             IF a = m.address THEN m.type = "AddClient" ELSE InView(q, R, a)
<1> DEFINE p == Append(q, m)
<1>1. /\ Len(q) \in Nat /\ DOMAIN q = 1..Len(q)
      /\ DOMAIN p = 1..(Len(q) + 1)
      /\ p[Len(q) + 1] = m
      /\ \A n \in 1..Len(q) : p[n] = q[n]
  BY AppendProperties, LenProperties
<1> HIDE DEF p
<1>2. CASE a = m.address
  <2>1. Len(q) + 1 \in Pending(p, a)
    BY <1>1, <1>2 DEF Pending
  <2>2. \A n \in Pending(p, a) : n \in Int /\ n <= Len(q) + 1
    BY <1>1 DEF Pending
  <2>3. ASSUME NEW n \in Pending(p, a), \A x \in Pending(p, a) : x <= n
        PROVE  n = Len(q) + 1
    BY <1>1, <2>1, <2>2, <2>3
  <2>4. InView(p, R, a) <=> p[Len(q) + 1].type = "AddClient"
    BY <2>1, <2>2, <2>3 DEF InView
  <2> QED
    BY <1>1, <1>2, <2>4 DEF p
<1>3. CASE a # m.address
  <2>1. Pending(p, a) = Pending(q, a)
    BY <1>1, <1>3 DEF Pending
  <2>2. \A n \in Pending(q, a) : p[n] = q[n]
    BY <1>1 DEF Pending
  <2>3. InView(p, R, a) <=> InView(q, R, a)
    BY <2>1, <2>2 DEF InView
  <2> QED
    BY <1>3, <2>3 DEF p
<1> QED
  BY <1>2, <1>3

\* Serving the first message changes what remoteClientKeys holds and not what
\* the view will be (addRemoteClient, removeRemoteClient).
LEMMA ViewAfterServe ==
    ASSUME NEW q \in Seq(Message), q # <<>>, NEW R, NEW a \in Address
    PROVE  InView(Tail(q), Served(R, Head(q)), a) <=> InView(q, R, a)
<1> DEFINE p == Tail(q)
           S == Served(R, Head(q))
<1>1. /\ Len(q) \in Nat /\ Len(q) > 0 /\ DOMAIN q = 1..Len(q)
      /\ DOMAIN p = 1..(Len(q) - 1)
      /\ \A n \in 1..(Len(q) - 1) : p[n] = q[n + 1]
      /\ Head(q) = q[1] /\ q[1] \in Message
  BY HeadTailProperties, LenProperties, EmptySeq
<1> HIDE DEF p
<1>2. \A n \in Int : n \in Pending(p, a) <=> n + 1 \in Pending(q, a) /\ n # 0
  BY <1>1 DEF Pending
<1>3. Pending(p, a) \subseteq Int /\ Pending(q, a) \subseteq Int
  BY <1>1 DEF Pending
<1>3a. \A n \in Pending(p, a) : n >= 1 /\ p[n] = q[n + 1]
  BY <1>1 DEF Pending
<1>3b. \A n \in Pending(q, a) : n >= 1
  BY <1>1 DEF Pending
<1>4. CASE Pending(p, a) # {}
  <2>1. Pending(q, a) # {}
    BY <1>2, <1>3, <1>3a, <1>4
  <2>2. ASSUME NEW n \in Pending(p, a), p[n].type = "AddClient",
               \A m \in Pending(p, a) : m <= n
        PROVE  InView(q, R, a)
    <3>1. n + 1 \in Pending(q, a) /\ q[n + 1].type = "AddClient"
      BY <1>2, <1>3, <1>3a, <2>2
    <3>2. \A m \in Pending(q, a) : m <= n + 1
      <4>1. TAKE m \in Pending(q, a)
      <4>2. CASE m = 1
        BY <4>2, <1>3, <1>3a
      <4>3. CASE m # 1
        <5>1. m - 1 \in Pending(p, a)
          BY <1>2, <1>3, <4>3
        <5> QED
          BY <5>1, <2>2, <1>3
      <4> QED
        BY <4>2, <4>3
    <3> QED
      BY <3>1, <3>2 DEF InView
  <2>3. ASSUME NEW n \in Pending(q, a), q[n].type = "AddClient",
               \A m \in Pending(q, a) : m <= n
        PROVE  InView(p, S, a)
    <3>1. PICK x \in Pending(p, a) : TRUE
      BY <1>4
    <3>2. x + 1 \in Pending(q, a) /\ x >= 1
      BY <1>2, <1>3, <1>3a
    <3>3. n # 1
      BY <3>2, <2>3, <1>3
    <3>4. n - 1 \in Pending(p, a) /\ p[n - 1].type = "AddClient"
      <4>1. n - 1 \in Pending(p, a)
        BY <1>2, <1>3, <3>3
      <4> QED
        BY <4>1, <1>3, <1>3a, <2>3
    <3>5. \A m \in Pending(p, a) : m <= n - 1
      <4>1. TAKE m \in Pending(p, a)
      <4>2. m + 1 \in Pending(q, a)
        BY <1>2, <1>3, <1>3a
      <4> QED
        BY <4>2, <2>3, <1>3
    <3> QED
      BY <3>4, <3>5 DEF InView
  <2>4. InView(p, S, a) <=> InView(q, R, a)
    <3> HIDE DEF S
    <3>1. InView(p, S, a) => InView(q, R, a)
      BY <1>4, <2>2 DEF InView
    <3>2. InView(q, R, a) => InView(p, S, a)
      BY <2>1, <2>3 DEF InView
    <3> QED
      BY <3>1, <3>2
  <2> QED
    BY <2>4 DEF p
<1>5. CASE Pending(p, a) = {}
  <2>1. InView(p, S, a) <=> a \in S
    BY <1>5 DEF InView
  <2>2. \A n \in Pending(q, a) : n = 1
    <3>1. TAKE n \in Pending(q, a)
    <3>2. n # 1 => n - 1 \in Pending(p, a)
      BY <1>2, <1>3
    <3> QED
      BY <3>2, <1>5
  <2>3. InView(q, R, a) <=> a \in S
    <3>1. CASE q[1].address = a
      <4>1. Pending(q, a) = {1}
        BY <2>2, <3>1, <1>1 DEF Pending
      <4>2. InView(q, R, a) <=> q[1].type = "AddClient"
        BY <4>1 DEF InView
      <4> QED
        BY <4>2, <3>1, <1>1 DEF Served, Message
    <3>2. CASE q[1].address # a
      <4>1. Pending(q, a) = {}
        BY <2>2, <3>2 DEF Pending
      <4>2. InView(q, R, a) <=> a \in R
        BY <4>1 DEF InView
      <4> QED
        BY <4>2, <3>2, <1>1 DEF Served, Message
    <3> QED
      BY <3>1, <3>2
  <2> QED
    BY <2>1, <2>3 DEF p
<1> QED
  BY <1>4, <1>5

\* addListener announces S in some order: the reader's view will be S.
LEMMA ViewAfterAnnounce ==
    ASSUME NEW S \in SUBSET Address, IsFiniteSet(S), NEW q \in Orders(S),
           NEW a \in Address
    PROVE  LET p == [n \in DOMAIN q |-> [type |-> "AddClient", address |-> q[n]]]
           IN  p \in Seq(Message) /\ (InView(p, {}, a) <=> a \in S)
<1> DEFINE p == [n \in DOMAIN q |-> [type |-> "AddClient", address |-> q[n]]]
           c == Cardinality(S)
<1>1. c \in Nat
  BY FS_CardinalityType
<1>2. /\ DOMAIN q = 1..c /\ \A n \in 1..c : q[n] \in S
      /\ \A m, n \in 1..c : q[m] = q[n] => m = n
      /\ \A x \in S : \E n \in 1..c : q[n] = x
  <2>1. q \in Bijection(1..c, S)
    BY DEF Orders
  <2> QED
    BY <2>1 DEF Bijection, Injection, Surjection, IsInjective
<1>3. DOMAIN p = 1..c /\ \A n \in 1..c : p[n].address = q[n] /\ p[n].type = "AddClient"
  BY <1>2
<1>4. \A n \in 1..c : p[n] \in Message
  BY <1>2 DEF Message
<1>5. p \in Seq(Message)
  BY <1>1, <1>2, <1>4
<1> HIDE DEF p, c
<1>6. ASSUME InView(p, {}, a) PROVE a \in S
  BY <1>2, <1>3, <1>6 DEF InView, Pending
<1>7. ASSUME a \in S PROVE InView(p, {}, a)
  <2>1. PICK n \in 1..c : q[n] = a
    BY <1>2, <1>7
  <2>2. n \in Pending(p, a) /\ \A m \in Pending(p, a) : m = n
    BY <1>2, <1>3, <2>1 DEF Pending
  <2> QED
    BY <1>1, <1>3, <2>2 DEF InView
<1> QED
  BY <1>5, <1>6, <1>7 DEF p

------------------------------------------------------------------------------
(* The inductive invariant.                                                 *)

\* What every session is known to have at its stage: an identity once somebody
\* works on it, a server for a client key once a peer loop works on it, no
\* accepting end while it is dialed, and no messages and no announced sessions
\* before addListener.
SessionInv ==
    \A k \in SessionKeys :
        /\ phase[k] \in {"upgraded", "registered"} =>
             at[k] \in Servers /\ clientKey[k] \in ClientKeys \cup Servers
        /\ dialer[k] # "none" => at[k] \in Servers /\ clientKey[k] \in Servers
        /\ dialer[k] = "dialing" => phase[k] = "unused"
        /\ dialer[k] \in {"none", "dialing", "dialed"} => queue[k] = <<>> /\ remote[k] = {}

RegistryInv == TypeOK /\ SessionInv /\ ReplicaAccurate

\* A registry holds addresses, and finitely many of them.
LEMMA RegistryFinite ==
    ASSUME SessionInv, NEW s
    PROVE  Registry(s) \in SUBSET Address /\ IsFiniteSet(Registry(s))
<1>1. Registry(s) \subseteq Address
  BY DEF SessionInv, Registry, Sessions, Address
<1>2. IsFiniteSet(ClientKeys \cup Servers)
  BY RegistryAssumption, FS_Union
<1>3. IsFiniteSet(Address)
  BY RegistryAssumption, <1>2, FS_Product DEF Address
<1> QED
  BY <1>1, <1>3, FS_Subset

\* What a listener is told keeps the queues sequences of messages.
LEMMA NotifiedType ==
    ASSUME TypeOK, NEW s, NEW t \in {"AddClient", "RemoveClient"}, NEW a \in Address
    PROVE  Notified(s, t, a) \in [SessionKeys -> Seq(Message)]
<1>1. [type |-> t, address |-> a] \in Message
  BY DEF Message
<1>2. \A k \in SessionKeys : Append(queue[k], [type |-> t, address |-> a]) \in Seq(Message)
  BY <1>1, AppendProperties DEF TypeOK
<1> QED
  BY <1>2 DEF Notified, TypeOK

\* One message to the listeners of s, about the session that enters or leaves
\* the registry of s, keeps every view accurate.
LEMMA NotifiedView ==
    ASSUME TypeOK, NEW s, NEW t \in {"AddClient", "RemoveClient"}, NEW b \in Address,
           NEW k \in SessionKeys, Announcing(k),
           \A a \in Address : InView(queue[k], remote[k], a) <=> a \in Registry(clientKey[k]),
           NEW a \in Address
    PROVE  InView(Notified(s, t, b)[k], remote[k], a) <=>
             IF clientKey[k] = s /\ a = b THEN t = "AddClient"
                                          ELSE a \in Registry(clientKey[k])
<1> DEFINE m == [type |-> t, address |-> b]
<1>1. m \in Message /\ m.type = t /\ m.address = b
  BY DEF Message
<1>2. queue[k] \in Seq(Message)
  BY DEF TypeOK
<1>3. Notified(s, t, b)[k] = IF clientKey[k] = s THEN Append(queue[k], m) ELSE queue[k]
  BY DEF Notified
<1> HIDE DEF m
<1>4. InView(Append(queue[k], m), remote[k], a) <=>
        IF a = m.address THEN m.type = "AddClient" ELSE InView(queue[k], remote[k], a)
  BY <1>1, <1>2, ViewAfterAppend
<1> QED
  BY <1>1, <1>3, <1>4

\* The registries and the listeners' views depend on nothing but these.
LEMMA ViewUnchanged ==
    ASSUME RegistryInv, UNCHANGED <<queue, remote>>,
           \A k \in SessionKeys : Announcing(k)' => Announcing(k) /\ clientKey'[k] = clientKey[k],
           \A s : Registry(s)' = Registry(s)
    PROVE  ReplicaAccurate'
BY DEF RegistryInv, ReplicaAccurate

LEMMA InitInv == Init => RegistryInv
<1> SUFFICES ASSUME Init PROVE RegistryInv
  OBVIOUS
<1>1. <<>> \in Seq(Message)
  BY EmptySeq
<1>2. TypeOK
  BY <1>1, RegistryAssumption DEF Init, TypeOK, DialerState
<1>3. SessionInv
  BY DEF Init, SessionInv
<1>4. ReplicaAccurate
  BY DEF Init, ReplicaAccurate, Announcing
<1> QED
  BY <1>2, <1>3, <1>4 DEF RegistryInv

\* sessionManager.add keeps the invariant.
LEMMA AddSessionInv ==
    ASSUME RegistryInv, NEW x \in SessionKeys, AddSession(x)
    PROVE  RegistryInv'
<1> USE DEF RegistryInv
<1> DEFINE b == <<clientKey[x], x>>
<1>1. b \in Address /\ at[x] \in Servers
  BY DEF AddSession, SessionInv, Address
<1>2. TypeOK'
  BY <1>1, NotifiedType DEF AddSession, identity, peerVars, TypeOK
<1>3. SessionInv'
  BY DEF AddSession, identity, peerVars, SessionInv, Notified, Announcing, TypeOK
<1>4. ReplicaAccurate'
  <2>1. \A k \in SessionKeys : /\ Announcing(k)' => Announcing(k)
                               /\ clientKey'[k] = clientKey[k]
    BY DEF AddSession, identity, Announcing, TypeOK
  <2>2. \A k \in SessionKeys, a \in Address :
          (a \in Registry(clientKey[k]))' <=>
             a \in Registry(clientKey[k]) \/ (clientKey[k] = at[x] /\ a = b)
    BY DEF AddSession, identity, Registry, Sessions, TypeOK
  <2> SUFFICES ASSUME NEW k \in SessionKeys, Announcing(k)', NEW a \in Address
               PROVE  (InView(queue[k], remote[k], a) <=> a \in Registry(clientKey[k]))'
    BY DEF ReplicaAccurate
  <2>3. Announcing(k) /\ clientKey'[k] = clientKey[k]
    BY <2>1
  <2>4. \A y \in Address : InView(queue[k], remote[k], y) <=> y \in Registry(clientKey[k])
    BY <2>3 DEF ReplicaAccurate
  <2>5. /\ queue' = Notified(at[x], "AddClient", b)
        /\ remote' = remote
    BY DEF AddSession
  <2> HIDE DEF b
  <2>6. InView(queue'[k], remote'[k], a) <=>
          IF clientKey[k] = at[x] /\ a = b THEN TRUE ELSE a \in Registry(clientKey[k])
    BY <1>1, <2>3, <2>4, <2>5, NotifiedView
  <2> QED
    BY <2>2, <2>3, <2>6
<1> QED
  BY <1>2, <1>3, <1>4

\* sessionManager.remove keeps the invariant.
LEMMA RemoveSessionInv ==
    ASSUME RegistryInv, NEW x \in SessionKeys, RemoveSession(x)
    PROVE  RegistryInv'
<1> USE DEF RegistryInv
<1> DEFINE b == <<clientKey[x], x>>
<1>1. b \in Address /\ at[x] \in Servers
  BY DEF RemoveSession, SessionInv, Address
<1>2. Notified(at[x], "RemoveClient", b) \in [SessionKeys -> Seq(Message)]
  BY <1>1, NotifiedType
<1>3. <<>> \in Seq(Message)
  BY EmptySeq
<1>4. TypeOK'
  BY <1>2, <1>3 DEF RemoveSession, identity, peerVars, TypeOK
<1>5. SessionInv'
  BY <1>2 DEF RemoveSession, identity, peerVars, SessionInv, Notified, Announcing, TypeOK
<1>6. ReplicaAccurate'
  <2>1. \A k \in SessionKeys : /\ Announcing(k)' => Announcing(k) /\ k # x
                               /\ clientKey'[k] = clientKey[k]
    BY DEF RemoveSession, identity, Announcing, TypeOK
  <2>2. \A k \in SessionKeys, a \in Address :
          (a \in Registry(clientKey[k]))' <=>
             a \in Registry(clientKey[k]) /\ ~(clientKey[k] = at[x] /\ a = b)
    BY DEF RemoveSession, identity, Registry, Sessions, TypeOK
  <2> SUFFICES ASSUME NEW k \in SessionKeys, Announcing(k)', NEW a \in Address
               PROVE  (InView(queue[k], remote[k], a) <=> a \in Registry(clientKey[k]))'
    BY DEF ReplicaAccurate
  <2>3. Announcing(k) /\ k # x /\ clientKey'[k] = clientKey[k]
    BY <2>1
  <2>4. \A y \in Address : InView(queue[k], remote[k], y) <=> y \in Registry(clientKey[k])
    BY <2>3 DEF ReplicaAccurate
  <2>5. /\ queue'[k] = Notified(at[x], "RemoveClient", b)[k]
        /\ remote'[k] = remote[k]
    BY <1>2, <2>3 DEF RemoveSession, TypeOK
  <2> HIDE DEF b
  <2>6. InView(queue'[k], remote'[k], a) <=>
          IF clientKey[k] = at[x] /\ a = b THEN FALSE ELSE a \in Registry(clientKey[k])
    BY <1>1, <2>3, <2>4, <2>5, NotifiedView
  <2> QED
    BY <2>2, <2>3, <2>6
<1> QED
  BY <1>4, <1>5, <1>6

\* serveMessage keeps the invariant.
LEMMA ServeMessageInv ==
    ASSUME RegistryInv, NEW x \in SessionKeys, ServeMessage(x)
    PROVE  RegistryInv'
<1> USE DEF RegistryInv
<1>1. /\ queue[x] \in Seq(Message) /\ queue[x] # <<>>
      /\ Head(queue[x]) \in Message /\ Tail(queue[x]) \in Seq(Message)
  BY HeadTailProperties DEF ServeMessage, TypeOK
<1>2. TypeOK'
  BY <1>1 DEF ServeMessage, Served, Message, identity, peerVars, TypeOK
<1>3. SessionInv'
  BY <1>1 DEF ServeMessage, identity, peerVars, SessionInv, TypeOK
<1>4. ReplicaAccurate'
  <2>1. \A s : Registry(s)' = Registry(s)
    BY DEF ServeMessage, identity, Registry, Sessions
  <2>2. \A k \in SessionKeys : (Announcing(k)' <=> Announcing(k)) /\ clientKey'[k] = clientKey[k]
    BY DEF ServeMessage, identity, Announcing
  <2> SUFFICES ASSUME NEW k \in SessionKeys, NEW a \in Address
               PROVE  InView(queue'[k], remote'[k], a) <=> InView(queue[k], remote[k], a)
    BY <2>1, <2>2 DEF ReplicaAccurate
  <2>3. CASE k = x
    <3>1. queue'[k] = Tail(queue[k]) /\ remote'[k] = Served(remote[k], Head(queue[k]))
      BY <2>3 DEF ServeMessage, TypeOK
    <3> QED
      BY <1>1, <2>3, <3>1, ViewAfterServe
  <2>4. CASE k # x
    BY <2>4 DEF ServeMessage, TypeOK
  <2> QED
    BY <2>3, <2>4
<1> QED
  BY <1>2, <1>3, <1>4

\* addListener keeps the invariant: what it announces is the whole registry.
LEMMA AddListenerInv ==
    ASSUME RegistryInv, NEW x \in SessionKeys, AddListener(x)
    PROVE  RegistryInv'
<1> USE DEF RegistryInv
<1> DEFINE S == Registry(clientKey[x])
<1>1. S \in SUBSET Address /\ IsFiniteSet(S)
  BY RegistryFinite
<1>2. PICK q \in Orders(S) :
        queue' = IF up[x] /\ phase[x] # "removed"
                 THEN [queue EXCEPT ![x] = [n \in DOMAIN q |->
                                             [type |-> "AddClient", address |-> q[n]]]]
                 ELSE queue
  BY DEF AddListener, Known
<1> DEFINE p == [n \in DOMAIN q |-> [type |-> "AddClient", address |-> q[n]]]
<1> HIDE DEF S
<1>3. \A a \in Address : p \in Seq(Message) /\ (InView(p, {}, a) <=> a \in S)
  BY <1>1, ViewAfterAnnounce
<1>4. at[x] \in Servers /\ clientKey[x] \in Servers /\ queue[x] = <<>> /\ remote[x] = {}
  BY DEF AddListener, SessionInv
<1>5. p \in Seq(Message)
  <2>1. <<clientKey[x], x>> \in Address
    BY <1>4 DEF Address
  <2> QED
    BY <2>1, <1>3
<1>6. queue' = IF up[x] /\ phase[x] # "removed" THEN [queue EXCEPT ![x] = p] ELSE queue
  BY <1>2
<1> HIDE DEF p
<1>7. TypeOK'
  BY <1>5, <1>6 DEF AddListener, identity, peerVars, TypeOK, DialerState
<1>8. SessionInv'
  BY <1>4, <1>6 DEF AddListener, identity, peerVars, SessionInv, TypeOK
<1>9. ReplicaAccurate'
  <2>1. /\ UNCHANGED <<phase, at, clientKey, up, remote>>
        /\ dialer' = [dialer EXCEPT ![x] = "listening"]
    BY DEF AddListener, identity
  <2> SUFFICES ASSUME NEW k \in SessionKeys, Announcing(k)', NEW a \in Address
               PROVE  (InView(queue[k], remote[k], a) <=> a \in Registry(clientKey[k]))'
    BY DEF ReplicaAccurate
  <2>2. (a \in Registry(clientKey[k]))' <=> a \in Registry(clientKey[k])
    BY <2>1 DEF Registry, Sessions
  <2>3. CASE k = x
    <3>1. up[x] /\ phase[x] # "removed"
      BY <2>1, <2>3 DEF Announcing
    <3>2. queue'[k] = p /\ remote'[k] = {}
      BY <1>4, <1>6, <2>1, <2>3, <3>1 DEF TypeOK
    <3> QED
      BY <1>3, <2>2, <2>3, <3>2 DEF S, p
  <2>4. CASE k # x
    <3>1. Announcing(k) /\ queue'[k] = queue[k] /\ remote'[k] = remote[k]
      BY <1>6, <2>1, <2>4 DEF Announcing, TypeOK
    <3> QED
      BY <2>2, <3>1 DEF ReplicaAccurate
  <2> QED
    BY <2>3, <2>4
<1> QED
  BY <1>7, <1>8, <1>9

LEMMA NextInv == RegistryInv /\ [Next]_regVars => RegistryInv'
<1> SUFFICES ASSUME RegistryInv, [Next]_regVars PROVE RegistryInv'
  OBVIOUS
<1> USE RegistryAssumption DEF RegistryInv
<1> USE DEF regVars, identity, peerVars
<1>1. ASSUME NEW i \in Servers, NEW j \in Servers, AddPeer(i, j) \/ RemovePeer(i, j)
      PROVE  RegistryInv'
  <2>1. UNCHANGED <<phase, identity, up, dialer, queue, remote>>
    BY <1>1 DEF AddPeer, RemovePeer
  <2>2. TypeOK'
    <3>1. loops' \in [Servers -> [Servers -> 0..MaxLoops]]
      <4>1. CASE AddPeer(i, j)
        <5>1. loops[i][j] + 1 \in 0..MaxLoops
          BY <4>1 DEF AddPeer, TypeOK
        <5> QED
          BY <4>1, <5>1 DEF AddPeer, TypeOK
      <4>2. CASE RemovePeer(i, j)
        BY <4>2 DEF RemovePeer, TypeOK
      <4> QED
        BY <1>1, <4>1, <4>2
    <3>2. hasPeer' \in [Servers -> [Servers -> BOOLEAN]]
      <4>1. hasPeer[i] \in [Servers -> BOOLEAN]
        BY DEF TypeOK
      <4>2. ASSUME NEW v \in BOOLEAN
            PROVE  [hasPeer EXCEPT ![i][j] = v] \in [Servers -> [Servers -> BOOLEAN]]
        <5>1. [hasPeer[i] EXCEPT ![j] = v] \in [Servers -> BOOLEAN]
          BY <4>1, Zenon
        <5>2. [hasPeer EXCEPT ![i] = [hasPeer[i] EXCEPT ![j] = v]] \in [Servers -> [Servers -> BOOLEAN]]
          BY <5>1, Zenon DEF TypeOK
        <5> QED
          BY <5>2
      <4> QED
        BY <1>1, <4>2, Zenon DEF AddPeer, RemovePeer
    <3> QED
      BY <2>1, <3>1, <3>2 DEF TypeOK
  <2>3. SessionInv' /\ ReplicaAccurate'
    BY <2>1 DEF SessionInv, ReplicaAccurate, Announcing, Registry, Sessions
  <2> QED
    BY <2>2, <2>3
<1>2. ASSUME NEW s \in Servers, NEW key \in ClientKeys, NEW x \in SessionKeys,
             ClientUpgrade(s, key, x)
      PROVE  RegistryInv'
  <2>1. TypeOK' /\ SessionInv'
    BY <1>2 DEF ClientUpgrade, TypeOK, SessionInv
  <2>2. \A r : Registry(r)' = Registry(r)
    BY <1>2 DEF ClientUpgrade, Registry, Sessions, TypeOK
  <2>3. \A k \in SessionKeys : Announcing(k)' => Announcing(k) /\ clientKey'[k] = clientKey[k]
    BY <1>2 DEF ClientUpgrade, Announcing, TypeOK
  <2> QED
    BY <1>2, <2>1, <2>2, <2>3, ViewUnchanged DEF ClientUpgrade
<1>3. ASSUME NEW x \in SessionKeys, Disconnect(x)
      PROVE  RegistryInv'
  <2>1. TypeOK' /\ SessionInv'
    BY <1>3 DEF Disconnect, TypeOK, SessionInv
  <2>2. \A r : Registry(r)' = Registry(r)
    BY <1>3 DEF Disconnect, Registry, Sessions
  <2>3. \A k \in SessionKeys : Announcing(k)' => Announcing(k) /\ clientKey'[k] = clientKey[k]
    BY <1>3 DEF Disconnect, Announcing, TypeOK
  <2> QED
    BY <1>3, <2>1, <2>2, <2>3, ViewUnchanged DEF Disconnect
<1>4. ASSUME NEW i \in Servers, NEW j \in Servers, NEW x \in SessionKeys, LoopTop(i, j, x)
      PROVE  RegistryInv'
  <2>1. TypeOK'
    <3>1. loops[i][j] \in 0..MaxLoops
      BY DEF TypeOK
    <3> QED
      BY <1>4, <3>1 DEF LoopTop, TypeOK, DialerState
  <2>1a. SessionInv'
    BY <1>4 DEF LoopTop, TypeOK, SessionInv
  <2>2. \A r : Registry(r)' = Registry(r)
    BY <1>4 DEF LoopTop, Registry, Sessions, TypeOK
  <2>3. \A k \in SessionKeys : Announcing(k)' => Announcing(k) /\ clientKey'[k] = clientKey[k]
    BY <1>4 DEF LoopTop, Announcing, TypeOK
  <2> QED
    BY <1>4, <2>1, <2>1a, <2>2, <2>3, ViewUnchanged DEF LoopTop
<1>5. ASSUME NEW x \in SessionKeys, PeerDial(x)
      PROVE  RegistryInv'
  <2>1. TypeOK' /\ SessionInv'
    BY <1>5 DEF PeerDial, TypeOK, SessionInv, DialerState
  <2>2. \A r : Registry(r)' = Registry(r)
    BY <1>5 DEF PeerDial, Registry, Sessions, SessionInv, TypeOK
  <2>3. \A k \in SessionKeys : Announcing(k)' => Announcing(k) /\ clientKey'[k] = clientKey[k]
    BY <1>5 DEF PeerDial, Announcing, TypeOK
  <2> QED
    BY <1>5, <2>1, <2>2, <2>3, ViewUnchanged DEF PeerDial
<1>6. ASSUME NEW x \in SessionKeys, PeerDialFails(x)
      PROVE  RegistryInv'
  <2>1. TypeOK' /\ SessionInv'
    BY <1>6 DEF PeerDialFails, TypeOK, SessionInv, DialerState
  <2>2. \A r : Registry(r)' = Registry(r)
    BY <1>6 DEF PeerDialFails, Registry, Sessions, SessionInv, TypeOK
  <2>3. \A k \in SessionKeys : Announcing(k)' => Announcing(k) /\ clientKey'[k] = clientKey[k]
    BY <1>6 DEF PeerDialFails, Announcing, TypeOK
  <2> QED
    BY <1>6, <2>1, <2>2, <2>3, ViewUnchanged DEF PeerDialFails
<1>7. ASSUME NEW x \in SessionKeys, RemoveListener(x) \/ CloseWS(x)
      PROVE  RegistryInv'
  <2>1. TypeOK' /\ SessionInv'
    <3>1. CASE RemoveListener(x)
      BY <3>1 DEF RemoveListener, TypeOK, SessionInv, DialerState
    <3>2. CASE CloseWS(x)
      BY <3>2 DEF CloseWS, TypeOK, SessionInv, DialerState
    <3> QED
      BY <1>7, <3>1, <3>2
  <2>2. \A r : Registry(r)' = Registry(r)
    BY <1>7 DEF RemoveListener, CloseWS, Registry, Sessions
  <2>3. \A k \in SessionKeys : Announcing(k)' => Announcing(k) /\ clientKey'[k] = clientKey[k]
    BY <1>7 DEF RemoveListener, CloseWS, Announcing, TypeOK
  <2> QED
    BY <1>7, <2>1, <2>2, <2>3, ViewUnchanged DEF RemoveListener, CloseWS
<1>8. CASE UNCHANGED regVars
  BY <1>8 DEF TypeOK, SessionInv, ReplicaAccurate, Announcing, Registry, Sessions
<1> QED
  BY <1>1, <1>2, <1>3, <1>4, <1>5, <1>6, <1>7, <1>8,
     AddSessionInv, RemoveSessionInv, ServeMessageInv, AddListenerInv
     DEF Next, SessionStep, PeerStep

------------------------------------------------------------------------------

\* The registry keeps its types: at most MaxLoops loops per peer, and only
\* AddClient and RemoveClient messages about real addresses between peers.
THEOREM TypeCorrect == Spec => []TypeOK
<1>1. RegistryInv => TypeOK
  BY DEF RegistryInv
<1> QED
  BY InitInv, NextInv, <1>1, PTL DEF Spec

\* A peer's view of a registry is accurate up to the messages on their way,
\* whatever the number of servers, clients and sessions (the locking of add,
\* remove and addListener in session_manager.go).
THEOREM ReplicaIsAccurate == Spec => []ReplicaAccurate
<1>1. RegistryInv => ReplicaAccurate
  BY DEF RegistryInv
<1> QED
  BY InitInv, NextInv, <1>1, PTL DEF Spec

==============================================================================
