---------------------------- MODULE MCPeerRouting ----------------------------
EXTENDS PeerRouting

CONSTANTS s1, s2, p1, p2, k1, k2, c

\* Two servers connected as peers both ways (s2 accepted p1 from s1, and s1
\* accepted p2 from s2), a client with a session on each of them, and all of it
\* announced.  RemovePeer has been called on both: the peer sessions live on,
\* but no loop opens new ones.
Connected ==
    LET home == (p1 :> s2 @@ p2 :> s1 @@ k1 :> s1 @@ k2 :> s2)
        key  == (p1 :> s1 @@ p2 :> s2 @@ k1 :> c @@ k2 :> c)
    IN /\ SessionKeys = {p1, p2, k1, k2}
       /\ phase = [k \in SessionKeys |-> "registered"]
       /\ at = home
       /\ clientKey = key
       /\ up = [k \in SessionKeys |-> TRUE]
       /\ dialer = [k \in SessionKeys |-> IF k \in {p1, p2} THEN "listening" ELSE "none"]
       /\ loop = [k \in SessionKeys |-> IF k \in {p1, p2} THEN 1 ELSE 0]
       /\ loops = [i \in Servers |-> [j \in Servers |-> IF i # j THEN 1 ELSE 0]]
       /\ hasPeer = [i \in Servers |-> [j \in Servers |-> FALSE]]
       /\ queue = [k \in SessionKeys |-> <<>>]
       /\ remote = [k \in SessionKeys |->
                      IF k = p1 THEN {<<s2, p2>>, <<c, k1>>}
                      ELSE IF k = p2 THEN {<<s1, p1>>, <<c, k2>>} ELSE {}]
       /\ order = <<k1, k2>>
       /\ dial = idle

\* Three sessions of the client have come and gone on s1, and one session is to
\* come.  s2 has s1 as its peer, without a session yet; s1 may get s2.
Disconnected ==
    /\ phase = [k \in SessionKeys |-> IF k = k2 THEN "unused" ELSE "removed"]
    /\ at = [k \in SessionKeys |-> IF k = k2 THEN None ELSE s1]
    /\ clientKey = [k \in SessionKeys |-> IF k = k2 THEN None ELSE c]
    /\ up = [k \in SessionKeys |-> FALSE]
    /\ dialer = [k \in SessionKeys |-> "none"]
    /\ loop = [k \in SessionKeys |-> 0]
    /\ loops = [i \in Servers |-> [j \in Servers |-> IF i = s2 /\ j = s1 THEN 1 ELSE 0]]
    /\ hasPeer = [i \in Servers |-> [j \in Servers |-> i = s2 /\ j = s1]]

\* A session of the client has come and gone on s1, one is there, and one is to
\* come.  s1 has dialed s2, which has upgraded the session; RemovePeer has been
\* called on both since.
Dialing ==
    /\ phase = (p1 :> "upgraded" @@ p2 :> "removed" @@ k2 :> "registered" @@ k1 :> "unused")
    /\ at = (p1 :> s2 @@ p2 :> s1 @@ k2 :> s1 @@ k1 :> None)
    /\ clientKey = (p1 :> s1 @@ p2 :> c @@ k2 :> c @@ k1 :> None)
    /\ up = [k \in SessionKeys |-> k \in {p1, k2}]
    /\ dialer = [k \in SessionKeys |-> IF k = p1 THEN "dialed" ELSE "none"]
    /\ loop = [k \in SessionKeys |-> IF k = p1 THEN 1 ELSE 0]
    /\ loops = [i \in Servers |-> [j \in Servers |-> IF i # j THEN 1 ELSE 0]]
    /\ hasPeer = [i \in Servers |-> [j \in Servers |-> FALSE]]

\* Two sessions of the client have come and gone on s1, each server has the
\* other as its peer, only s2 has a session yet, and one session is to come.
HalfConnected ==
    /\ phase = (p1 :> "removed" @@ k1 :> "removed" @@ p2 :> "registered" @@ k2 :> "unused")
    /\ at = [k \in SessionKeys |-> IF k = k2 THEN None ELSE s1]
    /\ clientKey = (p1 :> c @@ k1 :> c @@ p2 :> s2 @@ k2 :> None)
    /\ up = [k \in SessionKeys |-> k = p2]
    /\ dialer = [k \in SessionKeys |-> IF k = p2 THEN "listening" ELSE "none"]
    /\ loop = [k \in SessionKeys |-> IF k = p2 THEN 1 ELSE 0]
    /\ loops = [i \in Servers |-> [j \in Servers |-> IF i # j THEN 1 ELSE 0]]
    /\ hasPeer = [i \in Servers |-> [j \in Servers |-> i # j]]

\* Nothing is announced yet.
Quiet ==
    /\ queue = [k \in SessionKeys |-> <<>>]
    /\ remote = [k \in SessionKeys |-> {}]
    /\ order = IF phase[k2] = "registered" THEN <<k2>> ELSE <<>>
    /\ dial = idle

MCInit == Connected \/ ((Disconnected \/ Dialing \/ HalfConnected) /\ Quiet)
MCSpec == MCInit /\ [][RoutingNext]_vars /\ RoutingFairness
==============================================================================
