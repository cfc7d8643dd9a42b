------------------------- MODULE SubscribeGapProofs -------------------------
(***************************************************************************)
(* For any types, layers of stores and number of events, a client misses   *)
(* an event only on a websocket that is ending.                            *)
(***************************************************************************)
EXTENDS SubscribeProofs

USE Zenon

(* On the way of a type the events are in order, and have passed the       *)
(* layers they are behind; what is due is in the order of the watch.       *)
Passed(t, p, e) == IF p <= Layers[t] THEN e.through >= p ELSE e.through = Layers[t]

PlacesInv(t) ==
  /\ \A p \in Way(t) : Place(t, p).number > 0 =>
       Place(t, p).number <= number[t] /\ Passed(t, p, Place(t, p))
  /\ \A p, q \in Way(t) : p < q /\ Place(t, p).number > 0 /\ Place(t, q).number > 0 =>
       Place(t, q).number < Place(t, p).number

DueInv(t) ==
  /\ \A i \in 1..Len(due[t]) : due[t][i] <= number[t]
  /\ \A i, j \in 1..Len(due[t]) : i < j => due[t][i] < due[t][j]

WayInv == \A t \in Types : PlacesInv(t) /\ DueInv(t) /\ (cancelled \/ Complete(t))

SubscribeInv == StateTypes /\ EndInv /\ WayInv
------------------------------------------------------------------------------
LEMMA PlaceTypes ==
  ASSUME StateTypes, NEW t \in Types, NEW p \in Way(t)
  PROVE  Place(t, p) \in Held(t)
<1>1. CASE p <= Layers[t]
  <2>1. p \in 1..Layers[t]
    BY <1>1, EventFacts, SMT DEF Way
  <2>2. chan[t] \in [1..Layers[t] -> Held(t)]
    BY DEF StateTypes, TypeOK, Held
  <2>3. Place(t, p) = chan[t][p]
    BY <1>1 DEF Place
  <2> QED
    BY <2>1, <2>2, <2>3, Zenon
<1>2. CASE p = Layers[t] + 1
  <2>1. Place(t, p) = offer[t]
    BY <1>2, EventFacts, SMT DEF Place
  <2> QED
    BY <2>1 DEF StateTypes, TypeOK, Held
<1>3. CASE p > Layers[t] + 1
  <2>1. \A e \in Events : e.type = t => e \in EventOf(t)
    BY EventFacts, SMT DEF Events
  <2>2. Place(t, p) = IF item # NoEvent /\ item.type = t THEN item ELSE NoEvent
    BY <1>3, EventFacts, SMT DEF Place, Way
  <2>3. item \in Events \cup {NoEvent}
    BY DEF StateTypes, TypeOK
  <2>4. ASSUME item # NoEvent, item.type = t
        PROVE  item \in EventOf(t)
    <3>1. item \in Events
      BY <2>3, <2>4
    <3> QED
      BY <2>1, <2>4, <3>1
  <2> QED
    BY <2>2, <2>4 DEF Held
<1> QED
  BY <1>1, <1>2, <1>3, EventFacts, SMT DEF Way

(* A place that is occupied holds an event.                                *)
LEMMA Occupied ==
  ASSUME StateTypes, NEW t \in Types, NEW p \in Way(t)
  PROVE  /\ Place(t, p).number \in Int
         /\ Place(t, p).number > 0 => Place(t, p) \in EventOf(t)
         /\ Place(t, p).number > 0 \/ Place(t, p) \in {NoEvent, Over}
  BY PlaceTypes, EventFacts, SMT DEF Held

LEMMA HistoryTypes ==
  ASSUME StateTypes, NEW t \in Types
  PROVE  /\ number[t] \in Nat
         /\ due[t] \in Seq(Nat) /\ Len(due[t]) \in Nat
         /\ written[t] \in Seq(Nat) /\ Len(written[t]) \in Nat
<1>1. number[t] \in Nat /\ due[t] \in Seq(1..MaxEvents) /\ written[t] \in Seq(1..MaxEvents)
  BY SubscribeAssumption, SMT DEF StateTypes, TypeOK
<1>2. \A q \in Seq(1..MaxEvents) : q \in Seq(Nat) /\ Len(q) \in Nat
  BY SubscribeAssumption, SMT
<1> QED
  BY <1>1, <1>2

------------------------------------------------------------------------------
(* What a step may do to the way of a type: nothing, but for places that   *)
(* are empty before and after, ...                                         *)
LEMMA WayStays ==
  ASSUME NEW t \in Types, PlacesInv(t), DueInv(t), cancelled \/ Complete(t),
         \A p \in Way(t) : \/ Place(t, p)' = Place(t, p)
                           \/ ~(Place(t, p).number > 0) /\ ~(Place(t, p)'.number > 0),
         number'[t] = number[t], due'[t] = due[t],
         cancelled' \/ (~cancelled /\ written'[t] = written[t])
  PROVE  PlacesInv(t)' /\ DueInv(t)' /\ (cancelled' \/ Complete(t)')
<1>1. PlacesInv(t)'
  BY DEF PlacesInv, Way
<1>2. DueInv(t)'
  BY DEF DueInv
<1>3. OnTheWay(t)' = OnTheWay(t)
  BY DEF OnTheWay, Due, Way
<1>4. ASSUME ~cancelled'
      PROVE  Complete(t)'
  BY <1>3, <1>4 DEF Complete
<1> QED
  BY <1>1, <1>2, <1>4

(* ... an event goes on to the next place, which drops it or not, ...      *)
LEMMA WayShifts ==
  ASSUME StateTypes,
         NEW t \in Types, PlacesInv(t), DueInv(t), cancelled \/ Complete(t),
         NEW p \in Way(t), p + 1 \in Way(t),
         Place(t, p).number > 0, ~(Place(t, p + 1).number > 0), ~(Place(t, p)'.number > 0),
         \/ /\ Place(t, p + 1)' = Place(t, p)
            /\ Passed(t, p + 1, Place(t, p))
         \/ /\ ~(Place(t, p + 1)'.number > 0)
            /\ ~Due(t, Place(t, p)),
         \A q \in Way(t) \ {p, p + 1} : Place(t, q)' = Place(t, q),
         UNCHANGED <<number, due, written, cancelled>>
  PROVE  PlacesInv(t)' /\ DueInv(t)' /\ (cancelled' \/ Complete(t)')
<1>1. \A q \in Way(t) : Place(t, q).number \in Int
  BY Occupied
<1>2. Way(t) \subseteq Int
  BY EventFacts, SMT DEF Way
<1>3. \A q \in Way(t) : Place(t, q)'.number > 0 =>
        /\ q # p
        /\ \/ q # p + 1 /\ Place(t, q)' = Place(t, q)
           \/ q = p + 1 /\ Place(t, q)' = Place(t, p) /\ Passed(t, q, Place(t, p))
  OBVIOUS
<1>4. PlacesInv(t)'
  <2>1. \A q \in Way(t) : Place(t, q)'.number > 0 =>
          Place(t, q)'.number <= number[t] /\ Passed(t, q, Place(t, q)')
    BY <1>3, Zenon DEF PlacesInv
  <2>2. \A q, r \in Way(t) : q < r /\ Place(t, q)'.number > 0 /\ Place(t, r)'.number > 0 =>
          Place(t, r)'.number < Place(t, q)'.number
    BY <1>1, <1>2, <1>3, SMT DEF PlacesInv
  <2> QED
    BY <2>1, <2>2 DEF PlacesInv, Way, Passed
<1>5. DueInv(t)'
  BY DEF DueInv
<1>6. OnTheWay(t)' = OnTheWay(t)
  <2>1. ASSUME NEW n \in OnTheWay(t)
        PROVE  n \in OnTheWay(t)'
    BY <2>1, <1>2, SMT DEF OnTheWay, Way, Due
  <2>2. ASSUME NEW n \in OnTheWay(t)'
        PROVE  n \in OnTheWay(t)
    <3>1. PICK q \in Way(t) : Due(t, Place(t, q)') /\ n = Place(t, q)'.number
      BY <2>2 DEF OnTheWay, Way, Due
    <3> QED
      BY <1>3, <3>1, Zenon DEF OnTheWay, Due
  <2> QED
    BY <2>1, <2>2, Zenon
<1>7. ASSUME ~cancelled'
      PROVE  Complete(t)'
  BY <1>6, <1>7 DEF Complete
<1> QED
  BY <1>4, <1>5, <1>7

(* ... a new event enters and is due if it will pass all layers, ...       *)
LEMMA WayEnters ==
  ASSUME StateTypes,
         NEW t \in Types, PlacesInv(t), DueInv(t), cancelled \/ Complete(t),
         NEW e \in EventOf(t), e.number = number[t] + 1,
         ~(Place(t, 1).number > 0),
         \/ Place(t, 1)' = e /\ Passed(t, 1, e)
         \/ ~(Place(t, 1)'.number > 0) /\ ~Due(t, e),
         \A q \in Way(t) \ {1} : Place(t, q)' = Place(t, q),
         number'[t] = number[t] + 1,
         due'[t] = IF Due(t, e) THEN Append(due[t], e.number) ELSE due[t],
         UNCHANGED <<written, cancelled>>
  PROVE  PlacesInv(t)' /\ DueInv(t)' /\ (cancelled' \/ Complete(t)')
<1>1. \A q \in Way(t) : Place(t, q).number \in Int
  BY Occupied
<1>2. /\ Way(t) \subseteq Int /\ 1 \in Way(t) /\ \A q \in Way(t) : q >= 1
      /\ number[t] \in Nat /\ due[t] \in Seq(Nat) /\ written[t] \in Seq(Nat)
      /\ e.number \in Nat /\ e.number > 0
  BY EventFacts, HistoryTypes, SMT DEF Way
<1>3. \A q \in Way(t) : Place(t, q)'.number > 0 =>
        \/ q # 1 /\ Place(t, q)' = Place(t, q)
        \/ q = 1 /\ Place(t, q)' = e /\ Passed(t, q, e)
  OBVIOUS
<1>4. PlacesInv(t)'
  <2>1. \A q \in Way(t) : Place(t, q).number > 0 =>
          Place(t, q).number <= number[t] /\ Passed(t, q, Place(t, q))
    BY DEF PlacesInv
  <2>2. ASSUME NEW q \in Way(t), Place(t, q)'.number > 0
        PROVE  /\ Place(t, q)'.number <= number[t] + 1 /\ Passed(t, q, Place(t, q)')
               /\ Place(t, q)'.number \in Int
    <3>1. CASE q = 1
      BY <1>2, <1>3, <2>2, <3>1, SMT
    <3>2. CASE q # 1
      <4>1. Place(t, q)' = Place(t, q)
        BY <3>2
      <4> QED
        BY <1>1, <1>2, <2>1, <2>2, <4>1, SMT
    <3> QED
      BY <3>1, <3>2
  <2>3. ASSUME NEW q \in Way(t), NEW r \in Way(t), q < r,
               Place(t, q)'.number > 0, Place(t, r)'.number > 0
        PROVE  Place(t, r)'.number < Place(t, q)'.number
    <3>1. r # 1 /\ Place(t, r)' = Place(t, r)
      BY <1>2, <2>3, SMT
    <3>2. CASE q = 1
      <4>1. Place(t, q)' = e
        BY <1>3, <2>3, <3>2
      <4>2. Place(t, r).number <= number[t]
        BY <2>1, <2>3, <3>1
      <4> QED
        BY <1>1, <1>2, <3>1, <4>1, <4>2, SMT
    <3>3. CASE q # 1
      <4>1. Place(t, q)' = Place(t, q)
        BY <3>3
      <4> QED
        BY <2>3, <3>1, <4>1, Zenon DEF PlacesInv
    <3> QED
      BY <3>2, <3>3
  <2> QED
    BY <2>2, <2>3 DEF PlacesInv, Way, Passed
<1>5. DueInv(t)'
  <2>1. \A i \in 1..Len(due[t]) : due[t][i] \in Nat /\ due[t][i] <= number[t]
    BY <1>2, SMT DEF DueInv
  <2>2. CASE ~Due(t, e)
    <3>1. due'[t] = due[t]
      BY <2>2
    <3>2. \A i \in 1..Len(due[t]) : due[t][i] <= number'[t]
      BY <1>2, <2>1, SMT
    <3> QED
      BY <3>1, <3>2, Zenon DEF DueInv
  <2>3. CASE Due(t, e)
    <3>1. due'[t] = Append(due[t], e.number)
      BY <2>3
    <3>2. /\ Len(due'[t]) = Len(due[t]) + 1 /\ Len(due[t]) \in Nat
          /\ \A i \in 1..Len(due[t]) : due'[t][i] = due[t][i] /\ due[t][i] \in Nat
          /\ due'[t][Len(due[t]) + 1] = number[t] + 1
      BY <1>2, <3>1, SMT
    <3>3. \A i \in 1..Len(due'[t]) : due'[t][i] <= number'[t]
      BY <1>2, <2>1, <3>2, SMT
    <3>4. \A i, j \in 1..Len(due'[t]) : i < j => due'[t][i] < due'[t][j]
      <4> SUFFICES ASSUME NEW i \in 1..Len(due'[t]), NEW j \in 1..Len(due'[t]), i < j
                   PROVE  due'[t][i] < due'[t][j]
        OBVIOUS
      <4>1. i \in 1..Len(due[t])
        BY <3>2, SMT
      <4>2. CASE j \in 1..Len(due[t])
        BY <3>2, <4>1, <4>2, Zenon DEF DueInv
      <4>3. CASE j = Len(due[t]) + 1
        BY <1>2, <2>1, <3>2, <4>1, <4>3, SMT
      <4> QED
        BY <3>2, <4>2, <4>3, SMT
    <3> QED
      BY <3>3, <3>4 DEF DueInv
  <2> QED
    BY <2>2, <2>3
<1>6. OnTheWay(t)' = IF Due(t, e) THEN OnTheWay(t) \cup {e.number} ELSE OnTheWay(t)
  <2>1. ASSUME NEW n \in OnTheWay(t)
        PROVE  n \in OnTheWay(t)'
    <3>1. PICK q \in Way(t) : Due(t, Place(t, q)) /\ n = Place(t, q).number
      BY <2>1 DEF OnTheWay
    <3>2. Place(t, q)' = Place(t, q)
      BY <3>1 DEF Due
    <3> QED
      BY <3>1, <3>2 DEF OnTheWay, Way, Due
  <2>2. ASSUME Due(t, e)
        PROVE  e.number \in OnTheWay(t)'
    BY <1>2, <2>2 DEF OnTheWay, Way, Due
  <2>3. ASSUME NEW n \in OnTheWay(t)'
        PROVE  n \in OnTheWay(t) \/ (n = e.number /\ Due(t, e))
    <3>1. PICK q \in Way(t) : Due(t, Place(t, q)') /\ n = Place(t, q)'.number
      BY <2>3 DEF OnTheWay, Way, Due
    <3> QED
      BY <1>3, <3>1, Zenon DEF OnTheWay, Due
  <2> QED
    BY <2>1, <2>2, <2>3, Zenon
<1>7. ASSUME ~cancelled'
      PROVE  Complete(t)'
  <2>1. Complete(t)
    BY <1>7
  <2>2. CASE ~Due(t, e)
    BY <1>6, <2>1, <2>2 DEF Complete
  <2>3. CASE Due(t, e)
    <3>1. /\ due'[t] \in Seq(Nat) /\ Len(due'[t]) = Len(due[t]) + 1
          /\ Len(due[t]) \in Nat /\ Len(written[t]) \in Nat /\ written'[t] = written[t]
          /\ \A i \in 1..Len(due[t]) : due'[t][i] = due[t][i]
          /\ due'[t][Len(due[t]) + 1] = e.number
      BY <1>2, <2>3, SMT
    <3>2. {due'[t][i] : i \in (Len(written[t]) + 1)..Len(due'[t])}
            = {due[t][i] : i \in (Len(written[t]) + 1)..Len(due[t])} \cup {e.number}
      <4>1. \A i \in (Len(written[t]) + 1)..Len(due[t]) :
              i \in 1..Len(due[t]) /\ i \in (Len(written[t]) + 1)..Len(due'[t])
        BY <3>1, SMT
      <4>2. \A i \in (Len(written[t]) + 1)..Len(due'[t]) :
              i = Len(due[t]) + 1 \/ i \in (Len(written[t]) + 1)..Len(due[t])
        BY <3>1, SMT
      <4>3. Len(due[t]) + 1 \in (Len(written[t]) + 1)..Len(due'[t])
        BY <2>1, <3>1, SMT DEF Complete
      <4> QED
        BY <3>1, <4>1, <4>2, <4>3, Zenon
    <3>3. OnTheWay(t)' = {due'[t][i] : i \in (Len(written'[t]) + 1)..Len(due'[t])}
      BY <1>6, <2>1, <2>3, <3>1, <3>2, Zenon DEF Complete
    <3>4. /\ Len(written'[t]) <= Len(due'[t])
          /\ \A i \in 1..Len(written'[t]) : written'[t][i] = due'[t][i]
      BY <2>1, <3>1, SMT DEF Complete
    <3> QED
      BY <3>3, <3>4 DEF Complete
  <2> QED
    BY <2>2, <2>3
<1> QED
  BY <1>4, <1>5, <1>7

(* ... or the event in the last place is written, the next that is due.    *)
LEMMA WayLeaves ==
  ASSUME StateTypes,
         NEW t \in Types, PlacesInv(t), DueInv(t), cancelled \/ Complete(t),
         NEW z, z = Layers[t] + 2, Due(t, Place(t, z)), ~(Place(t, z)'.number > 0),
         \A q \in Way(t) \ {z} : Place(t, q)' = Place(t, q),
         written'[t] = Append(written[t], Place(t, z).number),
         UNCHANGED <<number, due, cancelled>>
  PROVE  PlacesInv(t)' /\ DueInv(t)' /\ (cancelled' \/ Complete(t)')
<1>1. \A q \in Way(t) : Place(t, q).number \in Int
  BY Occupied
<1>2. /\ Way(t) \subseteq Int /\ z \in Way(t) /\ \A q \in Way(t) : q <= z
      /\ due[t] \in Seq(Nat) /\ written[t] \in Seq(Nat)
  BY EventFacts, HistoryTypes, SMT DEF Way
<1>3. PlacesInv(t)'
  <2>1. \A q \in Way(t) : Place(t, q)'.number > 0 => q # z /\ Place(t, q)' = Place(t, q)
    OBVIOUS
  <2> QED
    BY <2>1 DEF PlacesInv, Way, Passed
<1>4. DueInv(t)'
  BY DEF DueInv
<1>5. ASSUME ~cancelled'
      PROVE  Complete(t)'
  <2> DEFINE n == Place(t, z).number
             w == Len(written[t])
  <2>1. Complete(t)
    BY <1>5
  <2>2. n \in Int /\ w \in Nat /\ Len(due[t]) \in Nat /\ \A i \in 1..Len(due[t]) : due[t][i] \in Nat
    <3>1. n \in Int
      BY <1>1, <1>2, Zenon
    <3>2. w \in Nat /\ Len(due[t]) \in Nat
      BY HistoryTypes
    <3>3. \A i \in 1..Len(due[t]) : due[t][i] \in Nat
      BY <1>2, SMT
    <3> QED
      BY <3>1, <3>2, <3>3
  <2>3. n \in OnTheWay(t)
    BY <1>2 DEF OnTheWay
  <2>4. \A p \in Way(t) : p # z /\ Place(t, p).number > 0 => n < Place(t, p).number
    BY <1>2, SMT DEF PlacesInv, Due
  <2>5. /\ Len(written'[t]) = w + 1
        /\ \A i \in 1..w : written'[t][i] = written[t][i]
        /\ written'[t][w + 1] = n
    <3>1. written'[t] = Append(written[t], n) /\ written[t] \in Seq(Nat)
      BY <1>2
    <3> HIDE DEF n
    <3> QED
      BY <3>1, SMT
  <2>6. OnTheWay(t)' = OnTheWay(t) \ {n}
    <3>1. ASSUME NEW m \in OnTheWay(t), m # n
          PROVE  m \in OnTheWay(t)'
      <4>1. PICK p \in Way(t) : Due(t, Place(t, p)) /\ m = Place(t, p).number
        BY <3>1 DEF OnTheWay
      <4>2. p # z
        BY <3>1, <4>1
      <4> QED
        BY <4>1, <4>2 DEF OnTheWay, Way, Due
    <3>2. ASSUME NEW m \in OnTheWay(t)'
          PROVE  m \in OnTheWay(t) /\ m # n
      <4>1. PICK p \in Way(t) : Due(t, Place(t, p)') /\ m = Place(t, p)'.number
        BY <3>2 DEF OnTheWay, Way, Due
      <4>2. p # z /\ Place(t, p)' = Place(t, p)
        BY <4>1 DEF Due
      <4>3. n < m /\ m \in Int
        BY <1>1, <2>4, <4>1, <4>2 DEF Due
      <4>4. m # n
        BY <2>2, <4>3, SMT
      <4> QED
        BY <4>1, <4>2, <4>4, Zenon DEF OnTheWay
    <3> QED
      BY <3>1, <3>2
  <2>7. /\ w <= Len(due[t])
        /\ \A i \in 1..w : written[t][i] = due[t][i]
        /\ OnTheWay(t) = {due[t][i] : i \in (w + 1)..Len(due[t])}
    BY <2>1 DEF Complete
  <2>8. \A m \in OnTheWay(t) : m = n \/ n < m
    <3> SUFFICES ASSUME NEW m \in OnTheWay(t), m # n
                 PROVE  n < m
      OBVIOUS
    <3>1. PICK p \in Way(t) : Due(t, Place(t, p)) /\ m = Place(t, p).number
      BY DEF OnTheWay
    <3> QED
      BY <2>4, <3>1 DEF Due
  <2> HIDE DEF n, w
  <2>9. PICK k \in (w + 1)..Len(due[t]) : due[t][k] = n
    BY <2>3, <2>7
  <2>10. \A i \in 1..Len(due[t]), j \in 1..Len(due[t]) : i < j => due[t][i] < due[t][j]
    BY DEF DueInv
  <2>11. k = w + 1
    <3> SUFFICES ASSUME k > w + 1
                 PROVE  FALSE
      BY <2>2, <2>9, SMT
    <3>1. w + 1 \in 1..Len(due[t]) /\ w + 1 \in (w + 1)..Len(due[t]) /\ k \in 1..Len(due[t])
      BY <2>2, <2>9, SMT
    <3>2. due[t][w + 1] < n /\ due[t][w + 1] \in Nat
      BY <2>2, <2>9, <2>10, <3>1
    <3>3. due[t][w + 1] \in OnTheWay(t)
      BY <2>7, <3>1
    <3>4. due[t][w + 1] = n \/ n < due[t][w + 1]
      BY <2>8, <3>3, Zenon
    <3> QED
      BY <2>2, <3>2, <3>4, SMT
  <2>12. {due[t][i] : i \in (w + 2)..Len(due[t])} = {due[t][i] : i \in (w + 1)..Len(due[t])} \ {n}
    <3>1. \A i \in (w + 2)..Len(due[t]) : due[t][i] # n /\ i \in (w + 1)..Len(due[t])
      <4> SUFFICES ASSUME NEW i \in (w + 2)..Len(due[t])
                   PROVE  due[t][i] # n /\ i \in (w + 1)..Len(due[t])
        OBVIOUS
      <4>1. /\ w + 1 \in 1..Len(due[t]) /\ i \in 1..Len(due[t]) /\ i \in (w + 1)..Len(due[t])
            /\ w + 1 < i
        BY <2>2, SMT
      <4>2. due[t][w + 1] < due[t][i] /\ due[t][w + 1] \in Nat /\ due[t][i] \in Nat
        BY <2>2, <2>10, <4>1
      <4>3. due[t][w + 1] # due[t][i]
        BY <4>2, SMT
      <4> QED
        BY <2>9, <2>11, <4>1, <4>3
    <3>2. \A i \in (w + 1)..Len(due[t]) : i = w + 1 \/ i \in (w + 2)..Len(due[t])
      BY <2>2, SMT
    <3> QED
      BY <2>9, <2>11, <3>1, <3>2, Zenon
  <2>13. /\ w + 1 <= Len(due[t])
         /\ \A i \in 1..(w + 1) : written'[t][i] = due[t][i]
    BY <2>2, <2>5, <2>7, <2>9, <2>11, SMT
  <2>14. w + 1 + 1 = w + 2
    BY <2>2, SMT
  <2>15. OnTheWay(t)' = {due[t][i] : i \in (Len(written'[t]) + 1)..Len(due[t])}
    BY <2>5, <2>6, <2>7, <2>12, <2>14, Zenon
  <2> QED
    BY <2>5, <2>13, <2>15 DEF Complete
<1> QED
  BY <1>3, <1>4, <1>5

------------------------------------------------------------------------------
\* The last place, that of the loop.
Last(t) == Layers[t] + 2

LEMMA WayParts ==
  ASSUME NEW t \in Types
  PROVE  /\ Layers[t] \in Nat
         /\ \A p \in Way(t) : p \in 1..Layers[t] \/ p = Layers[t] + 1 \/ p = Last(t)
         /\ \A p \in 1..Layers[t] : p \in Way(t) /\ p # Layers[t] + 1 /\ p # Last(t)
         /\ Layers[t] + 1 \in Way(t) /\ Last(t) \in Way(t) /\ Layers[t] + 1 # Last(t)
  BY EventFacts, SMT DEF Last, Way

LEMMA LayerPlace ==
  ASSUME NEW t \in Types, NEW p \in 1..Layers[t]
  PROVE  Place(t, p) = chan[t][p] /\ Place(t, p)' = chan'[t][p]
<1>1. p <= Layers[t]
  BY EventFacts, SMT
<1> QED
  BY <1>1, Zenon DEF Place

LEMMA OfferPlace ==
  ASSUME NEW t \in Types
  PROVE  Place(t, Layers[t] + 1) = offer[t] /\ Place(t, Layers[t] + 1)' = offer'[t]
<1>1. ~(Layers[t] + 1 <= Layers[t])
  BY EventFacts, SMT
<1> QED
  BY <1>1, Zenon DEF Place

LEMMA LastPlace ==
  ASSUME NEW t \in Types
  PROVE  /\ Place(t, Last(t)) = IF item # NoEvent /\ item.type = t THEN item ELSE NoEvent
         /\ Place(t, Last(t))' = IF item' # NoEvent /\ item'.type = t THEN item' ELSE NoEvent
<1>1. ~(Last(t) <= Layers[t]) /\ Last(t) # Layers[t] + 1
  BY EventFacts, SMT DEF Last
<1> QED
  BY <1>1, Zenon DEF Place

LEMMA PlaceStays ==
  ASSUME NEW t \in Types, NEW p \in Way(t),
         p \in 1..Layers[t] => chan'[t][p] = chan[t][p],
         p = Layers[t] + 1 => offer'[t] = offer[t],
         p = Last(t) => Place(t, Last(t))' = Place(t, Last(t))
  PROVE  Place(t, p)' = Place(t, p)
<1>1. CASE p \in 1..Layers[t]
  BY <1>1, LayerPlace
<1>2. CASE p = Layers[t] + 1
  BY <1>2, OfferPlace
<1>3. CASE p = Last(t)
  BY <1>3
<1> QED
  BY <1>1, <1>2, <1>3, WayParts

(* The event in the last place is given up.                                *)
LEMMA WayDrops ==
  ASSUME NEW t \in Types, PlacesInv(t), DueInv(t), cancelled \/ Complete(t),
         ~(Place(t, Last(t))'.number > 0),
         \A q \in Way(t) \ {Last(t)} : Place(t, q)' = Place(t, q),
         number'[t] = number[t], due'[t] = due[t], written'[t] = written[t],
         cancelled' \/ (~cancelled /\ ~Due(t, Place(t, Last(t))))
  PROVE  PlacesInv(t)' /\ DueInv(t)' /\ (cancelled' \/ Complete(t)')
<1>1. PlacesInv(t)'
  <2>1. \A q \in Way(t) : Place(t, q)'.number > 0 => Place(t, q)' = Place(t, q)
    OBVIOUS
  <2> QED
    BY <2>1 DEF PlacesInv, Way, Passed
<1>2. DueInv(t)'
  BY DEF DueInv
<1>3. ASSUME ~cancelled'
      PROVE  Complete(t)'
  <2>1. Last(t) \in Way(t)
    BY WayParts
  <2>2. OnTheWay(t)' = OnTheWay(t)
    <3>1. \A q \in Way(t) : Due(t, Place(t, q)) => Place(t, q)' = Place(t, q)
      BY <1>3
    <3>2. \A q \in Way(t) : Due(t, Place(t, q)') => Place(t, q)' = Place(t, q)
      BY DEF Due
    <3> QED
      BY <3>1, <3>2 DEF OnTheWay, Way, Due
  <2> QED
    BY <1>3, <2>2 DEF Complete
<1> QED
  BY <1>1, <1>2, <1>3

(* A type of which a step changes no place.                                *)
LEMMA WayQuiet ==
  ASSUME WayInv, NEW u \in Types,
         chan'[u] = chan[u], offer'[u] = offer[u], Place(u, Last(u))' = Place(u, Last(u)),
         number'[u] = number[u], due'[u] = due[u],
         cancelled' \/ (~cancelled /\ written'[u] = written[u])
  PROVE  PlacesInv(u)' /\ DueInv(u)' /\ (cancelled' \/ Complete(u)')
<1>1. \A p \in Way(u) : Place(u, p)' = Place(u, p)
  BY PlaceStays
<1>2. PlacesInv(u) /\ DueInv(u) /\ (cancelled \/ Complete(u))
  BY DEF WayInv
<1> QED
  BY <1>1, <1>2, WayStays

LEMMA WatchSendsWay ==
  ASSUME StateTypes, WayInv,
         NEW t \in Types, NEW known \in BOOLEAN, NEW n \in 0..Layers[t], WatchSends(t, known, n)
  PROVE  PlacesInv(t)' /\ DueInv(t)' /\ (cancelled' \/ Complete(t)')
<1> DEFINE e == NewEvent(t, known, n)
<1>1. /\ e \in EventOf(t) /\ e.number = number[t] + 1
      /\ Receive(t, 1, e, chan[t])
      /\ number'[t] = number[t] + 1
      /\ due'[t] = IF Due(t, e) THEN Append(due[t], e.number) ELSE due[t]
      /\ UNCHANGED <<item, written, cancelled>>
  BY WatchSendsEvent
<1> HIDE DEF e
<1>2. chan[t] \in [1..Layers[t] -> Held(t)] /\ 1 \in 1..(Layers[t] + 1) /\ Layers[t] \in Nat
  BY EventFacts, SMT DEF StateTypes, TypeOK, Held
<1>3. \/ /\ 1 \in 1..Layers[t] /\ chan[t][1] = NoEvent
         /\ chan'[t] = [chan[t] EXCEPT ![1] = Modified(e, 1)]
         /\ UNCHANGED <<stream, offer>>
      \/ /\ 1 = Layers[t] + 1 /\ stream[t] = "range"
         /\ chan'[t] = chan[t] /\ offer'[t] = e
  BY <1>1, <1>2, Received
<1>4. /\ e.through \in 0..Layers[t] /\ NoEvent.number = 0 /\ ~(NoEvent.number > 0)
  BY <1>1, EventFacts, SMT
<1>5. PlacesInv(t) /\ DueInv(t) /\ (cancelled \/ Complete(t))
  BY DEF WayInv
<1>6. Place(t, Last(t))' = Place(t, Last(t))
  BY <1>1, LastPlace
<1>7. /\ ~(Place(t, 1).number > 0)
      /\ \/ Place(t, 1)' = e /\ Passed(t, 1, e)
         \/ ~(Place(t, 1)'.number > 0) /\ ~Due(t, e)
      /\ \A q \in Way(t) \ {1} : Place(t, q)' = Place(t, q)
  <2>1. CASE 1 \in 1..Layers[t]
    <3>1. /\ chan[t][1] = NoEvent /\ chan'[t] = [chan[t] EXCEPT ![1] = Modified(e, 1)]
          /\ offer' = offer
      BY <1>2, <1>3, <2>1, SMT
    <3>2. Place(t, 1) = NoEvent /\ Place(t, 1)' = Modified(e, 1)
      <4>1. Place(t, 1) = chan[t][1] /\ Place(t, 1)' = chan'[t][1]
        BY <2>1, LayerPlace
      <4> QED
        BY <1>2, <2>1, <3>1, <4>1
    <3>3. \A q \in 1..Layers[t] : q # 1 => chan'[t][q] = chan[t][q]
      BY <1>2, <3>1
    <3>4. \A q \in Way(t) \ {1} : Place(t, q)' = Place(t, q)
      <4>1. offer'[t] = offer[t]
        BY <3>1
      <4> QED
        BY <1>6, <4>1, <3>3, PlaceStays
    <3>5. CASE e.through >= 1
      <4>1. Passed(t, 1, e)
        BY <1>2, <2>1, <3>5, SMT DEF Passed
      <4> QED
        BY <1>4, <3>2, <3>4, <3>5, <4>1 DEF Modified
    <3>6. CASE ~(e.through >= 1)
      <4>1. ~Due(t, e)
        BY <1>2, <1>4, <2>1, <3>6, SMT DEF Due
      <4> QED
        BY <1>4, <3>2, <3>4, <3>6, <4>1 DEF Modified
    <3> QED
      BY <3>5, <3>6
  <2>2. CASE Layers[t] = 0
    <3>1. /\ stream[t] = "range" /\ chan'[t] = chan[t] /\ offer'[t] = e /\ 1 = Layers[t] + 1
      BY <1>3, <2>2, SMT
    <3>2. Place(t, 1) = offer[t] /\ Place(t, 1)' = e
      BY <3>1, OfferPlace
    <3>3. offer[t] = NoEvent
      BY <3>1 DEF StateTypes, TypeOK
    <3>4. \A q \in Way(t) \ {1} : Place(t, q)' = Place(t, q)
      BY <1>6, <3>1, PlaceStays
    <3>5. Passed(t, 1, e)
      BY <1>4, <2>2, SMT DEF Passed
    <3> QED
      BY <1>4, <3>2, <3>3, <3>4, <3>5
  <2> QED
    BY <1>2, <2>1, <2>2, SMT
<1> QED
  BY <1>1, <1>5, <1>7, WayEnters

LEMMA ChanSendsWay ==
  ASSUME StateTypes, WayInv, NEW t \in Types, NEW i \in 1..Layers[t], ChanSends(t, i)
  PROVE  PlacesInv(t)' /\ DueInv(t)' /\ (cancelled' \/ Complete(t)')
<1> DEFINE e == chan[t][i]
           ls == [chan[t] EXCEPT ![i] = NoEvent]
<1>1. /\ e \in EventOf(t) /\ ls \in [1..Layers[t] -> Held(t)]
      /\ Receive(t, i + 1, e, ls)
      /\ UNCHANGED <<item, number, due, written, cancelled>>
  BY ChanSendsEvent, Zenon
<1>2. chan[t] \in [1..Layers[t] -> Held(t)] /\ i + 1 \in 1..(Layers[t] + 1) /\ Layers[t] \in Nat
      /\ i + 1 # i /\ i <= Layers[t]
  BY EventFacts, SMT DEF StateTypes, TypeOK, Held
<1>3. /\ ls[i] = NoEvent
      /\ \A q \in 1..Layers[t] : q # i => ls[q] = chan[t][q]
      /\ Place(t, i) = e /\ i \in Way(t)
  BY <1>2, LayerPlace, WayParts
<1> HIDE DEF e, ls
<1>4. \/ /\ i + 1 \in 1..Layers[t] /\ ls[i + 1] = NoEvent
         /\ chan'[t] = [ls EXCEPT ![i + 1] = Modified(e, i + 1)]
         /\ UNCHANGED <<stream, offer>>
      \/ /\ i + 1 = Layers[t] + 1 /\ stream[t] = "range"
         /\ chan'[t] = ls /\ offer'[t] = e
  BY <1>1, <1>2, Received
<1>5. /\ e.through \in 0..Layers[t] /\ NoEvent.number = 0 /\ ~(NoEvent.number > 0) /\ e.number > 0
  BY <1>1, EventFacts, SMT
<1>6. PlacesInv(t) /\ DueInv(t) /\ (cancelled \/ Complete(t))
  BY DEF WayInv
<1>7. Place(t, Last(t))' = Place(t, Last(t))
  BY <1>1, LastPlace
<1>8. /\ i + 1 \in Way(t) /\ ~(Place(t, i + 1).number > 0) /\ ~(Place(t, i)'.number > 0)
      /\ \/ Place(t, i + 1)' = e /\ Passed(t, i + 1, e)
         \/ ~(Place(t, i + 1)'.number > 0) /\ ~Due(t, e)
      /\ \A q \in Way(t) \ {i, i + 1} : Place(t, q)' = Place(t, q)
  <2>1. CASE i + 1 \in 1..Layers[t]
    <3>1. /\ ls[i + 1] = NoEvent /\ chan'[t] = [ls EXCEPT ![i + 1] = Modified(e, i + 1)]
          /\ offer' = offer
      BY <1>2, <1>4, <2>1, SMT
    <3>2. chan'[t][i] = NoEvent /\ chan'[t][i + 1] = Modified(e, i + 1) /\ chan[t][i + 1] = NoEvent
      BY <1>1, <1>2, <1>3, <2>1, <3>1
    <3>3. /\ Place(t, i + 1) = NoEvent /\ Place(t, i)' = NoEvent /\ i + 1 \in Way(t)
          /\ Place(t, i + 1)' = Modified(e, i + 1)
      BY <2>1, <3>2, LayerPlace, WayParts
    <3>4. \A q \in 1..Layers[t] : q # i /\ q # i + 1 => chan'[t][q] = chan[t][q]
      BY <1>1, <1>3, <3>1
    <3>5. \A q \in Way(t) \ {i, i + 1} : Place(t, q)' = Place(t, q)
      <4>1. offer'[t] = offer[t]
        BY <3>1
      <4> QED
        BY <1>7, <4>1, <3>4, PlaceStays
    <3>6. CASE e.through >= i + 1
      <4>1. Passed(t, i + 1, e)
        BY <1>2, <2>1, <3>6, SMT DEF Passed
      <4> QED
        BY <1>5, <3>3, <3>5, <3>6, <4>1 DEF Modified
    <3>7. CASE ~(e.through >= i + 1)
      <4>1. ~Due(t, e)
        BY <1>2, <1>5, <2>1, <3>7, SMT DEF Due
      <4> QED
        BY <1>5, <3>3, <3>5, <3>7, <4>1 DEF Modified
    <3> QED
      BY <3>6, <3>7
  <2>2. CASE i = Layers[t]
    <3>1. /\ stream[t] = "range" /\ chan'[t] = ls /\ offer'[t] = e /\ i + 1 = Layers[t] + 1
      BY <1>2, <1>4, <2>2, SMT
    <3>2. Place(t, i + 1) = offer[t] /\ Place(t, i + 1)' = e /\ i + 1 \in Way(t) /\ Place(t, i)' = NoEvent
      BY <1>3, <3>1, OfferPlace, LayerPlace, WayParts
    <3>3. offer[t] = NoEvent
      BY <3>1 DEF StateTypes, TypeOK
    <3>4. \A q \in Way(t) \ {i, i + 1} : Place(t, q)' = Place(t, q)
      BY <1>3, <1>7, <3>1, PlaceStays
    <3>5. Passed(t, i, e)
      BY <1>3, <1>5, <1>6 DEF PlacesInv
    <3>6. Passed(t, i + 1, e)
      BY <1>2, <1>5, <2>2, <3>5, SMT DEF Passed
    <3> QED
      BY <1>5, <3>2, <3>3, <3>4, <3>6
  <2> QED
    BY <1>2, <2>1, <2>2, SMT
<1> QED
  BY <1>1, <1>3, <1>5, <1>6, <1>8, WayShifts

LEMMA TakeWay ==
  ASSUME StateTypes, EndInv, WayInv, NEW t \in Types, Take(t), NEW u \in Types
  PROVE  PlacesInv(u)' /\ DueInv(u)' /\ (cancelled' \/ Complete(u)')
<1>1. /\ item = NoEvent /\ stream[t] = "send"
      /\ item' = offer[t]
      /\ offer' = [offer EXCEPT ![t] = NoEvent]
      /\ UNCHANGED <<chan, number, due, written, cancelled>>
  BY DEF Take, EndInv, LoopInv
<1>2. offer[t] \in EventOf(t) /\ offer \in [Types -> Events \cup {NoEvent}]
  BY <1>1 DEF StateTypes, TypeOK
<1>3. /\ offer[t] # NoEvent /\ offer[t].type = t /\ offer[t].number > 0
      /\ NoEvent.number = 0 /\ ~(NoEvent.number > 0)
  BY <1>2, EventFacts, SMT
<1>4. CASE u # t
  <2>1. Place(u, Last(u))' = Place(u, Last(u))
    BY <1>1, <1>3, <1>4, LastPlace
  <2>2. offer'[u] = offer[u]
    BY <1>1, <1>2, <1>4
  <2> QED
    BY <1>1, <2>1, <2>2, WayQuiet
<1>5. CASE u = t
  <2> DEFINE p == Layers[t] + 1
  <2>1. PlacesInv(t) /\ DueInv(t) /\ (cancelled \/ Complete(t))
    BY DEF WayInv
  <2>2. Place(t, p) = offer[t] /\ Place(t, p)' = offer'[t] /\ p \in Way(t) /\ offer'[t] = NoEvent
    BY <1>1, <1>2, OfferPlace, WayParts
  <2>3. p + 1 = Last(t) /\ Last(t) \in Way(t)
    <3>1. Layers[t] \in Nat /\ Last(t) \in Way(t)
      BY EventFacts, WayParts, Zenon
    <3> QED
      BY <3>1, SMT DEF Last
  <2>4. Place(t, p + 1) = NoEvent /\ Place(t, p + 1)' = offer[t]
    BY <1>1, <1>3, <2>3, LastPlace
  <2>5. \A q \in Way(t) \ {p, p + 1} : Place(t, q)' = Place(t, q)
    BY <1>1, <2>3, PlaceStays
  <2>6. Passed(t, p, offer[t])
    BY <1>3, <2>1, <2>2 DEF PlacesInv
  <2>7. Passed(t, p + 1, offer[t])
    BY <2>6, EventFacts, SMT DEF Passed
  <2> HIDE DEF p
  <2> QED
    BY <1>1, <1>3, <1>5, <2>1, <2>2, <2>3, <2>4, <2>5, <2>7, WayShifts
<1> QED
  BY <1>4, <1>5

(* The loop gives up its item.                                             *)
LEMMA ItemWay ==
  ASSUME StateTypes, EndInv, WayInv, Write, NEW u \in Types
  PROVE  PlacesInv(u)' /\ DueInv(u)' /\ (cancelled' \/ Complete(u)')
<1>1. /\ loop = "write" /\ item' = NoEvent
      /\ UNCHANGED <<chan, offer, number, due>>
  BY DEF Write, SkipUnknown, WriteItem, WriteFails
<1>2. item \in Events /\ item # NoEvent
  BY <1>1 DEF StateTypes, TypeOK, EndInv, LoopInv
<1>3. PICK t \in Types : item \in EventOf(t)
  BY <1>2 DEF Events
<1>4. /\ item.type = t /\ item.number > 0 /\ item.known \in BOOLEAN
      /\ NoEvent.number = 0 /\ ~(NoEvent.number > 0)
  BY <1>3, EventFacts, SMT
<1>5. CASE u # t
  <2>1. Place(u, Last(u))' = Place(u, Last(u))
    BY <1>1, <1>4, <1>5, LastPlace
  <2>2. cancelled' \/ (~cancelled /\ written'[u] = written[u]) \/ (cancelled /\ cancelled')
    BY <1>3, <1>4, <1>5 DEF Write, SkipUnknown, WriteItem, WriteFails, StateTypes, TypeOK
  <2> QED
    BY <1>1, <2>1, <2>2, WayQuiet
<1>6. CASE u = t
  <2>1. PlacesInv(t) /\ DueInv(t) /\ (cancelled \/ Complete(t))
    BY DEF WayInv
  <2>2. /\ Place(t, Last(t)) = item /\ Place(t, Last(t))' = NoEvent /\ Last(t) \in Way(t)
        /\ \A q \in Way(t) \ {Last(t)} : Place(t, q)' = Place(t, q)
    BY <1>1, <1>2, <1>4, LastPlace, WayParts, PlaceStays
  <2>3. CASE SkipUnknown
    <3>1. ~Due(t, item) /\ UNCHANGED <<written, cancelled>>
      BY <2>3 DEF SkipUnknown, Due
    <3> QED
      BY <1>1, <1>4, <1>6, <2>1, <2>2, <3>1, WayDrops
  <2>4. CASE WriteFails
    <3>1. cancelled' /\ UNCHANGED written
      BY <2>4 DEF WriteFails
    <3> QED
      BY <1>1, <1>4, <1>6, <2>1, <2>2, <3>1, WayDrops
  <2>5. CASE WriteItem
    <3>1. /\ item.known /\ written' = [written EXCEPT ![t] = Append(written[t], item.number)]
          /\ UNCHANGED cancelled
      BY <1>4, <2>5 DEF WriteItem
    <3>2. written'[t] = Append(written[t], item.number)
      BY <3>1 DEF StateTypes, TypeOK
    <3>3. Passed(t, Last(t), item)
      BY <1>4, <2>1, <2>2 DEF PlacesInv
    <3>4. Due(t, item)
      BY <1>4, <3>1, <3>3, EventFacts, SMT DEF Passed, Due, Last
    <3>5. Last(t) = Layers[t] + 2
      BY DEF Last
    <3> HIDE DEF Last
    <3> QED
      BY <1>1, <1>4, <1>6, <2>1, <2>2, <3>1, <3>2, <3>4, <3>5, WayLeaves
  <2> QED
    BY <2>3, <2>4, <2>5 DEF Write
<1> QED
  BY <1>5, <1>6

LEMMA WayStep ==
  ASSUME StateTypes, EndInv, WayInv, [Next]_vars
  PROVE  WayInv'
<1> SUFFICES ASSUME NEW u \in Types
             PROVE  PlacesInv(u)' /\ DueInv(u)' /\ (cancelled' \/ Complete(u)')
  BY DEF WayInv
<1>1. CASE UNCHANGED <<chan, offer, item, number, due, written>> /\ (cancelled' \/ ~cancelled)
  <2>1. Place(u, Last(u))' = Place(u, Last(u))
    BY <1>1, LastPlace
  <2> QED
    BY <1>1, <2>1, WayQuiet
<1>2. ASSUME \/ Refuse \/ Upgrade \/ CloseEvents \/ PingFails \/ Return \/ ClientLeaves
             \/ ReadFails \/ RequestDone \/ Terminated \/ UNCHANGED vars
      PROVE  UNCHANGED <<chan, offer, item, number, due, written>> /\ (cancelled' \/ ~cancelled)
  <2>1. chan' = chan /\ offer' = offer /\ item' = item /\ number' = number /\ due' = due /\ written' = written
    BY <1>2, Zenon DEF Refuse, Upgrade, CloseEvents, PingFails, Return, ClientLeaves, ReadFails,
                         RequestDone, Terminated, vars
  <2>2. cancelled' = cancelled \/ cancelled'
    BY <1>2, Zenon DEF Refuse, Upgrade, CloseEvents, PingFails, Return, ClientLeaves, ReadFails,
                         RequestDone, Terminated, vars
  <2> QED
    BY <2>1, <2>2, SMT
<1>3. ASSUME NEW t \in Types, StreamStep(t) \/ WatchCloses(t)
      PROVE  UNCHANGED <<chan, offer, item, number, due, written>> /\ (cancelled' \/ ~cancelled)
  <2>1. chan' = chan /\ offer' = offer /\ item' = item /\ number' = number /\ due' = due /\ written' = written
    BY <1>3, Zenon DEF StreamStep, WatchOpens, WatchFails, StreamEnds, WatchCloses
  <2>2. cancelled => cancelled'
    BY <1>3, Zenon DEF StreamStep, WatchOpens, WatchFails, StreamEnds, WatchCloses
  <2> QED
    BY <2>1, <2>2
<1>4. ASSUME NEW t \in Types, NEW known \in BOOLEAN, NEW n \in 0..Layers[t], WatchSends(t, known, n)
      PROVE  PlacesInv(u)' /\ DueInv(u)' /\ (cancelled' \/ Complete(u)')
  <2>1. CASE u = t
    BY <1>4, <2>1, WatchSendsWay
  <2>2. CASE u # t
    <3>1. /\ Receive(t, 1, NewEvent(t, known, n), chan[t]) /\ NewEvent(t, known, n) \in EventOf(t)
          /\ number'[u] = number[u] /\ due'[u] = due[u]
          /\ UNCHANGED <<item, written, cancelled>>
      BY <1>4, <2>2, WatchSendsEvent
    <3>2. chan[t] \in [1..Layers[t] -> Held(t)] /\ 1 \in 1..(Layers[t] + 1)
      BY EventFacts, SMT DEF StateTypes, TypeOK, Held
    <3>3. chan'[u] = chan[u] /\ offer'[u] = offer[u]
      BY <2>2, <3>1, <3>2, Received, Zenon
    <3>4. Place(u, Last(u))' = Place(u, Last(u))
      BY <3>1, LastPlace
    <3> QED
      BY <3>1, <3>3, <3>4, WayQuiet
  <2> QED
    BY <2>1, <2>2
<1>5. ASSUME NEW t \in Types, NEW i \in 1..Layers[t], ChanSends(t, i)
      PROVE  PlacesInv(u)' /\ DueInv(u)' /\ (cancelled' \/ Complete(u)')
  <2>1. CASE u = t
    BY <1>5, <2>1, ChanSendsWay
  <2>2. CASE u # t
    <3>1. /\ Receive(t, i + 1, chan[t][i], [chan[t] EXCEPT ![i] = NoEvent]) /\ chan[t][i] \in EventOf(t)
          /\ [chan[t] EXCEPT ![i] = NoEvent] \in [1..Layers[t] -> Held(t)]
          /\ UNCHANGED <<item, number, due, written, cancelled>>
      BY <1>5, ChanSendsEvent
    <3>2. i + 1 \in 1..(Layers[t] + 1)
      BY EventFacts, SMT
    <3>3. chan'[u] = chan[u] /\ offer'[u] = offer[u]
      BY <2>2, <3>1, <3>2, Received, Zenon
    <3>4. Place(u, Last(u))' = Place(u, Last(u))
      BY <3>1, LastPlace
    <3> QED
      BY <3>1, <3>3, <3>4, WayQuiet
  <2> QED
    BY <2>1, <2>2
<1>6. ASSUME NEW t \in Types, NEW i \in 1..Layers[t], ChanEnds(t, i)
      PROVE  PlacesInv(u)' /\ DueInv(u)' /\ (cancelled' \/ Complete(u)')
  <2>1. /\ chan[t][i] = NoEvent /\ chan' = [chan EXCEPT ![t] = [chan[t] EXCEPT ![i] = Over]]
        /\ UNCHANGED <<offer, item, number, due, written, cancelled>>
    BY <1>6 DEF ChanEnds
  <2>2. /\ chan[u] \in [1..Layers[u] -> Held(u)] /\ ~(NoEvent.number > 0) /\ ~(Over.number > 0)
        /\ \A p \in 1..Layers[u] : chan'[u][p] = chan[u][p] \/ (chan[u][p] = NoEvent /\ chan'[u][p] = Over)
    <3>1. /\ chan[u] \in [1..Layers[u] -> Held(u)] /\ chan \in [Types -> AllLayers]
          /\ ~(NoEvent.number > 0) /\ ~(Over.number > 0)
      BY EventFacts, SMT DEF StateTypes, TypeOK, Held
    <3>2. CASE u = t
      BY <2>1, <3>1, <3>2
    <3>3. CASE u # t
      BY <2>1, <3>1, <3>3
    <3> QED
      BY <3>1, <3>2, <3>3
  <2>3. \A p \in Way(u) : \/ Place(u, p)' = Place(u, p)
                          \/ ~(Place(u, p).number > 0) /\ ~(Place(u, p)'.number > 0)
    <3>1. UNCHANGED <<offer, item>>
      BY <2>1
    <3>2. Place(u, Last(u))' = Place(u, Last(u))
      BY <3>1, LastPlace
    <3>3. ASSUME NEW p \in Way(u)
          PROVE  \/ Place(u, p)' = Place(u, p)
                 \/ ~(Place(u, p).number > 0) /\ ~(Place(u, p)'.number > 0)
      <4>1. CASE p \in 1..Layers[u]
        <5>1. Place(u, p) = chan[u][p] /\ Place(u, p)' = chan'[u][p]
          BY <4>1, LayerPlace
        <5> QED
          BY <2>2, <4>1, <5>1, Zenon
      <4>2. CASE p \notin 1..Layers[u]
        BY <3>1, <3>2, <4>2, PlaceStays
      <4> QED
        BY <4>1, <4>2
    <3> QED
      BY <3>3
  <2>4. PlacesInv(u) /\ DueInv(u) /\ (cancelled \/ Complete(u))
    BY DEF WayInv
  <2> QED
    BY <2>1, <2>3, <2>4, WayStays
<1>7. ASSUME NEW t \in Types, Take(t)
      PROVE  PlacesInv(u)' /\ DueInv(u)' /\ (cancelled' \/ Complete(u)')
  BY <1>7, TakeWay
<1>8. CASE Write
  BY <1>8, ItemWay
<1> QED
  BY <1>1, <1>2, <1>3, <1>4, <1>5, <1>6, <1>7, <1>8 DEF Next, ChanStep

LEMMA SubscribeInit == Init => SubscribeInv
<1> SUFFICES ASSUME Init
             PROVE  SubscribeInv
  OBVIOUS
<1>1. StateTypes /\ EndInv
  BY EndInit
<1>2. ASSUME NEW t \in Types
      PROVE  PlacesInv(t) /\ DueInv(t) /\ Complete(t)
  <2>1. \A p \in Way(t) : ~(Place(t, p).number > 0)
    <3>1. /\ item = NoEvent /\ offer[t] = NoEvent /\ \A p \in 1..Layers[t] : chan[t][p] = NoEvent
          /\ ~(NoEvent.number > 0)
      BY EventFacts, SMT DEF Init
    <3> QED
      BY <3>1, LayerPlace, OfferPlace, LastPlace, WayParts, SMT
  <2>2. PlacesInv(t)
    BY <2>1 DEF PlacesInv
  <2>3. due[t] = <<>> /\ written[t] = <<>>
    BY DEF Init
  <2>4. DueInv(t)
    BY <2>3, SMT DEF DueInv
  <2>5. OnTheWay(t) = {}
    BY <2>1 DEF OnTheWay, Due
  <2>6. {due[t][i] : i \in (Len(written[t]) + 1)..Len(due[t])} = {}
    BY <2>3, SMT
  <2> QED
    BY <2>2, <2>3, <2>4, <2>5, <2>6, SMT DEF Complete
<1> QED
  BY <1>1, <1>2 DEF SubscribeInv, WayInv

LEMMA SubscribeInductive == SubscribeInv /\ [Next]_vars => SubscribeInv'
  BY TypesStep, EndStep, WayStep DEF SubscribeInv

(* Unless the context of the websocket is cancelled, what was written of   *)
(* each type, followed by what is on its way, is what the layers let pass. *)
THEOREM SubscriberMissesNothing == Spec => []GapEndsSubscription
<1>1. SubscribeInv => GapEndsSubscription
  BY DEF SubscribeInv, WayInv, GapEndsSubscription
<1> QED
  BY <1>1, SubscribeInit, SubscribeInductive, PTL DEF Spec
==============================================================================
