-------------------------- MODULE CharacterProofs ---------------------------
(***************************************************************************)
(* The proofs about what a map tells the client and about the characters   *)
(* that it shows there: the context protocols (MapContext) and the pool of *)
(* their GameObjects (InstPool).                                           *)
(***************************************************************************)
EXTENDS MapContext, InstPool, FiniteSetTheorems, TLAPS

-----------------------------------------------------------------------------
(***************************************************************************)
(* For maps of any size, any set of undecodable protocols and any number   *)
(* of messages under way: no context protocol is dispatched twice, they    *)
(* are dispatched in the order in which they arose, and none that was sent *)
(* is missing when all is read.                                            *)
(***************************************************************************)

(* What was dispatched is in the set that keeps it from being dispatched   *)
(* again.                                                                  *)
Remembered ==
    \A i \in Indices : times[i] <= 1 /\ (times[i] = 1 => i \in MapContexProtocolIndexSet)

(* No protocol up to this one stops the loop of a batch.                   *)
Decodable(i) == \A j \in Bad : i < j

Covers(m, i) == m = single(i) \/ \E n \in 0..Size : i < n /\ m = batch(n)

NoLeave(a, b) == \A l \in a..b : wire[l] # leave

(* The client will have protocol i in its set when it comes to read the    *)
(* k-th message under way.                                                 *)
KnownAt(k, i) ==
    \/ \E l \in 1..(k - 1) : Covers(wire[l], i) /\ NoLeave(l, k - 1)
    \/ NoLeave(1, k - 1) /\ i \in MapContexProtocolIndexSet

(* The set holds nothing else, once an SLeaveMap has emptied it.           *)
Recall == ~stale => \A i \in MapContexProtocolIndexSet \ Bad : times[i] = 1

Server == /\ told <= count
          /\ link = "down" => wire = <<>>
          /\ link = "up" => (left <=> \E k \in 1..Len(wire) : wire[k] = leave)

(* A single finds all the decodable ones before it known; so does the      *)
(* next one that the server sends.                                         *)
Sent ==
    /\ \A k \in 1..Len(wire) : \A i, d \in Indices :
           wire[k] = single(i) /\ d < i /\ Decodable(d) => KnownAt(k, d)
    /\ link = "up" =>
           \A d \in Indices : d < told /\ Decodable(d) => KnownAt(Len(wire) + 1, d)

(* The singles of one map are under way in order, below what was told.     *)
Sorted ==
    \A k, l \in 1..Len(wire) : \A i, j \in Indices :
        k < l /\ wire[k] = single(i) /\ wire[l] = single(j) /\ NoLeave(k, l) => i < j

BelowTold ==
    \A k \in 1..Len(wire) : \A i \in Indices :
        wire[k] = single(i) /\ NoLeave(k, Len(wire)) => i < told

(* What was dispatched left no decodable one behind, is behind no single   *)
(* that is under way for the same map, and was told of by the server one   *)
(* by one or in a batch.                                                   *)
NoGap == \A i, j \in Indices :
    times[j] = 1 /\ i < j /\ Decodable(i) => i \in MapContexProtocolIndexSet

Behind ==
    \A k \in 1..Len(wire) : \A i, j \in Indices :
        /\ wire[k] = single(i) /\ NoLeave(1, k) /\ i \notin Bad
        /\ times[j] = 1 /\ i < j
        => i \in MapContexProtocolIndexSet

Told == ~left => \A j \in Indices : times[j] = 1 => j < told \/ Decodable(j)

IInv == TypeOK /\ Remembered

(* What the order and the completeness rest on.                            *)
Order == /\ Recall /\ Server /\ Sent /\ Sorted /\ BelowTold
         /\ NoGap /\ Behind /\ Told

LEMMA InitIInv == Init => IInv
<1> SUFFICES ASSUME Init PROVE IInv
  OBVIOUS
<1>1. Size \in Nat
  BY MapContextAssumption
<1>2. times \in [Indices -> Nat] /\ \A i \in Indices : times[i] = 0
  BY DEF Init
<1>3. wire \in Seq(Message)
  BY DEF Init
<1>4. stale \in BOOLEAN /\ left \in BOOLEAN /\ link \in {"up", "down"}
      /\ MapContexProtocolIndexSet \subseteq Indices
  BY DEF Init
<1>6. count \in 0..Size /\ told \in 0..Size
  BY <1>1 DEF Init
<1>7. TypeOK
  BY <1>2, <1>3, <1>4, <1>6 DEF TypeOK
<1>5. Remembered
  BY <1>2 DEF Remembered
<1> QED
  BY <1>5, <1>7 DEF IInv

(* Dispatching what is not in the set yet, and recording it.               *)
LEMMA DispatchIInv ==
  ASSUME TypeOK, Remembered, NEW S \in SUBSET Indices, NEW R \in SUBSET Indices,
         S \subseteq R, S \cap MapContexProtocolIndexSet = {},
         times' = Dispatched(S),
         MapContexProtocolIndexSet' = MapContexProtocolIndexSet \cup R
  PROVE  /\ Remembered'
         /\ times' \in [Indices -> Nat]
         /\ MapContexProtocolIndexSet' \subseteq Indices
<1>1. \A i \in Indices : times[i] \in {0, 1}
  BY DEF TypeOK, Remembered
<1>2. times' \in [Indices -> Nat]
  BY DEF Dispatched, TypeOK
<1>3. \A i \in Indices : times'[i] = IF i \in S THEN times[i] + 1 ELSE times[i]
  BY DEF Dispatched
<1>4. \A i \in S : times[i] = 0
  BY <1>1 DEF Remembered
<1> QED
  BY <1>1, <1>2, <1>3, <1>4 DEF Remembered, TypeOK

LEMMA WiredSeq ==
  ASSUME TypeOK, NEW s \in Seq(Message)
  PROVE  Wired(s) \in Seq(Message)
  BY DEF TypeOK, Wired

LEMMA Messages ==
  /\ \A i \in Indices : single(i) \in Message
  /\ \A n \in 0..Size : batch(n) \in Message
  /\ leave \in Message
  BY DEF Message, single, batch, leave

LEMMA ReceivesType ==
  ASSUME TypeOK, NEW m, Receives(m)
  PROVE  wire' \in Seq(Message) /\ UNCHANGED <<count, told, link>>
  BY DEF Receives, TypeOK

LEMMA NextIInv == IInv /\ [Next]_vars => IInv'
<1> SUFFICES ASSUME IInv, [Next]_vars PROVE IInv'
  OBVIOUS
<1> USE DEF IInv
<1>1. CASE Arises
  BY <1>1, MapContextAssumption DEF Arises, TypeOK, Remembered
<1>2. CASE Broadcast
  <2>1. <<single(told)>> \in Seq(Message)
    BY <1>2, Messages, MapContextAssumption DEF Broadcast, TypeOK, Indices
  <2>2. wire' \in Seq(Message)
    BY <1>2, <2>1, WiredSeq DEF Broadcast
  <2> QED
    BY <1>2, <2>2, MapContextAssumption DEF Broadcast, TypeOK, Remembered
<1>3. ASSUME NEW n \in 0..Size, Enters(n) PROVE IInv'
  <2>1. leave \in Message /\ batch(n) \in Message
    BY Messages
  <2>2. <<leave, batch(n)>> \in Seq(Message)
    BY <2>1
  <2>3. wire' \in Seq(Message)
    BY <1>3, <2>2, WiredSeq DEF Enters
  <2> QED
    BY <1>3, <2>3 DEF Enters, TypeOK, Remembered
<1>4. CASE Drop
  BY <1>4 DEF Drop, TypeOK, Remembered
<1>5. CASE Relogin
  <2>1. batch(count) \in Message /\ leave \in Message
    BY Messages DEF TypeOK
  <2>2. wire' \in Seq(Message)
    BY <1>5, <2>1 DEF Relogin
  <2> QED
    BY <1>5, <2>2 DEF Relogin, TypeOK, Remembered
<1>6. ASSUME NEW n \in 0..Size, RoleLogin(n) PROVE IInv'
  <2>1. wire' \in Seq(Message)
    BY <1>6, Messages DEF RoleLogin
  <2>2. stale' \in BOOLEAN
    BY <1>6 DEF RoleLogin
  <2>3. times' \in [Indices -> Nat] /\ Remembered'
    BY <1>6 DEF RoleLogin, Remembered
  <2> QED
    BY <1>6, <2>1, <2>2, <2>3 DEF RoleLogin, TypeOK
<1>7. ASSUME NEW i \in Indices, onmsg_MapContexProtocol(i) PROVE IInv'
  <2>1. wire' \in Seq(Message) /\ UNCHANGED <<count, told, link, stale, left>>
    BY <1>7, ReceivesType DEF onmsg_MapContexProtocol
  <2>2. CASE Fresh(i)
    <3> DEFINE S == {i} \ Bad
    <3>0. /\ S \in SUBSET Indices /\ {i} \in SUBSET Indices /\ S \subseteq {i}
          /\ S \cap MapContexProtocolIndexSet = {}
          /\ times' = Dispatched(S)
          /\ MapContexProtocolIndexSet' = MapContexProtocolIndexSet \cup {i}
      BY <1>7, <2>2 DEF onmsg_MapContexProtocol, Fresh
    <3> HIDE DEF S
    <3>1. /\ Remembered'
          /\ times' \in [Indices -> Nat]
          /\ MapContexProtocolIndexSet' \subseteq Indices
      BY <3>0, DispatchIInv
    <3> QED
      BY <2>1, <3>1 DEF TypeOK
  <2>3. CASE ~Fresh(i)
    BY <1>7, <2>1, <2>3 DEF onmsg_MapContexProtocol, TypeOK, Remembered
  <2> QED
    BY <2>2, <2>3
<1>8. ASSUME NEW n \in 0..Size, onmsg_MapContexProtocols(n) PROVE IInv'
  <2> DEFINE new == Decoded(n) \ MapContexProtocolIndexSet
  <2>1. wire' \in Seq(Message) /\ UNCHANGED <<count, told, link, stale, left>>
    BY <1>8, ReceivesType DEF onmsg_MapContexProtocols
  <2>2. new \subseteq Indices
    BY MapContextAssumption DEF Decoded, Indices
  <2>3. /\ Remembered'
        /\ times' \in [Indices -> Nat]
        /\ MapContexProtocolIndexSet' \subseteq Indices
    BY <1>8, <2>2, DispatchIInv DEF onmsg_MapContexProtocols, Recorded
  <2> QED
    BY <2>1, <2>3 DEF TypeOK
<1>9. CASE onmsg_SLeaveMap
  <2>1. wire' \in Seq(Message) /\ UNCHANGED <<count, told, link>>
    BY <1>9, ReceivesType DEF onmsg_SLeaveMap
  <2>2. left' \in BOOLEAN /\ stale' \in BOOLEAN
    <3>1. (\E i \in 2..Len(wire) : wire[i] = leave) \in BOOLEAN
      OBVIOUS
    <3>2. /\ left' = (\E i \in 2..Len(wire) : wire[i] = leave)
          /\ stale' = FALSE
      BY <1>9, Zenon DEF onmsg_SLeaveMap
    <3> QED
      BY <3>1, <3>2, Zenon
  <2>3. MapContexProtocolIndexSet' = {} /\ times' = [i \in Indices |-> 0]
    BY <1>9 DEF onmsg_SLeaveMap, Cleared
  <2>4. Remembered'
    BY <2>3 DEF Remembered
  <2> QED
    BY <2>1, <2>2, <2>3, <2>4 DEF TypeOK
<1>10. CASE UNCHANGED vars
  BY <1>10 DEF vars, TypeOK, Remembered
<1> QED
  BY <1>1, <1>2, <1>3, <1>4, <1>5, <1>6, <1>7, <1>8, <1>9, <1>10 DEF Next

(* What was dispatched is remembered, and was dispatched once.             *)
THEOREM Inductive == Spec => []IInv
  BY InitIInv, NextIInv, PTL DEF Spec

(* Singles and batches may overlap in any way: no protocol of a map is     *)
(* dispatched twice.                                                       *)
THEOREM AtMostOnceAlways == Spec => []AtMostOnce
<1>1. IInv => AtMostOnce
  BY DEF IInv, Remembered, AtMostOnce
<1> QED
  BY <1>1, Inductive, PTL
-----------------------------------------------------------------------------
(***************************************************************************)
(* Messages and the sequence under way.                                    *)
(***************************************************************************)
LEMMA Distinct ==
  /\ \A i : single(i) # leave
  /\ \A n : batch(n) # leave
  /\ \A i, n : single(i) # batch(n)
  /\ \A i, j : single(i) = single(j) => i = j
  /\ \A n, m : batch(n) = batch(m) => n = m
<1>1. \A i : single(i).type = "MapContexProtocol" /\ single(i).index = i
  BY DEF single
<1>2. \A n : batch(n).type = "MapContexProtocols" /\ batch(n).count = n
  BY DEF batch
<1>3. leave.type = "SLeaveMap"
  BY DEF leave
<1>4. /\ "MapContexProtocol" # "SLeaveMap" /\ "MapContexProtocols" # "SLeaveMap"
      /\ "MapContexProtocol" # "MapContexProtocols"
  OBVIOUS
<1>5. \A i : single(i) # leave
  BY <1>1, <1>3, <1>4
<1>6. \A n : batch(n) # leave
  BY <1>2, <1>3, <1>4
<1>7. \A i, n : single(i) # batch(n)
  BY <1>1, <1>2, <1>4
<1>8. \A i, j : single(i) = single(j) => i = j
  BY <1>1
<1>9. \A n, m : batch(n) = batch(m) => n = m
  BY <1>2
<1> QED
  BY <1>5, <1>6, <1>7, <1>8, <1>9

LEMMA TailFacts ==
  ASSUME TypeOK, NEW m, Receives(m)
  PROVE  /\ Len(wire) \in Nat /\ Len(wire) >= 1
         /\ Len(wire') = Len(wire) - 1
         /\ wire[1] = m
         /\ \A k \in 1..Len(wire') : wire'[k] = wire[k + 1]
  BY DEF Receives, TypeOK

LEMMA AppendFacts ==
  ASSUME TypeOK, NEW s \in Seq(Message), wire' = wire \o s
  PROVE  /\ Len(wire) \in Nat /\ Len(s) \in Nat
         /\ Len(wire') = Len(wire) + Len(s)
         /\ \A k \in 1..Len(wire) : wire'[k] = wire[k]
         /\ \A k \in 1..Len(s) : wire'[Len(wire) + k] = s[k]
  BY DEF TypeOK

LEMMA InitOrder == Init => Order
<1> SUFFICES ASSUME Init PROVE Order
  OBVIOUS
<1>1. /\ wire = <<>> /\ Len(wire) = 0 /\ told = 0 /\ count = 0 /\ left = FALSE
      /\ MapContexProtocolIndexSet = {}
      /\ \A i \in Indices : times[i] = 0
  BY DEF Init
<1>2. Recall /\ Server
  BY <1>1 DEF Recall, Server
<1>3. Sent /\ Sorted /\ BelowTold
  BY <1>1, MapContextAssumption DEF Sent, Sorted, BelowTold, Indices
<1>4. NoGap /\ Behind /\ Told
  BY <1>1 DEF NoGap, Behind, Told
<1> QED
  BY <1>2, <1>3, <1>4 DEF Order

(* A step after which nothing is under way, and which leaves the client as *)
(* it was, but for the number of the protocols of the map.                 *)
LEMMA SameOrder ==
  ASSUME TypeOK, Order,
         UNCHANGED <<MapContexProtocolIndexSet, times, stale, told, left, link, wire>>,
         told <= count'
  PROVE  Order'
<1>1. Recall' /\ Server' /\ Told' /\ NoGap'
  BY DEF Order, Recall, Server, Told, NoGap, Decodable
<1>2. \A a, b : NoLeave(a, b)' <=> NoLeave(a, b)
  BY DEF NoLeave
<1>3. \A k, i : KnownAt(k, i)' <=> KnownAt(k, i)
  BY <1>2 DEF KnownAt, Covers
<1>4. Sent'
  BY <1>3 DEF Order, Sent
<1>5. Sorted' /\ BelowTold' /\ Behind'
  BY <1>2 DEF Order, Sorted, BelowTold, Behind
<1> QED
  BY <1>1, <1>4, <1>5 DEF Order

(* The server sends the next protocol.                                     *)
LEMMA BroadcastOrder ==
  ASSUME IInv, Order, Broadcast
  PROVE  Order'
<1> USE DEF IInv
<1>0. /\ told \in Indices /\ told < count /\ told' = told + 1 /\ told \in Int /\ count \in Int
      /\ UNCHANGED <<MapContexProtocolIndexSet, times, stale, count, left, link>>
  BY MapContextAssumption DEF Broadcast, TypeOK, Indices
<1>1. Recall' /\ NoGap'
  BY <1>0 DEF Order, Recall, NoGap, Decodable
<1>2. Told'
  BY <1>0 DEF Order, Told, Decodable, Indices
<1>3. CASE link # "up"
  <2>1. link = "down" /\ wire = <<>> /\ wire' = wire
    BY <1>3 DEF TypeOK, Order, Server, Broadcast, Wired
  <2>2. Server'
    BY <1>0, <2>1 DEF Order, Server
  <2>3. Sent' /\ Sorted' /\ BelowTold' /\ Behind'
    BY <1>0, <2>1 DEF Sent, Sorted, BelowTold, Behind
  <2> QED
    BY <1>1, <1>2, <2>2, <2>3 DEF Order
<1>4. CASE link = "up"
  <2> PICK L \in Nat : L = Len(wire)
    BY DEF TypeOK
  <2>0. wire' = wire \o <<single(told)>> /\ <<single(told)>> \in Seq(Message)
    BY <1>0, <1>4, Messages DEF Broadcast, Wired
  <2>1. /\ L \in Nat /\ Len(wire') = L + 1
        /\ \A k \in 1..L : wire'[k] = wire[k]
        /\ wire'[L + 1] = single(told)
    BY <2>0, AppendFacts
  <2>2. \A k \in 1..(L + 1) : wire'[k] = leave => k \in 1..L
    BY <2>1, Distinct
  <2>3. Server'
    BY <1>0, <1>4, <2>1, <2>2 DEF Order, Server
  <2>4. \A a, b \in Int : a >= 1 /\ b <= L => (NoLeave(a, b)' <=> NoLeave(a, b))
    BY <2>1 DEF NoLeave
  <2>5. \A a \in Int : a >= 1 => (NoLeave(a, L + 1)' <=> NoLeave(a, L))
    BY <2>1, <2>2 DEF NoLeave
  <2>6. \A k \in 1..(L + 1), d \in Indices : KnownAt(k, d) => KnownAt(k, d)'
    <3> SUFFICES ASSUME NEW k \in 1..(L + 1), NEW d \in Indices, KnownAt(k, d)
                 PROVE  KnownAt(k, d)'
      OBVIOUS
    <3>1. CASE NoLeave(1, k - 1) /\ d \in MapContexProtocolIndexSet
      BY <1>0, <2>1, <2>4, <3>1 DEF KnownAt
    <3>2. ASSUME NEW l \in 1..(k - 1), Covers(wire[l], d), NoLeave(l, k - 1)
          PROVE  KnownAt(k, d)'
      <4>1. wire'[l] = wire[l]  BY <2>1, <3>2
      <4>2. Covers(wire[l], d)'  BY <3>2, <4>1 DEF Covers
      <4>3. NoLeave(l, k - 1)'  BY <2>1, <2>4, <3>2
      <4> QED  BY <4>2, <4>3 DEF KnownAt
    <3> QED
      BY <3>1, <3>2 DEF KnownAt
  <2>7. \A d \in Indices : d < told /\ Decodable(d) => KnownAt(L + 1, d)
    BY <1>4 DEF Order, Sent
  <2>8. Sent'
    <3>1. ASSUME NEW k \in 1..Len(wire'), NEW i \in Indices, NEW d \in Indices,
                 wire'[k] = single(i), d < i, Decodable(d)
          PROVE  KnownAt(k, d)'
      <4>1. CASE k \in 1..L
        BY <2>1, <2>6, <3>1, <4>1 DEF Order, Sent
      <4>2. CASE k = L + 1
        <5>1. i = told  BY <2>1, <3>1, <4>2, Distinct
        <5> QED  BY <2>1, <2>6, <2>7, <3>1, <4>2, <5>1
      <4> QED  BY <2>1, <4>1, <4>2
    <3>2. ASSUME NEW d \in Indices, d < told', Decodable(d)
          PROVE  KnownAt(L + 2, d)'
      <4>1. CASE d = told
        <5>1. Covers(wire[L + 1], d)' /\ NoLeave(L + 1, L + 1)'
          BY <2>1, <4>1, Distinct DEF Covers, NoLeave
        <5> QED  BY <2>1, <5>1 DEF KnownAt
      <4>2. CASE d # told
        <5>0. d < told  BY <1>0, <3>2, <4>2 DEF Indices
        <5>1. KnownAt(L + 1, d)'  BY <2>1, <2>6, <2>7, <3>2, <5>0
        <5>2. \A a \in Int : a >= 1 /\ NoLeave(a, L)' => NoLeave(a, L + 1)'
          BY <2>1, <2>4, <2>5
        <5> QED  BY <2>1, <5>1, <5>2 DEF KnownAt
      <4> QED  BY <4>1, <4>2
    <3>3. (Len(wire) + 1)' = L + 2
      BY <2>1
    <3> QED
      BY <1>0, <3>1, <3>2, <3>3 DEF Sent, Decodable
  <2>9. BelowTold'
    <3> SUFFICES ASSUME NEW k \in 1..(L + 1), NEW i \in Indices,
                        wire'[k] = single(i), NoLeave(k, L + 1)'
                 PROVE  i < told + 1
      BY <1>0, <2>1 DEF BelowTold
    <3>1. CASE k \in 1..L
      <4>1. i < told  BY <2>1, <2>5, <3>1 DEF Order, BelowTold
      <4> QED  BY <1>0, <4>1 DEF Indices
    <3>2. CASE k = L + 1
      BY <1>0, <2>1, <3>2, Distinct
    <3> QED  BY <2>1, <3>1, <3>2
  <2>10. Sorted'
    <3> SUFFICES ASSUME NEW k \in 1..(L + 1), NEW l \in 1..(L + 1),
                        NEW i \in Indices, NEW j \in Indices, k < l,
                        wire'[k] = single(i), wire'[l] = single(j), NoLeave(k, l)'
                 PROVE  i < j
      BY <2>1 DEF Sorted
    <3>1. k \in 1..L /\ wire[k] = single(i)  BY <2>1
    <3>2. CASE l \in 1..L
      BY <2>1, <2>4, <3>1, <3>2 DEF Order, Sorted
    <3>3. CASE l = L + 1
      <4>1. j = told  BY <2>1, <3>3, Distinct
      <4>2. i < told  BY <2>1, <2>5, <3>1, <3>3 DEF Order, BelowTold
      <4> QED  BY <4>1, <4>2
    <3> QED  BY <2>1, <3>2, <3>3
  <2>11. Behind'
    <3> SUFFICES ASSUME NEW k \in 1..(L + 1), NEW i \in Indices, NEW j \in Indices,
                        wire'[k] = single(i), NoLeave(1, k)', i \notin Bad,
                        times[j] = 1, i < j
                 PROVE  i \in MapContexProtocolIndexSet
      BY <1>0, <2>1 DEF Behind
    <3>1. CASE k \in 1..L
      BY <2>1, <2>4, <3>1 DEF Order, Behind
    <3>2. CASE k = L + 1
      <4>1. i = told  BY <2>1, <3>2, Distinct
      <4>2. NoLeave(1, L)  BY <2>5, <3>2
      <4>3. ~left  BY <1>4, <4>2 DEF Order, Server, NoLeave
      <4>4. j < told \/ Decodable(j)  BY <4>3 DEF Order, Told
      <4>5. Decodable(j)  BY <1>0, <4>1, <4>4 DEF Indices
      <4>6. Decodable(i)  BY <4>5, MapContextAssumption DEF Decodable, Indices
      <4> QED  BY <4>6 DEF Order, NoGap
    <3> QED  BY <2>1, <3>1, <3>2
  <2> QED
    BY <1>1, <1>2, <2>3, <2>8, <2>9, <2>10, <2>11 DEF Order
<1> QED
  BY <1>3, <1>4

(* Another map: the SLeaveMap goes before its protocols.                   *)
LEMMA EntersOrder ==
  ASSUME IInv, Order, NEW n \in 0..Size, Enters(n)
  PROVE  Order'
<1> USE DEF IInv
<1>0. /\ told' = n /\ count' = n /\ left' = TRUE /\ n \in Int
      /\ UNCHANGED <<MapContexProtocolIndexSet, times, stale, link>>
  BY MapContextAssumption DEF Enters
<1>1. Recall' /\ NoGap' /\ Told'
  BY <1>0 DEF Order, Recall, NoGap, Told, Decodable
<1>2. CASE link # "up"
  <2>1. link = "down" /\ wire = <<>> /\ wire' = wire
    BY <1>2 DEF TypeOK, Order, Server, Enters, Wired
  <2>2. Server' /\ Sent' /\ Sorted' /\ BelowTold' /\ Behind'
    BY <1>0, <2>1 DEF Server, Sent, Sorted, BelowTold, Behind
  <2> QED
    BY <1>1, <2>2 DEF Order
<1>3. CASE link = "up"
  <2> PICK L \in Nat : L = Len(wire)
    BY DEF TypeOK
  <2>0. wire' = wire \o <<leave, batch(n)>> /\ <<leave, batch(n)>> \in Seq(Message)
    BY <1>0, <1>3, Messages DEF Enters, Wired
  <2>1. /\ Len(wire') = L + 2
        /\ \A k \in 1..L : wire'[k] = wire[k]
        /\ wire'[L + 1] = leave /\ wire'[L + 2] = batch(n)
    BY <2>0, AppendFacts
  <2>2. \A k \in 1..(L + 2), i \in Indices : wire'[k] = single(i) => k \in 1..L
    <3> SUFFICES ASSUME NEW k \in 1..(L + 2), k \notin 1..L, NEW i \in Indices
                 PROVE  wire'[k] # single(i)
      OBVIOUS
    <3>1. k = L + 1 \/ k = L + 2  OBVIOUS
    <3> QED  BY <2>1, <3>1, Distinct
  <2>3. Server'
    BY <1>0, <1>3, <2>1 DEF Server
  <2>4. \A a, b \in Int : a >= 1 /\ b <= L => (NoLeave(a, b)' <=> NoLeave(a, b))
    BY <2>1 DEF NoLeave
  <2>5. \A k \in 1..L, d \in Indices : KnownAt(k, d) => KnownAt(k, d)'
    <3> SUFFICES ASSUME NEW k \in 1..L, NEW d \in Indices, KnownAt(k, d)
                 PROVE  KnownAt(k, d)'
      OBVIOUS
    <3>1. CASE NoLeave(1, k - 1) /\ d \in MapContexProtocolIndexSet
      BY <1>0, <2>1, <2>4, <3>1 DEF KnownAt
    <3>2. ASSUME NEW l \in 1..(k - 1), Covers(wire[l], d), NoLeave(l, k - 1)
          PROVE  KnownAt(k, d)'
      <4>1. wire'[l] = wire[l]  BY <2>1, <3>2
      <4>2. Covers(wire[l], d)'  BY <3>2, <4>1 DEF Covers
      <4>3. NoLeave(l, k - 1)'  BY <2>1, <2>4, <3>2
      <4> QED  BY <4>2, <4>3 DEF KnownAt
    <3> QED
      BY <3>1, <3>2 DEF KnownAt
  <2>6. Sent'
    <3>1. ASSUME NEW k \in 1..Len(wire'), NEW i \in Indices, NEW d \in Indices,
                 wire'[k] = single(i), d < i, Decodable(d)
          PROVE  KnownAt(k, d)'
      <4>1. k \in 1..L  BY <2>1, <2>2, <3>1
      <4> QED
        BY <2>1, <2>5, <3>1, <4>1 DEF Order, Sent
    <3>2. ASSUME NEW d \in Indices, d < n
          PROVE  KnownAt(L + 3, d)'
      <4>1. Covers(wire[L + 2], d)' /\ NoLeave(L + 2, L + 2)'
        BY <2>1, <3>2, Distinct DEF Covers, NoLeave
      <4> QED  BY <4>1 DEF KnownAt
    <3>3. (Len(wire) + 1)' = L + 3
      BY <2>1
    <3> QED
      BY <1>0, <3>1, <3>2, <3>3 DEF Sent, Decodable
  <2>7. BelowTold'
    <3> SUFFICES ASSUME NEW k \in 1..(L + 2), NEW i \in Indices,
                        wire'[k] = single(i), NoLeave(k, L + 2)'
                 PROVE  FALSE
      BY <2>1 DEF BelowTold
    <3>1. k \in 1..L  BY <2>2
    <3> QED  BY <2>1, <3>1 DEF NoLeave
  <2>8. Sorted'
    <3> SUFFICES ASSUME NEW k \in 1..(L + 2), NEW l \in 1..(L + 2),
                        NEW i \in Indices, NEW j \in Indices, k < l,
                        wire'[k] = single(i), wire'[l] = single(j), NoLeave(k, l)'
                 PROVE  i < j
      BY <2>1 DEF Sorted
    <3>1. k \in 1..L /\ l \in 1..L  BY <2>2
    <3> QED  BY <2>1, <2>4, <3>1 DEF Order, Sorted
  <2>9. Behind'
    <3> SUFFICES ASSUME NEW k \in 1..(L + 2), NEW i \in Indices, NEW j \in Indices,
                        wire'[k] = single(i), NoLeave(1, k)', i \notin Bad,
                        times[j] = 1, i < j
                 PROVE  i \in MapContexProtocolIndexSet
      BY <1>0, <2>1 DEF Behind
    <3>1. k \in 1..L  BY <2>2
    <3> QED  BY <2>1, <2>4, <3>1 DEF Order, Behind
  <2> QED
    BY <1>1, <2>3, <2>6, <2>7, <2>8, <2>9 DEF Order
<1> QED
  BY <1>2, <1>3

LEMMA DropOrder ==
  ASSUME IInv, Order, Drop
  PROVE  Order'
<1>0. /\ wire' = <<>> /\ Len(wire') = 0 /\ link' = "down"
      /\ UNCHANGED <<MapContexProtocolIndexSet, times, stale, count, told, left>>
  BY DEF Drop
<1>1. Recall' /\ NoGap' /\ Told' /\ Server'
  BY <1>0 DEF Order, Recall, NoGap, Told, Decodable, Server
<1>2. Sent' /\ Sorted' /\ BelowTold' /\ Behind'
  BY <1>0 DEF Sent, Sorted, BelowTold, Behind
<1> QED
  BY <1>1, <1>2 DEF Order

(* A new connection starts with all protocols of the map in one batch.     *)
LEMMA FreshWire ==
  ASSUME Size \in Nat, NEW n \in 0..Size, wire' = <<batch(n)>> \/ wire' = <<leave, batch(n)>>,
         told' \in Nat, told' <= n
  PROVE  Sent' /\ Sorted' /\ BelowTold' /\ Behind'
<1> PICK L \in {1, 2} : /\ Len(wire') = L /\ wire'[L] = batch(n)
                        /\ L = 2 => wire'[1] = leave
  OBVIOUS
<1>1. \A k \in 1..L : \A i \in Indices : wire'[k] # single(i)
  <2> SUFFICES ASSUME NEW k \in 1..L, NEW i \in Indices, wire'[k] = single(i)
               PROVE  FALSE
    OBVIOUS
  <2>1. k = L \/ (L = 2 /\ k = 1)  OBVIOUS
  <2> QED  BY <2>1, Distinct
<1>2. Sorted' /\ BelowTold' /\ Behind'
  BY <1>1 DEF Sorted, BelowTold, Behind
<1>3. \A d \in Indices : d < told' => KnownAt(L + 1, d)'
  <2> SUFFICES ASSUME NEW d \in Indices, d < told'
               PROVE  KnownAt(L + 1, d)'
    OBVIOUS
  <2>0. d < n  BY DEF Indices
  <2>1. Covers(wire[L], d)' /\ NoLeave(L, L)'
    BY <2>0, Distinct DEF Covers, NoLeave
  <2> QED  BY <2>1 DEF KnownAt
<1>4. (Len(wire) + 1)' = L + 1
  OBVIOUS
<1>5. Sent'
  BY <1>1, <1>3, <1>4 DEF Sent
<1> QED
  BY <1>2, <1>5

LEMMA ReloginOrder ==
  ASSUME IInv, Order, Relogin
  PROVE  Order'
<1>0. /\ link' = "up"
      /\ UNCHANGED <<MapContexProtocolIndexSet, times, stale, count, told, left>>
      /\ wire' = IF left THEN <<leave, batch(count)>> ELSE <<batch(count)>>
  BY DEF Relogin
<1>1. Recall' /\ NoGap' /\ Told'
  BY <1>0 DEF Order, Recall, NoGap, Told, Decodable
<1>2. told' \in Nat /\ count \in 0..Size /\ told' <= count
  BY <1>0, MapContextAssumption DEF IInv, TypeOK, Order, Server
<1>3. Sent' /\ Sorted' /\ BelowTold' /\ Behind'
  BY <1>0, <1>2, FreshWire, MapContextAssumption
<1>4. Server'
  <2>1. CASE left
    <3>1. Len(wire') = 2 /\ wire'[1] = leave  BY <1>0, <2>1
    <3> QED  BY <1>0, <2>1, <3>1 DEF Server, Order
  <2>2. CASE ~left
    <3>1. Len(wire') = 1 /\ wire'[1] # leave  BY <1>0, <2>2, Distinct
    <3>2. \A k \in 1..Len(wire') : wire'[k] # leave  BY <3>1
    <3> QED  BY <1>0, <2>2, <3>2 DEF Server, Order
  <2> QED  BY <2>1, <2>2
<1> QED
  BY <1>1, <1>3, <1>4 DEF Order

(* Another role finds the set of the last one, but none of its dispatches. *)
LEMMA RoleLoginOrder ==
  ASSUME IInv, Order, NEW n \in 0..Size, RoleLogin(n)
  PROVE  Order'
<1>0. /\ link' = "up" /\ left' = FALSE /\ told' = n /\ count' = n
      /\ stale' = (MapContexProtocolIndexSet # {})
      /\ MapContexProtocolIndexSet' = MapContexProtocolIndexSet
      /\ wire' = <<batch(n)>>
      /\ \A i \in Indices : times'[i] = 0
  BY DEF RoleLogin
<1>1. Recall' /\ NoGap' /\ Told'
  <2>1. ~stale' => MapContexProtocolIndexSet' = {}
    BY <1>0, Zenon
  <2> QED
    BY <1>0, <2>1 DEF Recall, NoGap, Told
<1>2. Sent' /\ Sorted' /\ BelowTold' /\ Behind'
  <2>1. told' \in Nat /\ told' <= n  BY <1>0, MapContextAssumption
  <2> QED  BY <1>0, <2>1, FreshWire, MapContextAssumption
<1>3. Server'
  <2>1. Len(wire') = 1 /\ wire'[1] # leave  BY <1>0, Distinct
  <2>2. \A k \in 1..Len(wire') : wire'[k] # leave  BY <2>1
  <2> QED  BY <1>0, <2>2, MapContextAssumption DEF Server
<1> QED
  BY <1>1, <1>2, <1>3 DEF Order

(* What taking the first message off leaves as it was.                     *)
LEMMA TailOrder ==
  ASSUME IInv, Order, NEW m, Receives(m)
  PROVE  /\ \A a, b \in Int : a >= 1 /\ b <= Len(wire') =>
                (NoLeave(a, b)' <=> NoLeave(a + 1, b + 1))
         /\ link = "up"
         /\ Sorted' /\ BelowTold'
<1> USE DEF IInv
<1> PICK L \in Nat : L = Len(wire')
  BY TailFacts
<1>0. /\ Len(wire) = L + 1 /\ wire[1] = m
      /\ \A k \in 1..L : wire'[k] = wire[k + 1]
      /\ told' = told
  BY TailFacts DEF Receives
<1>1. \A a, b \in Int : a >= 1 /\ b <= L => (NoLeave(a, b)' <=> NoLeave(a + 1, b + 1))
  <2> SUFFICES ASSUME NEW a \in Int, NEW b \in Int, a >= 1, b <= L
               PROVE  NoLeave(a, b)' <=> NoLeave(a + 1, b + 1)
    OBVIOUS
  <2>1. ASSUME NoLeave(a, b)', NEW k \in (a + 1)..(b + 1)
        PROVE  wire[k] # leave
    <3>1. k - 1 \in a..b /\ k - 1 \in 1..L /\ (k - 1) + 1 = k  OBVIOUS
    <3> QED  BY <1>0, <2>1, <3>1 DEF NoLeave
  <2>2. ASSUME NoLeave(a + 1, b + 1), NEW k \in a..b
        PROVE  wire'[k] # leave
    <3>1. k + 1 \in (a + 1)..(b + 1) /\ k \in 1..L  OBVIOUS
    <3> QED  BY <1>0, <2>2, <3>1 DEF NoLeave
  <2> QED
    BY <2>1, <2>2 DEF NoLeave
<1>2. link = "up"
  <2>1. wire # <<>>  BY DEF Receives
  <2> QED  BY <2>1 DEF TypeOK, Order, Server
<1>3. Sorted'
  <2> SUFFICES ASSUME NEW k \in 1..L, NEW l \in 1..L, NEW i \in Indices, NEW j \in Indices,
                      k < l, wire'[k] = single(i), wire'[l] = single(j), NoLeave(k, l)'
               PROVE  i < j
    BY <1>0 DEF Sorted
  <2>1. NoLeave(k + 1, l + 1)  BY <1>1
  <2>2. wire[k + 1] = single(i) /\ wire[l + 1] = single(j)  BY <1>0
  <2>3. k + 1 \in 1..Len(wire) /\ l + 1 \in 1..Len(wire) /\ k + 1 < l + 1  BY <1>0
  <2> QED  BY <2>1, <2>2, <2>3 DEF Order, Sorted
<1>4. BelowTold'
  <2> SUFFICES ASSUME NEW k \in 1..L, NEW i \in Indices,
                      wire'[k] = single(i), NoLeave(k, L)'
               PROVE  i < told
    BY <1>0 DEF BelowTold
  <2>1. NoLeave(k + 1, Len(wire))  BY <1>0, <1>1
  <2>2. wire[k + 1] = single(i) /\ k + 1 \in 1..Len(wire)  BY <1>0
  <2> QED  BY <2>1, <2>2 DEF Order, BelowTold
<1> QED
  BY <1>1, <1>2, <1>3, <1>4

(* A single and a batch do the same: they record what is new of what they  *)
(* cover, and dispatch it unless it cannot be decoded.  What is dispatched *)
(* comes after all that was dispatched before.                             *)
LEMMA DispatchOrder ==
  ASSUME IInv, Order, NEW m, Receives(m), m # leave, NEW S \in SUBSET Indices,
         S = (MapContexProtocolIndexSet' \ MapContexProtocolIndexSet) \ Bad,
         MapContexProtocolIndexSet \subseteq MapContexProtocolIndexSet',
         MapContexProtocolIndexSet' \subseteq Indices,
         times' = Dispatched(S),
         UNCHANGED <<stale, left>>,
         \A d \in Indices : Covers(m, d) /\ Decodable(d) => d \in MapContexProtocolIndexSet',
         \A s \in S : Covers(m, s) /\ (m = single(s) \/ Decodable(s))
  PROVE  /\ Order'
         /\ \A i, j \in Indices : times'[i] > times[i] /\ times[j] > 0 => j < i
<1> USE DEF IInv
<1> PICK L \in Nat : L = Len(wire')
  BY TailFacts
<1>0. /\ Len(wire) = L + 1 /\ wire[1] = m
      /\ \A k \in 1..L : wire'[k] = wire[k + 1]
      /\ UNCHANGED <<count, told, link>>
  BY TailFacts DEF Receives
<1>1. \A a, b \in Int : a >= 1 /\ b <= L => (NoLeave(a, b)' <=> NoLeave(a + 1, b + 1))
  BY TailOrder
<1>2. link = "up" /\ Sorted' /\ BelowTold'
  BY TailOrder
<1>3. \A b \in Int : b <= L => (NoLeave(1, b)' <=> NoLeave(1, b + 1))
  <2> SUFFICES ASSUME NEW b \in Int, b <= L
               PROVE  NoLeave(1, b)' <=> NoLeave(1, b + 1)
    OBVIOUS
  <2>1. NoLeave(1, b)' <=> NoLeave(2, b + 1)  BY <1>1
  <2>2. NoLeave(2, b + 1) <=> NoLeave(1, b + 1)  BY <1>0 DEF NoLeave
  <2> QED  BY <2>1, <2>2
<1>4. \A i \in Indices : times'[i] = IF i \in S THEN times[i] + 1 ELSE times[i]
  BY DEF Dispatched
<1>5. \A i \in Indices : times[i] \in {0, 1}
  BY DEF TypeOK, Remembered
<1>6. \A i \in S : times[i] = 0 /\ times'[i] = 1
  <2> SUFFICES ASSUME NEW i \in S PROVE times[i] = 0 /\ times'[i] = 1
    OBVIOUS
  <2>1. i \in Indices /\ i \notin MapContexProtocolIndexSet
    OBVIOUS
  <2>2. times[i] # 1
    BY <2>1 DEF Remembered
  <2>3. times[i] = 0
    BY <1>5, <2>1, <2>2
  <2>4. times'[i] = times[i] + 1
    BY <1>4, <2>1
  <2>5. times'[i] = 1
    BY <2>3, <2>4
  <2> QED
    BY <2>3, <2>5
<1>7. \A i \in Indices : times'[i] = 1 <=> (times[i] = 1 \/ i \in S)
  BY <1>4, <1>5, <1>6
<1>8. Recall'
  BY <1>7 DEF Order, Recall
<1>9. Server'
  <2>1. (\E k \in 1..(L + 1) : wire[k] = leave) <=> (\E k \in 1..L : wire'[k] = leave)
    <3>1. ASSUME NEW k \in 1..(L + 1), wire[k] = leave
          PROVE  \E l \in 1..L : wire'[l] = leave
      <4>1. k # 1  BY <1>0, <3>1
      <4>2. k - 1 \in 1..L /\ (k - 1) + 1 = k  BY <4>1
      <4>3. wire'[k - 1] = leave  BY <1>0, <3>1, <4>2
      <4> QED  BY <4>2, <4>3
    <3>2. ASSUME NEW k \in 1..L, wire'[k] = leave
          PROVE  \E l \in 1..(L + 1) : wire[l] = leave
      <4>1. k + 1 \in 1..(L + 1) /\ wire[k + 1] = leave  BY <1>0, <3>2
      <4> QED  BY <4>1
    <3> QED  BY <3>1, <3>2
  <2> QED
    BY <1>0, <1>2, <2>1 DEF Order, Server
<1>10. \A k \in 1..(L + 1), d \in Indices : Decodable(d) /\ KnownAt(k + 1, d) => KnownAt(k, d)'
  <2> SUFFICES ASSUME NEW k \in 1..(L + 1), NEW d \in Indices,
                      Decodable(d), KnownAt(k + 1, d)
               PROVE  KnownAt(k, d)'
    OBVIOUS
  <2>0. NoLeave(1, k) => NoLeave(1, k - 1)'
    <3>1. k - 1 <= L /\ (k - 1) + 1 = k  OBVIOUS
    <3> QED  BY <1>3, <3>1
  <2>1. CASE NoLeave(1, k) /\ d \in MapContexProtocolIndexSet
    BY <2>0, <2>1 DEF KnownAt
  <2>2. ASSUME NEW l \in 1..k, Covers(wire[l], d), NoLeave(l, k)
        PROVE  KnownAt(k, d)'
    <3>1. CASE l = 1
      <4>1. d \in MapContexProtocolIndexSet'  BY <1>0, <2>2, <3>1
      <4> QED  BY <2>0, <2>2, <3>1, <4>1 DEF KnownAt
    <3>2. CASE l # 1
      <4>1. l - 1 \in 1..(k - 1) /\ l - 1 \in 1..L /\ (l - 1) + 1 = l /\ (k - 1) + 1 = k /\ k - 1 <= L
        BY <3>2
      <4>2. Covers(wire[l - 1], d)'
        <5>1. wire'[l - 1] = wire[l]  BY <1>0, <4>1
        <5> QED  BY <2>2, <5>1 DEF Covers
      <4>3. NoLeave(l - 1, k - 1)'
        BY <1>1, <2>2, <4>1
      <4> QED  BY <4>1, <4>2, <4>3 DEF KnownAt
    <3> QED  BY <3>1, <3>2
  <2> QED
    <3>1. (k + 1) - 1 = k  OBVIOUS
    <3> QED  BY <2>1, <2>2, <3>1 DEF KnownAt
<1>11. Sent'
  <2>1. ASSUME NEW k \in 1..L, NEW i \in Indices, NEW d \in Indices,
               wire'[k] = single(i), d < i, Decodable(d)
        PROVE  KnownAt(k, d)'
    <3>1. k + 1 \in 1..Len(wire) /\ wire[k + 1] = single(i)  BY <1>0, <2>1
    <3>2. KnownAt(k + 1, d)  BY <2>1, <3>1 DEF Order, Sent
    <3> QED  BY <1>10, <2>1, <3>2
  <2>2. ASSUME NEW d \in Indices, d < told, Decodable(d)
        PROVE  KnownAt(L + 1, d)'
    <3>1. KnownAt((L + 1) + 1, d)  BY <1>0, <1>2, <2>2 DEF Order, Sent
    <3> QED  BY <1>10, <2>2, <3>1
  <2>3. (Len(wire) + 1)' = L + 1
    OBVIOUS
  <2> QED
    BY <1>0, <2>1, <2>2, <2>3 DEF Sent, Decodable
<1>12. \A s \in S, d \in Indices : d < s /\ Decodable(d) => d \in MapContexProtocolIndexSet'
  <2> SUFFICES ASSUME NEW s \in S, NEW d \in Indices, d < s, Decodable(d)
               PROVE  d \in MapContexProtocolIndexSet'
    OBVIOUS
  <2>1. CASE m = single(s)
    <3>1. KnownAt(1, d)  BY <1>0, <2>1 DEF Order, Sent
    <3> QED  BY <3>1 DEF KnownAt
  <2>2. ASSUME NEW n \in 0..Size, s < n, m = batch(n)
        PROVE  d \in MapContexProtocolIndexSet'
    <3>1. d < n  BY <2>2, MapContextAssumption DEF Indices
    <3>2. Covers(m, d)  BY <2>2, <3>1 DEF Covers
    <3> QED  BY <3>2
  <2> QED  BY <2>1, <2>2 DEF Covers
<1>13. NoGap'
  <2> SUFFICES ASSUME NEW i \in Indices, NEW j \in Indices, times'[j] = 1, i < j, Decodable(i)
               PROVE  i \in MapContexProtocolIndexSet'
    BY DEF NoGap, Decodable
  <2>1. CASE times[j] = 1  BY <2>1 DEF Order, NoGap
  <2>2. CASE j \in S  BY <1>12, <2>2
  <2> QED  BY <1>7, <2>1, <2>2
<1>14. Behind'
  <2> SUFFICES ASSUME NEW k \in 1..L, NEW i \in Indices, NEW j \in Indices,
                      wire'[k] = single(i), NoLeave(1, k)', i \notin Bad,
                      times'[j] = 1, i < j
               PROVE  i \in MapContexProtocolIndexSet'
    BY DEF Behind
  <2>1. k + 1 \in 1..Len(wire) /\ wire[k + 1] = single(i) /\ 1 < k + 1 /\ 1 \in 1..Len(wire)
    BY <1>0
  <2>2. NoLeave(1, k + 1)  BY <1>3
  <2>3. CASE times[j] = 1  BY <2>1, <2>2, <2>3 DEF Order, Behind
  <2>4. CASE j \in S
    <3>1. CASE m = single(j)
      <4>1. j < i  BY <1>0, <2>1, <2>2, <3>1 DEF Order, Sorted
      <4> QED  BY <4>1, MapContextAssumption DEF Indices
    <3>2. CASE Decodable(j)
      <4>1. Decodable(i)  BY <3>2, MapContextAssumption DEF Decodable, Indices
      <4> QED  BY <1>12, <2>4, <4>1
    <3> QED  BY <2>4, <3>1, <3>2
  <2> QED  BY <1>7, <2>3, <2>4
<1>15. Told'
  <2> SUFFICES ASSUME ~left, NEW j \in Indices, times'[j] = 1
               PROVE  j < told \/ Decodable(j)
    BY <1>0 DEF Told, Decodable
  <2>1. CASE times[j] = 1  BY <2>1 DEF Order, Told
  <2>2. CASE j \in S /\ m = single(j)
    <3>1. NoLeave(1, Len(wire))  BY <1>2 DEF Order, Server, NoLeave
    <3>2. 1 \in 1..Len(wire) /\ wire[1] = single(j)  BY <1>0, <2>2
    <3> QED  BY <3>1, <3>2 DEF Order, BelowTold
  <2> QED  BY <1>7, <2>1, <2>2
<1>16. \A i, j \in Indices : times'[i] > times[i] /\ times[j] > 0 => j < i
  <2> SUFFICES ASSUME NEW i \in Indices, NEW j \in Indices, times'[i] > times[i], times[j] > 0,
                      ~(j < i)
               PROVE  FALSE
    OBVIOUS
  <2>0. times[i] \in {0, 1} /\ times[j] \in {0, 1}  BY <1>5
  <2>1. i \in S /\ times[j] = 1
    <3>1. times[j] = 1  BY <2>0
    <3>2. CASE i \notin S
      <4>1. times'[i] = times[i]  BY <1>4, <3>2
      <4> QED  BY <2>0, <4>1
    <3> QED  BY <3>1, <3>2
  <2>2. i \notin MapContexProtocolIndexSet /\ i \notin Bad  BY <2>1
  <2>3. i < j
    <3>1. i # j  BY <1>6, <2>1
    <3> QED  BY <3>1, MapContextAssumption DEF Indices
  <2>4. CASE m = single(i)
    <3>1. NoLeave(1, 1)  BY <1>0 DEF NoLeave
    <3>2. 1 \in 1..Len(wire) /\ wire[1] = single(i)  BY <1>0, <2>4
    <3> QED  BY <2>1, <2>2, <2>3, <3>1, <3>2 DEF Order, Behind
  <2>5. CASE Decodable(i)
    BY <2>1, <2>2, <2>3, <2>5 DEF Order, NoGap
  <2> QED  BY <2>1, <2>4, <2>5
<1> QED
  BY <1>2, <1>8, <1>9, <1>11, <1>13, <1>14, <1>15, <1>16 DEF Order

LEMMA LeaveOrder ==
  ASSUME IInv, Order, onmsg_SLeaveMap
  PROVE  Order'
<1> USE DEF IInv
<1>r. Receives(leave)
  BY DEF onmsg_SLeaveMap
<1> PICK L \in Nat : L = Len(wire')
  BY <1>r, TailFacts
<1>0. /\ Len(wire) = L + 1 /\ wire[1] = leave
      /\ \A k \in 1..L : wire'[k] = wire[k + 1]
      /\ UNCHANGED <<count, told, link>>
  BY <1>r, TailFacts DEF Receives
<1>1. /\ \A a, b \in Int : a >= 1 /\ b <= L => (NoLeave(a, b)' <=> NoLeave(a + 1, b + 1))
      /\ link = "up" /\ Sorted' /\ BelowTold'
  BY <1>r, TailOrder
<1>2. /\ MapContexProtocolIndexSet' = {}
      /\ \A i \in Indices : times'[i] = 0
  BY DEF onmsg_SLeaveMap, Cleared
<1>3. Recall' /\ NoGap' /\ Behind' /\ Told'
  BY <1>2 DEF Recall, NoGap, Behind, Told
<1>4. Server'
  <2>1. left' <=> \E i \in 2..(L + 1) : wire[i] = leave
    <3>1. left' = (\E i \in 2..Len(wire) : wire[i] = leave)
      BY Zenon DEF onmsg_SLeaveMap
    <3> QED  BY <1>0, <3>1, Zenon
  <2>2. ASSUME NEW i \in 2..(L + 1), wire[i] = leave
        PROVE  \E k \in 1..L : wire'[k] = leave
    <3>1. i - 1 \in 1..L /\ (i - 1) + 1 = i  OBVIOUS
    <3> QED  BY <1>0, <2>2, <3>1
  <2>3. ASSUME NEW k \in 1..L, wire'[k] = leave
        PROVE  \E i \in 2..(L + 1) : wire[i] = leave
    <3>1. k + 1 \in 2..(L + 1) /\ wire[k + 1] = leave  BY <1>0, <2>3
    <3> QED  BY <3>1
  <2> QED
    BY <1>0, <1>1, <2>1, <2>2, <2>3 DEF Order, Server
<1>5. \A k \in 1..(L + 1), d \in Indices : KnownAt(k + 1, d) => KnownAt(k, d)'
  <2> SUFFICES ASSUME NEW k \in 1..(L + 1), NEW d \in Indices, KnownAt(k + 1, d)
               PROVE  KnownAt(k, d)'
    OBVIOUS
  <2>1. ~NoLeave(1, k)
    BY <1>0 DEF NoLeave
  <2>2. PICK l \in 1..k : Covers(wire[l], d) /\ NoLeave(l, k)
    <3>1. (k + 1) - 1 = k  OBVIOUS
    <3> QED  BY <2>1, <3>1 DEF KnownAt
  <2>3. l # 1  BY <2>1, <2>2
  <2>4. l - 1 \in 1..(k - 1) /\ l - 1 \in 1..L /\ (l - 1) + 1 = l /\ (k - 1) + 1 = k /\ k - 1 <= L
    BY <2>3
  <2>5. Covers(wire[l - 1], d)'
    <3>1. wire'[l - 1] = wire[l]  BY <1>0, <2>4
    <3> QED  BY <2>2, <3>1 DEF Covers
  <2>6. NoLeave(l - 1, k - 1)'
    BY <1>1, <2>2, <2>4
  <2> QED  BY <2>4, <2>5, <2>6 DEF KnownAt
<1>6. Sent'
  <2>1. ASSUME NEW k \in 1..L, NEW i \in Indices, NEW d \in Indices,
               wire'[k] = single(i), d < i, Decodable(d)
        PROVE  KnownAt(k, d)'
    <3>1. k + 1 \in 1..Len(wire) /\ wire[k + 1] = single(i)  BY <1>0, <2>1
    <3>2. KnownAt(k + 1, d)  BY <2>1, <3>1 DEF Order, Sent
    <3> QED  BY <1>5, <3>2
  <2>2. ASSUME NEW d \in Indices, d < told, Decodable(d)
        PROVE  KnownAt(L + 1, d)'
    <3>1. KnownAt((L + 1) + 1, d)  BY <1>0, <1>1, <2>2 DEF Order, Sent
    <3> QED  BY <1>5, <3>1
  <2>3. (Len(wire) + 1)' = L + 1
    OBVIOUS
  <2> QED
    BY <1>0, <2>1, <2>2, <2>3 DEF Sent, Decodable
<1> QED
  BY <1>1, <1>3, <1>4, <1>6 DEF Order

Ordered == \A i, j \in Indices : times'[i] > times[i] /\ times[j] > 0 => j < i

LEMMA SingleOrder ==
  ASSUME IInv, Order, NEW i \in Indices, onmsg_MapContexProtocol(i)
  PROVE  Order' /\ Ordered
<1> USE DEF IInv
<1> DEFINE S == (MapContexProtocolIndexSet' \ MapContexProtocolIndexSet) \ Bad
<1>1. /\ Receives(single(i)) /\ UNCHANGED <<stale, left>>
      /\ single(i) # leave
  BY Distinct DEF onmsg_MapContexProtocol
<1>2. MapContexProtocolIndexSet' = MapContexProtocolIndexSet \cup {i}
  BY DEF onmsg_MapContexProtocol, Fresh
<1>3. times' = Dispatched(S)
  <2>1. CASE i \notin MapContexProtocolIndexSet
    <3>1. S = {i} \ Bad  BY <1>2, <2>1
    <3> QED  BY <2>1, <3>1 DEF onmsg_MapContexProtocol, Fresh
  <2>2. CASE i \in MapContexProtocolIndexSet
    <3>1. S = {}  BY <1>2, <2>2
    <3>2. times' = times  BY <2>2 DEF onmsg_MapContexProtocol, Fresh
    <3>3. times \in [Indices -> Nat]  BY DEF TypeOK
    <3>4. Dispatched({}) = times  BY <3>3 DEF Dispatched
    <3> QED  BY <3>1, <3>2, <3>4
  <2> QED  BY <2>1, <2>2
<1>4. /\ S \in SUBSET Indices /\ MapContexProtocolIndexSet' \subseteq Indices
      /\ S \subseteq {i} /\ MapContexProtocolIndexSet \subseteq MapContexProtocolIndexSet'
  BY <1>2 DEF TypeOK
<1>5. \A d \in Indices : Covers(single(i), d) => d = i
  BY Distinct DEF Covers
<1>6. \A d \in Indices : Covers(single(i), d) /\ Decodable(d) => d \in MapContexProtocolIndexSet'
  BY <1>2, <1>5
<1>7. \A s \in S : Covers(single(i), s) /\ (single(i) = single(s) \/ Decodable(s))
  BY <1>4 DEF Covers
<1>8. S = (MapContexProtocolIndexSet' \ MapContexProtocolIndexSet) \ Bad
  OBVIOUS
<1> HIDE DEF S
<1> QED
  BY <1>1, <1>3, <1>4, <1>6, <1>7, <1>8, DispatchOrder DEF Ordered

LEMMA BatchOrder ==
  ASSUME IInv, Order, NEW n \in 0..Size, onmsg_MapContexProtocols(n)
  PROVE  Order' /\ Ordered
<1> USE DEF IInv
<1> DEFINE S == (MapContexProtocolIndexSet' \ MapContexProtocolIndexSet) \ Bad
<1>1. /\ Receives(batch(n)) /\ UNCHANGED <<stale, left>>
      /\ batch(n) # leave
  BY Distinct DEF onmsg_MapContexProtocols
<1>2. MapContexProtocolIndexSet' = MapContexProtocolIndexSet \cup Decoded(n)
  BY DEF onmsg_MapContexProtocols, Recorded
<1>3. Decoded(n) \subseteq Indices
  BY MapContextAssumption DEF Decoded, Indices
<1>4. \A d \in Decoded(n) : d \notin Bad /\ d < n /\ Decodable(d)
  BY MapContextAssumption DEF Decoded, Decodable
<1>5. S = Decoded(n) \ MapContexProtocolIndexSet
  BY <1>2, <1>4
<1>6. times' = Dispatched(S)
  BY <1>5 DEF onmsg_MapContexProtocols
<1>7. /\ S \in SUBSET Indices /\ MapContexProtocolIndexSet' \subseteq Indices
      /\ MapContexProtocolIndexSet \subseteq MapContexProtocolIndexSet'
  BY <1>2, <1>3 DEF TypeOK
<1>8. \A d \in Indices : Covers(batch(n), d) => d < n
  BY Distinct DEF Covers
<1>9. \A d \in Indices : Covers(batch(n), d) /\ Decodable(d) => d \in MapContexProtocolIndexSet'
  <2> SUFFICES ASSUME NEW d \in Indices, d < n, Decodable(d)
               PROVE  d \in Decoded(n)
    BY <1>2, <1>8
  <2> QED  BY MapContextAssumption DEF Decoded, Decodable, Indices
<1>10. \A s \in S : Covers(batch(n), s) /\ Decodable(s)
  BY <1>4, <1>5 DEF Covers
<1>11. S = (MapContexProtocolIndexSet' \ MapContexProtocolIndexSet) \ Bad
  OBVIOUS
<1> HIDE DEF S
<1> QED
  BY <1>1, <1>6, <1>7, <1>9, <1>10, <1>11, DispatchOrder DEF Ordered

LEMMA NextOrder ==
  ASSUME IInv, Order, [Next]_vars
  PROVE  Order' /\ Ordered
<1> USE DEF IInv
<1>0. \A i \in Indices : times[i] \in Nat
  BY DEF TypeOK
<1>k. ASSUME times' = times PROVE Ordered
  BY <1>0, <1>k DEF Ordered
<1>z. ASSUME times' = [i \in Indices |-> 0] PROVE Ordered
  BY <1>0, <1>z DEF Ordered
<1>1. CASE Arises
  <2>1. told <= count'
    BY <1>1, MapContextAssumption DEF Arises, TypeOK, Order, Server
  <2> QED  BY <1>1, <1>k, <2>1, SameOrder DEF Arises
<1>2. CASE Broadcast
  BY <1>2, <1>k, BroadcastOrder DEF Broadcast
<1>3. ASSUME NEW n \in 0..Size, Enters(n) PROVE Order' /\ Ordered
  BY <1>3, <1>k, EntersOrder DEF Enters
<1>4. CASE Drop
  BY <1>4, <1>k, DropOrder DEF Drop
<1>5. CASE Relogin
  BY <1>5, <1>k, ReloginOrder DEF Relogin
<1>6. ASSUME NEW n \in 0..Size, RoleLogin(n) PROVE Order' /\ Ordered
  BY <1>6, <1>z, RoleLoginOrder DEF RoleLogin
<1>7. ASSUME NEW i \in Indices, onmsg_MapContexProtocol(i) PROVE Order' /\ Ordered
  BY <1>7, SingleOrder
<1>8. ASSUME NEW n \in 0..Size, onmsg_MapContexProtocols(n) PROVE Order' /\ Ordered
  BY <1>8, BatchOrder
<1>9. CASE onmsg_SLeaveMap
  BY <1>9, <1>z, LeaveOrder DEF onmsg_SLeaveMap
<1>10. CASE UNCHANGED vars
  <2>1. told <= count'
    BY <1>10 DEF vars, Order, Server
  <2> QED  BY <1>10, <1>k, <2>1, SameOrder DEF vars
<1> QED
  BY <1>1, <1>2, <1>3, <1>4, <1>5, <1>6, <1>7, <1>8, <1>9, <1>10 DEF Next

(* The order of what was dispatched and of what is under way.              *)
THEOREM OrderInductive == Spec => [](IInv /\ Order)
  BY InitIInv, NextIInv, InitOrder, NextOrder, PTL DEF Spec

(* When all is read, all that was told and can be decoded is dispatched,   *)
(* whatever connections were lost in the middle of it and whatever maps    *)
(* were entered meanwhile.                                                 *)
THEOREM CompleteAlways == Spec => []Complete
<1>1. IInv /\ Order => Complete
  <2> SUFFICES ASSUME IInv, Order, link = "up", wire = <<>>, ~stale,
                      NEW i \in 0..(told - 1), \A j \in Bad : i < j
               PROVE  times[i] = 1
    BY DEF Complete
  <2>1. i \in Indices /\ i < told
    BY MapContextAssumption DEF IInv, TypeOK, Indices
  <2>2. Decodable(i) /\ i \notin Bad
    BY MapContextAssumption DEF Decodable
  <2>3. KnownAt(1, i)
    <3>1. Len(wire) + 1 = 1  OBVIOUS
    <3> QED  BY <2>1, <2>2, <3>1 DEF Order, Sent
  <2>4. i \in MapContexProtocolIndexSet
    BY <2>3 DEF KnownAt
  <2> QED
    BY <2>2, <2>4 DEF Order, Recall
<1> QED
  BY <1>1, OrderInductive, PTL

(* Singles may fill the gap that a lost connection left, batches may       *)
(* overtake singles: a protocol is never dispatched after a later one.     *)
THEOREM InOrderAlways == Spec => InOrder
<1>1. (IInv /\ Order) /\ [Next]_vars => [Ordered]_vars
  BY NextOrder
<1>2. Spec => [][Ordered]_vars
  BY <1>1, OrderInductive, PTL DEF Spec
<1>3. InOrder <=> [][Ordered]_vars
  <2>1. [Ordered]_vars <=> [\A i, j \in Indices : times'[i] > times[i] /\ times[j] > 0 => j < i]_vars
    BY DEF Ordered
  <2> QED  BY <2>1, PTL DEF InOrder
<1> QED
  BY <1>2, <1>3, PTL

-----------------------------------------------------------------------------
(***************************************************************************)
(* For any models, objects, pool size and cache time: no GameObject is in  *)
(* the pool twice or both in the pool and in use, and the pool is sorted   *)
(* by last use.                                                            *)
(***************************************************************************)

(* Nothing was used after now; with that, what enters at the end enters in *)
(* its place.                                                              *)
UsedBefore == \A i \in DOMAIN pool : pool[i].lastUse <= now

(* NoAlias comes with the types: an object that a character shows is not   *)
(* in the pool, so that putting it there does not make it twice.           *)
PoolInv == PoolTypeOK /\ NoAlias /\ OldestFirst /\ UsedBefore

-----------------------------------------------------------------------------
(***************************************************************************)
(* The three ways in which the array changes.                              *)
(***************************************************************************)
LEMMA RemoveAtFacts ==
  ASSUME NEW S, NEW s \in Seq(S), NEW i \in 1..Len(s)
  PROVE  /\ RemoveAt(s, i) \in Seq(S)
         /\ Len(RemoveAt(s, i)) = Len(s) - 1
         /\ \A k \in 1..(Len(s) - 1) :
               RemoveAt(s, i)[k] = IF k < i THEN s[k] ELSE s[k + 1]
<1>1. /\ SubSeq(s, 1, i - 1) \in Seq(S)
      /\ Len(SubSeq(s, 1, i - 1)) = i - 1
      /\ \A k \in 1..(i - 1) : SubSeq(s, 1, i - 1)[k] = s[k]
  OBVIOUS
<1>2. /\ SubSeq(s, i + 1, Len(s)) \in Seq(S)
      /\ Len(SubSeq(s, i + 1, Len(s))) = Len(s) - i
      /\ \A k \in 1..(Len(s) - i) : SubSeq(s, i + 1, Len(s))[k] = s[k + i]
  OBVIOUS
<1> DEFINE a == SubSeq(s, 1, i - 1)
           b == SubSeq(s, i + 1, Len(s))
<1> HIDE DEF a, b
<1>3. a \in Seq(S) /\ b \in Seq(S) /\ Len(a) = i - 1 /\ Len(b) = Len(s) - i
  BY <1>1, <1>2 DEF a, b
<1>4. /\ a \o b \in Seq(S) /\ Len(a \o b) = Len(s) - 1
      /\ \A k \in 1..(Len(s) - 1) :
            (a \o b)[k] = IF k < i THEN a[k] ELSE b[k - (i - 1)]
  BY <1>3
<1>5. \A k \in 1..(Len(s) - 1) : (a \o b)[k] = IF k < i THEN s[k] ELSE s[k + 1]
  <2> SUFFICES ASSUME NEW k \in 1..(Len(s) - 1)
               PROVE  (a \o b)[k] = IF k < i THEN s[k] ELSE s[k + 1]
    OBVIOUS
  <2>1. CASE k < i
    <3>1. a[k] = s[k]  BY <1>1, <2>1 DEF a
    <3> QED  BY <1>4, <2>1, <3>1
  <2>2. CASE ~(k < i)
    <3>1. k - (i - 1) \in 1..(Len(s) - i) /\ (k - (i - 1)) + i = k + 1  BY <2>2
    <3>2. b[k - (i - 1)] = s[k + 1]  BY <1>2, <3>1 DEF b
    <3> QED  BY <1>4, <2>2, <3>2
  <2> QED  BY <2>1, <2>2
<1>6. RemoveAt(s, i) = a \o b
  BY DEF RemoveAt, a, b
<1> QED
  BY <1>4, <1>5, <1>6

LEMMA InitPoolInv == PoolInit => PoolInv
<1> SUFFICES ASSUME PoolInit PROVE PoolInv
  OBVIOUS
<1>1. pool = <<>> /\ DOMAIN pool = {} /\ pool \in Seq(CharacterInst)
  BY DEF PoolInit
<1>2. owner \in [Objects -> Models \cup {"none", "pooled"}] /\ now \in 0..MaxNow
  BY PoolAssumption DEF PoolInit
<1>3. \A o \in Objects : owner[o] # "pooled"
  BY DEF PoolInit
<1> QED
  BY <1>1, <1>2, <1>3 DEF PoolInv, PoolTypeOK, NoAlias, OldestFirst, UsedBefore

(* Everything that is known of the entries, in one place.                  *)
LEMMA Entries ==
  ASSUME PoolInv
  PROVE  /\ Len(pool) \in Nat /\ DOMAIN pool = 1..Len(pool)
         /\ now \in Nat
         /\ \A i \in 1..Len(pool) :
               /\ pool[i] \in CharacterInst
               /\ pool[i].object \in Objects /\ pool[i].lastUse \in Nat
               /\ pool[i].lastUse <= now
               /\ owner[pool[i].object] = "pooled"
<1>1. Len(pool) \in Nat /\ DOMAIN pool = 1..Len(pool) /\ now \in Nat
  BY PoolAssumption DEF PoolInv, PoolTypeOK
<1>2. \A i \in 1..Len(pool) : pool[i] \in CharacterInst
  BY DEF PoolInv, PoolTypeOK
<1>3. \A c \in CharacterInst : c.object \in Objects /\ c.lastUse \in Nat
  BY PoolAssumption DEF CharacterInst
<1> QED
  BY <1>1, <1>2, <1>3 DEF PoolInv, UsedBefore, NoAlias

LEMMA GetStep ==
  ASSUME PoolInv, NEW m \in Models, GetCharacter(m)
  PROVE  PoolInv'
<1>1. PICK i \in Match(m) : /\ pool' = RemoveAt(pool, i)
                            /\ owner' = [owner EXCEPT ![pool[i].object] = m]
                            /\ now' = now
  BY DEF GetCharacter, Taken
<1> PICK L \in Nat : L = Len(pool)
  BY Entries
<1>2. i \in 1..L
  BY Entries DEF Match
<1>3. /\ pool' \in Seq(CharacterInst) /\ Len(pool') = L - 1 /\ DOMAIN pool' = 1..(L - 1)
      /\ \A k \in 1..(L - 1) : pool'[k] = IF k < i THEN pool[k] ELSE pool[k + 1]
  <2>1. pool \in Seq(CharacterInst)  BY DEF PoolInv, PoolTypeOK
  <2> DEFINE r == RemoveAt(pool, i)
  <2>2. /\ r \in Seq(CharacterInst) /\ Len(r) = L - 1
        /\ \A k \in 1..(L - 1) : r[k] = IF k < i THEN pool[k] ELSE pool[k + 1]
    BY <1>2, <2>1, RemoveAtFacts
  <2> HIDE DEF r
  <2>3. DOMAIN r = 1..(L - 1)
    BY <2>2
  <2>4. pool' = r
    BY <1>1 DEF r
  <2> QED  BY <2>2, <2>3, <2>4
<1> DEFINE old(k) == IF k < i THEN k ELSE k + 1
<1>4. \A k \in 1..(L - 1) : old(k) \in 1..L /\ old(k) # i /\ pool'[k] = pool[old(k)]
  BY <1>2, <1>3
<1>5. \A j, k \in 1..(L - 1) : j < k => old(j) < old(k)
  BY <1>2
<1>6. \A k \in 1..L : k # i => \E j \in 1..(L - 1) : old(j) = k
  <2> SUFFICES ASSUME NEW k \in 1..L, k # i PROVE \E j \in 1..(L - 1) : old(j) = k
    OBVIOUS
  <2>1. CASE k < i  BY <1>2, <2>1
  <2>2. CASE k > i
    <3>1. k - 1 \in 1..(L - 1) /\ old(k - 1) = k  BY <1>2, <2>2
    <3> QED  BY <3>1
  <2> QED  BY <1>2, <2>1, <2>2
<1> HIDE DEF old
<1>7. /\ pool[i].object \in Objects
      /\ owner' \in [Objects -> Models \cup {"none", "pooled"}]
      /\ \A o \in Objects : owner'[o] = IF o = pool[i].object THEN m ELSE owner[o]
  <2>1. pool[i].object \in Objects  BY <1>2, Entries
  <2>2. owner \in [Objects -> Models \cup {"none", "pooled"}]  BY DEF PoolInv, PoolTypeOK
  <2> QED  BY <1>1, <2>1, <2>2
<1>8. PoolTypeOK'
  BY <1>1, <1>3, <1>7 DEF PoolInv, PoolTypeOK
<1>9. NoAlias'
  <2>1. \A j, k \in 1..(L - 1) : pool'[j].object = pool'[k].object => j = k
    <3> SUFFICES ASSUME NEW j \in 1..(L - 1), NEW k \in 1..(L - 1),
                        pool[old(j)].object = pool[old(k)].object, j # k
                 PROVE  FALSE
      BY <1>4
    <3>1. old(j) = old(k)  BY <1>4, Entries DEF PoolInv, NoAlias
    <3>2. old(j) \in Int /\ old(k) \in Int  BY <1>4
    <3>3. j < k \/ k < j  OBVIOUS
    <3> QED  BY <1>5, <3>1, <3>2, <3>3
  <2>2. ASSUME NEW o \in Objects, owner'[o] = "pooled"
        PROVE  \E k \in 1..(L - 1) : pool'[k].object = o
    <3>1. m # "pooled"  BY PoolAssumption
    <3>2. o # pool[i].object /\ owner[o] = "pooled"  BY <1>7, <2>2, <3>1
    <3>3. PICK j \in 1..L : pool[j].object = o  BY <3>2, Entries DEF PoolInv, NoAlias
    <3> QED  BY <1>4, <1>6, <3>2, <3>3
  <2>3. ASSUME NEW o \in Objects, NEW k \in 1..(L - 1), pool'[k].object = o
        PROVE  owner'[o] = "pooled"
    <3>1. old(k) \in 1..L /\ old(k) # i /\ pool[old(k)].object = o  BY <1>4, <2>3
    <3>2. o # pool[i].object  BY <1>2, <3>1, Entries DEF PoolInv, NoAlias
    <3>3. owner[o] = "pooled"  BY <3>1, Entries
    <3> QED  BY <1>7, <3>2, <3>3
  <2> QED  BY <1>3, <2>1, <2>2, <2>3 DEF NoAlias
<1>10. OldestFirst'
  <2> SUFFICES ASSUME NEW j \in 1..(L - 1), NEW k \in 1..(L - 1), j < k
               PROVE  pool'[j].lastUse <= pool'[k].lastUse
    BY <1>3 DEF OldestFirst
  <2>1. old(j) \in DOMAIN pool /\ old(k) \in DOMAIN pool /\ old(j) < old(k)
    BY <1>4, <1>5, Entries
  <2>2. pool[old(j)].lastUse <= pool[old(k)].lastUse
    BY <2>1 DEF PoolInv, OldestFirst
  <2> QED  BY <1>4, <2>2
<1>11. UsedBefore'
  BY <1>1, <1>3, <1>4, Entries DEF UsedBefore
<1> QED
  BY <1>8, <1>9, <1>10, <1>11 DEF PoolInv

LEMMA InstantiateStep ==
  ASSUME PoolInv, NEW m \in Models, NEW o \in Objects, Instantiate(m, o)
  PROVE  PoolInv'
<1>1. /\ owner' = [owner EXCEPT ![o] = m] /\ pool' = pool /\ now' = now
      /\ owner[o] = "none" /\ m # "pooled"
  BY PoolAssumption DEF Instantiate
<1>2. owner \in [Objects -> Models \cup {"none", "pooled"}]
  BY DEF PoolInv, PoolTypeOK
<1>3. /\ owner' \in [Objects -> Models \cup {"none", "pooled"}]
      /\ \A x \in Objects : owner'[x] = "pooled" <=> owner[x] = "pooled"
  BY <1>1, <1>2
<1> QED
  BY <1>1, <1>3 DEF PoolInv, PoolTypeOK, NoAlias, OldestFirst, UsedBefore

(* Evicting takes entry 1, whether or not it does the new one goes last.   *)
LEMMA PutStep ==
  ASSUME PoolInv, NEW o \in Objects, PutCharacter(o)
  PROVE  PoolInv'
<1> PICK L \in Nat : L = Len(pool)
  BY Entries
<1> DEFINE inst == [model |-> owner[o], object |-> o, lastUse |-> now]
<1>1. owner[o] \in Models /\ owner[o] # "pooled" /\ now' = now
  BY PoolAssumption DEF PutCharacter
<1>2. inst \in CharacterInst /\ inst.object = o /\ inst.lastUse = now
  BY <1>1 DEF CharacterInst, PoolInv, PoolTypeOK
<1>3. pool \in Seq(CharacterInst) /\ owner \in [Objects -> Models \cup {"none", "pooled"}]
  BY DEF PoolInv, PoolTypeOK
<1>4. \A i \in 1..L : pool[i].object # o
  BY <1>1, Entries
<1>5. PICK d \in {0, 1} :
         /\ d <= L
         /\ pool' \in Seq(CharacterInst) /\ Len(pool') = (L - d) + 1
         /\ \A k \in 1..(L - d) : pool'[k] = pool[k + d]
         /\ pool'[(L - d) + 1] = inst
         /\ owner' \in [Objects -> Models \cup {"none", "pooled"}]
         /\ \A x \in Objects : owner'[x] = IF x = o THEN "pooled"
                                           ELSE IF d = 1 /\ x = pool[1].object THEN "none"
                                           ELSE owner[x]
  <2> HIDE DEF inst
  <2>1. CASE Evicts
    <3>1. L >= 1
      BY <2>1, PoolAssumption DEF Evicts
    <3>2. /\ pool' = Append(Tail(pool), inst)
          /\ owner' = [owner EXCEPT ![o] = "pooled", ![Head(pool).object] = "none"]
      BY <2>1 DEF PutCharacter, Enter, inst
    <3>3. /\ Tail(pool) \in Seq(CharacterInst) /\ Len(Tail(pool)) = L - 1
          /\ \A k \in 1..(L - 1) : Tail(pool)[k] = pool[k + 1]
          /\ Head(pool) = pool[1]
      BY <1>3, <3>1
    <3>4. /\ pool' \in Seq(CharacterInst) /\ Len(pool') = (L - 1) + 1
          /\ \A k \in 1..(L - 1) : pool'[k] = Tail(pool)[k]
          /\ pool'[(L - 1) + 1] = inst
      BY <1>2, <3>2, <3>3
    <3>5. pool[1].object \in Objects /\ pool[1].object # o
      BY <1>4, <3>1, Entries
    <3>6. /\ owner' \in [Objects -> Models \cup {"none", "pooled"}]
          /\ \A x \in Objects : owner'[x] = IF x = o THEN "pooled"
                                            ELSE IF x = pool[1].object THEN "none"
                                            ELSE owner[x]
      BY <1>3, <3>2, <3>3, <3>5
    <3> QED
      BY <3>1, <3>3, <3>4, <3>6
  <2>2. CASE ~Evicts
    <3>1. /\ pool' = Append(pool, inst)
          /\ owner' = [owner EXCEPT ![o] = "pooled"]
      BY <2>2 DEF PutCharacter, Enter, inst
    <3>2. /\ pool' \in Seq(CharacterInst) /\ Len(pool') = L + 1
          /\ \A k \in 1..L : pool'[k] = pool[k]
          /\ pool'[L + 1] = inst
      BY <1>2, <1>3, <3>1
    <3>3. /\ owner' \in [Objects -> Models \cup {"none", "pooled"}]
          /\ \A x \in Objects : owner'[x] = IF x = o THEN "pooled" ELSE owner[x]
      BY <1>3, <3>1
    <3> QED
      BY <3>2, <3>3
  <2> QED
    BY <2>1, <2>2
<1> HIDE DEF inst
<1>n. L - d \in Nat
  <2>1. d \in Int /\ d <= L  BY <1>5
  <2> QED  BY <2>1
<1> PICK n \in Nat : n = L - d
  BY <1>n
<1>6. /\ Len(pool') = n + 1 /\ DOMAIN pool' = 1..(n + 1)
      /\ \A k \in 1..n : pool'[k] = pool[k + d] /\ k + d \in 1..L
      /\ pool'[n + 1] = inst
      /\ \A k \in 1..L : k = d \/ (k - d \in 1..n /\ (k - d) + d = k)
  BY <1>5
<1>7. PoolTypeOK'
  BY <1>1, <1>5 DEF PoolInv, PoolTypeOK
<1>8. \A k \in 1..n : pool'[k].object # o /\ pool'[k].lastUse <= now
  BY <1>4, <1>6, Entries
<1>9. NoAlias'
  <2>1. \A j, k \in 1..(n + 1) : pool'[j].object = pool'[k].object => j = k
    <3> SUFFICES ASSUME NEW j \in 1..(n + 1), NEW k \in 1..(n + 1),
                        pool'[j].object = pool'[k].object
                 PROVE  j = k
      OBVIOUS
    <3>1. CASE j = n + 1 \/ k = n + 1
      <4>1. pool'[n + 1].object = o  BY <1>2, <1>6
      <4>2. j \in 1..n \/ j = n + 1  OBVIOUS
      <4>3. k \in 1..n \/ k = n + 1  OBVIOUS
      <4> QED  BY <1>8, <3>1, <4>1, <4>2, <4>3
    <3>2. CASE j \in 1..n /\ k \in 1..n
      <4>1. j + d \in 1..L /\ k + d \in 1..L  BY <1>6, <3>2
      <4>2. pool[j + d].object = pool[k + d].object  BY <1>6, <3>2
      <4>3. j + d = k + d  BY <4>1, <4>2, Entries DEF PoolInv, NoAlias
      <4>4. d \in Int  BY <1>5
      <4> QED  BY <4>3, <4>4
    <3> QED  BY <3>1, <3>2
  <2>2. ASSUME NEW x \in Objects, owner'[x] = "pooled"
        PROVE  \E k \in 1..(n + 1) : pool'[k].object = x
    <3>1. CASE x = o  BY <1>2, <1>6, <3>1
    <3>2. CASE x # o
      <4>1. owner[x] = "pooled" /\ ~(d = 1 /\ x = pool[1].object)  BY <1>5, <2>2, <3>2
      <4>2. PICK j \in 1..L : pool[j].object = x  BY <4>1, Entries DEF PoolInv, NoAlias
      <4>3. j - d \in 1..n /\ (j - d) + d = j  BY <1>5, <1>6, <4>1, <4>2
      <4>4. pool'[j - d].object = x  BY <1>6, <4>2, <4>3
      <4> QED  BY <4>3, <4>4
    <3> QED  BY <3>1, <3>2
  <2>3. ASSUME NEW k \in 1..(n + 1) PROVE owner'[pool'[k].object] = "pooled"
    <3>1. CASE k = n + 1  BY <1>2, <1>5, <1>6, <3>1
    <3>2. CASE k \in 1..n
      <4>1. pool'[k] = pool[k + d] /\ k + d \in 1..L  BY <1>6, <3>2
      <4>2. pool'[k].object \in Objects /\ owner[pool'[k].object] = "pooled"  BY <4>1, Entries
      <4>3. d = 1 => pool'[k].object # pool[1].object
        <5>1. ASSUME d = 1 PROVE k + d # 1 /\ 1 \in 1..L  BY <1>5, <3>2, <5>1
        <5> QED  BY <4>1, <5>1, Entries DEF PoolInv, NoAlias
      <4> QED  BY <1>5, <1>8, <3>2, <4>2, <4>3
    <3> QED  BY <3>1, <3>2
  <2>4. DOMAIN pool' = 1..(n + 1)
    BY <1>6
  <2>5. \A x \in Objects : owner'[x] = "pooled" <=> \E i \in DOMAIN pool' : pool'[i].object = x
    <3> SUFFICES ASSUME NEW x \in Objects
                 PROVE  owner'[x] = "pooled" <=> \E i \in DOMAIN pool' : pool'[i].object = x
      OBVIOUS
    <3>1. ASSUME owner'[x] = "pooled" PROVE \E i \in DOMAIN pool' : pool'[i].object = x
      BY <2>2, <2>4, <3>1
    <3>2. ASSUME NEW i \in DOMAIN pool', pool'[i].object = x PROVE owner'[x] = "pooled"
      BY <2>3, <2>4, <3>2
    <3> QED  BY <3>1, <3>2
  <2>6. \A i, j \in DOMAIN pool' : pool'[i].object = pool'[j].object => i = j
    BY <2>1, <2>4
  <2> QED  BY <2>5, <2>6 DEF NoAlias
<1>10. UsedBefore'
  <2>1. now \in Nat  BY Entries
  <2> QED  BY <1>1, <1>2, <1>6, <1>8, <2>1 DEF UsedBefore
<1>11. OldestFirst'
  <2> SUFFICES ASSUME NEW j \in 1..(n + 1), NEW k \in 1..(n + 1), j < k
               PROVE  pool'[j].lastUse <= pool'[k].lastUse
    BY <1>6 DEF OldestFirst
  <2>1. CASE k = n + 1
    <3>1. j \in 1..n  BY <2>1
    <3> QED  BY <1>2, <1>6, <1>8, <2>1, <3>1
  <2>2. CASE k \in 1..n
    <3>1. j \in 1..n /\ j + d < k + d  BY <1>5, <2>2
    <3>2. j + d \in DOMAIN pool /\ k + d \in DOMAIN pool  BY <1>6, <2>2, <3>1, Entries
    <3>3. pool[j + d].lastUse <= pool[k + d].lastUse
      BY <3>1, <3>2 DEF PoolInv, OldestFirst
    <3>4. pool'[j] = pool[j + d] /\ pool'[k] = pool[k + d]  BY <1>6, <2>2, <3>1
    <3> QED  BY <3>3, <3>4
  <2> QED  BY <2>1, <2>2
<1> QED
  BY <1>7, <1>9, <1>10, <1>11 DEF PoolInv

(* What is kept keeps its order; what is not kept is destroyed.            *)
LEMMA SecondUpdateStep ==
  ASSUME PoolInv, second_update
  PROVE  PoolInv'
<1> PICK L \in Nat : L = Len(pool)
  BY Entries
<1>1. Kept \subseteq 1..L /\ \A i \in 1..L : i \in Kept <=> ~Expired(pool[i])
  BY Entries DEF Kept
<1>2. Cardinality(Kept) \in Nat
  <2>1. IsFiniteSet(1..L)  BY FS_Interval
  <2>2. IsFiniteSet(Kept)  BY <1>1, <2>1, FS_Subset
  <2> QED  BY <2>2, FS_CardinalityType
<1> PICK n \in Nat : n = Cardinality(Kept)
  BY <1>2
<1>3. PICK f \in Bijection(1..n, Kept) :
         /\ \A i, j \in 1..n : i < j => f[i] < f[j]
         /\ pool' = [i \in 1..n |-> pool[f[i]]]
  BY DEF second_update
<1>4. /\ \A i \in 1..n : f[i] \in Kept /\ f[i] \in 1..L
      /\ \A k \in Kept : \E i \in 1..n : f[i] = k
  BY <1>1 DEF Bijection, Injection, Surjection
<1>5. /\ pool' \in Seq(CharacterInst) /\ Len(pool') = n /\ DOMAIN pool' = 1..n
      /\ \A i \in 1..n : pool'[i] = pool[f[i]]
  <2>1. \A i \in 1..n : pool[f[i]] \in CharacterInst  BY <1>4, Entries
  <2> QED  BY <1>3, <2>1
<1>6. /\ now' = now
      /\ owner' \in [Objects -> Models \cup {"none", "pooled"}]
      /\ \A o \in Objects :
            owner'[o] = IF \E i \in 1..L : pool[i].object = o /\ Expired(pool[i])
                        THEN "none" ELSE owner[o]
  <2>1. owner \in [Objects -> Models \cup {"none", "pooled"}]  BY DEF PoolInv, PoolTypeOK
  <2> QED  BY <2>1, Entries DEF second_update
<1>7. PoolTypeOK'
  BY <1>5, <1>6 DEF PoolInv, PoolTypeOK
<1>8. NoAlias'
  <2>1. \A i, j \in 1..n : pool'[i].object = pool'[j].object => i = j
    <3> SUFFICES ASSUME NEW i \in 1..n, NEW j \in 1..n,
                        pool[f[i]].object = pool[f[j]].object, i # j
                 PROVE  FALSE
      BY <1>5
    <3>1. f[i] = f[j]  BY <1>4, Entries DEF PoolInv, NoAlias
    <3>2. f[i] \in Int /\ f[j] \in Int  BY <1>4
    <3>3. i < j \/ j < i  OBVIOUS
    <3> QED  BY <1>3, <3>1, <3>2, <3>3
  <2>2. ASSUME NEW o \in Objects, owner'[o] = "pooled"
        PROVE  \E i \in 1..n : pool'[i].object = o
    <3>1. owner[o] = "pooled" /\ \A i \in 1..L : pool[i].object = o => ~Expired(pool[i])
      BY <1>6, <2>2
    <3>2. PICK k \in 1..L : pool[k].object = o  BY <3>1, Entries DEF PoolInv, NoAlias
    <3>3. k \in Kept  BY <1>1, <3>1, <3>2
    <3> QED  BY <1>4, <1>5, <3>2, <3>3
  <2>3. ASSUME NEW i \in 1..n PROVE owner'[pool'[i].object] = "pooled"
    <3>1. f[i] \in 1..L /\ ~Expired(pool[f[i]]) /\ pool'[i] = pool[f[i]]
      BY <1>1, <1>4, <1>5
    <3>2. pool'[i].object \in Objects /\ owner[pool'[i].object] = "pooled"
      BY <3>1, Entries
    <3>3. \A k \in 1..L : pool[k].object = pool'[i].object => k = f[i]
      BY <3>1, Entries DEF PoolInv, NoAlias
    <3> QED  BY <1>6, <3>1, <3>2, <3>3
  <2> QED  BY <1>5, <2>1, <2>2, <2>3 DEF NoAlias
<1>9. OldestFirst' /\ UsedBefore'
  BY <1>3, <1>4, <1>5, <1>6, Entries DEF PoolInv, OldestFirst, UsedBefore
<1> QED
  BY <1>7, <1>8, <1>9 DEF PoolInv

LEMMA TickStep ==
  ASSUME PoolInv, Tick
  PROVE  PoolInv'
<1>1. now' = now + 1 /\ now' \in 0..MaxNow /\ pool' = pool /\ owner' = owner
  BY PoolAssumption DEF Tick, PoolInv, PoolTypeOK
<1>2. UsedBefore'
  BY <1>1, Entries DEF UsedBefore
<1> QED
  BY <1>1, <1>2 DEF PoolInv, PoolTypeOK, NoAlias, OldestFirst

(* The inductive invariant holds in every state.                           *)
THEOREM PoolInductive == PoolSpec => []PoolInv
<1>1. PoolInv /\ [PoolNext]_PoolVars => PoolInv'
  <2> SUFFICES ASSUME PoolInv, [PoolNext]_PoolVars PROVE PoolInv'
    OBVIOUS
  <2>1. CASE UNCHANGED PoolVars
    BY <2>1 DEF PoolVars, PoolInv, PoolTypeOK, NoAlias, OldestFirst, UsedBefore
  <2> QED
    BY <2>1, GetStep, InstantiateStep, PutStep, SecondUpdateStep, TickStep DEF PoolNext
<1> QED
  BY <1>1, InitPoolInv, PTL DEF PoolSpec

(* Every variable has its type, and every entry a model, an object and the *)
(* time of its last use.                                                   *)
THEOREM PoolTypeCorrect == PoolSpec => []PoolTypeOK
  BY PoolInductive, PTL DEF PoolInv

(* GetCharacter never hands out an object that is destroyed or that        *)
(* another character shows.                                                *)
THEOREM NeverAliased == PoolSpec => []NoAlias
  BY PoolInductive, PTL DEF PoolInv

(* What PutCharacter evicts is the instance that was not used for longest. *)
THEOREM EvictsOldest == PoolSpec => []OldestFirst
  BY PoolInductive, PTL DEF PoolInv

=============================================================================
