----------------------------- MODULE MapContext -----------------------------
(***************************************************************************)
(* The context protocols of a map (network.lua).  The map numbers them     *)
(* from 0 and sends each one as it arises (MapContexProtocol); whoever     *)
(* enters the map, or comes back to it on a new connection, is sent all of *)
(* them at once (MapContexProtocols).  The client remembers the indices it *)
(* has seen until SLeaveMap, and dispatches each protocol once.            *)
(*                                                                         *)
(* The map server is external.  SLeaveMap is one of the messages it sends  *)
(* again after a reconnection (MsgCount); the context protocols are not.   *)
(***************************************************************************)
EXTENDS Integers, Sequences

CONSTANTS Size,     \* bound on the context protocols of a map
          MaxWire,  \* bound on the messages under way
          Bad       \* the indices whose protocol the client cannot decode

ASSUME MapContextAssumption == Size \in Nat /\ Bad \subseteq 0..(Size - 1)

VARIABLES
  MapContexProtocolIndexSet,  \* network.lua
  times,   \* history: how often each protocol of this map was dispatched
  stale,   \* history: the client came to this map without an SLeaveMap
  count,   \* server: the protocols of the map the role is in
  told,    \* server: how many of them it has broadcast, one by one
  left,    \* server: an SLeaveMap the client has not processed yet
  link,    \* "up" or "down"
  wire     \* messages under way

vars == <<MapContexProtocolIndexSet, times, stale, count, told, left, link,
          wire>>

Indices == 0..(Size - 1)

Message == [type : {"MapContexProtocol"}, index : Indices]
           \cup [type : {"MapContexProtocols"}, count : 0..Size]
           \cup [type : {"SLeaveMap"}]

single(i) == [type |-> "MapContexProtocol", index |-> i]
batch(n)  == [type |-> "MapContexProtocols", count |-> n]
leave     == [type |-> "SLeaveMap"]

Init == /\ MapContexProtocolIndexSet = {}
        /\ times = [i \in Indices |-> 0]
        /\ stale = FALSE
        /\ count = 0
        /\ told = 0
        /\ left = FALSE
        /\ link = "up"
        /\ wire = <<>>
-----------------------------------------------------------------------------
Wired(s) == IF link = "up" THEN wire \o s ELSE wire

(* Something happens on the map; its broadcast may come after a batch that *)
(* holds it already.                                                       *)
Arises ==
    /\ count < Size
    /\ count' = count + 1
    /\ UNCHANGED <<MapContexProtocolIndexSet, times, stale, told, left, link, wire>>

Broadcast ==
    /\ Len(wire) < MaxWire /\ told < count
    /\ told' = told + 1
    /\ wire' = Wired(<<single(told)>>)
    /\ UNCHANGED <<MapContexProtocolIndexSet, times, stale, count, left, link>>

(* The role goes to a map with n context protocols.                        *)
Enters(n) ==
    /\ Len(wire) < MaxWire
    /\ count' = n
    /\ told' = n
    /\ left' = TRUE
    /\ wire' = Wired(<<leave, batch(n)>>)
    /\ UNCHANGED <<MapContexProtocolIndexSet, times, stale, link>>

Drop ==
    /\ link = "up"
    /\ link' = "down"
    /\ wire' = <<>>
    /\ UNCHANGED <<MapContexProtocolIndexSet, times, stale, count, told, left>>

(* The same role comes back to the map it is in.                           *)
Relogin ==
    /\ link = "down"
    /\ link' = "up"
    /\ wire' = (IF left THEN <<leave>> ELSE <<>>) \o <<batch(count)>>
    /\ UNCHANGED <<MapContexProtocolIndexSet, times, stale, count, told, left>>

(* Another role session, on whatever map: login.role_logout does not touch *)
(* the set, and no SLeaveMap comes with it.                                *)
RoleLogin(n) ==
    /\ link = "down"
    /\ link' = "up"
    /\ count' = n
    /\ told' = n
    /\ left' = FALSE
    /\ times' = [i \in Indices |-> 0]
    /\ stale' = (MapContexProtocolIndexSet # {})
    /\ wire' = <<batch(n)>>
    /\ UNCHANGED MapContexProtocolIndexSet

Receives(m) == /\ wire # <<>>
               /\ Head(wire) = m
               /\ wire' = Tail(wire)
               /\ UNCHANGED <<count, told, link>>

Dispatched(S) == [i \in Indices |-> IF i \in S THEN times[i] + 1 ELSE times[i]]

(* One protocol: the index is recorded before the message is decoded.      *)
FreshAlways(i) == TRUE   \* mutant: the set is not looked at
Fresh(i) == i \notin MapContexProtocolIndexSet

onmsg_MapContexProtocol(i) ==
    /\ Receives(single(i))
    /\ IF Fresh(i)
       THEN /\ MapContexProtocolIndexSet' = MapContexProtocolIndexSet \cup {i}
            /\ times' = Dispatched({i} \ Bad)
       ELSE UNCHANGED <<MapContexProtocolIndexSet, times>>
    /\ UNCHANGED <<stale, left>>

(* All of them: decoded one after the other, the known ones too; an error  *)
(* ends the loop and loses the rest.                                       *)
Decoded(n)    == {i \in 0..(n - 1) : \A j \in Bad : i < j}

RecordedNone(S) == {}    \* mutant: the batch is not recorded in the set
Recorded(S) == S

onmsg_MapContexProtocols(n) ==
    /\ Receives(batch(n))
    /\ LET new == Decoded(n) \ MapContexProtocolIndexSet
       IN  /\ times' = Dispatched(new)
           /\ MapContexProtocolIndexSet' = MapContexProtocolIndexSet \cup Recorded(new)
    /\ UNCHANGED <<stale, left>>

ClearedNever == MapContexProtocolIndexSet   \* mutant: the listener is not there
Cleared == {}

onmsg_SLeaveMap ==
    /\ Receives(leave)
    /\ MapContexProtocolIndexSet' = Cleared
    /\ times' = [i \in Indices |-> 0]
    /\ stale' = FALSE
    /\ left' = (\E i \in 2..Len(wire) : wire[i] = leave)

Next == \/ Arises \/ Broadcast \/ Drop \/ Relogin
        \/ \E n \in 0..Size : Enters(n) \/ RoleLogin(n) \/ onmsg_MapContexProtocols(n)
        \/ \E i \in Indices : onmsg_MapContexProtocol(i)
        \/ onmsg_SLeaveMap

Spec == Init /\ [][Next]_vars
-----------------------------------------------------------------------------
(* Every variable keeps its type. *)
TypeOK == /\ MapContexProtocolIndexSet \subseteq Indices
          /\ times \in [Indices -> Nat]
          /\ stale \in BOOLEAN
          /\ count \in 0..Size
          /\ told \in 0..Size
          /\ left \in BOOLEAN
          /\ link \in {"up", "down"}
          /\ wire \in Seq(Message)

(* No protocol of a map is dispatched twice, however singles and batches   *)
(* overlap and whatever is lost with a connection.                         *)
AtMostOnce == \A i \in Indices : times[i] <= 1

(* When the client has read all it was sent, it has dispatched every       *)
(* protocol it was told of, up to the first that cannot be decoded (unless *)
(* it came with the set of another map).                                   *)
Complete ==
    link = "up" /\ wire = <<>> /\ ~stale =>
        \A i \in 0..(told - 1) : (\A j \in Bad : i < j) => times[i] = 1

(* Protocols are dispatched in the order in which they arose.              *)
InOrder ==
    [][\A i, j \in Indices : times'[i] > times[i] /\ times[j] > 0 => j < i]_vars
=============================================================================
