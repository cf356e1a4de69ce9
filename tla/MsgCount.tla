------------------------------ MODULE MsgCount ------------------------------
(***************************************************************************)
(* The receive count of common/message.lua.  The client counts the         *)
(* messages of the game server it processes; when it reconnects, login.lua *)
(* sends the count with CRoleRelogin and the server sends again what comes *)
(* after it.  SPing carries the server's own count and overwrites the      *)
(* client's.  Nothing resets the count when another role session starts.   *)
(*                                                                         *)
(* The server is external: it numbers what it sends in a role session,     *)
(* remembers it, and takes the count of a CRoleRelogin at its word.        *)
(***************************************************************************)
EXTENDS Integers, Sequences

CONSTANTS PingCounted,  \* the server numbers SPing too
          MaxSent,      \* bound on the messages of a role session
          MaxWire,      \* bound on the messages under way
          MaxStale      \* bound on the count a role session starts with

ASSUME CountAssumption == PingCounted \in BOOLEAN

VARIABLES
  ProtocolCount,  \* message.lua
  link,           \* "up" or "down"
  wire,           \* messages under way
  log,            \* server: the kinds of the numbered messages it has sent
  last,           \* history: the number the client has got to
  exact           \* history: ProtocolCount was 0 when the role session began,
                  \* or an SPing has told it since, and nothing failed to decode

CountVars == <<ProtocolCount, link, wire, log, last, exact>>

Kinds    == {"data", "chat", "ping"}
Numbered == IF PingCounted THEN {"data", "ping"} ELSE {"data"}
Message  == [kind : Kinds, n : Nat]

sent == Len(log)

CountInit == /\ ProtocolCount = 0
             /\ link = "up"
             /\ wire = <<>>
             /\ log = <<>>
             /\ last = 0
             /\ exact = TRUE
-----------------------------------------------------------------------------
(* The server sends; n is the number of the last numbered message so far.  *)
Send(k) ==
    /\ Len(wire) < MaxWire /\ sent < MaxSent
    /\ log' = IF k \in Numbered THEN Append(log, k) ELSE log
    /\ wire' = IF link = "up" THEN Append(wire, [kind |-> k, n |-> Len(log')]) ELSE wire
    /\ UNCHANGED <<ProtocolCount, link, last, exact>>

(* The connection breaks: what is under way is lost.                       *)
Drop ==
    /\ link = "up"
    /\ link' = "down"
    /\ wire' = <<>>
    /\ UNCHANGED <<ProtocolCount, log, last, exact>>

(* CRoleRelogin(receivedmessagecount), accepted: the server sends again    *)
(* what comes after that number.                                           *)
Resent(count) ==
    [i \in 1..(sent - count) |-> [kind |-> log[count + i], n |-> count + i]]

Relogin ==
    /\ link = "down"
    /\ link' = "up"
    /\ wire' = Resent(ProtocolCount)
    /\ UNCHANGED <<ProtocolCount, log, last, exact>>

(* CRoleLogin: another role, or the server did not know the role any more. *)
RoleLogin ==
    /\ ProtocolCount <= MaxStale
    /\ link' = "up"
    /\ wire' = <<>>
    /\ log' = <<>>
    /\ last' = 0
    /\ exact' = (ProtocolCount = 0)
    /\ UNCHANGED ProtocolCount

(* message.receive.  Names with lx.gs count, but for lx.gs.login and       *)
(* lx.gs.chat: "data" and "ping" do, "chat" does not.  SPing's handler     *)
(* then overwrites the count.                                              *)
CountsAll(k) == TRUE                \* mutant: the name is not looked at
Counts(k) == k # "chat"

CountedAfter(m) == IF Counts(m.kind) THEN ProtocolCount + 1 ELSE ProtocolCount
KeepsCount(m)   == CountedAfter(m)  \* mutant: SPing does not set the count
SetsZero(m)     == IF m.kind = "ping" THEN 0 ELSE CountedAfter(m)         \* mutant
NewCount(m) == IF m.kind = "ping" THEN m.n ELSE CountedAfter(m)

receive ==
    /\ wire # <<>>
    /\ wire' = Tail(wire)
    /\ ProtocolCount' = NewCount(Head(wire))
    /\ last' = IF Head(wire).kind = "chat" THEN last ELSE Head(wire).n
    /\ exact' = (exact \/ Head(wire).kind = "ping")
    /\ UNCHANGED <<link, log>>

(* The message cannot be decoded: the error comes before the count.        *)
receiveFails ==
    /\ wire # <<>>
    /\ wire' = Tail(wire)
    /\ exact' = FALSE
    /\ UNCHANGED <<ProtocolCount, link, log, last>>

CountNext == \/ \E k \in Kinds : Send(k)
             \/ Drop \/ Relogin \/ RoleLogin
             \/ receive \/ receiveFails

CountSpec == CountInit /\ [][CountNext]_CountVars
-----------------------------------------------------------------------------
(* Every variable keeps its type. *)
CountTypeOK ==
    /\ ProtocolCount \in Nat
    /\ link \in {"up", "down"}
    /\ wire \in Seq(Message)
    /\ log \in Seq({"data", "ping"})
    /\ last \in Nat
    /\ exact \in BOOLEAN

(* The count that CRoleRelogin will send is the number the client has got  *)
(* to, so what the server sends again neither repeats nor leaves out       *)
(* anything.                                                               *)
CountExact == exact => ProtocolCount = last

(* While connected, what the client has processed and what is under way    *)
(* are together everything the server has sent, in order, across any       *)
(* number of reconnections.                                                *)
Position(i) == IF i = 0 THEN last ELSE wire[i].n
Step(k) == IF k \in Numbered THEN 1 ELSE 0

NothingMissing ==
    exact /\ link = "up" =>
        /\ \A i \in DOMAIN wire : wire[i].n = Position(i - 1) + Step(wire[i].kind)
        /\ Position(Len(wire)) = sent

(* The detailed receive count implements exactly-once, in-order delivery.  *)
Promise == INSTANCE Delivery WITH sent <- sent, last <- last, exact <- exact
ExactlyOnceInOrder == Promise!Spec
=============================================================================
