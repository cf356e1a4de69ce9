--------------------------- MODULE MessageProofs ----------------------------
(***************************************************************************)
(* The proofs about the way of a message: it is counted as it comes in, so *)
(* that a reconnection neither loses nor doubles it (MsgCount), and it     *)
(* reaches its handlers through the event class (EventBus).                *)
(***************************************************************************)
EXTENDS MsgCount, EventBus, SequenceTheorems, TLAPS

-----------------------------------------------------------------------------
(***************************************************************************)
(* The receive count implements exactly-once, in-order delivery, for any   *)
(* number of messages, connections and role sessions, and whether or not   *)
(* the server numbers SPing.                                               *)
(***************************************************************************)

(* The numbers under way are consecutive and end with the server's,        *)
(* whatever the client believes.                                           *)
Chain ==
    /\ \A i \in DOMAIN wire : i > 1 => wire[i].n = wire[i - 1].n + Step(wire[i].kind)
    /\ wire # <<>> => link = "up" /\ wire[Len(wire)].n = sent

InBounds == /\ exact => last <= sent
            /\ \A i \in DOMAIN wire : /\ wire[i].n <= sent
                                      /\ wire[i].n >= Step(wire[i].kind)
            /\ \A i \in DOMAIN log : log[i] \in Numbered

CountInv == CountTypeOK /\ CountExact /\ NothingMissing /\ Chain /\ InBounds

LEMMA InitCountInv == CountInit => CountInv
  BY DEF CountInit, CountInv, CountTypeOK, CountExact, NothingMissing, Chain, InBounds, Position, sent

LEMMA SendIInv ==
  ASSUME CountInv, NEW k \in Kinds, Send(k)
  PROVE  CountInv'
<1> USE DEF CountInv, CountTypeOK
<1>1. /\ log' \in Seq({"data", "ping"})
      /\ sent' = sent + Step(k)
      /\ \A i \in DOMAIN log' : log'[i] \in Numbered
  BY DEF Send, Numbered, Kinds, Step, sent, InBounds
<1>2. CASE link = "up"
  <2> DEFINE m == [kind |-> k, n |-> sent']
  <2>1. wire' = Append(wire, m) /\ m \in Message /\ m.n = sent' /\ m.kind = k
    BY <1>1, <1>2 DEF Send, Message, sent
  <2> HIDE DEF m
  <2>2. /\ wire' \in Seq(Message)
        /\ Len(wire') = Len(wire) + 1
        /\ \A i \in DOMAIN wire : wire'[i] = wire[i]
        /\ wire'[Len(wire) + 1] = m
        /\ DOMAIN wire' = DOMAIN wire \cup {Len(wire) + 1}
    BY <2>1
  <2>3. CountTypeOK' /\ CountExact'
    BY <1>1, <2>2 DEF Send, CountExact
  <2>4. sent \in Nat /\ sent' \in Nat /\ sent' >= sent
    BY <1>1 DEF sent, Step
  <2>5. InBounds'
    <3>1. exact' => last' <= sent'
      BY <2>4 DEF Send, InBounds
    <3>2. ASSUME NEW i \in DOMAIN wire'
          PROVE  wire'[i].n <= sent' /\ wire'[i].n >= Step(wire'[i].kind)
      <4>1. CASE i \in DOMAIN wire
        <5>1. wire'[i] = wire[i] /\ wire[i] \in Message /\ wire[i].n <= sent
              /\ wire[i].n >= Step(wire[i].kind)
          BY <2>2, <4>1 DEF InBounds
        <5> QED
          BY <2>4, <5>1 DEF Message
      <4>2. CASE i = Len(wire) + 1
        BY <1>1, <2>1, <2>2, <2>4, <4>2 DEF Step, sent
      <4> QED
        BY <2>2, <4>1, <4>2
    <3> QED
      BY <1>1, <3>1, <3>2 DEF InBounds, Step
  <2>6. Chain'
    <3>1. link' = "up" /\ wire'[Len(wire')].n = sent'
      BY <1>2, <2>1, <2>2 DEF Send
    <3>2. ASSUME NEW i \in DOMAIN wire', i > 1
          PROVE  wire'[i].n = wire'[i - 1].n + Step(wire'[i].kind)
      <4>1. CASE i \in DOMAIN wire
        <5>1. i - 1 \in DOMAIN wire
          BY <3>2, <4>1
        <5> QED BY <2>2, <3>2, <4>1, <5>1 DEF Chain
      <4>2. CASE i = Len(wire) + 1
        <5>1. Len(wire) \in DOMAIN wire /\ wire # <<>> /\ i - 1 = Len(wire)
          BY <3>2, <4>2
        <5>2. wire[Len(wire)].n = sent
          BY <5>1 DEF Chain
        <5> QED BY <1>1, <2>1, <2>2, <4>2, <5>1, <5>2
      <4> QED BY <2>2, <4>1, <4>2
    <3> QED BY <3>1, <3>2 DEF Chain
  <2>7. NothingMissing'
    <3> SUFFICES ASSUME exact
                 PROVE  /\ \A i \in DOMAIN wire' : wire'[i].n = Position(i - 1)' + Step(wire'[i].kind)
                        /\ Len(wire') # 0 /\ wire'[Len(wire')].n = sent'
      BY DEF Send, NothingMissing, Position
    <3>1. \A i \in 0..Len(wire) : Position(i)' = Position(i)
      <4>1. \A i \in 0..Len(wire) : i # 0 => wire'[i] = wire[i]
        BY <2>2
      <4> QED BY <4>1 DEF Send, Position
    <3>2. Len(wire) \in Nat /\ wire'[Len(wire) + 1].n = sent' /\ wire'[Len(wire) + 1].kind = k
      BY <2>1, <2>2
    <3>3. Len(wire') # 0 /\ wire'[Len(wire')].n = sent'
      BY <2>2, <3>2
    <3>4. Position(Len(wire)) = sent
      BY <1>2 DEF NothingMissing
    <3>5. ASSUME NEW i \in DOMAIN wire'
          PROVE  wire'[i].n = Position(i - 1)' + Step(wire'[i].kind)
      <4>1. i - 1 \in 0..Len(wire) /\ Position(i - 1)' = Position(i - 1)
        BY <2>2, <3>1
      <4>2. CASE i \in DOMAIN wire
        BY <1>2, <2>2, <4>1, <4>2 DEF NothingMissing
      <4>3. CASE i = Len(wire) + 1
        <5>1. i - 1 = Len(wire)
          BY <3>2, <4>3
        <5> QED BY <1>1, <3>2, <3>4, <4>1, <4>3, <5>1
      <4> QED BY <2>2, <4>2, <4>3
    <3> QED BY <3>3, <3>5
  <2> QED
    BY <2>3, <2>5, <2>6, <2>7
<1>3. CASE link = "down"
  BY <1>1, <1>3 DEF Send, CountExact, NothingMissing, Chain, InBounds, Step, sent
<1> QED
  BY <1>2, <1>3

LEMMA DropIInv == CountInv /\ Drop => CountInv'
  BY DEF Drop, CountInv, CountTypeOK, CountExact, NothingMissing, Chain, InBounds, sent

LEMMA RoleLoginIInv == CountInv /\ RoleLogin => CountInv'
<1> SUFFICES ASSUME CountInv, RoleLogin PROVE CountInv'
  OBVIOUS
<1>1. wire' = <<>> /\ log' = <<>> /\ last' = 0 /\ link' = "up" /\ sent' = 0
  BY DEF RoleLogin, sent
<1>2. exact' \in BOOLEAN /\ (exact' => ProtocolCount' = 0) /\ ProtocolCount' \in Nat
  BY DEF RoleLogin, CountInv, CountTypeOK
<1>3. CountTypeOK'
  BY <1>1, <1>2 DEF CountTypeOK
<1>4. CountExact' /\ Chain' /\ InBounds'
  BY <1>1, <1>2 DEF CountExact, Chain, InBounds
<1>5. NothingMissing'
  BY <1>1 DEF NothingMissing, Position
<1> QED
  BY <1>3, <1>4, <1>5 DEF CountInv

(* What the server sends again follows the count, without a gap.           *)
LEMMA ResentSeq ==
  ASSUME CountTypeOK, NEW c \in Nat, c <= sent
  PROVE  /\ Resent(c) \in Seq(Message)
         /\ Len(Resent(c)) = sent - c
         /\ \A i \in 1..(sent - c) : Resent(c)[i] = [kind |-> log[c + i], n |-> c + i]
<1>1. sent - c \in Nat /\ Len(log) \in Nat /\ sent = Len(log)
  BY DEF CountTypeOK, sent
<1>2. \A i \in 1..(sent - c) : [kind |-> log[c + i], n |-> c + i] \in Message
  BY <1>1 DEF CountTypeOK, Message, Kinds
<1> DEFINE f == [i \in 1..(sent - c) |-> [kind |-> log[c + i], n |-> c + i]]
<1>3. f \in [1..(sent - c) -> Message] /\ DOMAIN f = 1..(sent - c)
  BY <1>2
<1>4. Resent(c) = f
  BY DEF Resent
<1>5. \A i \in 1..(sent - c) : f[i] = [kind |-> log[c + i], n |-> c + i]
  OBVIOUS
<1> HIDE DEF f
<1>6. f \in Seq(Message) /\ Len(f) = sent - c
  BY <1>1, <1>3
<1> QED
  BY <1>4, <1>5, <1>6

LEMMA ReloginIInv == CountInv /\ Relogin => CountInv'
<1> SUFFICES ASSUME CountInv, Relogin PROVE CountInv'
  OBVIOUS
<1> USE DEF CountInv, CountTypeOK
<1> DEFINE c == ProtocolCount
<1>0. c \in Nat /\ sent \in Nat /\ UNCHANGED sent
  BY DEF sent, Relogin
<1>1. CASE c > sent
  <2>1. wire' = <<>>
    BY <1>0, <1>1 DEF Relogin, Resent
  <2> QED
    BY <1>0, <1>1, <2>1
    DEF Relogin, CountExact, NothingMissing, Chain, InBounds, Position
<1>2. CASE c <= sent
  <2>1. /\ wire' \in Seq(Message)
        /\ Len(wire') = sent - c
        /\ \A i \in 1..(sent - c) : wire'[i] = [kind |-> log[c + i], n |-> c + i]
    BY <1>0, <1>2, ResentSeq DEF Relogin
  <2>2. \A i \in 1..(sent - c) : Step(wire'[i].kind) = 1 /\ wire'[i].n = c + i
    <3> TAKE i \in 1..(sent - c)
    <3>1. c + i \in DOMAIN log
      BY <1>0 DEF sent
    <3>2. wire'[i].kind = log[c + i] /\ wire'[i].n = c + i
      BY <2>1
    <3> QED
      BY <3>1, <3>2 DEF InBounds, Step
  <2>3. DOMAIN wire' = 1..(sent - c)
    BY <2>1
  <2>4. CountTypeOK' /\ CountExact'
    BY <2>1 DEF Relogin, CountExact
  <2>5. \A i \in DOMAIN wire' : i > 1 => wire'[i].n = wire'[i - 1].n + Step(wire'[i].kind)
    <3> SUFFICES ASSUME NEW i \in DOMAIN wire', i > 1
                 PROVE  wire'[i].n = wire'[i - 1].n + Step(wire'[i].kind)
      OBVIOUS
    <3>1. i \in 1..(sent - c) /\ i - 1 \in 1..(sent - c)
      BY <1>0, <2>3
    <3>2. wire'[i].n = c + i /\ wire'[i - 1].n = c + (i - 1) /\ Step(wire'[i].kind) = 1
      BY <2>2, <3>1
    <3> QED
      BY <1>0, <3>1, <3>2
  <2>7. wire' # <<>> => wire'[Len(wire')].n = sent'
    <3> SUFFICES ASSUME wire' # <<>> PROVE wire'[Len(wire')].n = sent'
      OBVIOUS
    <3>1. Len(wire') \in 1..(sent - c)
      BY <1>0, <2>1
    <3> QED
      BY <1>0, <2>1, <2>2, <3>1
  <2>8. Chain'
    BY <2>5, <2>7 DEF Relogin, Chain, Step
  <2>9. InBounds'
    <3>1. \A i \in DOMAIN wire' : wire'[i].n <= sent' /\ wire'[i].n >= Step(wire'[i].kind)
      BY <1>0, <2>2, <2>3
    <3> QED
      BY <1>0, <3>1 DEF Relogin, InBounds, Step
  <2>6. NothingMissing'
    BY <1>0, <2>1, <2>2, <2>3 DEF Relogin, NothingMissing, Position, CountExact, Step
  <2> QED
    BY <2>4, <2>6, <2>8, <2>9
<1> QED
  BY <1>0, <1>1, <1>2

(* Consuming the first message keeps the chain.                            *)
LEMMA TailChain ==
  ASSUME CountInv, wire # <<>>, wire' = Tail(wire), UNCHANGED <<link, log>>
  PROVE  /\ Head(wire) = wire[1] /\ wire[1] \in Message
         /\ wire' \in Seq(Message) /\ Len(wire') = Len(wire) - 1
         /\ \A i \in 1..(Len(wire) - 1) : wire'[i] = wire[i + 1]
         /\ Chain'
         /\ sent' = sent
<1> USE DEF CountInv, CountTypeOK
<1>1. /\ Head(wire) = wire[1] /\ wire[1] \in Message
      /\ wire' \in Seq(Message) /\ Len(wire') = Len(wire) - 1
      /\ \A i \in 1..(Len(wire) - 1) : wire'[i] = wire[i + 1]
      /\ sent' = sent
  BY DEF sent
<1>2. ASSUME NEW i \in DOMAIN wire', i > 1
      PROVE  wire'[i].n = wire'[i - 1].n + Step(wire'[i].kind)
  <2>1. wire'[i] = wire[i + 1] /\ wire'[i - 1] = wire[i] /\ i + 1 \in DOMAIN wire
    BY <1>1, <1>2
  <2>2. i \in Int /\ i + 1 > 1 /\ (i + 1) - 1 = i
    BY <1>1, <1>2
  <2>3. wire[i + 1].n = wire[(i + 1) - 1].n + Step(wire[i + 1].kind)
    BY <2>1, <2>2 DEF Chain
  <2> QED
    BY <2>1, <2>2, <2>3
<1>3. wire' # <<>> => wire'[Len(wire')] = wire[Len(wire)]
  BY <1>1
<1>4. Chain'
  BY <1>1, <1>2, <1>3 DEF Chain, Step
<1> QED
  BY <1>1, <1>4

LEMMA ReceiveFailsIInv == CountInv /\ receiveFails => CountInv'
<1> SUFFICES ASSUME CountInv, receiveFails PROVE CountInv'
  OBVIOUS
<1>1. /\ wire' \in Seq(Message) /\ Len(wire') = Len(wire) - 1
      /\ \A i \in 1..(Len(wire) - 1) : wire'[i] = wire[i + 1]
      /\ Chain' /\ sent' = sent
  BY TailChain DEF receiveFails
<1>2. ~exact' /\ UNCHANGED <<ProtocolCount, link, log, last>> /\ wire # <<>>
  BY DEF receiveFails
<1>3. CountTypeOK'
  BY <1>1, <1>2 DEF receiveFails, CountInv, CountTypeOK
<1>4. CountExact' /\ NothingMissing'
  BY <1>2 DEF CountExact, NothingMissing
<1>5. InBounds'
  <2>1. ASSUME NEW i \in DOMAIN wire'
        PROVE  wire'[i].n <= sent' /\ wire'[i].n >= Step(wire'[i].kind)
    <3>1. wire'[i] = wire[i + 1] /\ i + 1 \in DOMAIN wire
      BY <1>1 DEF CountInv, CountTypeOK
    <3> QED
      BY <1>1, <3>1 DEF CountInv, InBounds
  <2> QED
    BY <1>2, <2>1 DEF InBounds, CountInv, Step
<1> QED
  BY <1>1, <1>3, <1>4, <1>5 DEF CountInv

LEMMA ReceiveIInv == CountInv /\ receive => CountInv'
<1> SUFFICES ASSUME CountInv, receive PROVE CountInv'
  OBVIOUS
<1> DEFINE m == wire[1]
<1>1. /\ Head(wire) = m /\ m \in Message
      /\ wire' \in Seq(Message) /\ Len(wire') = Len(wire) - 1
      /\ \A i \in 1..(Len(wire) - 1) : wire'[i] = wire[i + 1]
      /\ Chain' /\ sent' = sent /\ link = "up"
  BY TailChain DEF receive, CountInv, Chain
<1>2. 1 \in DOMAIN wire /\ Len(wire) \in Nat /\ m.n <= sent /\ sent \in Nat /\ last \in Nat
  BY DEF receive, CountInv, CountTypeOK, InBounds, sent
<1>3. exact => m.n = last + Step(m.kind)
  BY <1>1, <1>2 DEF CountInv, NothingMissing, Position
<1>4. /\ ProtocolCount' = NewCount(m)
      /\ last' = IF m.kind = "chat" THEN last ELSE m.n
      /\ exact' = (exact \/ m.kind = "ping")
  BY <1>1 DEF receive
<1>5. m.kind \in Kinds /\ m.n \in Nat /\ ProtocolCount \in Nat
  BY <1>1 DEF Message, CountInv, CountTypeOK
<1>6. exact' => ProtocolCount' = last' /\ last' = m.n
  <2>1. CASE m.kind = "ping"
    BY <1>4, <2>1 DEF NewCount
  <2>2. CASE m.kind # "ping" /\ exact
    <3>1. ProtocolCount = last /\ m.n = last + Step(m.kind)
      BY <1>3, <2>2 DEF CountInv, CountExact
    <3>2. CASE m.kind = "chat"
      BY <1>2, <1>4, <3>1, <3>2 DEF NewCount, CountedAfter, Counts, Step, Numbered
    <3>3. CASE m.kind = "data"
      BY <1>2, <1>4, <3>1, <3>3 DEF NewCount, CountedAfter, Counts, Step, Numbered
    <3> QED
      BY <1>5, <2>2, <3>2, <3>3 DEF Kinds
  <2> QED
    BY <1>4, <2>1, <2>2
<1>7. CountTypeOK'
  BY <1>1, <1>2, <1>4, <1>5
  DEF receive, NewCount, CountedAfter, CountInv, CountTypeOK
<1>8. InBounds'
  <2>1. ASSUME NEW i \in DOMAIN wire'
        PROVE  wire'[i].n <= sent' /\ wire'[i].n >= Step(wire'[i].kind)
    <3>1. wire'[i] = wire[i + 1] /\ i + 1 \in DOMAIN wire
      BY <1>1 DEF CountInv, CountTypeOK
    <3> QED
      BY <1>1, <3>1 DEF CountInv, InBounds
  <2>2. exact' => last' <= sent'
    BY <1>1, <1>2, <1>6
  <2>3. log' = log
    BY DEF receive
  <2> QED
    BY <2>1, <2>2, <2>3 DEF CountInv, InBounds, Step
<1>9. NothingMissing'
  <2> SUFFICES ASSUME exact' PROVE NothingMissing'
    BY DEF NothingMissing
  <2>1. last' = m.n
    BY <1>6
  <2>2. Chain /\ DOMAIN wire = 1..Len(wire) /\ DOMAIN wire' = 1..Len(wire')
    BY <1>1 DEF CountInv, CountTypeOK
  <2>3. ASSUME NEW i \in DOMAIN wire'
        PROVE  wire'[i].n = Position(i - 1)' + Step(wire'[i].kind)
    <3>1. wire'[i] = wire[i + 1] /\ i + 1 \in DOMAIN wire /\ i + 1 > 1
      BY <1>1, <1>2, <2>2
    <3>2. wire[i + 1].n = wire[i].n + Step(wire[i + 1].kind)
      BY <2>2, <3>1 DEF Chain
    <3>3. Position(i - 1)' = wire[i].n
      BY <1>1, <1>2, <2>1, <2>2 DEF Position
    <3> QED
      BY <3>1, <3>2, <3>3
  <2>4. Position(Len(wire))' = sent'
    BY <1>1, <1>2, <2>1, <2>2 DEF Position, Chain
  <2> QED
    BY <2>3, <2>4 DEF NothingMissing, Step
<1> QED
  BY <1>1, <1>6, <1>7, <1>8, <1>9 DEF CountInv, CountExact

LEMMA StutterCountInv == CountInv /\ UNCHANGED CountVars => CountInv'
  BY DEF CountVars, CountInv, CountTypeOK, CountExact, NothingMissing, Chain, InBounds, Position, sent

LEMMA NextCountInv == CountInv /\ [CountNext]_CountVars => CountInv'
  BY SendIInv, DropIInv, RoleLoginIInv, ReloginIInv, ReceiveIInv, ReceiveFailsIInv,
     StutterCountInv DEF CountNext

(* The inductive invariant holds in every state.                           *)
THEOREM CountInductive == CountSpec => []CountInv
  BY InitCountInv, NextCountInv, PTL DEF CountSpec
-----------------------------------------------------------------------------
(* The count that CRoleRelogin sends is exact whenever it can be.          *)
THEOREM CountIsExact == CountSpec => []CountExact
<1>1. CountInv => CountExact
  BY DEF CountInv
<1> QED
  BY <1>1, CountInductive, PTL

(* Processed and under way are together all the server has sent.           *)
THEOREM NothingIsMissing == CountSpec => []NothingMissing
<1>1. CountInv => NothingMissing
  BY DEF CountInv
<1> QED
  BY <1>1, CountInductive, PTL

LEMMA InitImplements == CountInit => Promise!Init
  BY DEF CountInit, Promise!Init, sent

LEMMA ReceiveImplements == CountInv /\ receive => [Promise!Next]_(Promise!vars)
<1> SUFFICES ASSUME CountInv, receive PROVE [Promise!Next]_(Promise!vars)
  OBVIOUS
<1> DEFINE m == wire[1]
<1>1. /\ m \in Message /\ m.n <= sent /\ link = "up" /\ 1 \in DOMAIN wire
      /\ last \in Nat /\ sent \in Nat /\ exact \in BOOLEAN /\ Head(wire) = m /\ sent' = sent
      /\ m.n >= Step(m.kind)
  <2>1. wire # <<>> /\ wire \in Seq(Message)
    BY DEF receive, CountInv, CountTypeOK
  <2>2. m \in Message /\ 1 \in DOMAIN wire /\ Head(wire) = m
    BY <2>1
  <2> QED
    BY <2>1, <2>2 DEF receive, CountInv, CountTypeOK, InBounds, Chain, sent
<1>0. m.kind \in Kinds /\ m.n \in Nat
  BY <1>1 DEF Message
<1>2. exact => m.n = last + Step(m.kind)
  BY <1>1 DEF CountInv, NothingMissing, Position
<1>3. /\ last' = IF m.kind = "chat" THEN last ELSE m.n
      /\ exact' = (exact \/ m.kind = "ping")
  BY <1>1 DEF receive
<1>4. CASE m.kind = "chat"
  BY <1>1, <1>3, <1>4 DEF Promise!vars
<1>5. CASE m.kind = "ping"
  <2>1. exact' = TRUE /\ last' = m.n
    BY <1>3, <1>5
  <2>2. m.n \in IF exact THEN last..(last + 1) ELSE 0..sent
    BY <1>0, <1>1, <1>2 DEF Step
  <2>3. Promise!Learn
    BY <1>1, <2>1, <2>2 DEF Promise!Learn
  <2> QED
    BY <2>3 DEF Promise!Next
<1>6. CASE m.kind = "data"
  <2>1. m.n >= 1
    BY <1>0, <1>1, <1>6 DEF Step, Numbered
  <2>2. Promise!Deliver
    BY <1>0, <1>1, <1>2, <1>3, <1>6, <2>1 DEF Promise!Deliver, Step, Numbered
  <2> QED
    BY <2>2 DEF Promise!Next
<1> QED
  BY <1>0, <1>4, <1>5, <1>6 DEF Kinds

LEMMA NextImplements == CountInv /\ [CountNext]_CountVars => [Promise!Next]_(Promise!vars)
<1> SUFFICES ASSUME CountInv, [CountNext]_CountVars PROVE [Promise!Next]_(Promise!vars)
  OBVIOUS
<1>1. ASSUME NEW k \in Kinds, Send(k) PROVE Promise!Send \/ UNCHANGED Promise!vars
  BY <1>1 DEF Send, CountInv, CountTypeOK, Promise!Send, Promise!vars, Numbered, Kinds, sent
<1>2. CASE Drop \/ Relogin
  BY <1>2 DEF Drop, Relogin, Promise!vars, sent
<1>3. CASE RoleLogin
  <2>1. Promise!NewSession
    BY <1>3 DEF RoleLogin, Promise!NewSession, sent
  <2> QED
    BY <2>1 DEF Promise!Next
<1>4. CASE receive
  BY <1>4, ReceiveImplements
<1>5. CASE receiveFails
  <2>1. Promise!Forget
    BY <1>5 DEF receiveFails, Promise!Forget, sent
  <2> QED
    BY <2>1 DEF Promise!Next
<1>6. CASE UNCHANGED CountVars
  BY <1>6 DEF CountVars, Promise!vars, sent
<1> QED
  BY <1>1, <1>2, <1>3, <1>4, <1>5, <1>6 DEF CountNext, Promise!Next

(* The receive count implements exactly-once, in-order delivery.           *)
THEOREM Implements == CountSpec => ExactlyOnceInOrder
  BY InitImplements, NextImplements, CountInductive, PTL
  DEF CountSpec, ExactlyOnceInOrder, Promise!Spec

-----------------------------------------------------------------------------
(***************************************************************************)
(* What the event class promises to the code that registers with it, for   *)
(* any set of events, any number of listeners and any depth of nested      *)
(* triggers.                                                               *)
(***************************************************************************)

(* What the traversals under way still owe is what the tables hold, and    *)
(* every id was handed out by the counter.                                 *)
DueIsRegistered ==
    \A i \in DOMAIN stack : stack[i].due \subseteq name_listener_set_map[stack[i].target]

IdsFromCounter ==
    \A e \in Eids : home[e] # NoTarget => e <= next_id

(* An id keeps the event it was handed out for.                            *)
IdsStayHome == \A e \in Eids : id_listener_set_map[e] \in {NoTarget, home[e]}

IInv == TypeOK /\ MapsAgree /\ DueIsRegistered /\ IdsFromCounter /\ IdsStayHome

LEMMA FunctionIsSeq ==
  ASSUME NEW S, NEW n \in Nat, NEW f \in [1..n -> S]
  PROVE  f \in Seq(S) /\ Len(f) = n
  BY SeqDef, LenProperties, SMT

(* A stack whose frames are changed one by one stays a stack.              *)
LEMMA StackMap ==
  ASSUME NEW s \in Seq(Frame), NEW f,
         f = [i \in DOMAIN s |-> f[i]],
         \A i \in DOMAIN s : f[i] \in Frame
  PROVE  f \in Seq(Frame) /\ Len(f) = Len(s) /\ DOMAIN f = DOMAIN s
<1>1. DOMAIN s = 1..Len(s) /\ Len(s) \in Nat
  OBVIOUS
<1>2. f \in [1..Len(s) -> Frame]
  BY <1>1
<1> QED
  BY <1>1, <1>2, FunctionIsSeq

(* What a registration and a removal make of the stack.                    *)
LEMMA InsertedStack ==
  ASSUME TypeOK, NEW t, NEW e
  PROVE  /\ Inserted(t, e) \in Seq(Frame)
         /\ Len(Inserted(t, e)) = Len(stack)
         /\ DOMAIN Inserted(t, e) = DOMAIN stack
<1>1. ASSUME NEW i \in DOMAIN stack
      PROVE  Inserted(t, e)[i] \in Frame
  <2>1. stack[i] \in Frame
    BY DEF TypeOK
  <2>2. [stack[i] EXCEPT !.dirty = TRUE] \in Frame
    BY <2>1 DEF Frame
  <2> QED
    BY <2>1, <2>2 DEF Inserted
<1>2. Inserted(t, e) = [i \in DOMAIN stack |-> Inserted(t, e)[i]]
  BY DEF Inserted
<1> QED
  BY <1>1, <1>2, StackMap DEF TypeOK

LEMMA DeletedStack ==
  ASSUME TypeOK, NEW e
  PROVE  /\ Deleted(e) \in Seq(Frame)
         /\ Len(Deleted(e)) = Len(stack)
         /\ DOMAIN Deleted(e) = DOMAIN stack
         /\ \A i \in DOMAIN stack : /\ Deleted(e)[i].target = stack[i].target
                                    /\ Deleted(e)[i].due = stack[i].due \ {e}
<1>1. \A i \in DOMAIN stack : /\ Deleted(e)[i] \in Frame
                             /\ Deleted(e)[i].target = stack[i].target
                             /\ Deleted(e)[i].due = stack[i].due \ {e}
  <2> TAKE i \in DOMAIN stack
  <2>1. stack[i] \in Frame
    BY DEF TypeOK
  <2>2. Deleted(e)[i] = [stack[i] EXCEPT !.due = @ \ {e}]
    BY DEF Deleted
  <2> QED
    BY <2>1, <2>2 DEF Frame
<1>2. Deleted(e) = [i \in DOMAIN stack |-> Deleted(e)[i]]
  BY DEF Deleted
<1> QED
  BY <1>1, <1>2, StackMap DEF TypeOK

LEMMA InitIInv == Init => IInv
  BY EventAssumption
  DEF Init, IInv, TypeOK, MapsAgree, DueIsRegistered, IdsFromCounter, IdsStayHome, Eids, Frame

(* A registration of e with t, as add and addwitheid make it.              *)
LEMMA RegisterIInv ==
  ASSUME IInv, NEW t \in Targets, NEW e \in Eids, Register(t, e),
         id_listener_set_map[e] \in {t, NoTarget},
         next_id' \in 0..MaxId, next_id <= next_id', e <= next_id',
         home' \in [Eids -> Targets \cup {NoTarget}],
         \A k \in Eids : home'[k] # NoTarget => k <= next_id',
         home'[e] = t, \A k \in Eids \ {e} : home'[k] = home[k]
  PROVE  IInv'
<1> USE DEF IInv, TypeOK
<1>1. /\ stack' \in Seq(Frame)
      /\ DOMAIN stack' = DOMAIN stack
  BY InsertedStack DEF Register
<1>2. /\ name_listener_set_map' \in [Targets -> SUBSET Eids]
      /\ id_listener_set_map' \in [Eids -> Targets \cup {NoTarget}]
  BY DEF Register
<1>3. MapsAgree'
  BY EventAssumption DEF Register, MapsAgree
<1>4. DueIsRegistered'
  <2> SUFFICES ASSUME NEW i \in DOMAIN stack
               PROVE  stack'[i].due \subseteq name_listener_set_map'[stack'[i].target]
    BY <1>1 DEF DueIsRegistered
  <2>1. stack[i] \in Frame
    OBVIOUS
  <2>2. stack'[i].due = stack[i].due /\ stack'[i].target = stack[i].target
    BY <2>1 DEF Register, Inserted, Frame
  <2>3. name_listener_set_map[stack[i].target] \subseteq name_listener_set_map'[stack[i].target]
    BY <2>1 DEF Register, Frame
  <2> QED
    BY <2>2, <2>3 DEF DueIsRegistered
<1>5. IdsFromCounter' /\ IdsStayHome'
  BY DEF IdsFromCounter, IdsStayHome, Register, Eids
<1> QED
  BY <1>1, <1>2, <1>3, <1>4, <1>5

LEMMA AddIInv ==
  ASSUME IInv, NEW t \in Targets, add(t)
  PROVE  IInv'
<1> USE DEF IInv, TypeOK
<1>1. FreshId \in Eids /\ FreshId = next_id + 1
  BY EventAssumption DEF add, FreshId, Eids
<1>2. id_listener_set_map[FreshId] = NoTarget
  BY <1>1, EventAssumption DEF IdsStayHome, IdsFromCounter, Eids
<1>3. home' \in [Eids -> Targets \cup {NoTarget}]
  BY <1>1 DEF add
<1>4. \A k \in Eids : home'[k] # NoTarget => k <= next_id'
  BY <1>1 DEF add, IdsFromCounter, Eids
<1>5. next_id' \in 0..MaxId /\ next_id <= next_id' /\ FreshId <= next_id'
  BY <1>1, EventAssumption DEF add, Eids
<1>6. home'[FreshId] = t /\ \A k \in Eids \ {FreshId} : home'[k] = home[k]
  BY <1>1 DEF add
<1> QED
  BY <1>1, <1>2, <1>3, <1>4, <1>5, <1>6, RegisterIInv DEF add

LEMMA AddWithEidIInv ==
  ASSUME IInv, NEW t \in Targets, NEW e \in Eids, addwitheid(t, e)
  PROVE  IInv'
<1> USE DEF IInv, TypeOK
<1>1. id_listener_set_map[e] \in {t, NoTarget}
  BY DEF addwitheid, IdsStayHome
<1>2. e <= next_id
  BY EventAssumption DEF addwitheid, IdsFromCounter
<1> QED
  BY <1>1, <1>2, RegisterIInv DEF addwitheid, IdsFromCounter

LEMMA RemoveIInv ==
  ASSUME IInv, NEW e \in Eids, remove(e)
  PROVE  IInv'
<1> USE DEF IInv, TypeOK
<1>1. CASE id_listener_set_map[e] = NoTarget
  BY <1>1 DEF remove, MapsAgree, DueIsRegistered, IdsFromCounter, IdsStayHome
<1>2. CASE id_listener_set_map[e] # NoTarget
  <2> DEFINE t == id_listener_set_map[e]
  <2>0. t \in Targets
    BY <1>2
  <2>1. /\ name_listener_set_map' = [name_listener_set_map EXCEPT ![t] = @ \ {e}]
        /\ id_listener_set_map' = [id_listener_set_map EXCEPT ![e] = NoTarget]
        /\ stack' = Deleted(e)
        /\ UNCHANGED <<next_id, home>>
    BY <1>2 DEF remove, Cleared
  <2>2. \A i \in DOMAIN stack : /\ Deleted(e)[i].target = stack[i].target
                               /\ Deleted(e)[i].due = stack[i].due \ {e}
    BY DeletedStack
  <2>3. stack' \in Seq(Frame) /\ DOMAIN stack' = DOMAIN stack
    BY <2>1, DeletedStack
  <2>4. TypeOK'
    BY <2>0, <2>1, <2>3
  <2>5. MapsAgree' /\ IdsFromCounter' /\ IdsStayHome'
    BY <2>0, <2>1, EventAssumption DEF MapsAgree, IdsFromCounter, IdsStayHome
  <2>6. DueIsRegistered'
    <3> SUFFICES ASSUME NEW i \in DOMAIN stack
                 PROVE  stack'[i].due \subseteq name_listener_set_map'[stack'[i].target]
      BY <2>3 DEF DueIsRegistered
    <3>1. stack[i] \in Frame
      OBVIOUS
    <3>2. stack[i].target \in Targets
      BY <3>1 DEF Frame
    <3>3. name_listener_set_map[stack[i].target] \ {e}
            \subseteq name_listener_set_map'[stack[i].target]
      BY <2>0, <2>1, <3>2
    <3> QED
      BY <2>1, <2>2, <3>3 DEF DueIsRegistered
  <2> QED
    BY <2>4, <2>5, <2>6
<1> QED
  BY <1>1, <1>2

(* The steps of a traversal touch the innermost frame only.                *)
LEMMA FrameIInv ==
  ASSUME IInv, UNCHANGED <<next_id, name_listener_set_map, id_listener_set_map, home>>,
         stack' \in Seq(Frame),
         \A i \in DOMAIN stack' :
            stack'[i].due \subseteq name_listener_set_map[stack'[i].target]
  PROVE  IInv'
  BY DEF IInv, TypeOK, MapsAgree, DueIsRegistered, IdsFromCounter, IdsStayHome

LEMMA TriggerIInv ==
  ASSUME IInv, NEW t \in Targets, trigger(t)
  PROVE  IInv'
<1> USE DEF IInv, TypeOK
<1> DEFINE f == [target  |-> t, due |-> name_listener_set_map[t], visited |-> {},
                 dirty   |-> FALSE, calling |-> 0]
<1>1. f \in Frame
  BY DEF Frame
<1>2. stack' = Append(stack, f)
  BY DEF trigger
<1>3. f.due \subseteq name_listener_set_map[f.target]
  OBVIOUS
<1> HIDE DEF f
<1>4. /\ stack' \in Seq(Frame)
      /\ \A i \in DOMAIN stack' : stack'[i] = f \/ (i \in DOMAIN stack /\ stack'[i] = stack[i])
  BY <1>1, <1>2
<1> QED
  BY <1>3, <1>4, FrameIInv DEF trigger, DueIsRegistered

LEMMA TopIInv ==
  ASSUME IInv, stack # <<>>, NEW g \in Frame,
         g.due = top.due, g.target = top.target,
         stack' = [stack EXCEPT ![Len(stack)] = g],
         UNCHANGED <<next_id, name_listener_set_map, id_listener_set_map, home>>
  PROVE  IInv'
<1> USE DEF IInv, TypeOK
<1>1. Len(stack) \in DOMAIN stack
  OBVIOUS
<1>2. /\ stack' \in Seq(Frame) /\ DOMAIN stack' = DOMAIN stack
      /\ \A i \in DOMAIN stack : i # Len(stack) => stack'[i] = stack[i]
      /\ stack'[Len(stack)] = g
  BY <1>1
<1> QED
  BY <1>1, <1>2, FrameIInv DEF DueIsRegistered, top

LEMMA PopIInv ==
  ASSUME IInv, stack # <<>>, stack' = SubSeq(stack, 1, Len(stack) - 1),
         UNCHANGED <<next_id, name_listener_set_map, id_listener_set_map, home>>
  PROVE  IInv'
<1> USE DEF IInv, TypeOK
<1>1. /\ stack' \in Seq(Frame)
      /\ \A i \in DOMAIN stack' : i \in DOMAIN stack /\ stack'[i] = stack[i]
  OBVIOUS
<1> QED
  BY <1>1, FrameIInv DEF DueIsRegistered

LEMMA TopIsFrame ==
  ASSUME TypeOK, stack # <<>>
  PROVE  top \in Frame
  BY DEF TypeOK, top

LEMMA CallIInv == IInv /\ call => IInv'
<1> SUFFICES ASSUME IInv, call PROVE IInv'
  OBVIOUS
<1>1. stack # <<>> /\ top \in Frame
  BY TopIsFrame DEF call, IInv
<1>2. PICK e \in Pairs(top) : stack' = [stack EXCEPT ![Len(stack)] = Called(top, e)]
  BY DEF call
<1> DEFINE g == Called(top, e)
<1>3. e \in Eids
  BY <1>1 DEF Pairs, IInv, TypeOK, Frame
<1>4. g \in Frame /\ g.due = top.due /\ g.target = top.target
  BY <1>1, <1>3 DEF Frame, Called
<1>5. stack' = [stack EXCEPT ![Len(stack)] = g]
  BY <1>2
<1> HIDE DEF g
<1> QED
  BY <1>1, <1>4, <1>5, TopIInv DEF call

LEMMA ReturnIInv == IInv /\ return => IInv'
<1> SUFFICES ASSUME IInv, return PROVE IInv'
  OBVIOUS
<1>1. stack # <<>> /\ top \in Frame
  BY TopIsFrame DEF return, IInv
<1> DEFINE g == [top EXCEPT !.calling = 0]
<1>2. g \in Frame /\ g.due = top.due /\ g.target = top.target
  BY <1>1 DEF Frame
<1>3. stack' = [stack EXCEPT ![Len(stack)] = g]
  BY DEF return, Xpcall, Resumed
<1> HIDE DEF g
<1> QED
  BY <1>1, <1>2, <1>3, TopIInv DEF return

LEMMA FinishIInv == IInv /\ finish => IInv'
  BY PopIInv DEF finish

LEMMA StutterIInv == IInv /\ UNCHANGED vars => IInv'
  BY DEF vars, IInv, TypeOK, MapsAgree, DueIsRegistered, IdsFromCounter, IdsStayHome

LEMMA NextIInv == IInv /\ [Next]_vars => IInv'
  BY AddIInv, AddWithEidIInv, RemoveIInv, TriggerIInv, CallIInv, ReturnIInv,
     FinishIInv, StutterIInv DEF Next

(* The inductive invariant holds in every state.                           *)
THEOREM Inductive == Spec => []IInv
  BY InitIInv, NextIInv, PTL DEF Spec
-----------------------------------------------------------------------------
(* Type correctness of the two maps, the counter and the triggers.         *)
THEOREM TypeCorrect == Spec => []TypeOK
<1>1. IInv => TypeOK
  BY DEF IInv
<1> QED
  BY <1>1, Inductive, PTL

(* remove(eid) finds the one table that holds eid.                         *)
THEOREM MapsAgreeAlways == Spec => []MapsAgree
<1>1. IInv => MapsAgree
  BY DEF IInv
<1> QED
  BY <1>1, Inductive, PTL

(* No id is handed out twice.                                              *)
THEOREM NoIdReuse == Spec => IdsNeverReused
<1> DEFINE A == \A e \in Eids : home[e] # NoTarget => home'[e] = home[e] /\ next_id' >= e
<1>1. IInv /\ [Next]_vars => [A]_vars
  <2> SUFFICES ASSUME IInv, Next PROVE A
    OBVIOUS
  <2> USE DEF IInv, TypeOK
  <2>1. ASSUME NEW t \in Targets, add(t) PROVE A
    <3>1. FreshId = next_id + 1 /\ FreshId \in Eids
      BY <2>1, EventAssumption DEF add, FreshId, Eids
    <3> QED
      BY <2>1, <3>1 DEF add, IdsFromCounter, Eids
  <2>2. CASE UNCHANGED <<next_id, home>>
    BY <2>2 DEF IdsFromCounter, Eids
  <2> QED
    BY <2>1, <2>2 DEF Next, addwitheid, remove, trigger, call, return, finish
<1> QED
  BY <1>1, Inductive, PTL DEF Spec, IdsNeverReused

(* What a step that starts the handler e is: a call, and e is in the table *)
(* that the innermost trigger walks.                                       *)
LEMMA StartIsCall ==
  ASSUME IInv, Next, NEW e \in Eids, Starts(e)
  PROVE  call /\ e \in Pairs(top)
<1> USE DEF IInv, TypeOK
<1>1. Len(stack') = Len(stack) /\ stack # <<>> /\ top.calling = 0
      /\ stack'[Len(stack)].calling = e /\ Len(stack) \in DOMAIN stack /\ e # 0
  BY EventAssumption DEF Starts, Eids
<1>2. ~CodeRuns
  BY <1>1 DEF CodeRuns
<1>3. ~return
  BY <1>1 DEF return
<1>4. ~finish
  BY <1>1 DEF finish
<1>5. call
  BY <1>2, <1>3, <1>4 DEF Next, add, addwitheid, remove, trigger
<1>6. PICK d \in Pairs(top) : stack' = [stack EXCEPT ![Len(stack)] = Called(top, d)]
  BY <1>5 DEF call
<1>7. top \in Frame /\ top = stack[Len(stack)]
  BY <1>1, TopIsFrame DEF top
<1>8. stack'[Len(stack)] = Called(top, d)
  BY <1>1, <1>6, <1>7
<1>9. d = e
  BY <1>1, <1>7, <1>8 DEF Frame, Called
<1> QED
  BY <1>5, <1>6, <1>9

(* No handler is called after it was removed.                              *)
THEOREM NoCallAfterRemoveAlways == Spec => NoCallAfterRemove
<1> DEFINE A == \A e \in Eids : Starts(e) => id_listener_set_map[e] = top.target
<1>1. IInv /\ [Next]_vars => [A]_vars
  <2> SUFFICES ASSUME IInv, Next, NEW e \in Eids, Starts(e)
               PROVE  id_listener_set_map[e] = top.target
    OBVIOUS
  <2>1. e \in Pairs(top) /\ call
    BY StartIsCall
  <2>2. top \in Frame
    BY <2>1, TopIsFrame DEF IInv, call
  <2> QED
    BY <2>1, <2>2 DEF Pairs, IInv, MapsAgree, Frame
<1> QED
  BY <1>1, Inductive, PTL DEF Spec, NoCallAfterRemove

(* Only the end of a traversal takes a frame off the stack.                *)
LEMMA OnlyFinishPops ==
  ASSUME IInv, Next, Len(stack') < Len(stack)
  PROVE  finish
<1> USE DEF IInv, TypeOK
<1>1. ASSUME NEW t \in Targets, NEW e \in Eids, Register(t, e)
      PROVE  FALSE
  BY <1>1, InsertedStack DEF Register
<1>2. ASSUME NEW e \in Eids, stack' = Deleted(e)
      PROVE  FALSE
  BY <1>2, DeletedStack
<1>3. ASSUME NEW g, stack' = [stack EXCEPT ![Len(stack)] = g]
      PROVE  FALSE
  BY <1>3
<1>4. \A t \in Targets : ~add(t) /\ ~trigger(t)
  <2> TAKE t \in Targets
  <2>1. ~add(t)
    BY <1>1, EventAssumption DEF add, FreshId, Eids
  <2>2. ~trigger(t)
    BY DEF trigger
  <2> QED
    BY <2>1, <2>2
<1>5. \A e \in Eids : ~remove(e) /\ \A t \in Targets : ~addwitheid(t, e)
  BY <1>1, <1>2 DEF remove, addwitheid
<1>6. ~call /\ ~return
  BY <1>3 DEF call, return, Xpcall, Resumed
<1> QED
  BY <1>4, <1>5, <1>6 DEF Next

(* A trigger of an event that nobody starts to listen to meanwhile calls   *)
(* every handler that stays registered, once.                              *)
THEOREM TriggerComplete == Spec => CleanTriggerComplete
<1> DEFINE A == /\ Len(stack') < Len(stack) /\ ~top.dirty => top.due \subseteq top.visited
                /\ \A e \in Eids : Starts(e) /\ ~top.dirty => e \notin top.visited
<1>1. IInv /\ [Next]_vars => [A]_vars
  <2> SUFFICES ASSUME IInv, Next PROVE A
    OBVIOUS
  <2> USE DEF IInv, TypeOK
  <2>1. ASSUME Len(stack') < Len(stack), ~top.dirty
        PROVE  top.due \subseteq top.visited
    <3>1. finish
      BY <2>1, OnlyFinishPops
    <3>2. Pairs(top) = {} /\ Len(stack) \in DOMAIN stack
      BY <2>1, <3>1 DEF finish
    <3>3. top.due \subseteq name_listener_set_map[top.target]
      BY <3>2 DEF top, DueIsRegistered
    <3> QED
      BY <2>1, <3>2, <3>3 DEF Pairs
  <2>2. ASSUME NEW e \in Eids, Starts(e), ~top.dirty
        PROVE  e \notin top.visited
    BY <2>2, StartIsCall DEF Pairs
  <2> QED
    BY <2>1, <2>2
<1> QED
  BY <1>1, Inductive, PTL DEF Spec, CleanTriggerComplete

=============================================================================
