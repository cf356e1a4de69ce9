------------------------------ MODULE Delivery ------------------------------
(***************************************************************************)
(* What the receive count of common/message.lua is for, seen from outside: *)
(* the client processes the messages of a role session exactly once and in *)
(* the order the server sent them, over as many connections as it takes.   *)
(* The promise holds while "exact" does.                                   *)
(***************************************************************************)
EXTENDS Integers

VARIABLES sent,   \* messages the server has sent in this role session
          last,   \* the position of the last one the client processed
          exact   \* the client knows that position

vars == <<sent, last, exact>>

Init == sent = 0 /\ last = 0 /\ exact \in BOOLEAN

Send == sent' = sent + 1 /\ UNCHANGED <<last, exact>>

Deliver ==
    /\ IF exact THEN last' = last + 1 ELSE last' \in 1..sent
    /\ last' <= sent
    /\ UNCHANGED <<sent, exact>>

(* The client learns the position, or loses it.                            *)
Learn == /\ exact' = TRUE
         /\ last' \in (IF exact THEN last..(last + 1) ELSE 0..sent)
         /\ last' <= sent
         /\ UNCHANGED sent
Forget == exact' = FALSE /\ UNCHANGED <<sent, last>>

NewSession == sent' = 0 /\ last' = 0 /\ exact' \in BOOLEAN

Next == Send \/ Deliver \/ Learn \/ Forget \/ NewSession

Spec == Init /\ [][Next]_vars
=============================================================================
