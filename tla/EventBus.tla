------------------------------ MODULE EventBus ------------------------------
(***************************************************************************)
(* The event class everything in the client is wired with                  *)
(* (common/event.lua): the frame events of gameevent.lua, the system       *)
(* messages and the protocol messages are all instances of it.             *)
(*                                                                         *)
(* trigger walks the live listener table with pairs, so what a handler     *)
(* does to that table shows at once: handlers add listeners, remove        *)
(* themselves and others, trigger further events, and fail.  Lua allows a  *)
(* field to be cleared during a traversal; after an assignment to a field  *)
(* that was absent the traversal is undefined: it may skip fields, visit   *)
(* one again, or end.  A frame that met such an assignment is "dirty".     *)
(***************************************************************************)
EXTENDS Integers, Sequences

CONSTANTS Targets,   \* event names
          NoTarget,  \* stands for nil
          MaxId,     \* bound on the listener ids handed out
          MaxDepth   \* bound on nested triggers

ASSUME EventAssumption == /\ NoTarget \notin Targets
                          /\ MaxId \in Nat
                          /\ MaxDepth \in Nat

VARIABLES next_id,   \* event.next_id
          name_listener_set_map,  \* target -> the ids in its listener table
          id_listener_set_map,    \* id -> the target whose table holds it
          home,      \* id -> the event its owner registered it with
          stack      \* the triggers under way, innermost last

vars == <<next_id, name_listener_set_map, id_listener_set_map, home, stack>>

Eids == 1..MaxId

Frame == [target  : Targets,
          due     : SUBSET Eids,   \* registered since the trigger began
          visited : SUBSET Eids,   \* called
          dirty   : BOOLEAN,
          calling : Eids \cup {0}] \* the handler that runs, 0 between two

Init == /\ next_id = 0
        /\ name_listener_set_map = [t \in Targets |-> {}]
        /\ id_listener_set_map = [e \in Eids |-> NoTarget]
        /\ home = [e \in Eids |-> NoTarget]
        /\ stack = <<>>

top == stack[Len(stack)]

(* Code that uses the bus runs outside any trigger or inside a handler.    *)
CodeRuns == stack # <<>> => top.calling # 0

(* What an insertion into, and a deletion from, t's table do to the        *)
(* traversals of it that are under way.                                    *)
Inserted(t, e) ==
    [i \in DOMAIN stack |->
        IF stack[i].target = t /\ e \notin name_listener_set_map[t]
        THEN [stack[i] EXCEPT !.dirty = TRUE] ELSE stack[i]]

Deleted(e) ==
    [i \in DOMAIN stack |-> [stack[i] EXCEPT !.due = @ \ {e}]]

Register(t, e) ==
    /\ name_listener_set_map' = [name_listener_set_map EXCEPT ![t] = @ \cup {e}]
    /\ id_listener_set_map' = [id_listener_set_map EXCEPT ![e] = t]
    /\ stack' = Inserted(t, e)

FreshId == next_id + 1

add(t) ==
    /\ CodeRuns
    /\ next_id < MaxId
    /\ next_id' = FreshId
    /\ home' = [home EXCEPT ![FreshId] = t]
    /\ Register(t, FreshId)

(* addwitheid: the owner of e (system/timer.lua:76) starts listening again *)
(* to the event it got e from, whether or not it stopped in between.       *)
addwitheid(t, e) ==
    /\ CodeRuns
    /\ home[e] = t
    /\ Register(t, e)
    /\ UNCHANGED <<next_id, home>>

(* remove: an unknown id is only logged.                                   *)
ClearedIdOnly(e) == name_listener_set_map      \* mutant: sets[eid] stays
Cleared(e) ==
    [name_listener_set_map EXCEPT ![id_listener_set_map[e]] = @ \ {e}]

remove(e) ==
    /\ CodeRuns
    /\ home[e] # NoTarget
    /\ IF id_listener_set_map[e] # NoTarget
       THEN /\ name_listener_set_map' = Cleared(e)
            /\ id_listener_set_map' = [id_listener_set_map EXCEPT ![e] = NoTarget]
            /\ stack' = Deleted(e)
       ELSE UNCHANGED <<name_listener_set_map, id_listener_set_map, stack>>
    /\ UNCHANGED <<next_id, home>>

trigger(t) ==
    /\ CodeRuns
    /\ Len(stack) < MaxDepth
    /\ stack' = Append(stack, [target  |-> t,
                               due     |-> name_listener_set_map[t],
                               visited |-> {},
                               dirty   |-> FALSE,
                               calling |-> 0])
    /\ UNCHANGED <<next_id, name_listener_set_map, id_listener_set_map, home>>

(* The next step of pairs.                                                 *)
PairsSnapshot(f) == {e \in Eids : home[e] = f.target} \ f.visited  \* mutant: a stale copy
Pairs(f) ==
    name_listener_set_map[f.target] \ (IF f.dirty THEN {} ELSE f.visited)

Called(f, e) == [f EXCEPT !.calling = e, !.visited = f.visited \cup {e}]

call ==
    /\ stack # <<>>
    /\ top.calling = 0
    /\ \E e \in Pairs(top) : stack' = [stack EXCEPT ![Len(stack)] = Called(top, e)]
    /\ UNCHANGED <<next_id, name_listener_set_map, id_listener_set_map, home>>

(* The handler returns, or it fails: utils.xpcall logs and goes on.        *)
Resumed == [stack EXCEPT ![Len(stack)] = [top EXCEPT !.calling = 0]]
XpcallUnprotected == SubSeq(stack, 1, Len(stack) - 1) \* mutant: the error ends the trigger
Xpcall == Resumed

return ==
    /\ stack # <<>>
    /\ top.calling # 0
    /\ stack' \in {Resumed, Xpcall}
    /\ UNCHANGED <<next_id, name_listener_set_map, id_listener_set_map, home>>

(* The traversal ends.                                                     *)
finish ==
    /\ stack # <<>>
    /\ top.calling = 0
    /\ top.dirty \/ Pairs(top) = {}
    /\ stack' = SubSeq(stack, 1, Len(stack) - 1)
    /\ UNCHANGED <<next_id, name_listener_set_map, id_listener_set_map, home>>

Next == \/ \E t \in Targets : add(t) \/ trigger(t)
        \/ \E t \in Targets, e \in Eids : addwitheid(t, e)
        \/ \E e \in Eids : remove(e)
        \/ call \/ return \/ finish

Spec == Init /\ [][Next]_vars
-----------------------------------------------------------------------------
(* Every variable keeps its type. *)
TypeOK ==
    /\ next_id \in 0..MaxId
    /\ name_listener_set_map \in [Targets -> SUBSET Eids]
    /\ id_listener_set_map \in [Eids -> Targets \cup {NoTarget}]
    /\ home \in [Eids -> Targets \cup {NoTarget}]
    /\ stack \in Seq(Frame)

(* The two maps are inverse to each other: remove(eid) finds the one table *)
(* that holds eid, and no table holds a listener nobody can remove.        *)
MapsAgree ==
    \A t \in Targets, e \in Eids :
        e \in name_listener_set_map[t] <=> id_listener_set_map[e] = t

(* An id handed out is never handed out again, removed or not: a stale     *)
(* remove cannot hit somebody else's listener.                             *)
IdsNeverReused ==
    [][\A e \in Eids : home[e] # NoTarget => home'[e] = home[e] /\ next_id' >= e]_vars

Starts(e) == Len(stack') = Len(stack) /\ stack # <<>> /\ top.calling = 0
             /\ stack'[Len(stack)].calling = e

(* No handler is called after it was removed, not even when another        *)
(* handler of the same trigger removed it.                                 *)
NoCallAfterRemove ==
    [][\A e \in Eids : Starts(e) => id_listener_set_map[e] = top.target]_vars

(* A trigger during which nobody starts listening to its event calls every *)
(* handler that stays registered, although others return, fail, remove     *)
(* listeners and trigger the same event again, and calls none twice.       *)
CleanTriggerComplete ==
    [][/\ Len(stack') < Len(stack) /\ ~top.dirty => top.due \subseteq top.visited
       /\ \A e \in Eids : Starts(e) /\ ~top.dirty => e \notin top.visited]_vars
=============================================================================
