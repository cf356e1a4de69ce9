------------------------------- MODULE LuaTable -------------------------------
(***************************************************************************)
(* What a Lua table promises to the program, whatever it is made of: an    *)
(* assignment changes the field it names and no other one, and a traversal *)
(* by next() that sees no new field assigned visits every field that it    *)
(* finds present exactly once, also when fields are changed or cleared on  *)
(* the way.  A traversal during which a field is added is undefined, and   *)
(* is not followed any further here.                                       *)
(***************************************************************************)
EXTENDS SequencesExt

CONSTANTS Key, Value, Nil

VARIABLES
  content,   \* what a read of each field returns
  walk,      \* on while a traversal is under way, undefined after a field was
             \* added to one, else off
  cursor,    \* the key next() returned last, Nil at the start
  visits     \* the keys next() has returned in this traversal, in order

vars == <<content, walk, cursor, visits>>

Present == LET c == content IN {k \in Key : c[k] # Nil}

Stop(w) == walk' = w /\ cursor' = Nil /\ visits' = <<>>

Init ==
  /\ content = [k \in Key |-> Nil]
  /\ walk = "off" /\ cursor = Nil /\ visits = <<>>

\* One field gets a value or nil; the others keep theirs.
Assign ==
  LET old == content
      new == content'
  IN  \E k \in Key :
        /\ new[k] \in Value \union {Nil}
        /\ new = [old EXCEPT ![k] = new[k]]
        /\ IF walk = "on" /\ old[k] = Nil THEN Stop("undefined")
                                          ELSE UNCHANGED <<walk, cursor, visits>>

Begin ==
  /\ walk # "on" /\ walk' = "on"
  /\ UNCHANGED <<content, cursor, visits>>

Visit(k) ==
  /\ walk = "on" /\ k \in Present \ ToSet(visits)
  /\ cursor' = k /\ visits' = Append(visits, k)
  /\ UNCHANGED <<content, walk>>

Finish ==
  /\ walk = "on" /\ Present \subseteq ToSet(visits)
  /\ Stop("off")
  /\ UNCHANGED content

Next ==
  \/ Assign
  \/ Begin
  \/ \E k \in Key : Visit(k)
  \/ Finish

Spec == Init /\ [][Next]_vars
=============================================================================
