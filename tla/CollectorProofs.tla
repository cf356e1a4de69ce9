-------------------------- MODULE CollectorProofs --------------------------
(***************************************************************************)
(* What the collector of the Lua runtime guarantees for every heap,        *)
(* program and interleaving.  lua_setupvalue is left out of the programs   *)
(* in which two closures may share an upvalue: its barrier looks at the    *)
(* wrong object there.                                                     *)
(***************************************************************************)
EXTENDS Collector, TLAPS

\* A program that calls lua_setupvalue has at most one closure.
NothingShared ==
  \A a \in Arenas : "lua_setupvalue" \in a.uses =>
    \A f, g \in a.objects \intersect Func : f = g

Colors   == {"white", "old", "gray", "black"}
Unmarked == {"white", "old"}
Marks    == {"gray", "black"}

\* The stack slot that the open upvalue v points to.
Pointee(v) == slot[at[v][1]][at[v][2]]

\* What an object may refer to, by its kind; an object that does not exist is
\* empty and white, and an open upvalue belongs to a thread that exists.
Shape ==
  /\ \A o \in Obj : \A x \in refs[o] :
       /\ o \in alloc
       /\ o \in Tab \union Upval => x \in Value
       /\ o \in Func => x \in Upval
       /\ o \in Udata => x \in Tab
       /\ o \notin Str \union Thread
  /\ \A o \in Obj \ alloc : color[o] = "white"
  /\ \A th \in Thread \ alloc : \A i \in Slot : slot[th][i] = Nil
  /\ \A v \in Upval : at[v] # Closed => v \in alloc /\ at[v][1] \in alloc /\ refs[v] = {}
  /\ alloc \intersect Func \subseteq arena.objects

\* The phases, the sweep list and the books on finalizers.
Books ==
  /\ stage # 0 => state = "atomic"
  /\ state \notin {"sweepstring", "sweep"} => unswept = {}
  /\ \A o \in unswept : o \in alloc /\ o \notin pending /\ (o \in Upval => at[o] = Closed)
  /\ \A u \in pending : u \in alloc /\ u \in finalized /\ u \notin ran
  /\ \A u \in ran : u \in finalized
  /\ \A u \in finalized : u \in pending \/ u \in ran
  /\ \A u \in Udata : color[u] = "old" => u \in ran

\* An object that is not dead refers to none that is dead.
Survives ==
  /\ \A o \in Obj : color[o] # "old" =>
       \A x \in refs[o] : x \in alloc /\ color[x] # "old"
  /\ \A th \in Thread : color[th] # "old" =>
       \A i \in Slot : slot[th][i] = Nil \/ (slot[th][i] \in alloc /\ color[slot[th][i]] # "old")
  /\ \A v \in Upval : at[v] # Closed /\ color[v] # "old" =>
       Pointee(v) = Nil \/ (Pointee(v) \in alloc /\ color[Pointee(v)] # "old")
  /\ \A o \in {Main, Registry, cur} : o \in alloc /\ color[o] # "old"

\* Who may have which color, and where the marks are left of the last cycle.
Painted ==
  /\ \A o \in Obj : color[o] = "black" => o \notin Weak \union Thread \union Str
  /\ \A v \in Upval : at[v] # Closed => color[v] # "black"
  /\ \A u \in Udata : color[u] # "gray"
  /\ \A u \in pending : color[u] \in {"white", "black"}
  /\ state \in {"pause", "finalize"} => \A o \in Obj : o \in pending \/ color[o] = "white"
  /\ state \in {"sweepstring", "sweep"} =>
       \A o \in Obj : \/ color[o] = "white" \/ o \in unswept \/ o \in pending
                      \/ o \in Upval /\ at[o] # Closed /\ at[o][1] \in unswept

\* While marking: nothing is dead, no black object refers to an unmarked one,
\* the lists have the gray objects, and a marked upvalue belongs to a black
\* closure.
Tricolor ==
  /\ \A o \in Obj : color[o] # "old"
  /\ \A v \in Upval : at[v] = Closed => color[v] # "gray"
  /\ \A o \in Obj \ pending : color[o] = "black" => \A x \in refs[o] : color[x] \in Marks
  /\ \A o \in Obj : o \in gray \/ o \in again \/ o \in weak
                      <=> o \in Linked /\ color[o] = "gray"
  /\ gray \intersect again = {} /\ gray \intersect weak = {} /\ again \intersect weak = {}
  /\ weak \subseteq Weak /\ again \subseteq Tab \union Thread
  /\ color[Main] \in Marks /\ color[Registry] \in Marks
  /\ \A v \in Upval : color[v] \in Marks =>
       \E f \in Func : color[f] = "black" /\ v \in refs[f]

\* How far the atomic phase has come.
Atomic ==
  /\ stage >= 1 => \A v \in Upval : at[v] # Closed /\ color[v] = "gray" =>
       Pointee(v) = Nil \/ color[Pointee(v)] \in Marks
  /\ stage >= 2 => color[cur] \in Marks
  /\ stage >= 3 => /\ again \subseteq Thread
                   /\ \A th \in again : \A i \in Slot :
                        slot[th][i] = Nil \/ color[slot[th][i]] \in Marks
  /\ stage = 4 => /\ \A u \in pending : color[u] = "black" /\ \A x \in refs[u] : color[x] \in Marks
                  /\ \A u \in Udata : u \in alloc /\ color[u] = "white" => u \in ran

\* The inductive invariant.
IInv == /\ TypeOK /\ Shape /\ Books /\ Survives /\ Painted
        /\ Marking => Tricolor
        /\ Atomic

\* What marking the objects of X makes of the colors C: D, and the objects G
\* for the gray list.
MarkOutcome(C, X, D, G) ==
  /\ D \in [Obj -> Colors]
  /\ \A o \in Obj : D[o] # C[o] =>
       /\ o \in alloc /\ C[o] \in Unmarked /\ D[o] \in Marks
       /\ D[o] = "black" <=> o \in Udata \/ (o \in Upval /\ at[o] = Closed)
       /\ o \in Upval => o \in X
       /\ o \in Udata \union Upval => \A x \in refs[o] : D[x] \in Marks
       /\ o \in Upval /\ at[o] # Closed =>
            Pointee(o) = Nil \/ D[Pointee(o)] \in Marks
  /\ \A x \in X : D[x] \in Marks
  /\ G \subseteq Obj /\ \A o \in Obj : o \in G <=> o \in Linked /\ D[o] # C[o]

\* While nothing is dead, what an object refers to exists.
NothingDead == \A o \in Obj : color[o] # "old"

\* gc_mark has that outcome: a case for each of its three levels.
LEMMA MarkFacts ==
  ASSUME TypeOK, Shape, Survives, NothingDead,
         NEW C \in [Obj -> Colors], NEW X \in SUBSET alloc
  PROVE  MarkOutcome(C, X, Mark(C, X), Grayed(C, X))
<1> DEFINE D == Whites(C, X)
           V == D \union Whites(C, UNION {UvVal(v) : v \in D \intersect Upval})
           M == MarkSet(C, X)
<1>0. /\ alloc \subseteq Obj /\ refs \in [Obj -> SUBSET Obj]
      /\ slot \in [Thread -> [Slot -> Value \union {Nil}]]
      /\ at \in [Upval -> (Thread \X Slot) \union {Closed}]
  BY DEF TypeOK
<1>1. M = V \union Whites(C, UNION {refs[u] : u \in V \intersect Udata})
  BY DEF MarkSet
<1>2. \A v \in Upval \intersect alloc : \A x \in UvVal(v) :
         x \in alloc /\ (at[v] # Closed => x \in Value /\ x = Pointee(v))
                   /\ (at[v] = Closed => x \in refs[v] /\ x \in Value)
  BY <1>0, ConstantsOK DEF UvVal, Pointee, Survives, NothingDead, Shape, Obj, Value
<1>3. \A v \in Upval \intersect alloc :
         /\ at[v] = Closed => UvVal(v) = refs[v]
         /\ at[v] # Closed => Pointee(v) = Nil \/ Pointee(v) \in UvVal(v)
  BY DEF UvVal, Pointee
<1>4. /\ D \subseteq alloc /\ D \subseteq X
      /\ \A o \in D : C[o] \in Unmarked
      /\ \A o \in X : o \in D \/ C[o] \in Marks
  BY <1>0 DEF Whites, Unmarked, Colors, Marks
<1>5. /\ V \subseteq alloc /\ V \intersect Upval \subseteq D
      /\ \A o \in V : C[o] \in Unmarked
      /\ \A v \in D \intersect Upval : \A x \in UvVal(v) : x \in V \/ C[x] \in Marks
  BY <1>0, <1>2, <1>4, ConstantsOK DEF Whites, Unmarked, Colors, Marks, Value
<1>6. /\ M \subseteq alloc /\ M \intersect Upval \subseteq D /\ M \intersect Udata \subseteq V
      /\ \A o \in M : C[o] \in Unmarked
      /\ \A u \in V \intersect Udata : \A x \in refs[u] : x \in M \/ C[x] \in Marks
  <2> HIDE DEF V
  <2>1. \A u \in V \intersect Udata : \A x \in refs[u] : x \in alloc /\ x \in Tab
    BY <1>0, <1>5 DEF Survives, NothingDead, Shape
  <2> QED BY <1>0, <1>1, <1>5, <2>1, ConstantsOK DEF Whites, Unmarked, Colors, Marks
<1>7. \A v \in M \intersect Upval : \A x \in UvVal(v) : x \in M \/ C[x] \in Marks
  BY <1>1, <1>5, <1>6
<1> HIDE DEF D, V, M
<1>8. /\ Mark(C, X) \in [Obj -> Colors]
      /\ \A o \in Obj \ M : Mark(C, X)[o] = C[o]
      /\ \A o \in M : Mark(C, X)[o] = IF o \in Udata \/ (o \in Upval /\ at[o] = Closed)
                                    THEN "black" ELSE "gray"
  BY <1>0, <1>6 DEF Mark, M, Colors
<1>9. \A o \in Obj : Mark(C, X)[o] # C[o] <=> o \in M
  BY <1>0, <1>6, <1>8 DEF Unmarked
<1>10. \A o \in Obj : o \in M \/ C[o] \in Marks => Mark(C, X)[o] \in Marks
  BY <1>8 DEF Marks
<1>11. \A v \in M \intersect Upval :
          /\ \A x \in refs[v] : Mark(C, X)[x] \in Marks
          /\ at[v] # Closed => Pointee(v) = Nil \/ Mark(C, X)[Pointee(v)] \in Marks
  <2> TAKE v \in M \intersect Upval
  <2>1. v \in alloc /\ v \in Obj  BY <1>0, <1>6
  <2>2. CASE at[v] = Closed  BY <2>1, <2>2, <1>0, <1>3, <1>7, <1>10
  <2>3. CASE at[v] # Closed
    <3>1. refs[v] = {}  BY <2>1, <2>3 DEF Shape
    <3>2. \A x \in UvVal(v) : x \in Obj  BY <2>1, <1>0, <1>2
    <3> QED BY <2>1, <2>3, <3>1, <3>2, <1>3, <1>7, <1>10
  <2> QED BY <2>2, <2>3
<1>12. \A u \in M \intersect Udata : \A x \in refs[u] : Mark(C, X)[x] \in Marks
  BY <1>0, <1>6, <1>10
<1>13. \A x \in X : Mark(C, X)[x] \in Marks
  BY <1>0, <1>1, <1>4, <1>10 DEF V
<1>14. /\ Grayed(C, X) \subseteq Obj
       /\ \A o \in Obj : o \in Grayed(C, X) <=> o \in Linked /\ o \in M
  BY <1>0, <1>6 DEF Grayed, M
<1>15. \A o \in M : Mark(C, X)[o] \in Marks
  BY <1>0, <1>6, <1>10
<1> QED
  BY <1>0, <1>4, <1>6, <1>8, <1>9, <1>11, <1>12, <1>13, <1>14, <1>15 DEF MarkOutcome

\* The kinds of objects are disjoint.
LEMMA Kinds ==
  /\ Tab \subseteq Obj /\ Func \subseteq Obj /\ Upval \subseteq Obj
  /\ Udata \subseteq Obj /\ Str \subseteq Obj /\ Thread \subseteq Obj
  /\ Weak \subseteq Tab /\ Value \subseteq Obj /\ Linked \subseteq Obj
  /\ \A o \in Obj : o \in Value <=> o \notin Upval
  /\ \A o \in Obj : o \in Tab => o \notin Func \union Upval \union Udata \union Str \union Thread
  /\ \A o \in Obj : o \in Func => o \notin Tab \union Upval \union Udata \union Str \union Thread
  /\ \A o \in Obj : o \in Upval => o \notin Tab \union Func \union Udata \union Str \union Thread
  /\ \A o \in Obj : o \in Udata => o \notin Tab \union Func \union Upval \union Str \union Thread
  /\ \A o \in Obj : o \in Str => o \notin Tab \union Func \union Upval \union Udata \union Thread
  /\ \A o \in Obj : o \in Thread => o \notin Tab \union Func \union Upval \union Udata \union Str
  /\ \A o \in Obj : o \in Linked <=> o \in Tab \union Func \union Thread
  /\ Main \in Thread /\ Registry \in Tab /\ Registry \notin Weak
  /\ Nil \notin Obj
BY ConstantsOK DEF Obj, Value, Linked

\* An open upvalue points into a stack.
LEMMA Pointees ==
  ASSUME TypeOK
  PROVE  \A v \in Upval : at[v] # Closed =>
           /\ at[v][1] \in Thread /\ at[v][2] \in Slot
           /\ Pointee(v) \in Value \union {Nil}
BY DEF TypeOK, Pointee

(***************************************************************************)
(* The mark phase and the atomic phase.                                    *)
(***************************************************************************)
LEMMA MarkStartStep ==
  ASSUME IInv, MarkStart
  PROVE  IInv'
<1> DEFINE X == {Main, Registry}
<1>1. NothingDead
  BY DEF NothingDead, MarkStart, IInv, Painted, Colors
<1>2. MarkOutcome(color, X, color', gray')
  <2>1. X \in SUBSET alloc /\ color \in [Obj -> Colors]
    BY DEF IInv, TypeOK, Colors
  <2> QED BY <1>1, <2>1, MarkFacts DEF IInv, MarkStart
<1>3. /\ UNCHANGED <<alloc, refs, slot, top, wide, at, cur>>
      /\ UNCHANGED <<stage, unswept, pending, finalized, ran, full, arena>>
      /\ state = "pause" /\ state' = "propagate" /\ again' = {} /\ weak' = {}
  BY DEF MarkStart, heap
<1>4. TypeOK'
  BY <1>2, <1>3 DEF TypeOK, MarkOutcome, IInv, Colors
<1>5. Shape'
  BY <1>2, <1>3, Kinds DEF Shape, MarkOutcome, IInv
<1>6. Books'
  BY <1>2, <1>3, Kinds DEF Books, MarkOutcome, IInv, Marks
<1>7. Survives'
  <2>1. \A o \in Obj : color'[o] # "old" 
    BY <1>1, <1>2 DEF MarkOutcome, NothingDead, Marks
  <2>2. \A v \in Upval : at[v] # Closed => Pointee(v)' = Pointee(v) /\ Pointee(v) \in Value \union {Nil}
    BY <1>3, Pointees DEF IInv, Pointee
  <2> QED BY <1>1, <1>3, <2>1, <2>2, Kinds DEF Survives, IInv, TypeOK, NothingDead
<1>8. Painted'
  BY <1>2, <1>3, Kinds DEF Painted, MarkOutcome, IInv, TypeOK, Marks
<1>9. Tricolor'
  BY <1>1, <1>2, <1>3, Kinds DEF Painted, MarkOutcome, IInv, TypeOK, Marks, Tricolor, NothingDead
<1>10. Atomic'
  BY <1>3 DEF Atomic, IInv, Books
<1> QED BY <1>4, <1>5, <1>6, <1>7, <1>8, <1>9, <1>10 DEF IInv

LEMMA TraverseStep ==
  ASSUME IInv, NEW o \in gray, Traverse(o), state = "propagate" \/ stage > 0
  PROVE  IInv'
<1> DEFINE B == [color EXCEPT ![o] = IF o \in Thread \union Weak THEN "gray" ELSE "black"]
           X == Strong(o)
<1>1. Marking /\ Tricolor
  BY DEF IInv, Books, Marking
<1>2. NothingDead
  BY <1>1 DEF NothingDead, Tricolor
<1>3. o \in alloc /\ o \in Linked /\ color[o] = "gray" /\ o \in Obj
  BY <1>1, Kinds DEF Tricolor, IInv, TypeOK, Shape
<1>4. X \in SUBSET alloc /\ B \in [Obj -> Colors]
  <2>1. B \in [Obj -> Colors]
    BY DEF IInv, TypeOK, Colors
  <2>2. CASE o \in Weak
    BY <1>3, <2>1, <2>2, Kinds DEF Strong
  <2>3. CASE o \in Thread
    <3>1. Strong(o) = {slot[o][i] : i \in 1..Limit(o)} \ {Nil}
      BY <1>3, <2>3, Kinds DEF Strong
    <3>2. \A i \in 1..Limit(o) : i \in Slot
      BY <2>3, ConstantsOK DEF Limit, Slot, IInv, TypeOK
    <3> QED BY <1>2, <1>3, <2>1, <2>3, <3>1, <3>2 DEF IInv, Survives, NothingDead
  <2>4. CASE o \notin Weak \union Thread
    <3>1. Strong(o) = refs[o]
      BY <1>3, <2>4, Kinds DEF Strong, Edges
    <3> QED BY <1>2, <1>3, <2>1, <3>1 DEF IInv, Survives, NothingDead
  <2> QED BY <2>2, <2>3, <2>4
<1>5. MarkOutcome(B, X, color', Grayed(B, X))
  BY <1>2, <1>4, MarkFacts DEF IInv, Traverse
<1>6. /\ UNCHANGED <<alloc, refs, top, wide, at, cur>>
      /\ UNCHANGED <<state, stage, unswept, pending, finalized, ran, full, arena>>
      /\ gray' = (gray \ {o}) \union Grayed(B, X)
      /\ again' = IF o \in Thread THEN again \union {o} ELSE again
      /\ weak' = IF o \in Weak THEN weak \union {o} ELSE weak
  BY DEF Traverse
<1>7. /\ slot' \in [Thread -> [Slot -> Value \union {Nil}]]
      /\ \A th \in Thread, i \in Slot :
           slot'[th][i] = IF th = o /\ state = "atomic" /\ i > Limit(o) THEN Nil ELSE slot[th][i]
  <2>1. CASE o \in Thread /\ state = "atomic"
    <3>1. slot' = [slot EXCEPT ![o] = [i \in Slot |-> IF i > Limit(o) THEN Nil ELSE slot[o][i]]]
      BY <2>1 DEF Traverse
    <3> QED BY <2>1, <3>1 DEF IInv, TypeOK
  <2>2. CASE ~(o \in Thread /\ state = "atomic")
    BY <2>2 DEF Traverse, IInv, TypeOK
  <2> QED BY <2>1, <2>2
<1>8. TypeOK'
  BY <1>3, <1>5, <1>6, <1>7, Kinds DEF TypeOK, MarkOutcome, IInv, Colors
<1>9. Shape'
  BY <1>3, <1>5, <1>6, <1>7, Kinds DEF Shape, MarkOutcome, IInv, TypeOK
<1>10. Books'
  BY <1>3, <1>5, <1>6, Kinds DEF Books, MarkOutcome, IInv, TypeOK, Marks
<1>11. \A x \in Obj : B[x] # "old" /\ color'[x] # "old" /\ (color[x] \in Marks => color'[x] \in Marks)
  BY <1>2, <1>3, <1>4, <1>5 DEF MarkOutcome, Marks, NothingDead, IInv, TypeOK
<1>11a. \A v \in Upval : at[v] # Closed =>
         (Pointee(v)' = Pointee(v) \/ Pointee(v)' = Nil) /\ Pointee(v) \in Value \union {Nil}
  BY <1>6, <1>7, Pointees DEF Pointee, IInv
<1>12. Survives'
  BY <1>2, <1>6, <1>7, <1>11, <1>11a, Kinds DEF Survives, IInv, TypeOK, NothingDead
<1> HIDE DEF B, X
<1>13. Painted'
  <2>1. \A x \in Obj : /\ x \notin Linked => B[x] = color[x]
                       /\ x # o => B[x] = color[x]
                       /\ B[x] = "black" => x \notin Weak \union Thread \union Str
    BY <1>3, Kinds DEF IInv, TypeOK, Painted, B
  <2>2. state \in {"propagate", "atomic"}
    BY <1>1 DEF Marking
  <2>3. \A x \in Obj : color'[x] # B[x] =>
          /\ color'[x] = "black" => x \in Udata \/ (x \in Upval /\ at[x] = Closed)
          /\ x \in Udata => color'[x] = "black"
    BY <1>5 DEF MarkOutcome
  <2>4. \A x \in Obj : color'[x] = "black" => x \notin Weak \union Thread \union Str
    BY <2>1, <2>3, Kinds
  <2>5. \A v \in Upval : at[v] # Closed => color'[v] # "black"
    BY <2>1, <2>3, Kinds DEF IInv, Painted
  <2>6. \A u \in Udata : color'[u] # "gray" /\ (u \in pending => color'[u] \in {"white", "black"})
    BY <2>1, <2>3, Kinds DEF IInv, Painted
  <2> QED BY <1>6, <2>2, <2>4, <2>5, <2>6 DEF Painted, IInv, TypeOK
<1>14. Tricolor'
  <2>1. \A x \in Obj : color'[x] # B[x] => B[x] = color[x] /\ x # o /\ color[x] = "white"
    BY <1>2, <1>3, <1>5, Kinds DEF MarkOutcome, Unmarked, NothingDead, IInv, TypeOK, B
  <2>2. \A v \in Upval : at[v] = Closed => color'[v] # "gray"
    BY <1>1, <1>3, <1>5, Kinds DEF MarkOutcome, Tricolor, IInv, TypeOK, Marks, B
  <2>3. \A x \in Obj \ pending : color'[x] = "black" => \A y \in refs[x] : color'[y] \in Marks
    <3> SUFFICES ASSUME NEW x \in Obj \ pending, color'[x] = "black", NEW y \in refs[x]
                 PROVE  color'[y] \in Marks
      OBVIOUS
    <3>1. y \in Obj  BY DEF IInv, TypeOK
    <3>2. CASE x = o  
      BY <1>3, <1>5, <3>2, Kinds DEF MarkOutcome, Strong, Edges, B, X
    <3>3. CASE x # o /\ color[x] = "black"
      BY <1>1, <1>11, <3>1, <3>3 DEF Tricolor
    <3>4. CASE color'[x] # B[x]
      BY <1>5, <3>4 DEF MarkOutcome
    <3> QED BY <1>3, <3>2, <3>3, <3>4 DEF IInv, TypeOK, B
  <2>4. \A x \in Obj : x \in gray' \/ x \in again' \/ x \in weak'
                          <=> x \in Linked /\ color'[x] = "gray"
    <3> TAKE x \in Obj
    <3>1. CASE x = o
      <4>1. B[o] = IF o \in Thread \union Weak THEN "gray" ELSE "black"
        BY <1>3 DEF B, IInv, TypeOK
      <4>2. color'[o] = B[o]
        BY <1>3, <1>5, <4>1 DEF MarkOutcome, Unmarked
      <4>3. o \notin Grayed(B, X) /\ o \notin again /\ o \notin weak
        BY <1>1, <1>3, <1>5, <4>2 DEF MarkOutcome, Tricolor
      <4> QED BY <1>3, <1>6, <3>1, <4>1, <4>2, <4>3
    <3>2. CASE x # o
      <4>1. B[x] = color[x]  BY <1>3, <3>2 DEF B, IInv, TypeOK
      <4>2. x \in Linked /\ color'[x] = "gray" <=>
              x \in Linked /\ (color[x] = "gray" \/ color'[x] # B[x])
        BY <1>5, <4>1, Kinds DEF MarkOutcome, Marks, Unmarked
      <4>3. x \in Grayed(B, X) <=> x \in Linked /\ color'[x] # B[x]
        BY <1>5 DEF MarkOutcome
      <4> QED BY <1>1, <1>6, <3>2, <4>2, <4>3 DEF Tricolor
    <3> QED BY <3>1, <3>2
  <2>5. /\ gray' \intersect again' = {} /\ gray' \intersect weak' = {} /\ again' \intersect weak' = {}
        /\ weak' \subseteq Weak /\ again' \subseteq Tab \union Thread
    <3>1. \A x \in Obj : x \in gray' => x # o /\ (x \in gray \/ color[x] # "gray")
      <4>1. \A x \in Obj : x \in Grayed(B, X) <=> x \in Linked /\ color'[x] # B[x]
        BY <1>5 DEF MarkOutcome
      <4> QED BY <1>6, <2>1, <4>1
    <3>2. o \notin again /\ o \notin weak  BY <1>1 DEF Tricolor
    <3>3. /\ \A x \in Obj : x \in gray' => x \notin again' /\ x \notin weak'
          /\ \A x \in Obj : x \in again' => x \notin weak'
      BY <1>1, <1>3, <1>6, <3>1, <3>2, Kinds DEF Tricolor
    <3> QED BY <1>1, <1>6, <1>8, <3>3, Kinds DEF Tricolor, TypeOK
  <2>6. color'[Main] \in Marks /\ color'[Registry] \in Marks
    BY <1>1, <1>11, Kinds DEF Tricolor
  <2>7. \A v \in Upval : color'[v] \in Marks =>
          \E f \in Func : color'[f] = "black" /\ v \in refs[f]
    <3> SUFFICES ASSUME NEW v \in Upval, color'[v] \in Marks
                 PROVE  \E f \in Func : color'[f] = "black" /\ v \in refs[f]
      OBVIOUS
    <3>1. CASE color[v] \in Marks
      <4>1. PICK f \in Func : color[f] = "black" /\ v \in refs[f]
        BY <1>1, <3>1 DEF Tricolor
      <4>2. color'[f] = "black"
        BY <1>3, <1>5, <4>1, Kinds DEF MarkOutcome, Marks, Unmarked, IInv, TypeOK, B
      <4> QED BY <4>1, <4>2
    <3>2. CASE color[v] \notin Marks
      <4>1. v \in Strong(o) /\ v # o
        BY <1>3, <1>5, <3>2, Kinds DEF MarkOutcome, IInv, TypeOK, Marks, B, X
      <4>2. o \in Func /\ Strong(o) = refs[o]
        <5>1. o \notin Weak  BY <1>3, <4>1, Kinds DEF Strong
        <5>2. o \notin Thread
          <6> SUFFICES ASSUME o \in Thread PROVE FALSE
            OBVIOUS
          <6>1. Strong(o) = {slot[o][i] : i \in 1..Limit(o)} \ {Nil}
            BY <1>3, Kinds DEF Strong
          <6>2. \A i \in 1..Limit(o) : i \in Slot
            BY ConstantsOK DEF Limit, Slot, IInv, TypeOK
          <6> QED BY <4>1, <6>1, <6>2, Kinds DEF IInv, TypeOK
        <5>3. Strong(o) = refs[o]  BY <1>3, <5>1, <5>2, Kinds DEF Strong, Edges
        <5> QED BY <1>3, <4>1, <5>2, <5>3, Kinds DEF IInv, Shape
      <4>3. color'[o] = "black"
        BY <1>3, <1>5, <4>2, Kinds DEF MarkOutcome, Unmarked, IInv, TypeOK, B
      <4> QED BY <4>1, <4>2, <4>3
    <3> QED BY <3>1, <3>2
  <2> QED BY <1>6, <1>11, <2>2, <2>3, <2>4, <2>5, <2>6, <2>7 DEF Tricolor
<1>15. \A v \in Upval : at[v] # Closed /\ color'[v] = "gray" /\ color[v] # "gray" =>
         Pointee(v) = Nil \/ color'[Pointee(v)] \in Marks
  <2> TAKE v \in Upval
  <2>1. v \in Obj /\ v # o /\ B[v] = color[v]
    BY <1>3, Kinds DEF B, IInv, TypeOK
  <2> QED BY <1>5, <2>1 DEF MarkOutcome
<1>16. \A th \in Thread : th = o /\ state = "atomic" =>
         \A i \in Slot : slot'[th][i] = Nil \/ color'[slot'[th][i]] \in Marks
  <2> SUFFICES ASSUME o \in Thread, state = "atomic", NEW i \in Slot, slot'[o][i] # Nil
               PROVE  color'[slot'[o][i]] \in Marks
    OBVIOUS
  <2>1. slot'[o][i] = slot[o][i] /\ i \in 1..Limit(o)
    BY <1>7, ConstantsOK DEF Slot, Limit, IInv, TypeOK
  <2>2. slot[o][i] \in X
    BY <1>3, <2>1, Kinds DEF X, Strong
  <2> QED BY <1>5, <2>1, <2>2 DEF MarkOutcome
<1>17. Atomic'
  <2>1. stage >= 1 => \A v \in Upval : at[v] # Closed /\ color'[v] = "gray" =>
          Pointee(v)' = Nil \/ color'[Pointee(v)'] \in Marks
    BY <1>11, <1>15, <1>11a, Kinds DEF IInv, Atomic
  <2>2. stage >= 2 => color'[cur] \in Marks
    BY <1>11, Kinds DEF IInv, Atomic, TypeOK
  <2>3. stage >= 3 => /\ again' \subseteq Thread
                      /\ \A th \in again' : \A i \in Slot :
                           slot'[th][i] = Nil \/ color'[slot'[th][i]] \in Marks
    <3> SUFFICES ASSUME stage >= 3 PROVE <2>3!2
      OBVIOUS
    <3>1. state = "atomic"  BY DEF IInv, Books, TypeOK
    <3>2. again' \subseteq Thread  BY <1>6 DEF IInv, Atomic
    <3>3. \A th \in again : \A i \in Slot : slot[th][i] = Nil \/ color[slot[th][i]] \in Marks
      BY DEF IInv, Atomic
    <3>4. \A th \in again' : th # o => th \in again
      BY <1>6
    <3> QED BY <1>7, <1>11, <1>16, <3>1, <3>2, <3>3, <3>4, Kinds DEF IInv, TypeOK
  <2>4. stage = 4 =>
          /\ \A u \in pending : color'[u] = "black" /\ \A x \in refs[u] : color'[x] \in Marks
          /\ \A u \in Udata : u \in alloc /\ color'[u] = "white" => u \in ran
    BY <1>3, <1>5, <1>11, Kinds DEF IInv, Atomic, TypeOK, MarkOutcome, Marks, Unmarked, B
  <2> QED BY <1>6, <2>1, <2>2, <2>3, <2>4 DEF Atomic
<1> QED BY <1>1, <1>6, <1>8, <1>9, <1>10, <1>12, <1>13, <1>14, <1>17 DEF IInv, Marking

\* Marking more objects in the atomic phase: the parts of the invariant that
\* do not depend on how far that phase has come.
LEMMA MarkMore ==
  ASSUME IInv, Marking, NEW X \in SUBSET (alloc \intersect Value),
         color' = Mark(color, X), weak' \subseteq weak, again' = again,
         gray' = gray \union (weak \ weak') \union Grayed(color, X),
         state' = state, stage' \in 0..4, UNCHANGED <<heap, unswept, pending, finalized, ran, full, arena>>
  PROVE  /\ TypeOK' /\ Shape' /\ Survives' /\ Painted' /\ Tricolor'
         /\ \A o \in Obj : color'[o] # "old" /\ (color[o] \in Marks => color'[o] = color[o])
         /\ \A o \in X : color'[o] \in Marks
         /\ \A v \in Upval : color'[v] = color[v]
<1>1. Tricolor /\ NothingDead
  BY DEF IInv, Tricolor, NothingDead
<1>2. MarkOutcome(color, X, color', Grayed(color, X))
  BY <1>1, MarkFacts DEF IInv, TypeOK, Colors
<1>3. UNCHANGED <<alloc, refs, slot, top, wide, at, cur>>
  BY DEF heap
<1>4. \A o \in Obj : /\ color'[o] # "old"
                     /\ color[o] \in Marks => color'[o] = color[o]
                     /\ color'[o] # color[o] => color[o] = "white" /\ color'[o] \in Marks
  BY <1>1, <1>2 DEF MarkOutcome, NothingDead, Unmarked, Marks, Colors, IInv, TypeOK
<1>5. \A v \in Upval : color'[v] = color[v]
  BY <1>2, Kinds DEF MarkOutcome
<1>6. \A v \in Upval : at[v] # Closed => Pointee(v)' = Pointee(v) /\ Pointee(v) \in Value \union {Nil}
  BY <1>3, Pointees DEF IInv, Pointee
<1>7. TypeOK'
  BY <1>2, <1>3 DEF TypeOK, MarkOutcome, IInv, Colors
<1>8. Shape'
  BY <1>2, <1>3, Kinds DEF Shape, MarkOutcome, IInv, TypeOK
<1>9. Survives'
  BY <1>1, <1>3, <1>4, <1>6, Kinds DEF Survives, IInv, TypeOK, NothingDead
<1>10. Painted'
  BY <1>2, <1>3, <1>5, Kinds DEF Painted, MarkOutcome, IInv, TypeOK, Marks, Marking
<1>11. Tricolor'
  <2>1. \A o \in Obj \ pending : color'[o] = "black" => \A x \in refs[o] : color'[x] \in Marks
    BY <1>1, <1>2, <1>4, Kinds DEF Tricolor, MarkOutcome, IInv, TypeOK
  <2>2. \A o \in Obj : o \in gray' \/ o \in again' \/ o \in weak' <=> o \in Linked /\ color'[o] = "gray"
    <3> TAKE o \in Obj
    <3>1. o \in gray' \/ o \in again' \/ o \in weak' <=>
            (o \in gray \/ o \in again \/ o \in weak) \/ (o \in Linked /\ color'[o] # color[o])
      BY <1>2 DEF MarkOutcome
    <3>2. o \in Linked /\ color'[o] # color[o] => color'[o] = "gray"
      BY <1>2, Kinds DEF MarkOutcome, Marks
    <3> QED BY <1>1, <1>4, <3>1, <3>2 DEF Tricolor, Marks
  <2>3. \A o \in Grayed(color, X) : o \notin gray /\ o \notin again /\ o \notin weak
    BY <1>1, <1>2, <1>4 DEF MarkOutcome, Tricolor
  <2> QED BY <1>1, <1>3, <1>4, <1>5, <2>1, <2>2, <2>3, Kinds DEF Tricolor, IInv, TypeOK, Marks
<1> QED
  BY <1>2, <1>4, <1>5, <1>7, <1>8, <1>9, <1>10, <1>11, Kinds DEF MarkOutcome, Marks

LEMMA EnterAtomicStep ==
  ASSUME IInv, EnterAtomic
  PROVE  IInv'
<1>1. /\ UNCHANGED <<alloc, color, refs, slot, top, wide, at, cur>>
      /\ UNCHANGED <<stage, gray, again, weak, unswept, pending, finalized, ran, full, arena>>
      /\ state = "propagate" /\ state' = "atomic" /\ stage = 0
  BY DEF EnterAtomic, heap, lists, IInv, Books
<1>2. TypeOK'  BY <1>1 DEF IInv, TypeOK
<1>3. Shape' /\ Survives'  BY <1>1 DEF IInv, Shape, Survives, Pointee
<1>4. Books' /\ Painted' /\ Atomic'  BY <1>1 DEF IInv, Books, Painted, Atomic
<1>5. Tricolor'  BY <1>1 DEF IInv, Tricolor, Marking
<1> QED BY <1>2, <1>3, <1>4, <1>5 DEF IInv

LEMMA AtomicOpenUpvaluesStep ==
  ASSUME IInv, AtomicOpenUpvalues
  PROVE  IInv'
<1> DEFINE X == UNION {UvVal(v) : v \in {w \in Open : color[w] = "gray"}}
<1>1. Marking /\ Tricolor
  BY DEF AtomicOpenUpvalues, IInv, Marking
<1>2. /\ state' = state /\ state = "atomic" /\ stage = 0 /\ stage' = 1
      /\ color' = Mark(color, X) /\ gray' = gray \union Grayed(color, X)
      /\ UNCHANGED <<heap, again, weak, unswept, pending, finalized, ran, full, arena>>
  BY DEF AtomicOpenUpvalues
<1>3. \A v \in Upval : at[v] # Closed => UvVal(v) = {Pointee(v)} \ {Nil}
  BY DEF UvVal, Pointee
<1>4. X \in SUBSET (alloc \intersect Value)
  BY <1>1, <1>3, Pointees, Kinds DEF Open, IInv, Survives, Tricolor
<1>5. \A v \in Upval : at[v] # Closed /\ color[v] = "gray" => Pointee(v) = Nil \/ Pointee(v) \in X
  BY <1>3, Kinds DEF Open, IInv, Shape
<1> HIDE DEF X
<1>6. /\ TypeOK' /\ Shape' /\ Survives' /\ Painted' /\ Tricolor'
      /\ \A o \in Obj : color'[o] # "old" /\ (color[o] \in Marks => color'[o] = color[o])
      /\ \A o \in X : color'[o] \in Marks
      /\ \A v \in Upval : color'[v] = color[v]
  BY <1>1, <1>2, <1>4, MarkMore
<1>7. Books'
  BY <1>2, <1>6, Kinds DEF IInv, Books, TypeOK, heap
<1>8. Atomic'
  BY <1>2, <1>5, <1>6 DEF Atomic, Pointee, heap
<1> QED BY <1>6, <1>7, <1>8 DEF IInv

LEMMA AtomicRootsStep ==
  ASSUME IInv, AtomicRoots
  PROVE  IInv'
<1> DEFINE X == {cur, Registry}
<1>1. Marking /\ Tricolor
  BY DEF AtomicRoots, IInv, Marking, Books
<1>2. /\ state' = state /\ state = "atomic" /\ stage = 1 /\ stage' = 2 /\ gray = {} /\ weak' = {}
      /\ color' = Mark(color, X) /\ gray' = weak \union Grayed(color, X)
      /\ UNCHANGED <<heap, again, unswept, pending, finalized, ran, full, arena>>
  BY DEF AtomicRoots, LateRoots, IInv, Books
<1>3. X \in SUBSET (alloc \intersect Value)
  BY Kinds DEF IInv, Survives, TypeOK
<1>4. /\ TypeOK' /\ Shape' /\ Survives' /\ Painted' /\ Tricolor'
      /\ \A o \in Obj : color'[o] # "old" /\ (color[o] \in Marks => color'[o] = color[o])
      /\ \A o \in X : color'[o] \in Marks
      /\ \A v \in Upval : color'[v] = color[v]
  BY <1>1, <1>2, <1>3, MarkMore
<1>5. Books'
  BY <1>2, <1>4, Kinds DEF IInv, Books, TypeOK, heap
<1>6. \A v \in Upval : at[v] # Closed => Pointee(v)' = Pointee(v) /\ Pointee(v) \in Value \union {Nil}
  BY <1>2, Pointees DEF IInv, Pointee, heap
<1>7. color'[cur] \in Marks
  BY <1>4
<1> HIDE DEF X
<1>8. \A v \in Upval : at[v] # Closed /\ color'[v] = "gray" =>
         Pointee(v) = Nil \/ color'[Pointee(v)] \in Marks
  <2> SUFFICES ASSUME NEW v \in Upval, at[v] # Closed, color'[v] = "gray", Pointee(v) # Nil
               PROVE  color'[Pointee(v)] \in Marks
    OBVIOUS
  <2>1. Pointee(v) \in Obj
    BY <1>6, Kinds
  <2>2. color[Pointee(v)] \in Marks
    BY <1>2, <1>4 DEF IInv, Atomic
  <2> QED BY <1>4, <2>1, <2>2
<1>9. cur' = cur /\ at' = at
  BY <1>2 DEF heap
<1>10. Atomic'
  BY <1>2, <1>6, <1>7, <1>8, <1>9 DEF Atomic
<1> QED BY <1>4, <1>5, <1>10 DEF IInv

LEMMA AtomicAgainStep ==
  ASSUME IInv, AtomicAgain
  PROVE  IInv'
<1>1. /\ UNCHANGED <<alloc, color, refs, slot, top, wide, at, cur>>
      /\ UNCHANGED <<state, weak, unswept, pending, finalized, ran, full, arena>>
      /\ state = "atomic" /\ stage = 2 /\ stage' = 3
      /\ gray = {} /\ gray' = again /\ again' = {}
  BY DEF AtomicAgain, SecondChance, heap, IInv, Books
<1>2. TypeOK'  BY <1>1 DEF IInv, TypeOK
<1>3. Shape' /\ Survives'  BY <1>1 DEF IInv, Shape, Survives, Pointee
<1>4. Books' /\ Painted'  BY <1>1 DEF IInv, Books, Painted
<1>5. Tricolor'  BY <1>1 DEF IInv, Tricolor, Marking
<1>6. Atomic'  BY <1>1 DEF IInv, Atomic, Pointee
<1> QED BY <1>2, <1>3, <1>4, <1>5, <1>6 DEF IInv

LEMMA AtomicSeparateStep ==
  ASSUME IInv, AtomicSeparate
  PROVE  IInv'
<1> DEFINE W == MakeWhite(color, pending')
<1>1. Marking /\ Tricolor /\ NothingDead
  BY DEF AtomicSeparate, IInv, Marking, Books, Tricolor, NothingDead
<1>2. /\ UNCHANGED <<alloc, refs, slot, top, wide, at, cur>>
      /\ UNCHANGED <<state, again, weak, unswept, ran, full, arena>>
      /\ state = "atomic" /\ stage = 3 /\ stage' = 4 /\ gray = {}
      /\ pending' = pending \union Separated /\ finalized' = finalized \union Separated
  BY DEF AtomicSeparate, Flagged, heap, IInv, Books
<1>2a. color' = Mark(W, pending') /\ gray' = Grayed(W, pending')
  BY DEF AtomicSeparate
<1>3. \A u \in Obj : u \in Separated <=>
         u \in Udata /\ u \in alloc /\ u \notin pending /\ u \notin finalized /\ color[u] = "white"
  BY <1>1, Kinds DEF Separated, NothingDead
<1>4. pending' \subseteq alloc /\ pending' \subseteq Udata /\ Separated \subseteq Udata
  BY <1>2 DEF Separated, IInv, TypeOK, Books
<1>5. /\ W \in [Obj -> Colors]
      /\ \A o \in Obj : W[o] = IF o \in pending' THEN "white" ELSE color[o]
  BY DEF MakeWhite, IInv, TypeOK, Colors
<1>6. MarkOutcome(W, pending', color', gray')
  BY <1>1, <1>2a, <1>4, <1>5, MarkFacts DEF IInv
<1> HIDE DEF W
<1>7. \A o \in Obj : /\ color'[o] # "old"
                     /\ color[o] \in Marks => color'[o] \in Marks
                     /\ o \notin pending' /\ color'[o] # color[o] => W[o] = color[o] /\ color[o] = "white"
                     /\ o \notin pending' /\ color[o] \in Marks => color'[o] = color[o]
  BY <1>1, <1>5, <1>6 DEF MarkOutcome, NothingDead, Marks, Unmarked
<1>8. \A u \in pending' : color'[u] = "black" /\ \A x \in refs[u] : color'[x] \in Marks
  BY <1>4, <1>5, <1>6, Kinds DEF MarkOutcome, Marks
<1>9. \A v \in Upval : color'[v] = color[v]
  BY <1>4, <1>5, <1>6, Kinds DEF MarkOutcome
<1>10. \A v \in Upval : at[v] # Closed => Pointee(v)' = Pointee(v) /\ Pointee(v) \in Value \union {Nil}
  BY <1>2, Pointees DEF IInv, Pointee
<1>11. TypeOK'
  BY <1>2, <1>4, <1>6, Kinds DEF TypeOK, MarkOutcome, IInv, Colors
<1>12. Shape'
  BY <1>2, <1>4, <1>5, <1>6, Kinds DEF Shape, MarkOutcome, IInv, TypeOK
<1>13. Books'
  BY <1>2, <1>3, <1>4, <1>7, Kinds DEF Books, IInv, TypeOK
<1>14. Survives'
  BY <1>1, <1>2, <1>7, <1>10, Kinds DEF Survives, IInv, TypeOK, NothingDead
<1>15. Painted'
  <2>1. \A o \in Obj : color'[o] = "black" => o \notin Weak \union Thread \union Str
    BY <1>4, <1>5, <1>6, Kinds DEF MarkOutcome, IInv, Painted
  <2>2. \A u \in Udata : color'[u] # "gray"
    BY <1>4, <1>5, <1>6, <1>8, Kinds DEF MarkOutcome, IInv, Painted, Marks
  <2> QED BY <1>2, <1>8, <1>9, <2>1, <2>2 DEF Painted, IInv
<1>16. Tricolor'
  <2>1. \A o \in Obj \ pending' : color'[o] = "black" => \A x \in refs[o] : color'[x] \in Marks
    <3> SUFFICES ASSUME NEW o \in Obj \ pending', color'[o] = "black", NEW x \in refs[o]
                 PROVE  color'[x] \in Marks
      OBVIOUS
    <3>1. x \in Obj /\ W[o] = color[o] /\ o \notin pending
      BY <1>2, <1>5 DEF IInv, TypeOK
    <3>2. CASE color'[o] = color[o]
      BY <1>1, <1>7, <3>1, <3>2 DEF Tricolor, Marks
    <3>3. CASE color'[o] # color[o]
      BY <1>6, <3>1, <3>3, Kinds DEF MarkOutcome
    <3> QED BY <3>2, <3>3
  <2>2. \A o \in Obj : o \in gray' \/ o \in again' \/ o \in weak' <=> o \in Linked /\ color'[o] = "gray"
    <3> TAKE o \in Obj
    <3>1. o \in Linked => o \notin pending' /\ W[o] = color[o]
      BY <1>4, <1>5, Kinds
    <3>2. o \in Linked /\ color'[o] # color[o] => color'[o] = "gray"
      BY <1>6, <3>1, Kinds DEF MarkOutcome, Marks
    <3>3. o \in gray' <=> o \in Linked /\ color'[o] # color[o]
      BY <1>6, <3>1 DEF MarkOutcome
    <3>4. o \in again \/ o \in weak <=> o \in Linked /\ color[o] = "gray"
      BY <1>1, <1>2 DEF Tricolor
    <3> QED BY <1>2, <1>7, <3>1, <3>2, <3>3, <3>4 DEF Marks
  <2>3. \A o \in gray' : o \notin again /\ o \notin weak
    BY <1>1, <1>4, <1>5, <1>6, <1>7, Kinds DEF MarkOutcome, Tricolor, Marks
  <2>4. \A v \in Upval : color'[v] \in Marks => \E f \in Func : color'[f] = "black" /\ v \in refs[f]
    BY <1>1, <1>4, <1>7, <1>9, Kinds DEF Tricolor, Marks
  <2> QED
    BY <1>1, <1>2, <1>4, <1>7, <1>9, <2>1, <2>2, <2>3, <2>4, Kinds DEF Tricolor, Marks
<1>17. Atomic'
  <2>1. \A u \in Udata : u \in alloc /\ color'[u] = "white" => u \in ran
    BY <1>2, <1>3, <1>7, <1>8, Kinds DEF IInv, Books, Marks
  <2>2. \A v \in Upval : at[v] # Closed /\ color'[v] = "gray" =>
          Pointee(v)' = Nil \/ color'[Pointee(v)'] \in Marks
    BY <1>2, <1>7, <1>9, <1>10, Kinds DEF IInv, Atomic
  <2> QED BY <1>2, <1>7, <1>8, <2>1, <2>2, Kinds DEF Atomic, IInv, TypeOK
<1> QED BY <1>11, <1>12, <1>13, <1>14, <1>15, <1>16, <1>17 DEF IInv

LEMMA AtomicClearStep ==
  ASSUME IInv, AtomicClear
  PROVE  IInv'
<1> DEFINE X == Str \intersect UNION {refs[t] : t \in weak}
           D == Mark(color, X)
<1>1. Marking /\ Tricolor /\ NothingDead
  BY DEF AtomicClear, IInv, Marking, Books, Tricolor, NothingDead
<1>2. /\ UNCHANGED <<alloc, slot, top, wide, at, cur, pending, finalized, ran, full, arena>>
      /\ state = "atomic" /\ stage = 4 /\ gray = {}
      /\ state' = "sweepstring" /\ stage' = 0
      /\ unswept' = alloc \ (Open \union pending)
      /\ gray' = {} /\ again' = {} /\ weak' = {}
  BY DEF AtomicClear, IInv, Books
<1>2a. /\ color' = Flipped(D)
       /\ refs' = [o \in Obj |-> IF o \in weak THEN {x \in refs[o] : ~MayClear(o, x)} ELSE refs[o]]
  BY DEF AtomicClear
<1>3. X \in SUBSET alloc /\ X \subseteq Str
  BY <1>1 DEF IInv, Survives, Tricolor, TypeOK
<1>4. MarkOutcome(color, X, D, Grayed(color, X))
  BY <1>1, <1>3, MarkFacts DEF IInv, TypeOK, Colors
<1>5. \A t \in weak : \A x \in refs[t] : x \in Str => x \in X
  OBVIOUS
<1> HIDE DEF X, D
<1>6. \A o \in Obj : D[o] # color[o] => o \in X
  <2>1. MarkSet(color, X) \subseteq X
    BY <1>3, Kinds DEF MarkSet, Whites
  <2> QED BY <2>1 DEF D, Mark, IInv, TypeOK
<1>7. \A o \in Obj : /\ D[o] # "old"
                     /\ color[o] \in Marks => D[o] = color[o]
                     /\ D[o] # color[o] => D[o] = "gray" /\ o \in Str
                     /\ o \notin alloc => D[o] = "white"
  BY <1>1, <1>3, <1>4, <1>6, Kinds DEF MarkOutcome, NothingDead, Marks, Unmarked, IInv, Shape
<1>8. /\ color' \in [Obj -> Colors]
      /\ \A o \in Obj : /\ color'[o] = IF o \in alloc /\ D[o] = "white" THEN "old" ELSE D[o]
                        /\ color'[o] # "old" /\ o \in alloc => D[o] \in Marks /\ color'[o] = D[o]
  <2>1. D \in [Obj -> Colors]  BY <1>4 DEF MarkOutcome
  <2> QED BY <1>2a, <1>7, <2>1 DEF Flipped, Colors, Marks
<1>9. /\ refs' \in [Obj -> SUBSET Obj]
      /\ \A o \in Obj : refs'[o] \subseteq refs[o] /\ (o \notin weak => refs'[o] = refs[o])
  BY <1>2a DEF IInv, TypeOK
<1>10. TypeOK'
  BY <1>2, <1>8, <1>9 DEF TypeOK, IInv, Colors
<1>11. Shape'
  <2>1. \A o \in Obj : \A x \in refs'[o] : x \in refs[o]  BY <1>9
  <2>2. \A o \in Obj \ alloc : color'[o] = "white"  BY <1>7, <1>8
  <2>3. \A v \in Upval : refs'[v] = refs[v]  BY <1>1, <1>9, Kinds DEF Tricolor
  <2> QED BY <1>2, <2>1, <2>2, <2>3, Kinds DEF IInv, Shape, TypeOK
<1>12. Books'
  <2>1. \A u \in Udata : color'[u] = "old" => u \in ran
    BY <1>2, <1>7, <1>8, Kinds DEF IInv, Atomic, TypeOK
  <2> QED BY <1>2, <2>1 DEF IInv, Books, Open
<1>13. \A v \in Upval : at[v] # Closed =>
         Pointee(v)' = Pointee(v) /\ Pointee(v) \in Value \union {Nil}
  BY <1>2, Pointees DEF IInv, Pointee
<1>14. \A o \in Obj : color[o] \in Marks /\ o \in alloc => color'[o] # "old"
  BY <1>7, <1>8 DEF Marks
<1>15. \A o \in Obj : color[o] \in Marks => o \in alloc
  BY DEF IInv, Shape, Marks
<1>16. \A o \in Obj : color'[o] # "old" => \A x \in refs'[o] : x \in alloc /\ color'[x] # "old"
  <2> SUFFICES ASSUME NEW o \in Obj, color'[o] # "old", NEW x \in refs'[o]
               PROVE  x \in alloc /\ color'[x] # "old"
    OBVIOUS
  <2>1. x \in Obj /\ x \in refs[o] /\ o \in alloc /\ x \in alloc
    BY <1>1, <1>9 DEF IInv, TypeOK, Shape, Survives, NothingDead
  <2>2. D[o] \in Marks  BY <1>8, <2>1
  <2>3. o \notin Str  BY <2>1, Kinds DEF IInv, Shape
  <2>4. D[o] = color[o]  BY <1>7, <2>3
  <2>5. CASE color[o] = "black"
    <3>1. color[x] \in Marks
      BY <1>1, <1>2, <2>1, <2>5 DEF IInv, Atomic, Tricolor
    <3> QED BY <1>14, <2>1, <3>1
  <2>6. CASE color[o] = "gray"
    <3>1. o \in Linked
      BY <1>1, <2>1, <2>3, <2>6, Kinds DEF IInv, Painted, Shape, Tricolor, Obj, Linked
    <3>2. o \in weak
      <4>1. o \in again \/ o \in weak  BY <1>1, <1>2, <2>6, <3>1 DEF Tricolor
      <4>2. o \notin again  BY <1>2, <2>1, Kinds DEF IInv, Atomic, Shape
      <4> QED BY <4>1, <4>2
    <3>3. ~MayClear(o, x)  BY <1>2a, <3>2
    <3>4. CASE x \in Str
      BY <1>4, <1>5, <1>7, <1>8, <2>1, <3>2, <3>4 DEF MarkOutcome, Marks
    <3>5. CASE x \notin Str
      BY <1>14, <2>1, <3>3, <3>5 DEF MayClear, Marks, IInv, TypeOK
    <3> QED BY <3>4, <3>5
  <2> QED BY <2>2, <2>4, <2>5, <2>6 DEF Marks
<1>17. \A th \in Thread : color'[th] # "old" => \A i \in Slot :
         slot[th][i] = Nil \/ (slot[th][i] \in alloc /\ color'[slot[th][i]] # "old")
  <2> SUFFICES ASSUME NEW th \in Thread, color'[th] # "old", NEW i \in Slot, slot[th][i] # Nil
               PROVE  slot[th][i] \in alloc /\ color'[slot[th][i]] # "old"
    OBVIOUS
  <2>1. th \in Obj /\ slot[th][i] \in Obj
    BY Kinds DEF IInv, TypeOK
  <2>2. th \in alloc  BY <2>1 DEF IInv, Shape
  <2>3. color[th] = "gray"
    BY <1>7, <1>8, <2>1, <2>2, Kinds DEF IInv, Painted, Marks
  <2>4. th \in again  BY <1>1, <1>2, <2>1, <2>3, Kinds DEF Tricolor
  <2>5. color[slot[th][i]] \in Marks  BY <1>2, <2>4 DEF IInv, Atomic
  <2> QED BY <1>14, <1>15, <2>1, <2>5
<1>18. \A v \in Upval : at[v] # Closed /\ color'[v] # "old" =>
         Pointee(v) = Nil \/ (Pointee(v) \in alloc /\ color'[Pointee(v)] # "old")
  <2> SUFFICES ASSUME NEW v \in Upval, at[v] # Closed, color'[v] # "old", Pointee(v) # Nil
               PROVE  Pointee(v) \in alloc /\ color'[Pointee(v)] # "old"
    OBVIOUS
  <2>1. v \in Obj /\ v \in alloc /\ Pointee(v) \in Obj
    BY <1>13, Kinds DEF IInv, Shape
  <2>2. color[v] = "gray"
    BY <1>7, <1>8, <2>1, Kinds DEF IInv, Painted, Marks
  <2>3. color[Pointee(v)] \in Marks  BY <1>2, <2>2 DEF IInv, Atomic
  <2> QED BY <1>14, <1>15, <2>1, <2>3
<1>19. Survives'
  <2>1. \A o \in {Main, Registry, cur} : o \in alloc /\ color'[o] # "old"
    <3>1. Main \in Obj /\ Registry \in Obj /\ cur \in Obj
      BY Kinds DEF IInv, TypeOK
    <3>2. color[Main] \in Marks /\ color[Registry] \in Marks /\ color[cur] \in Marks
      BY <1>1, <1>2 DEF IInv, Atomic, Tricolor
    <3> QED BY <1>14, <1>15, <3>1, <3>2
  <2> QED BY <1>2, <1>13, <1>16, <1>17, <1>18, <2>1 DEF Survives
<1>20. Painted'
  <2>1. \A o \in Obj : /\ color'[o] = "black" <=> color[o] = "black"
                       /\ color'[o] = "gray" => color[o] = "gray" \/ o \in Str
    BY <1>7, <1>8 DEF Marks
  <2>2. \A u \in pending : color'[u] = "black"
    BY <1>2, <2>1, Kinds DEF IInv, Atomic, TypeOK
  <2>3. \A o \in Obj : \/ color'[o] = "white" \/ o \in unswept' \/ o \in pending
                       \/ o \in Upval /\ at[o] # Closed /\ at[o][1] \in unswept'
    <3> TAKE o \in Obj
    <3>1. CASE o \notin alloc  BY <1>7, <1>8, <3>1
    <3>2. CASE o \in Open
      BY <1>2, <3>2, Pointees, Kinds DEF Open, IInv, Shape, TypeOK
    <3>3. CASE o \in alloc /\ o \notin Open  BY <1>2, <3>3
    <3> QED BY <3>1, <3>2, <3>3
  <2> QED BY <1>2, <2>1, <2>2, <2>3, Kinds DEF Painted, IInv
<1>21. Atomic' /\ ~Marking'
  BY <1>2 DEF Atomic, Marking
<1> QED BY <1>10, <1>11, <1>12, <1>19, <1>20, <1>21 DEF IInv

(***************************************************************************)
(* The sweep, the finalizers and lj_gc_fullgc.                             *)
(***************************************************************************)
\* The sweep of one object: what is left does not refer to what is freed.
LEMMA SweepOneStep ==
  ASSUME IInv, state \in {"sweepstring", "sweep"}, NEW o \in unswept, SweepOne(o),
         UNCHANGED <<cur, state, stage, gray, again, weak, pending, full, arena>>
  PROVE  IInv'
<1> DEFINE U == {v \in Open : at[v][1] = o}
           X == {x \in U \union {o} : color[x] = "old" /\ x # Main}
           owned == {v \in Open \ X : at[v][1] \in X}
<1>1. /\ o \in alloc /\ o \in Obj /\ o \notin pending /\ o \notin Open
      /\ \A v \in Open : v \in Upval /\ v \in alloc /\ at[v] # Closed /\ refs[v] = {}
      /\ alloc \subseteq Obj /\ stage = 0 /\ ~Marking
  BY DEF IInv, Books, TypeOK, Open, Marking, Shape
<1>2. /\ \A x \in X : x \in alloc /\ color[x] = "old" /\ (x = o \/ x \in U)
      /\ owned \subseteq U
      /\ \A v \in Upval : at[v] # Closed /\ at[v][1] \in X => v \in X \union owned
      /\ \A x \in U \union {o} : x \in X \/ color[x] # "old"
  BY <1>1, Kinds DEF Open, IInv, Shape, Survives, TypeOK
<1>3. /\ alloc' = alloc \ X
      /\ refs' = [y \in Obj |-> CASE y \in X     -> {}
                                  [] y \in owned -> UvVal(y)
                                  [] OTHER       -> refs[y]]
      /\ at' = [v \in Upval |-> IF v \in X \union owned THEN Closed ELSE at[v]]
      /\ slot' = [th \in Thread |-> IF th \in X THEN [i \in Slot |-> Nil] ELSE slot[th]]
      /\ top' = [th \in Thread |-> IF th \in X THEN 0 ELSE top[th]]
      /\ wide' = wide \ X /\ finalized' = finalized \ X /\ ran' = ran \ X
      /\ color' = MakeWhite(color, U \union {o}) /\ unswept' = unswept \ {o}
  BY DEF SweepOne, Free, Whitened
<1> HIDE DEF U, X, owned
<1>4. /\ refs' \in [Obj -> SUBSET Obj]
      /\ \A y \in Obj : /\ y \in X => refs'[y] = {}
                        /\ y \notin X /\ y \notin owned => refs'[y] = refs[y]
                        /\ y \in owned => \A x \in refs'[y] : x = Pointee(y) /\ x \in Value
  <2>1. X \intersect owned = {}  BY DEF owned
  <2>2. \A y \in owned : y \in Upval /\ at[y] # Closed /\ UvVal(y) = {Pointee(y)} \ {Nil}
    BY <1>1 DEF owned, UvVal, Pointee
  <2>3. \A y \in owned : UvVal(y) \subseteq Value /\ UvVal(y) \in SUBSET Obj
    BY <2>2, Pointees, Kinds DEF IInv
  <2> QED BY <1>3, <2>1, <2>2, <2>3 DEF IInv, TypeOK
<1>5. /\ color' \in [Obj -> Colors]
      /\ \A y \in Obj : color'[y] = IF y \in U \/ y = o THEN "white" ELSE color[y]
  BY <1>3 DEF MakeWhite, IInv, TypeOK, Colors
<1>6. \A x \in Obj : x \in alloc /\ color[x] # "old" => x \in alloc' /\ color'[x] # "old"
  BY <1>2, <1>3, <1>5
<1>7. /\ at' \in [Upval -> (Thread \X Slot) \union {Closed}]
      /\ \A v \in Upval : at'[v] # Closed =>
           /\ at[v] # Closed /\ at'[v] = at[v] /\ v \notin X /\ v \notin owned
           /\ at[v][1] \notin X /\ Pointee(v)' = Pointee(v) /\ Pointee(v) \in Value \union {Nil}
  <2>1. at' \in [Upval -> (Thread \X Slot) \union {Closed}]
    BY <1>3 DEF IInv, TypeOK
  <2>2. \A v \in Upval : at'[v] # Closed =>
           at[v] # Closed /\ at'[v] = at[v] /\ v \notin X /\ v \notin owned /\ at[v][1] \notin X
    BY <1>2, <1>3
  <2> QED BY <1>3, <2>1, <2>2, Pointees DEF IInv, Pointee
<1>8. TypeOK'
  <2>1. /\ alloc' \subseteq Obj /\ {Main, Registry} \subseteq alloc'
        /\ wide' \subseteq Thread /\ finalized' \subseteq Udata /\ ran' \subseteq Udata
        /\ unswept' \subseteq Obj
    BY <1>2, <1>3 DEF IInv, TypeOK, Survives
  <2>2. slot' \in [Thread -> [Slot -> Value \union {Nil}]] /\ top' \in [Thread -> 0..NSlots]
    BY <1>3, ConstantsOK DEF IInv, TypeOK
  <2> QED BY <1>4, <1>5, <1>7, <2>1, <2>2 DEF IInv, TypeOK, Colors
<1>9. Shape'
  <2>1. \A y \in Obj : \A x \in refs'[y] :
          /\ y \in alloc'
          /\ y \in Tab \union Upval => x \in Value
          /\ y \in Func => x \in Upval
          /\ y \in Udata => x \in Tab
          /\ y \notin Str \union Thread
    BY <1>1, <1>2, <1>3, <1>4, Kinds DEF IInv, Shape, owned
  <2>2. \A y \in Obj \ alloc' : color'[y] = "white"
    BY <1>2, <1>3, <1>5 DEF IInv, Shape
  <2>3. \A th \in Thread \ alloc' : \A i \in Slot : slot'[th][i] = Nil
    BY <1>3 DEF IInv, Shape
  <2>4. \A v \in Upval : at'[v] # Closed => v \in alloc' /\ at'[v][1] \in alloc' /\ refs'[v] = {}
    BY <1>3, <1>4, <1>7, Kinds DEF IInv, Shape
  <2>5. alloc' \intersect Func \subseteq arena'.objects
    BY <1>3 DEF IInv, Shape
  <2> QED BY <2>1, <2>2, <2>3, <2>4, <2>5 DEF Shape
<1>10. Books'
  <2>1. \A y \in unswept' : y \notin X /\ y \in alloc /\ y \in Obj
    BY <1>1, <1>2, <1>3 DEF IInv, Books, U, Open
  <2>2. \A u \in pending : u \notin X
    BY <1>1, <1>2, Kinds DEF U, IInv, TypeOK
  <2>3. \A u \in Udata : color'[u] = "old" => u \in ran'
    BY <1>2, <1>3, <1>5, Kinds DEF IInv, Books
  <2>4. \A y \in unswept' : y \in alloc' /\ y \notin pending' /\ (y \in Upval => at'[y] = Closed)
    BY <1>3, <1>7, <2>1 DEF IInv, Books
  <2>5. /\ \A u \in pending' : u \in alloc' /\ u \in finalized' /\ u \notin ran'
        /\ \A u \in ran' : u \in finalized'
        /\ \A u \in finalized' : u \in pending' \/ u \in ran'
    BY <1>3, <2>2 DEF IInv, Books
  <2> QED BY <2>3, <2>4, <2>5 DEF IInv, Books
<1>11. Survives'
  <2>1. \A y \in Obj : color'[y] # "old" => y \in X \/ color[y] # "old"
    BY <1>2, <1>5
  <2>2. \A y \in Obj : color'[y] # "old" => \A x \in refs'[y] : x \in alloc' /\ color'[x] # "old"
    <3> SUFFICES ASSUME NEW y \in Obj, color'[y] # "old", NEW x \in refs'[y]
                 PROVE  x \in alloc' /\ color'[x] # "old"
      OBVIOUS
    <3>1. y \notin X /\ color[y] # "old" /\ x \in Obj
      BY <1>4, <2>1
    <3>2. CASE y \in owned
      <4>1. x = Pointee(y) /\ x # Nil /\ y \in Upval /\ at[y] # Closed
        BY <1>1, <1>4, <3>1, <3>2, Kinds DEF owned
      <4> QED BY <1>6, <3>1, <4>1 DEF IInv, Survives
    <3>3. CASE y \notin owned
      BY <1>4, <1>6, <3>1, <3>3 DEF IInv, Survives
    <3> QED BY <3>2, <3>3
  <2>3. \A th \in Thread : color'[th] # "old" => \A i \in Slot :
          slot'[th][i] = Nil \/ (slot'[th][i] \in alloc' /\ color'[slot'[th][i]] # "old")
    <3> SUFFICES ASSUME NEW th \in Thread, color'[th] # "old", NEW i \in Slot, slot'[th][i] # Nil
                 PROVE  slot'[th][i] \in alloc' /\ color'[slot'[th][i]] # "old"
      OBVIOUS
    <3>1. th \notin X /\ slot'[th][i] = slot[th][i]  BY <1>3
    <3>2. slot[th][i] \in Obj /\ color[th] # "old"
      BY <2>1, <3>1, Kinds DEF IInv, TypeOK
    <3> QED BY <1>6, <3>1, <3>2 DEF IInv, Survives
  <2>4. \A v \in Upval : at'[v] # Closed /\ color'[v] # "old" =>
          Pointee(v)' = Nil \/ (Pointee(v)' \in alloc' /\ color'[Pointee(v)'] # "old")
    <3> SUFFICES ASSUME NEW v \in Upval, at'[v] # Closed, color'[v] # "old", Pointee(v)' # Nil
                 PROVE  Pointee(v)' \in alloc' /\ color'[Pointee(v)'] # "old"
      OBVIOUS
    <3>1. /\ at[v] # Closed /\ v \notin X /\ Pointee(v)' = Pointee(v)
          /\ Pointee(v) \in Obj /\ v \in Obj
      BY <1>7, Kinds
    <3> QED BY <1>6, <2>1, <3>1 DEF IInv, Survives
  <2>5. \A y \in {Main, Registry, cur} : y \in alloc' /\ color'[y] # "old"
    BY <1>6, Kinds DEF IInv, Survives, TypeOK
  <2> QED BY <2>2, <2>3, <2>4, <2>5 DEF Survives
<1>12. Painted'
  <2>1. \A y \in Obj : \/ color'[y] = "white" \/ y \in unswept' \/ y \in pending
                       \/ y \in Upval /\ at'[y] # Closed /\ at'[y][1] \in unswept'
    <3> SUFFICES ASSUME NEW y \in Obj, color'[y] # "white", y \notin unswept', y \notin pending
                 PROVE  y \in Upval /\ at'[y] # Closed /\ at'[y][1] \in unswept'
      OBVIOUS
    <3>1. y \notin U /\ y # o /\ color[y] # "white" /\ y \notin unswept
      BY <1>3, <1>5
    <3>2. y \in Upval /\ at[y] # Closed /\ at[y][1] \in unswept /\ y \in alloc
      BY <3>1 DEF IInv, Painted, Shape
    <3>3. at[y][1] # o  BY <3>1, <3>2 DEF U, Open
    <3>4. y \notin X /\ y \notin owned  BY <1>2, <3>1
    <3> QED BY <1>3, <3>2, <3>3, <3>4
  <2> QED BY <1>5, <1>7, <2>1, Kinds DEF IInv, Painted, TypeOK
<1>13. Atomic'
  BY <1>1 DEF Atomic
<1> QED BY <1>1, <1>8, <1>9, <1>10, <1>11, <1>12, <1>13 DEF IInv, Marking

LEMMA SweepStringStep ==
  ASSUME IInv, SweepString
  PROVE  IInv'
<1>1. CASE \E s \in unswept \intersect Str : SweepOne(s) /\ state' = state
  BY <1>1, SweepOneStep DEF SweepString, lists
<1>2. CASE /\ unswept \intersect Str = {}
           /\ state' = "sweep"
           /\ UNCHANGED <<alloc, refs, slot, top, wide, at, color, unswept, finalized, ran>>
  <2>1. /\ UNCHANGED <<cur, stage, gray, again, weak, pending, full, arena>>
        /\ state = "sweepstring" /\ stage = 0
    BY DEF SweepString, lists, IInv, Books
  <2>2. TypeOK' /\ Shape'  BY <1>2, <2>1 DEF IInv, TypeOK, Shape
  <2>3. Books'  BY <1>2, <2>1 DEF IInv, Books
  <2>4. Survives'  BY <1>2, <2>1 DEF IInv, Survives, Pointee
  <2>5. Painted' /\ Atomic' /\ ~Marking'
    BY <1>2, <2>1 DEF IInv, Painted, Atomic, Marking
  <2> QED BY <2>2, <2>3, <2>4, <2>5 DEF IInv
<1> QED BY <1>1, <1>2 DEF SweepString

LEMMA SweepStep ==
  ASSUME IInv, Sweep
  PROVE  IInv'
<1>1. CASE \E o \in unswept : SweepOne(o) /\ UNCHANGED <<state, full>>
  BY <1>1, SweepOneStep DEF Sweep, lists
<1>2. CASE /\ unswept = {}
           /\ state' \in {"pause", "finalize"} /\ full' \in {"no", "finish", "cycle"}
           /\ UNCHANGED <<alloc, refs, slot, top, wide, at, color, unswept, finalized, ran>>
  <2>1. /\ UNCHANGED <<cur, stage, gray, again, weak, pending, arena>>
        /\ state = "sweep" /\ stage = 0
    BY DEF Sweep, lists, IInv, Books
  <2>2. TypeOK'  BY <1>2, <2>1 DEF IInv, TypeOK
  <2>3. Shape'  BY <1>2, <2>1 DEF IInv, Shape
  <2>4. Books'  BY <1>2, <2>1 DEF IInv, Books
  <2>5. Survives'  BY <1>2, <2>1 DEF IInv, Survives, Pointee
  <2>6. Painted' /\ Atomic' /\ ~Marking'
    BY <1>2, <2>1 DEF IInv, Painted, Atomic, Marking
  <2> QED BY <2>2, <2>3, <2>4, <2>5, <2>6 DEF IInv
<1> QED BY <1>1, <1>2 DEF Sweep, IInv, TypeOK

LEMMA FinalizeStep ==
  ASSUME IInv, NEW u \in Udata, NEW keep \in BOOLEAN, NEW fails \in BOOLEAN,
         Finalize(u, keep, fails)
  PROVE  IInv'
<1>1. /\ UNCHANGED <<alloc, slot, top, wide, at, cur, state, stage, gray, again, weak>>
      /\ UNCHANGED <<unswept, finalized, arena>>
      /\ state = "finalize" /\ stage = 0 /\ unswept = {} /\ u \in pending /\ u \in alloc
      /\ pending' = pending \ {u} /\ ran' = ran \union {u}
      /\ full' \in {full, "no"}
  BY DEF Finalize, lists, IInv, Books
<1>2. /\ color' \in [Obj -> Colors]
      /\ \A o \in Obj : color'[o] = IF o = u THEN "white" ELSE color[o]
  BY Kinds DEF Finalize, IInv, TypeOK, Colors
<1>3. /\ refs' \in [Obj -> SUBSET Obj]
      /\ \A o \in Obj : o # Registry => refs'[o] = refs[o]
      /\ refs'[Registry] \in {refs[Registry], refs[Registry] \union {u}}
  BY Kinds DEF Finalize, IInv, TypeOK
<1>4. \A o \in Obj : color[o] # "old" /\ color'[o] # "old"
  BY <1>1, <1>2 DEF IInv, Painted
<1>5. TypeOK'
  BY <1>1, <1>2, <1>3 DEF IInv, TypeOK, Colors
<1>6. Shape'
  BY <1>1, <1>2, <1>3, Kinds DEF IInv, Shape, Survives
<1>7. Books'
  BY <1>1, <1>4, Kinds DEF IInv, Books
<1>8. Survives'
  BY <1>1, <1>3, <1>4, Kinds, Pointees DEF IInv, Survives, Pointee, TypeOK
<1>9. Painted'
  BY <1>1, <1>2, Kinds DEF IInv, Painted, TypeOK
<1>10. Atomic' /\ ~Marking'
  BY <1>1 DEF Atomic, Marking
<1> QED BY <1>5, <1>6, <1>7, <1>8, <1>9, <1>10 DEF IInv

LEMMA EndCycleStep ==
  ASSUME IInv, EndCycle
  PROVE  IInv'
<1>1. /\ UNCHANGED <<alloc, color, refs, slot, top, wide, at, cur>>
      /\ UNCHANGED <<stage, gray, again, weak, unswept, pending, finalized, ran, arena>>
      /\ state = "finalize" /\ state' = "pause" /\ stage = 0 /\ full' = "no"
  BY DEF EndCycle, heap, lists, IInv, Books
<1>2. TypeOK'  BY <1>1 DEF IInv, TypeOK
<1>3. Shape' /\ Survives'  BY <1>1 DEF IInv, Shape, Survives, Pointee
<1>4. Books' /\ Painted' /\ Atomic' /\ ~Marking'
  BY <1>1 DEF IInv, Books, Painted, Atomic, Marking
<1> QED BY <1>2, <1>3, <1>4 DEF IInv

LEMMA FullGcStep ==
  ASSUME IInv, FullGc
  PROVE  IInv'
<1>1. /\ UNCHANGED <<alloc, color, refs, slot, top, wide, at, cur>>
      /\ UNCHANGED <<stage, pending, finalized, ran, arena>>
      /\ stage = 0 /\ full' \in {"finish", "cycle"}
      /\ \/ /\ state \in {"pause", "propagate", "atomic"} /\ state' = "sweepstring"
            /\ unswept' = alloc \ (Open \union pending)
            /\ gray' = {} /\ again' = {} /\ weak' = {}
         \/ /\ state \notin {"pause", "propagate", "atomic"}
            /\ state' = state \/ (state = "finalize" /\ state' = "pause")
            /\ UNCHANGED <<unswept, gray, again, weak>>
  BY DEF FullGc, heap, lists
<1>2. TypeOK'  BY <1>1 DEF IInv, TypeOK
<1>3. Shape' /\ Survives'  BY <1>1 DEF IInv, Shape, Survives, Pointee
<1>4. Books'
  BY <1>1 DEF IInv, Books, Open, TypeOK
<1>5. \A o \in Obj : \/ o \in alloc \ (Open \union pending) \/ o \in pending \/ color[o] = "white"
                     \/ o \in Upval /\ at[o] # Closed /\ at[o][1] \in alloc \ (Open \union pending)
  BY Pointees, Kinds DEF IInv, Open, Shape, TypeOK
<1>6. Painted'
  BY <1>1, <1>5 DEF IInv, Painted
<1>7. Atomic' /\ ~Marking'
  BY <1>1 DEF Atomic, Marking, IInv, TypeOK
<1> QED BY <1>2, <1>3, <1>4, <1>6, <1>7 DEF IInv

(***************************************************************************)
(* The program: what it gets at is alive.                                  *)
(***************************************************************************)
Alive(x) == x \in Obj /\ x \in alloc /\ color[x] # "old"

\* Whatever an operation takes its arguments from is alive.
LEMMA AtHandFacts ==
  ASSUME IInv
  PROVE  /\ \A x \in Live(cur) : x \in Value /\ Alive(x)
         /\ \A x \in AtHand : x \in Value /\ Alive(x)
         /\ \A x \in Readable : x \in Value /\ Alive(x)
<1>1. \A x \in Live(cur) : x \in Value /\ Alive(x)
  <2>1. \A i \in 1..top[cur] : i \in Slot
    BY ConstantsOK DEF Slot, IInv, TypeOK
  <2>2. \A x \in Live(cur) : \E i \in Slot : x = slot[cur][i] /\ x # Nil
    BY <2>1 DEF Live
  <2> QED BY <2>2, Kinds DEF IInv, TypeOK, Survives, Alive
<1>2. \A o \in Obj : Alive(o) => \A x \in refs[o] : Alive(x)
  BY Kinds DEF IInv, TypeOK, Survives, Alive
<1>3. Registry \in Value /\ Alive(Registry) /\ \A x \in refs[Registry] : x \in Value
  BY Kinds DEF IInv, Survives, Alive, Shape
<1>4. \A x \in AtHand : x \in Value /\ Alive(x)
  BY <1>1, <1>2, <1>3, Kinds DEF AtHand
<1>5. \A v \in Upval : Alive(v) => \A x \in UvVal(v) : Alive(x)
  <2> TAKE v \in Upval
  <2>1. CASE at[v] = Closed  BY <1>2, <2>1, Kinds DEF UvVal
  <2>2. CASE at[v] # Closed
    <3>1. UvVal(v) = {Pointee(v)} \ {Nil}  BY <2>2 DEF UvVal, Pointee
    <3> QED BY <2>2, <3>1, Pointees, Kinds DEF Alive, IInv, Survives
  <2> QED BY <2>1, <2>2
<1>6. \A o \in Held : o \in Obj /\ o \notin Upval /\ (o \in Thread \/ Edges(o) = refs[o])
  BY <1>1, <1>3, Kinds DEF Held, Edges
<1>7. \A o \in Thread : Alive(o) => \A x \in Live(o) : Alive(x)
  <2>1. \A o \in Thread : \A i \in 1..top[o] : i \in Slot
    BY ConstantsOK DEF Slot, IInv, TypeOK
  <2>2. \A o \in Thread : \A x \in Live(o) : \E i \in Slot : x = slot[o][i] /\ x # Nil
    BY <2>1 DEF Live
  <2> QED BY <2>2, Kinds DEF IInv, TypeOK, Survives, Alive
<1>8. \A o \in Held : \A x \in Edges(o) : Alive(x)
  <2> SUFFICES ASSUME NEW o \in Held, NEW x \in Edges(o) PROVE Alive(x)
    OBVIOUS
  <2>1. Alive(o)  BY <1>1, <1>3 DEF Held
  <2>2. CASE o \in Thread
    BY <1>6, <1>7, <2>1, <2>2 DEF Edges
  <2>3. CASE o \notin Thread
    BY <1>2, <1>6, <2>1, <2>3
  <2> QED BY <2>2, <2>3
<1>9. \A x \in Readable : x \in Value /\ Alive(x)
  <2> DEFINE direct == Held \union UNION {Edges(o) : o \in Held}
  <2>1. \A x \in direct : Alive(x)  BY <1>1, <1>3, <1>8 DEF Held
  <2> HIDE DEF direct
  <2>2. Readable = (direct \union UNION {UvVal(v) : v \in direct \intersect Upval})
                     \ (Upval \union {Registry})
    BY DEF Readable, direct
  <2>3. \A x \in Readable : Alive(x) /\ x \notin Upval
    BY <1>5, <2>1, <2>2
  <2> QED BY <2>3, Kinds DEF Alive
<1> QED BY <1>1, <1>4, <1>9

\* A push changes one slot of the running thread.
LEMMA PushFacts ==
  ASSUME TypeOK, NEW o \in Value, Pushed(o)
  PROVE  /\ slot' \in [Thread -> [Slot -> Value \union {Nil}]]
         /\ top' \in [Thread -> 0..NSlots]
         /\ \A th \in Thread, i \in Slot :
              slot'[th][i] = slot[th][i] \/ (th = cur /\ slot'[th][i] = o)
<1>1. /\ cur \in Thread /\ top \in [Thread -> 0..NSlots] /\ NSlots \in Nat
      /\ slot \in [Thread -> [Slot -> Value \union {Nil}]]
      /\ arena.depth[cur] \in 0..NSlots
  BY ConstantsOK DEF TypeOK
<1>2. top[cur] + 1 \in Slot /\ top[cur] + 1 \in 0..NSlots
  BY <1>1 DEF Pushed, Slot
<1>3. /\ slot' = [slot EXCEPT ![cur] = [slot[cur] EXCEPT ![top[cur] + 1] = o]]
      /\ top' = [top EXCEPT ![cur] = top[cur] + 1]
  BY DEF Pushed
<1> QED BY <1>1, <1>2, <1>3

\* A push of an object that is alive, new, or a string that may have to be
\* resurrected.
LEMMA PushStep ==
  ASSUME IInv, Mutator, NEW o \in Value, Pushed(o),
         (o \in alloc /\ color[o] # "old") \/ o \in Str \/ (o \notin alloc /\ o \notin Func),
         alloc' = alloc \union {o},
         color' = IF color[o] = "old" THEN [color EXCEPT ![o] = "white"] ELSE color,
         UNCHANGED <<refs, at, cur, gray, again, weak, cycle>>, wide' = wide
  PROVE  IInv'
<1>1. UNCHANGED <<state, stage, unswept, pending, finalized, ran, full, arena>> /\ stage = 0
  BY DEF cycle, Mutator
<1>2. o \in Obj /\ Nil \notin Obj /\ o \notin Upval
  BY Kinds
<1>3. /\ slot' \in [Thread -> [Slot -> Value \union {Nil}]]
      /\ top' \in [Thread -> 0..NSlots]
      /\ \A th \in Thread, i \in Slot :
           slot'[th][i] = slot[th][i] \/ (th = cur /\ slot'[th][i] = o)
  BY PushFacts DEF IInv
<1>4. /\ color' \in [Obj -> Colors] /\ color'[o] # "old"
      /\ \A x \in Obj : color'[x] = color[x] \/ (x = o /\ o \in Str /\ color'[x] = "white" /\ color[x] = "old")
  BY <1>2 DEF IInv, TypeOK, Colors, Shape
<1>5. \A v \in Upval : at[v] # Closed =>
         /\ Pointee(v)' = Pointee(v) \/ Pointee(v)' = o
         /\ Pointee(v) \in Value \union {Nil}
  BY <1>3, Pointees DEF IInv, Pointee
<1>6. TypeOK'
  BY <1>1, <1>2, <1>3, <1>4 DEF IInv, TypeOK, Colors
<1>7. Shape'
  BY <1>1, <1>3, <1>4, Kinds DEF IInv, Shape, Survives, TypeOK
<1>8. Books'
  BY <1>1, <1>4, Kinds DEF IInv, Books
<1>9. Survives'
  BY <1>2, <1>3, <1>4, <1>5, Kinds DEF IInv, Survives, TypeOK, Shape
<1>10. Painted'
  BY <1>1, <1>4, Kinds DEF IInv, Painted, TypeOK
<1>11. Marking' => Tricolor'
  BY <1>1, <1>4, Kinds DEF IInv, Tricolor, Marking, Marks
<1>12. Atomic'
  BY <1>1 DEF Atomic
<1> QED BY <1>6, <1>7, <1>8, <1>9, <1>10, <1>11, <1>12 DEF IInv

\* The operations that push a value.
LEMMA LoadStep == ASSUME IInv, NEW o \in Value, Load(o) PROVE IInv'
<1>1. o \in alloc /\ color[o] # "old"
  BY AtHandFacts DEF Load, Alive
<1> QED BY <1>1, PushStep DEF Load, lists

LEMMA NewStep == ASSUME IInv, NEW o \in Value, New(o) PROVE IInv'
<1>1. o \notin alloc /\ o \notin Func /\ color[o] # "old"
  BY Kinds DEF New, IInv, Shape
<1> QED BY <1>1, PushStep DEF New, lists

LEMMA InternStep == ASSUME IInv, NEW s \in Str, Intern(s) PROVE IInv'
<1>1. s \in Value /\ alloc' = alloc \union {s}
  BY Kinds DEF Intern
<1> QED BY <1>1, PushStep DEF Intern, lists

LEMMA FrameStep == ASSUME IInv, Frame PROVE IInv'
<1>1. /\ UNCHANGED <<alloc, refs, slot, top, at, cur, color, gray, again, weak>>
      /\ UNCHANGED <<state, stage, unswept, pending, finalized, ran, full, arena>>
  BY DEF Frame, lists, cycle
<1>2. TypeOK'  BY <1>1 DEF Frame, IInv, TypeOK
<1>3. Shape' /\ Survives'  BY <1>1 DEF IInv, Shape, Survives, Pointee
<1>4. Books' /\ Painted'  BY <1>1 DEF IInv, Books, Painted
<1>5. Marking' => Tricolor'  BY <1>1 DEF IInv, Tricolor, Marking
<1>6. Atomic'  BY <1>1 DEF IInv, Atomic, Pointee
<1> QED BY <1>2, <1>3, <1>4, <1>5, <1>6 DEF IInv

\* A new closure f over the upvalue v of a slot of the running thread, which
\* is there already or is new.
LEMMA NewFuncStep == ASSUME IInv, NEW f \in Func, NEW i \in Slot, NewFunc(f, i) PROVE IInv'
<1>1. /\ UNCHANGED <<cur, gray, again, weak, wide>> /\ stage = 0
      /\ UNCHANGED <<state, stage, unswept, pending, finalized, ran, full, arena>>
      /\ f \in arena.objects /\ f \notin alloc /\ Pushed(f) /\ i \in 1..top[cur]
  BY DEF NewFunc, Mutator, lists, cycle
<1>2. /\ slot' \in [Thread -> [Slot -> Value \union {Nil}]]
      /\ top' \in [Thread -> 0..NSlots]
      /\ \A th \in Thread, j \in Slot :
           slot'[th][j] = slot[th][j] \/ (th = cur /\ slot'[th][j] = f)
  BY <1>1, PushFacts, Kinds DEF IInv
<1>3. PICK v \in Upval :
        /\ alloc' = alloc \union {f, v} /\ refs' = [refs EXCEPT ![f] = {v}]
        /\ \/ /\ v \in Open /\ at[v] = <<cur, i>> /\ at' = at
              /\ color' = IF color[v] = "old" THEN [color EXCEPT ![v] = "white"] ELSE color
           \/ /\ v \in arena.objects /\ v \notin alloc
              /\ at' = [at EXCEPT ![v] = <<cur, i>>] /\ color' = color
  BY DEF NewFunc, Open
<1>4. /\ f \in Obj /\ v \in Obj /\ f # v /\ f \in Value /\ Nil \notin Obj
      /\ color[f] = "white" /\ refs[f] = {} /\ refs[v] = {} /\ f \notin Upval
      /\ <<cur, i>> \in Thread \X Slot /\ Closed # <<cur, i>>
  BY <1>1, <1>3, Kinds, ConstantsOK DEF IInv, Shape, TypeOK, Open
<1>5. /\ color' \in [Obj -> Colors] /\ color'[v] # "old" /\ color'[f] = "white"
      /\ \A x \in Obj : color'[x] = color[x] \/ (x = v /\ color'[x] = "white" /\ color[x] = "old")
      /\ v \notin alloc => color'[v] = "white"
  BY <1>3, <1>4 DEF IInv, TypeOK, Colors, Shape
<1>6. /\ refs' \in [Obj -> SUBSET Obj]
      /\ refs'[f] = {v} /\ \A x \in Obj : x # f => refs'[x] = refs[x]
  BY <1>3, <1>4 DEF IInv, TypeOK
<1>7. /\ at' \in [Upval -> (Thread \X Slot) \union {Closed}]
      /\ at'[v] = <<cur, i>> /\ \A w \in Upval : w # v => at'[w] = at[w]
  BY <1>3, <1>4 DEF IInv, TypeOK, Open
<1>8. \A th \in Thread, j \in Slot :
         slot'[th][j] \in Obj => /\ slot'[th][j] = f \/ slot'[th][j] = slot[th][j]
                                 /\ slot'[th][j] # v
  BY <1>2, <1>3, Kinds DEF IInv, TypeOK
<1>9. TypeOK'
  BY <1>1, <1>2, <1>3, <1>4, <1>5, <1>6, <1>7 DEF IInv, TypeOK, Colors
<1>10. Shape'
  <2>1. \A o \in Obj : \A x \in refs'[o] :
          /\ o \in alloc'
          /\ o \in Tab \union Upval => x \in Value
          /\ o \in Func => x \in Upval
          /\ o \in Udata => x \in Tab
          /\ o \notin Str \union Thread
    BY <1>3, <1>4, <1>6, Kinds DEF IInv, Shape
  <2>2. \A o \in Obj \ alloc' : color'[o] = "white"
    BY <1>3, <1>5 DEF IInv, Shape
  <2>3. \A th \in Thread \ alloc' : \A j \in Slot : slot'[th][j] = Nil
    BY <1>2, <1>3 DEF IInv, Shape, Survives
  <2>4. \A w \in Upval : at'[w] # Closed => w \in alloc' /\ at'[w][1] \in alloc' /\ refs'[w] = {}
    BY <1>3, <1>4, <1>6, <1>7 DEF IInv, Shape, Survives
  <2>5. alloc' \intersect Func \subseteq arena'.objects
    BY <1>1, <1>3, Kinds DEF IInv, Shape
  <2> QED BY <2>1, <2>2, <2>3, <2>4, <2>5 DEF Shape
<1>11. Books'
  <2>1. \A o \in unswept : o # v
    BY <1>3 DEF IInv, Books, Open
  <2> QED BY <1>1, <1>3, <1>5, <1>7, <2>1, Kinds DEF IInv, Books
<1>12. \A x \in Obj : x \in alloc /\ color[x] # "old" => x \in alloc' /\ color'[x] # "old"
  BY <1>3, <1>5
<1>13. Survives'
  <2>1. \A o \in Obj : color'[o] # "old" => \A x \in refs'[o] : x \in alloc' /\ color'[x] # "old"
    <3> TAKE o \in Obj
    <3>1. CASE o = f  BY <1>3, <1>5, <1>6, <3>1
    <3>2. CASE o = v  BY <1>4, <1>6, <3>2
    <3>3. CASE o # f /\ o # v
      BY <1>5, <1>6, <1>12, <3>3 DEF IInv, Survives, TypeOK
    <3> QED BY <3>1, <3>2, <3>3
  <2>2. \A th \in Thread : color'[th] # "old" => \A j \in Slot :
          slot'[th][j] = Nil \/ (slot'[th][j] \in alloc' /\ color'[slot'[th][j]] # "old")
    <3> SUFFICES ASSUME NEW th \in Thread, color'[th] # "old", NEW j \in Slot, slot'[th][j] # Nil
                 PROVE  slot'[th][j] \in alloc' /\ color'[slot'[th][j]] # "old"
      OBVIOUS
    <3>1. color[th] # "old" /\ slot'[th][j] \in Obj
      BY <1>2, <1>5, Kinds DEF IInv, Shape
    <3>2. CASE slot'[th][j] = f  BY <1>3, <1>5, <3>2
    <3>3. CASE slot'[th][j] = slot[th][j]
      BY <1>12, <3>1, <3>3 DEF IInv, Survives
    <3> QED BY <1>2, <3>2, <3>3
  <2>3. \A w \in Upval : at'[w] # Closed /\ color'[w] # "old" =>
          Pointee(w)' = Nil \/ (Pointee(w)' \in alloc' /\ color'[Pointee(w)'] # "old")
    <3> SUFFICES ASSUME NEW w \in Upval, at'[w] # Closed, color'[w] # "old", Pointee(w)' # Nil
                 PROVE  Pointee(w)' \in alloc' /\ color'[Pointee(w)'] # "old"
      OBVIOUS
    <3>1. CASE w = v
      <4>1. Pointee(w)' = slot'[cur][i]  BY <1>1, <1>7, <3>1 DEF Pointee
      <4>2. color'[cur] # "old" /\ cur \in Thread
        BY <1>12, Kinds DEF IInv, Survives, TypeOK
      <4> QED BY <2>2, <4>1, <4>2
    <3>2. CASE w # v
      <4>1. at'[w] = at[w] /\ color[w] # "old" /\ at[w][1] \in Thread /\ at[w][2] \in Slot
        BY <1>5, <1>7, <3>2, Pointees, Kinds DEF IInv
      <4>2. Pointee(w)' = f \/ Pointee(w)' = Pointee(w)
        BY <1>2, <4>1 DEF Pointee
      <4>3. Pointee(w)' \in Obj
        BY <1>2, <4>1, Kinds DEF Pointee
      <4> QED BY <1>3, <1>5, <1>12, <4>1, <4>2, <4>3 DEF IInv, Survives
    <3> QED BY <3>1, <3>2
  <2>4. \A o \in {Main, Registry, cur} : o \in alloc' /\ color'[o] # "old"
    BY <1>12, Kinds DEF IInv, Survives, TypeOK
  <2> QED BY <1>1, <2>1, <2>2, <2>3, <2>4 DEF Survives
<1>14. Painted'
  BY <1>1, <1>3, <1>4, <1>5, <1>7, Kinds DEF IInv, Painted, TypeOK, Open, Shape
<1>15. Marking' => Tricolor'
  <2> SUFFICES ASSUME Marking PROVE Tricolor'
    BY <1>1 DEF Marking
  <2>1. Tricolor  BY DEF IInv
  <2>2. \A x \in Obj : color'[x] = color[x]
    BY <1>5, <2>1 DEF Tricolor
  <2>3. \A w \in Upval : at'[w] = Closed => at[w] = Closed
    BY <1>4, <1>7
  <2>4. \A o \in Obj \ pending : color'[o] = "black" => \A x \in refs'[o] : color'[x] \in Marks
    BY <1>4, <1>6, <2>1, <2>2 DEF Tricolor, IInv, TypeOK
  <2>5. \A w \in Upval : color'[w] \in Marks => \E g \in Func : color'[g] = "black" /\ w \in refs'[g]
    BY <1>4, <1>6, <2>1, <2>2, Kinds DEF Tricolor
  <2> QED BY <1>1, <2>1, <2>2, <2>3, <2>4, <2>5, Kinds DEF Tricolor
<1>16. Atomic'
  BY <1>1 DEF Atomic
<1> QED BY <1>9, <1>10, <1>11, <1>13, <1>14, <1>15, <1>16 DEF IInv

(***************************************************************************)
(* The forward barrier.  C are the colors after the step itself, which has *)
(* changed the color of at most the upvalue that it closed.                *)
(***************************************************************************)
BarrierOutcome(C, b, x) ==
  /\ color' \in [Obj -> Colors]
  /\ again' = again /\ weak' = weak
  /\ ~Marking => /\ gray' = gray
                 /\ \A y \in Obj : color'[y] = C[y] \/ (y = b /\ color'[y] = "white" /\ C[y] = "black")
  /\ Marking =>
       /\ C[b] = "black" /\ x # Nil => color'[x] \in Marks
       /\ gray' \subseteq Obj
       /\ \A y \in Obj : y \in gray' <=> y \in gray \/ (y \in Linked /\ color'[y] # C[y])
       /\ \A y \in Obj : color'[y] # C[y] =>
            /\ y \in alloc /\ y \notin Upval /\ y # b
            /\ C[y] = "white" /\ color'[y] \in Marks
            /\ color'[y] = "black" <=> y \in Udata
            /\ y \in Udata => \A z \in refs[y] : color'[z] \in Marks

\* lj_gc_barrierf and lj_gc_barrieruv have that outcome.
LEMMA BarrierFacts ==
  ASSUME IInv, NEW C \in [Obj -> Colors], NEW b \in Obj, NEW x \in Value \union {Nil},
         x = Nil \/ Alive(x), \A y \in Value : C[y] = color[y],
         Marking => \A y \in Obj : C[y] # "old",
         Barrier(C, b, x)
  PROVE  BarrierOutcome(C, b, x)
<1>1. again' = again /\ weak' = weak
  BY DEF Barrier
<1>2. CASE /\ C[b] = "black" /\ x # Nil /\ color[x] \in {"white", "old"} /\ Marking
  <2>1. color' = Mark(C, {x}) /\ gray' = gray \union Grayed(C, {x})
    BY <1>2 DEF Barrier
  <2>2. NothingDead  BY <1>2 DEF IInv, Tricolor, NothingDead
  <2>3. {x} \in SUBSET alloc  BY <1>2 DEF Alive
  <2>4. MarkOutcome(C, {x}, color', Grayed(C, {x}))
    BY <2>1, <2>2, <2>3, MarkFacts DEF IInv
  <2>5. x \notin Upval  BY <1>2, Kinds
  <2>6. \A y \in Obj : C[y] \in Unmarked => C[y] = "white"
    BY <1>2 DEF Unmarked
  <2>7. color' \in [Obj -> Colors] /\ color'[x] \in Marks
    BY <2>4 DEF MarkOutcome
  <2>8. /\ gray' \subseteq Obj
        /\ \A y \in Obj : y \in gray' <=> y \in gray \/ (y \in Linked /\ color'[y] # C[y])
    BY <2>1, <2>4 DEF MarkOutcome, IInv, TypeOK
  <2>9. \A y \in Obj : color'[y] # C[y] =>
          /\ y \in alloc /\ y \notin Upval /\ y # b
          /\ C[y] = "white" /\ color'[y] \in Marks
          /\ color'[y] = "black" <=> y \in Udata
          /\ y \in Udata => \A z \in refs[y] : color'[z] \in Marks
    <3> TAKE y \in Obj
    <3> HAVE color'[y] # C[y]
    <3>1. y \in alloc /\ C[y] \in Unmarked /\ color'[y] \in Marks /\ y \notin Upval
      BY <2>4, <2>5 DEF MarkOutcome
    <3>2. /\ color'[y] = "black" <=> y \in Udata
          /\ y \in Udata => \A z \in refs[y] : color'[z] \in Marks
      BY <2>4, <3>1 DEF MarkOutcome
    <3>3. C[y] = "white" /\ y # b  BY <1>2, <2>6, <3>1
    <3> QED BY <3>1, <3>2, <3>3
  <2> QED BY <1>1, <1>2, <2>7, <2>8, <2>9 DEF BarrierOutcome
<1>3. CASE /\ C[b] = "black" /\ x # Nil /\ color[x] \in {"white", "old"} /\ ~Marking
  <2>1. color' = MakeWhite(C, {b}) /\ gray' = gray
    BY <1>3 DEF Barrier
  <2> QED BY <1>1, <1>3, <2>1 DEF BarrierOutcome, MakeWhite, Colors
<1>4. CASE ~(C[b] = "black" /\ x # Nil /\ color[x] \in {"white", "old"})
  <2>1. color' = C /\ gray' = gray  BY <1>4 DEF Barrier
  <2>2. x # Nil /\ C[b] = "black" => color[x] \in Marks /\ C[x] = color[x]
    BY <1>4 DEF Alive, IInv, TypeOK, Marks
  <2> QED BY <1>1, <2>1, <2>2 DEF BarrierOutcome, IInv, TypeOK
<1> QED BY <1>2, <1>3, <1>4

\* A closed upvalue or a userdata w gets x as its only reference.  The upvalue
\* may be closed by the same step, and the barrier look at another object b.
LEMMA ReplaceStep ==
  ASSUME IInv, stage = 0, NEW w \in Upval \union Udata, NEW x \in Value \union {Nil},
         NEW C \in [Obj -> Colors], NEW b \in Obj,
         w \in alloc, x = Nil \/ Alive(x), w \in Udata => x \in Tab,
         refs' = [refs EXCEPT ![w] = {x} \ {Nil}],
         \/ C = color /\ at' = at /\ color[w] # "old" /\ (w \in Upval => at[w] = Closed)
         \/ /\ w \in Upval /\ at[w] # Closed /\ color[w] # "old"
            /\ at' = [at EXCEPT ![w] = Closed] /\ C = [color EXCEPT ![w] = ClosedColor(w)],
         Barrier(C, b, x), w = b \/ (w \in Upval /\ b \in Func),
         Marking /\ C[w] = "black" => C[b] = "black",
         top' \in [Thread -> 0..NSlots], UNCHANGED <<alloc, slot, wide, cur, cycle>>
  PROVE  IInv'
<1>1. UNCHANGED <<state, stage, unswept, pending, finalized, ran, full, arena>> /\ stage = 0
  BY DEF cycle
<1>2. w \in Obj /\ Nil \notin Obj /\ (w \notin Value \/ w \in Udata)
  BY Kinds
<1>3. /\ \A y \in Obj : y # w => C[y] = color[y]
      /\ \/ C[w] = color[w] /\ (w \in Upval => at[w] = Closed)
         \/ w \in Upval /\ at[w] # Closed /\ C[w] = ClosedColor(w) /\ color[w] # "black"
      /\ C[w] # "old" /\ color[w] # "old"
  BY Kinds DEF IInv, TypeOK, ClosedColor, Painted
<1>4. Marking => Tricolor /\ \A y \in Obj : C[y] # "old"
  BY <1>3 DEF IInv, Tricolor
<1>5. BarrierOutcome(C, b, x)
  <2>1. \A y \in Value : C[y] = color[y]
    BY Kinds
  <2> QED BY <1>4, <2>1, BarrierFacts
<1>6. /\ refs' \in [Obj -> SUBSET Obj] /\ refs'[w] = {x} \ {Nil}
      /\ \A y \in Obj : y # w => refs'[y] = refs[y]
  BY Kinds DEF IInv, TypeOK
<1>7. /\ at' \in [Upval -> (Thread \X Slot) \union {Closed}]
      /\ \A v \in Upval : at'[v] # Closed => at'[v] = at[v] /\ v # w
      /\ \A v \in Upval : v # w => at'[v] = at[v]
      /\ w \in Upval => at'[w] = Closed
  BY DEF IInv, TypeOK
<1>8. \A v \in Upval : at[v] # Closed => Pointee(v) \in Value \union {Nil}
  BY Pointees DEF IInv
<1>9. \A v \in Upval : at'[v] # Closed => Pointee(v)' = Pointee(v)
  BY <1>7 DEF Pointee
<1>10. \A y \in Obj : /\ color'[y] # "old" => color[y] # "old"
                      /\ color[y] # "old" => color'[y] # "old"
  BY <1>3, <1>4, <1>5 DEF BarrierOutcome, Marks
<1>11. TypeOK'
  BY <1>1, <1>5, <1>6, <1>7 DEF IInv, TypeOK, Colors, BarrierOutcome
<1>12. Shape'
  <2>1. \A o \in Obj : \A y \in refs'[o] :
          /\ o \in alloc
          /\ o \in Tab \union Upval => y \in Value
          /\ o \in Func => y \in Upval
          /\ o \in Udata => y \in Tab
          /\ o \notin Str \union Thread
    BY <1>6, Kinds DEF IInv, Shape
  <2>2. \A o \in Obj \ alloc : color'[o] = "white"
    BY <1>3, <1>4, <1>5 DEF IInv, Shape, BarrierOutcome
  <2>3. \A v \in Upval : at'[v] # Closed => v \in alloc /\ at'[v][1] \in alloc /\ refs'[v] = {}
    BY <1>6, <1>7, Kinds DEF IInv, Shape
  <2> QED BY <1>1, <2>1, <2>2, <2>3 DEF IInv, Shape
<1>13. Books'
  BY <1>1, <1>7, <1>10, Kinds DEF IInv, Books
<1>14. Survives'
  <2>1. \A o \in Obj : color'[o] # "old" => \A y \in refs'[o] : y \in alloc /\ color'[y] # "old"
    BY <1>6, <1>10 DEF IInv, Survives, Alive, TypeOK
  <2>2. \A th \in Thread : color'[th] # "old" => \A i \in Slot :
          slot[th][i] = Nil \/ (slot[th][i] \in alloc /\ color'[slot[th][i]] # "old")
    BY <1>10, Kinds DEF IInv, Survives, TypeOK
  <2>3. \A v \in Upval : at'[v] # Closed /\ color'[v] # "old" =>
          Pointee(v) = Nil \/ (Pointee(v) \in alloc /\ color'[Pointee(v)] # "old")
    BY <1>7, <1>8, <1>10, Kinds DEF IInv, Survives
  <2>4. \A o \in {Main, Registry, cur} : o \in alloc /\ color'[o] # "old"
    BY <1>10, Kinds DEF IInv, Survives, TypeOK
  <2> QED BY <1>9, <2>1, <2>2, <2>3, <2>4 DEF Survives
<1>15. Painted'
  <2>1. CASE Marking
    <3>1. \A y \in Obj : color'[y] = "black" => y \in Udata \/ C[y] = "black"
      BY <1>5, <2>1 DEF BarrierOutcome
    <3>2. \A y \in Obj : color'[y] = "black" => y \notin Weak \union Thread \union Str
      BY <1>3, <3>1, Kinds DEF IInv, Painted
    <3>3. \A v \in Upval : at'[v] # Closed => color'[v] # "black"
      BY <1>3, <1>7, <3>1, Kinds DEF IInv, Painted
    <3>4. \A u \in Udata : color'[u] # "gray"
      BY <1>3, <1>5, <2>1, Kinds DEF IInv, Painted, BarrierOutcome, Marks
    <3>5. \A u \in pending : color'[u] \in {"white", "black"}
      BY <1>5, <1>11, <1>10, <3>4, Kinds DEF IInv, Painted, TypeOK
    <3> QED BY <1>1, <2>1, <3>2, <3>3, <3>4, <3>5 DEF Painted, Marking
  <2>2. CASE ~Marking
    <3>1. \A y \in Obj : color'[y] = color[y] \/ color'[y] = "white"
      BY <1>3, <1>5, <2>2 DEF BarrierOutcome, ClosedColor
    <3>2. w \in Upval /\ at[w] # Closed => color'[w] = "white"
      BY <1>3, <1>5, <2>2, Kinds DEF BarrierOutcome, ClosedColor, IInv, Painted
    <3> QED BY <1>1, <1>7, <3>1, <3>2, Kinds DEF IInv, Painted, TypeOK
  <2> QED BY <2>1, <2>2
<1>16. Marking' => Tricolor'
  <2> SUFFICES ASSUME Marking PROVE Tricolor'
    BY <1>1 DEF Marking
  <2>1. Tricolor  BY DEF IInv
  <2>2. \A y \in Obj : /\ color'[y] # "old" /\ (color[y] \in Marks => color'[y] \in Marks)
                       /\ y \in Upval => color'[y] = C[y]
                       /\ C[y] \in Marks => color'[y] = C[y]
    BY <1>3, <1>4, <1>5 DEF BarrierOutcome, Marks, ClosedColor
  <2>3. w \in Upval => C[w] # "gray" /\ (C[w] \in Marks => color[w] \in Marks)
    BY <1>3, <2>1 DEF Tricolor, ClosedColor, Marks
  <2>4. \A v \in Upval : at'[v] = Closed => color'[v] # "gray"
    BY <1>3, <1>7, <2>1, <2>2, <2>3, Kinds DEF Tricolor
  <2>5. \A o \in Obj \ pending : color'[o] = "black" => \A y \in refs'[o] : color'[y] \in Marks
    <3> SUFFICES ASSUME NEW o \in Obj \ pending, color'[o] = "black", NEW y \in refs'[o]
                 PROVE  color'[y] \in Marks
      OBVIOUS
    <3>1. CASE o = w
      <4>1. color'[w] = C[w]
        BY <1>5, <2>2, Kinds DEF BarrierOutcome
      <4>2. y = x /\ x # Nil  BY <1>6, <3>1
      <4> QED BY <1>5, <3>1, <4>1, <4>2 DEF BarrierOutcome
    <3>2. CASE o # w /\ color'[o] # C[o]
      BY <1>5, <1>6, <3>2, Kinds DEF BarrierOutcome
    <3>3. CASE o # w /\ color'[o] = C[o]
      <4>1. color[o] = "black" /\ y \in refs[o] /\ y \in Obj
        BY <1>3, <1>6, <3>3
      <4> QED BY <2>1, <2>2, <4>1 DEF Tricolor
    <3> QED BY <3>1, <3>2, <3>3
  <2>6. \A o \in Obj : o \in gray' \/ o \in again \/ o \in weak <=> o \in Linked /\ color'[o] = "gray"
    <3> TAKE o \in Obj
    <3>1. o \in Linked => C[o] = color[o] /\ o \notin Udata
      BY <1>3, Kinds
    <3>2. o \in Linked /\ color'[o] # C[o] => color'[o] = "gray" /\ C[o] = "white"
      BY <1>5, <3>1 DEF BarrierOutcome, Marks
    <3>3. o \in gray' <=> o \in gray \/ (o \in Linked /\ color'[o] # C[o])
      BY <1>5 DEF BarrierOutcome
    <3> QED BY <2>1, <3>1, <3>2, <3>3 DEF Tricolor
  <2>7. /\ gray' \intersect again = {} /\ gray' \intersect weak = {}
    <3>1. \A o \in gray' : o \in gray \/ color[o] # "gray"
      BY <1>3, <1>5, Kinds DEF BarrierOutcome
    <3> QED BY <1>5, <2>1, <3>1 DEF Tricolor, BarrierOutcome
  <2>8. \A v \in Upval : color'[v] \in Marks => \E f \in Func : color'[f] = "black" /\ v \in refs'[f]
    <3> SUFFICES ASSUME NEW v \in Upval, color'[v] \in Marks
                 PROVE  \E f \in Func : color'[f] = "black" /\ v \in refs'[f]
      OBVIOUS
    <3>1. color[v] \in Marks  BY <1>3, <2>2, <2>3, Kinds
    <3>2. PICK f \in Func : color[f] = "black" /\ v \in refs[f]
      BY <2>1, <3>1 DEF Tricolor
    <3>3. f # w /\ f \in Obj /\ C[f] = "black"  BY <1>3, <3>2, Kinds
    <3> QED BY <1>6, <2>2, <3>2, <3>3 DEF Marks
  <2> QED BY <1>1, <1>5, <2>1, <2>2, <2>4, <2>5, <2>6, <2>7, <2>8, Kinds DEF Tricolor, BarrierOutcome
<1>17. Atomic'
  BY <1>1 DEF Atomic
<1> QED BY <1>11, <1>12, <1>13, <1>14, <1>15, <1>16, <1>17 DEF IInv

(***************************************************************************)
(* The operations that write to the heap.                                  *)
(***************************************************************************)
LEMMA PopStep == ASSUME IInv, Pop PROVE IInv'
<1>1. /\ UNCHANGED <<slot, wide, cur, cycle>> /\ stage = 0 /\ top[cur] > 0
      /\ top' = [top EXCEPT ![cur] = @ - 1]
  BY DEF Pop, Mutator
<1>2. UNCHANGED <<state, stage, unswept, pending, finalized, ran, full, arena>>
  BY <1>1 DEF cycle
<1>3. top' \in [Thread -> 0..NSlots] /\ top[cur] \in Slot
  BY <1>1, ConstantsOK DEF IInv, TypeOK, Slot
<1> DEFINE x == slot[cur][top[cur]]
<1>4. x \in Value \union {Nil} /\ (x = Nil \/ Alive(x))
  BY <1>3, Kinds DEF IInv, TypeOK, Survives, Alive
<1>5. CASE UNCHANGED <<alloc, refs, at, color, lists>>
  <2>1. UNCHANGED <<alloc, refs, at, color, gray, again, weak>>  BY <1>5 DEF lists
  <2>2. TypeOK'  BY <1>1, <1>2, <1>3, <2>1 DEF IInv, TypeOK
  <2>3. Shape' /\ Survives'  BY <1>1, <1>2, <2>1 DEF IInv, Shape, Survives, Pointee
  <2>4. Books' /\ Painted'  BY <1>1, <1>2, <2>1 DEF IInv, Books, Painted
  <2>5. Marking' => Tricolor'  BY <1>2, <2>1 DEF IInv, Tricolor, Marking
  <2>6. Atomic'  BY <1>1, <1>2 DEF Atomic
  <2> QED BY <2>2, <2>3, <2>4, <2>5, <2>6 DEF IInv
<1>6. CASE \E v \in Open : color[v] = "old" /\ CloseUv(v, x)
  <2>1. PICK v \in Open : color[v] = "old" /\ CloseUv(v, x)
    BY <1>6
  <2>2. /\ v \in Upval /\ v \in Obj /\ v \in alloc /\ at[v] # Closed /\ refs[v] = {} /\ Nil \notin Obj
        /\ ~Marking /\ v # Main /\ v # Registry /\ v # cur /\ v \notin pending
    BY <2>1, Kinds DEF Open, IInv, Shape, Tricolor, TypeOK
  <2>3. /\ alloc' = alloc \ {v} /\ refs' = refs
        /\ color' = [color EXCEPT ![v] = "white"]
        /\ at' = [at EXCEPT ![v] = Closed]
        /\ UNCHANGED <<gray, again, weak>>
    BY <2>1 DEF CloseUv, lists
  <2>4. /\ color' \in [Obj -> Colors]
        /\ \A o \in Obj : color'[o] = IF o = v THEN "white" ELSE color[o]
    BY <2>2, <2>3 DEF IInv, TypeOK, Colors
  <2>5. /\ at' \in [Upval -> (Thread \X Slot) \union {Closed}]
        /\ \A w \in Upval : at'[w] = IF w = v THEN Closed ELSE at[w]
    BY <2>2, <2>3 DEF IInv, TypeOK
  <2>6. \A w \in Upval : at'[w] # Closed => Pointee(w)' = Pointee(w) /\ Pointee(w) \in Value \union {Nil}
    BY <1>1, <2>5, Pointees DEF IInv, Pointee
  <2>7. \A o \in Obj : o \in alloc /\ color[o] # "old" => o \in alloc' /\ color'[o] # "old"
    BY <2>1, <2>3, <2>4
  <2>8. TypeOK'
    BY <1>1, <1>2, <1>3, <2>2, <2>3, <2>4, <2>5 DEF IInv, TypeOK, Colors
  <2>9. Shape'
    BY <1>1, <1>2, <2>2, <2>3, <2>4, <2>5, Kinds DEF IInv, Shape
  <2>10. Books'
    BY <1>2, <2>1, <2>2, <2>3, <2>4, <2>5, Kinds DEF IInv, Books
  <2>11. Survives'
    <3>1. \A o \in Obj : color'[o] # "old" => \A y \in refs[o] : y \in alloc' /\ color'[y] # "old"
      BY <2>2, <2>4, <2>7 DEF IInv, Survives, TypeOK
    <3>2. \A th \in Thread : color'[th] # "old" => \A i \in Slot :
            slot[th][i] = Nil \/ (slot[th][i] \in alloc' /\ color'[slot[th][i]] # "old")
      BY <2>2, <2>4, <2>7, Kinds DEF IInv, Survives, TypeOK
    <3>3. \A w \in Upval : at'[w] # Closed /\ color'[w] # "old" =>
            Pointee(w)' = Nil \/ (Pointee(w)' \in alloc' /\ color'[Pointee(w)'] # "old")
      BY <2>4, <2>5, <2>6, <2>7, Kinds DEF IInv, Survives
    <3>4. \A o \in {Main, Registry, cur} : o \in alloc' /\ color'[o] # "old"
      BY <2>7, Kinds DEF IInv, Survives, TypeOK
    <3> QED BY <1>1, <2>3, <3>1, <3>2, <3>3, <3>4 DEF Survives
  <2>12. Painted'
    BY <1>2, <2>2, <2>4, <2>5, Kinds DEF IInv, Painted, TypeOK
  <2>13. Atomic' /\ ~Marking'  BY <1>1, <1>2, <2>2 DEF Atomic, Marking
  <2> QED BY <2>8, <2>9, <2>10, <2>11, <2>12, <2>13 DEF IInv
<1>7. CASE \E v \in Open : color[v] # "old" /\ CloseUv(v, x)
  <2>1. PICK v \in Open : color[v] # "old" /\ CloseUv(v, x)
    BY <1>7
  <2> DEFINE C == [color EXCEPT ![v] = ClosedColor(v)]
  <2>2. v \in Upval /\ v \in Obj /\ v \in alloc /\ at[v] # Closed
    BY <2>1, Kinds DEF Open
  <2>3. C \in [Obj -> Colors]
    BY DEF ClosedColor, IInv, TypeOK, Colors
  <2>4. /\ alloc' = alloc /\ refs' = [refs EXCEPT ![v] = {x} \ {Nil}]
        /\ at' = [at EXCEPT ![v] = Closed] /\ Barrier(C, v, x)
    BY <2>1 DEF CloseUv
  <2>5. UNCHANGED <<alloc, slot, wide, cur, cycle>>
    BY <1>1, <2>4
  <2> HIDE DEF C, x
  <2>6. C = [color EXCEPT ![v] = ClosedColor(v)]  BY DEF C
  <2>7. v \notin Udata  BY <2>2, Kinds
  <2> QED BY <1>1, <1>3, <1>4, <2>1, <2>2, <2>3, <2>4, <2>5, <2>6, <2>7, ReplaceStep
<1> QED BY <1>5, <1>6, <1>7 DEF Pop

\* What the barrier of a table does, or its absence: a black table is gray, on
\* grayagain while marking.
LEMMA TableBarrier ==
  ASSUME IInv, NEW t \in Tab, t \in Obj, BarrierBack(t) \/ UNCHANGED <<color, lists>>
  PROVE  /\ color' \in [Obj -> Colors]
         /\ \A o \in Obj : color'[o] = IF o = t /\ color[t] = "black" /\ color'[t] # "black"
                                       THEN "gray" ELSE color[o]
         /\ again' = IF color[t] = "black" /\ color'[t] # "black" /\ Marking
                     THEN again \union {t} ELSE again
         /\ gray' = gray /\ weak' = weak
<1>1. color \in [Obj -> Colors]
  BY DEF IInv, TypeOK, Colors
<1>2. CASE BarrierBack(t)
  BY <1>1, <1>2 DEF BarrierBack, Colors
<1>3. CASE UNCHANGED <<color, lists>>
  BY <1>1, <1>3 DEF lists
<1> QED BY <1>2, <1>3

\* A table changes its fields: what it gains is alive, and marked if the table
\* stays black.
LEMMA FieldsStep ==
  ASSUME IInv, NEW t \in Tab, t \in Obj, t \notin Upval, t \notin pending, Alive(t),
         UNCHANGED <<alloc, slot, top, wide, at, cur>>, stage = 0,
         UNCHANGED <<state, stage, unswept, pending, finalized, ran, full, arena>>,
         BarrierBack(t) \/ UNCHANGED <<color, lists>>,
         refs' \in [Obj -> SUBSET Obj],
         \A o \in Obj : o # t => refs'[o] = refs[o],
         \A x \in refs'[t] \ refs[t] : /\ x \in Value /\ x \in Obj /\ Alive(x)
                                       /\ color'[t] = "black" => color[x] \in Marks \/ ~Marking
  PROVE  IInv'
<1>3. /\ color' \in [Obj -> Colors]
      /\ \A o \in Obj : color'[o] = IF o = t /\ color[t] = "black" /\ color'[t] # "black"
                                    THEN "gray" ELSE color[o]
      /\ again' = IF color[t] = "black" /\ color'[t] # "black" /\ Marking
                  THEN again \union {t} ELSE again
      /\ gray' = gray /\ weak' = weak
  BY TableBarrier
<1>5. \A v \in Upval : at[v] # Closed => Pointee(v)' = Pointee(v) /\ Pointee(v) \in Value \union {Nil}
  BY Pointees DEF IInv, Pointee
<1>6. TypeOK'
  BY <1>3 DEF IInv, TypeOK, Colors
<1>7. Shape'
  BY <1>3, Kinds DEF IInv, Shape, Alive
<1>8. Books'
  BY <1>3, Kinds DEF IInv, Books
<1>9. Survives'
  <2>1. \A o \in Obj : color'[o] # "old" <=> color[o] # "old"
    BY <1>3
  <2>2. \A o \in Obj : color'[o] # "old" => \A x \in refs'[o] : x \in alloc' /\ color'[x] # "old"
    <3> SUFFICES ASSUME NEW o \in Obj, color'[o] # "old", NEW x \in refs'[o]
                 PROVE  x \in alloc' /\ color'[x] # "old"
      OBVIOUS
    <3>1. x \in Obj
      OBVIOUS
    <3>2. CASE x \in refs[o]
      BY <2>1, <3>1, <3>2 DEF IInv, Survives
    <3>3. CASE x \notin refs[o]
      BY <2>1, <3>1, <3>3 DEF Alive
    <3> QED BY <3>2, <3>3
  <2>3. \A th \in Thread : color'[th] # "old" =>
          \A i \in Slot : slot'[th][i] = Nil \/ (slot'[th][i] \in alloc' /\ color'[slot'[th][i]] # "old")
    BY <2>1, Kinds DEF IInv, Survives, TypeOK
  <2>4. \A v \in Upval : at'[v] # Closed /\ color'[v] # "old" =>
          Pointee(v)' = Nil \/ (Pointee(v)' \in alloc' /\ color'[Pointee(v)'] # "old")
    BY <1>5, <2>1, Kinds DEF IInv, Survives
  <2>5. \A o \in {Main, Registry, cur'} : o \in alloc' /\ color'[o] # "old"
    BY <2>1, Kinds DEF IInv, Survives, TypeOK
  <2> QED BY <2>2, <2>3, <2>4, <2>5 DEF Survives
<1>10. Painted'
  BY <1>3, Kinds DEF IInv, Painted, TypeOK
<1>11. Marking' => Tricolor'
  <2> SUFFICES ASSUME Marking PROVE Tricolor'
    BY DEF Marking
  <2>1. Tricolor  BY DEF IInv
  <2>2. \A o \in Obj : color[o] \in Marks <=> color'[o] \in Marks
    BY <1>3 DEF Marks
  <2>3. \A o \in Obj \ pending : color'[o] = "black" => \A y \in refs'[o] : color'[y] \in Marks
    BY <1>3, <2>1, <2>2 DEF Tricolor, IInv, TypeOK
  <2>4. \A o \in Obj : o \in gray' \/ o \in again' \/ o \in weak' <=> o \in Linked /\ color'[o] = "gray"
    BY <1>3, <2>1, Kinds DEF Tricolor
  <2>5. \A v \in Upval : color'[v] \in Marks => \E f \in Func : color'[f] = "black" /\ v \in refs'[f]
    BY <1>3, <2>1, Kinds DEF Tricolor
  <2>6. /\ gray' \intersect again' = {} /\ gray' \intersect weak' = {} /\ again' \intersect weak' = {}
        /\ weak' \subseteq Weak /\ again' \subseteq Tab \union Thread
    BY <1>3, <2>1 DEF Tricolor
  <2> QED BY <1>3, <2>1, <2>2, <2>3, <2>4, <2>5, <2>6, Kinds DEF Tricolor
<1>12. Atomic'
  BY DEF Atomic
<1> QED BY <1>6, <1>7, <1>8, <1>9, <1>10, <1>11, <1>12 DEF IInv

LEMMA StoreStep == ASSUME IInv, NEW t \in Tab, NEW x \in Value, Store(t, x) PROVE IInv'
<1>1. /\ UNCHANGED <<alloc, slot, top, wide, at, cur>> /\ stage = 0
      /\ UNCHANGED <<state, stage, unswept, pending, finalized, ran, full, arena>>
      /\ refs' = [refs EXCEPT ![t] = @ \union {x}]
      /\ \/ BarrierBack(t)
         \/ Whites(color, {x}) = {} /\ UNCHANGED <<color, lists>>
  BY DEF Store, Mutator, cycle
<1>2. /\ t \in Obj /\ x \in Obj /\ t \notin Upval /\ t \notin pending
      /\ Alive(t) /\ Alive(x)
  BY AtHandFacts, Kinds DEF Store, IInv, TypeOK
<1>3. /\ refs' \in [Obj -> SUBSET Obj] /\ refs'[t] = refs[t] \union {x}
      /\ \A o \in Obj : o # t => refs'[o] = refs[o]
  BY <1>1, <1>2 DEF IInv, TypeOK
<1>4. color'[t] = "black" => color[x] \in Marks
  <2>1. color \in [Obj -> Colors]
    BY DEF IInv, TypeOK, Colors
  <2>2. CASE BarrierBack(t)
    BY <1>2, <2>1, <2>2 DEF BarrierBack
  <2>3. CASE Whites(color, {x}) = {}
    BY <1>2, <2>1, <2>3 DEF Whites, Colors, Marks
  <2> QED BY <1>1, <2>2, <2>3
<1> QED BY <1>1, <1>2, <1>3, <1>4, FieldsStep

LEMMA EraseStep == ASSUME IInv, NEW t \in Tab, NEW x \in Value, Erase(t, x) PROVE IInv'
<1>1. /\ UNCHANGED <<alloc, slot, top, wide, at, cur>> /\ stage = 0
      /\ UNCHANGED <<state, stage, unswept, pending, finalized, ran, full, arena>>
      /\ refs' = [refs EXCEPT ![t] = @ \ {x}]
      /\ BarrierBack(t) \/ UNCHANGED <<color, lists>>
  BY DEF Erase, Mutator, cycle
<1>2. t \in Obj /\ t \notin Upval /\ t \notin pending /\ Alive(t)
  BY AtHandFacts, Kinds DEF Erase, IInv, TypeOK
<1>3. /\ refs' \in [Obj -> SUBSET Obj] /\ refs'[t] \subseteq refs[t]
      /\ \A o \in Obj : o # t => refs'[o] = refs[o]
  BY <1>1, <1>2 DEF IInv, TypeOK
<1> QED BY <1>1, <1>2, <1>3, FieldsStep

LEMMA SetUpvalueStep == ASSUME IInv, NEW v \in Upval, NEW x \in Value, SetUpvalue(v, x) PROVE IInv'
<1>1. /\ UNCHANGED <<alloc, top, wide, at, cur, cycle>> /\ stage = 0
      /\ UNCHANGED <<state, stage, unswept, pending, finalized, ran, full, arena>>
  BY DEF SetUpvalue, Mutator, cycle
<1>2. v \in Obj /\ Alive(v) /\ x \in Obj /\ Alive(x) /\ v \notin Udata /\ x # Nil
  <2>1. PICK f \in Func \intersect AtHand : v \in refs[f]
    BY DEF SetUpvalue
  <2> QED BY <2>1, AtHandFacts, Kinds DEF SetUpvalue, Alive, IInv, Survives
<1>3. CASE /\ at[v] = Closed /\ refs' = [refs EXCEPT ![v] = {x}]
           /\ Barrier(color, v, x) /\ slot' = slot
  <2>1. color \in [Obj -> Colors]  BY DEF IInv, TypeOK, Colors
  <2>2. refs' = [refs EXCEPT ![v] = {x} \ {Nil}]  
    <3>1. {x} \ {Nil} = {x}  BY <1>2
    <3> QED BY <1>3, <3>1
  <2>3. top' \in [Thread -> 0..NSlots]  BY <1>1 DEF IInv, TypeOK
  <2> QED BY <1>1, <1>2, <1>3, <2>1, <2>2, <2>3, ReplaceStep DEF Alive
<1>4. CASE /\ at[v] # Closed /\ slot' = [slot EXCEPT ![at[v][1]][at[v][2]] = x]
           /\ UNCHANGED <<refs, color, lists>>
  <2>1. UNCHANGED <<alloc, refs, top, wide, at, cur, color, gray, again, weak>>
    BY <1>1, <1>4 DEF lists
  <2>2. at[v][1] \in Thread /\ at[v][2] \in Slot  BY <1>4, Pointees DEF IInv
  <2>3. /\ slot' \in [Thread -> [Slot -> Value \union {Nil}]]
        /\ \A th \in Thread, i \in Slot :
             slot'[th][i] = slot[th][i] \/ (slot'[th][i] = x /\ th = at[v][1])
    BY <1>4, <2>2 DEF IInv, TypeOK
  <2>4. \A w \in Upval : at[w] # Closed => Pointee(w)' = Pointee(w) \/ Pointee(w)' = x
    BY <2>1, <2>3, Pointees DEF IInv, Pointee
  <2>5. TypeOK'  BY <1>1, <2>1, <2>3 DEF IInv, TypeOK
  <2>6. Shape'
    BY <1>1, <1>4, <2>1, <2>3 DEF IInv, Shape
  <2>7. Books' /\ Painted'  BY <1>1, <2>1 DEF IInv, Books, Painted
  <2>8. Survives'
    BY <1>2, <2>1, <2>3, <2>4 DEF IInv, Survives, Alive
  <2>9. Marking' => Tricolor'  BY <1>1, <2>1 DEF IInv, Tricolor, Marking
  <2>10. Atomic'  BY <1>1 DEF Atomic
  <2> QED BY <2>5, <2>6, <2>7, <2>8, <2>9, <2>10 DEF IInv
<1> QED BY <1>3, <1>4 DEF SetUpvalue

\* lua_setupvalue keeps the invariant because the closure whose color its
\* barrier looks at is the only one that can have blackened the upvalue.
LEMMA SetUpvalueByApiStep ==
  ASSUME NothingShared, IInv, NEW f \in Func, NEW x \in Value, SetUpvalueByApi(f, x)
  PROVE  IInv'
<1>1. /\ UNCHANGED <<alloc, slot, top, wide, at, cur, cycle>> /\ stage = 0
      /\ "lua_setupvalue" \in arena.uses /\ Barrier(color, f, x)
  BY DEF SetUpvalueByApi, Mutator
<1>2. f \in Obj /\ Alive(f) /\ Alive(x) /\ x # Nil
  BY AtHandFacts, Kinds DEF SetUpvalueByApi
<1>3. PICK v \in refs[f] : at[v] = Closed /\ refs' = [refs EXCEPT ![v] = {x}]
  BY DEF SetUpvalueByApi
<1>4. v \in Upval /\ Alive(v) /\ v \notin Udata
  BY <1>2, <1>3, Kinds DEF IInv, Shape, Survives, Alive
<1>5. ASSUME Marking, color[v] = "black" PROVE color[f] = "black"
  <2>1. PICK g \in Func : color[g] = "black" /\ v \in refs[g]
    BY <1>4, <1>5 DEF IInv, Tricolor, Marks
  <2>2. g \in alloc /\ f \in alloc  BY <1>2, <2>1, Kinds DEF IInv, Shape, Alive
  <2>3. f \in arena.objects \intersect Func /\ g \in arena.objects \intersect Func
    BY <2>2 DEF IInv, Shape
  <2>4. f = g  BY <1>1, <2>3 DEF NothingShared, IInv, TypeOK
  <2> QED BY <2>1, <2>4
<1>6. color \in [Obj -> Colors] /\ top' \in [Thread -> 0..NSlots]
  BY <1>1 DEF IInv, TypeOK, Colors
<1>7. refs' = [refs EXCEPT ![v] = {x} \ {Nil}]
  <2>1. {x} \ {Nil} = {x}  BY <1>2
  <2> QED BY <1>3, <2>1
<1> QED BY <1>1, <1>2, <1>3, <1>4, <1>5, <1>6, <1>7, ReplaceStep DEF Alive

LEMMA SetEnvStep == ASSUME IInv, NEW u \in Udata, NEW t \in Tab, SetEnv(u, t) PROVE IInv'
<1>1. /\ UNCHANGED <<alloc, slot, top, wide, at, cur, cycle>> /\ stage = 0
      /\ Barrier(color, u, t) /\ refs' = [refs EXCEPT ![u] = {t}]
  BY DEF SetEnv, Mutator
<1>2. /\ u \in Obj /\ Alive(u) /\ Alive(t) /\ t # Nil /\ t \in Value /\ u \notin Upval
  BY AtHandFacts, Kinds DEF SetEnv, Held, AtHand
<1>3. color \in [Obj -> Colors] /\ top' \in [Thread -> 0..NSlots]
  BY <1>1 DEF IInv, TypeOK, Colors
<1>4. refs' = [refs EXCEPT ![u] = {t} \ {Nil}]
  <2>1. {t} \ {Nil} = {t}  BY <1>2
  <2> QED BY <1>1, <2>1
<1> QED BY <1>1, <1>2, <1>3, <1>4, ReplaceStep DEF Alive

LEMMA SwitchStep == ASSUME IInv, NEW th \in Thread, Switch(th) PROVE IInv'
<1>1. /\ UNCHANGED <<alloc, refs, slot, wide, at, color, gray, again, weak>> /\ stage = 0
      /\ UNCHANGED <<state, stage, unswept, pending, finalized, ran, full, arena>>
      /\ cur' = th
  BY DEF Switch, Mutator, lists, cycle
<1>2. Alive(th) /\ th \in Thread
  BY AtHandFacts, Kinds DEF Switch, IInv, Survives, Alive
<1>3. top' \in [Thread -> 0..NSlots]
  <2>1. CASE th \in Live(cur) /\ top' \in {top, [top EXCEPT ![cur] = @ - 1]}
    <3>1. top[cur] > 0
      BY <2>1 DEF Live, IInv, TypeOK
    <3> QED BY <2>1, <3>1, ConstantsOK DEF IInv, TypeOK
  <2>2. CASE top' = top  BY <2>2 DEF IInv, TypeOK
  <2> QED BY <2>1, <2>2 DEF Switch
<1>4. TypeOK'  BY <1>1, <1>2, <1>3 DEF IInv, TypeOK
<1>5. Shape'  BY <1>1 DEF IInv, Shape
<1>6. Survives'  BY <1>1, <1>2 DEF IInv, Survives, Pointee, Alive
<1>7. Books' /\ Painted'  BY <1>1 DEF IInv, Books, Painted
<1>8. Marking' => Tricolor'  BY <1>1 DEF IInv, Tricolor, Marking
<1>9. Atomic'  BY <1>1 DEF Atomic
<1> QED BY <1>4, <1>5, <1>6, <1>7, <1>8, <1>9 DEF IInv

(***************************************************************************)
(* The invariant is inductive.                                             *)
(***************************************************************************)
LEMMA Initial == Init => IInv
<1> SUFFICES ASSUME Init PROVE IInv
  OBVIOUS
<1>1. TypeOK  BY Kinds, ConstantsOK DEF Init, TypeOK
<1>2. Shape /\ Books /\ Painted  BY Kinds DEF Init, Shape, Books, Painted
<1>3. Survives  BY Kinds DEF Init, Survives
<1>4. ~Marking /\ Atomic  BY DEF Init, Marking, Atomic
<1> QED BY <1>1, <1>2, <1>3, <1>4 DEF IInv

LEMMA StutterStep == IInv /\ UNCHANGED vars => IInv'
<1> SUFFICES ASSUME IInv, UNCHANGED vars PROVE IInv'
  OBVIOUS
<1>1. /\ UNCHANGED <<alloc, color, refs, slot, top, wide, at, cur, gray, again, weak>>
      /\ UNCHANGED <<state, stage, unswept, pending, finalized, ran, full, arena>>
  BY DEF vars, heap, lists, cycle
<1>2. TypeOK'  BY <1>1 DEF IInv, TypeOK
<1>3. Shape' /\ Survives'  BY <1>1 DEF IInv, Shape, Survives, Pointee
<1>4. Books' /\ Painted'  BY <1>1 DEF IInv, Books, Painted
<1>5. Marking' => Tricolor'  BY <1>1 DEF IInv, Tricolor, Marking
<1>6. Atomic'  BY <1>1 DEF IInv, Atomic, Pointee
<1> QED BY <1>2, <1>3, <1>4, <1>5, <1>6 DEF IInv

LEMMA GcStepKeeps == ASSUME IInv, GcStep PROVE IInv'
<1>1. CASE MarkStart  BY <1>1, MarkStartStep
<1>2. CASE Propagate  BY <1>2, TraverseStep DEF Propagate
<1>3. CASE EnterAtomic  BY <1>3, EnterAtomicStep
<1>4. CASE AtomicOpenUpvalues  BY <1>4, AtomicOpenUpvaluesStep
<1>5. CASE AtomicRoots  BY <1>5, AtomicRootsStep
<1>6. CASE AtomicAgain  BY <1>6, AtomicAgainStep
<1>7. CASE AtomicSeparate  BY <1>7, AtomicSeparateStep
<1>8. CASE AtomicClear  BY <1>8, AtomicClearStep
<1>9. CASE SweepString  BY <1>9, SweepStringStep
<1>10. CASE Sweep  BY <1>10, SweepStep
<1>11. CASE \E u \in Udata, keep, fails \in BOOLEAN : Finalize(u, keep, fails)
  BY <1>11, FinalizeStep
<1>12. CASE EndCycle  BY <1>12, EndCycleStep
<1> QED BY <1>1, <1>2, <1>3, <1>4, <1>5, <1>6, <1>7, <1>8, <1>9, <1>10, <1>11, <1>12 DEF GcStep

LEMMA MutatorStepKeeps == ASSUME NothingShared, IInv, MutatorStep PROVE IInv'
<1>1. CASE Frame  BY <1>1, FrameStep
<1>2. CASE Pop  BY <1>2, PopStep
<1>3. ASSUME NEW o \in Value, Load(o) \/ New(o) PROVE IInv'
  BY <1>3, LoadStep, NewStep
<1>4. ASSUME NEW s \in Str, Intern(s) PROVE IInv'
  BY <1>4, InternStep
<1>5. ASSUME NEW f \in Func, NEW i \in Slot, NewFunc(f, i) PROVE IInv'
  BY <1>5, NewFuncStep
<1>6. ASSUME NEW t \in Tab, NEW x \in Value, Store(t, x) \/ Erase(t, x) PROVE IInv'
  BY <1>6, StoreStep, EraseStep
<1>7. ASSUME NEW v \in Upval, NEW x \in Value, SetUpvalue(v, x) PROVE IInv'
  BY <1>7, SetUpvalueStep
<1>8. ASSUME NEW f \in Func, NEW x \in Value, SetUpvalueByApi(f, x) PROVE IInv'
  BY <1>8, SetUpvalueByApiStep
<1>9. ASSUME NEW u \in Udata, NEW t \in Tab, SetEnv(u, t) PROVE IInv'
  BY <1>9, SetEnvStep
<1>10. ASSUME NEW th \in Thread, Switch(th) PROVE IInv'
  BY <1>10, SwitchStep
<1> QED
  BY <1>1, <1>2, <1>3, <1>4, <1>5, <1>6, <1>7, <1>8, <1>9, <1>10 DEF MutatorStep

LEMMA Inductive == ASSUME NothingShared, IInv, [Next]_vars PROVE IInv'
BY GcStepKeeps, FullGcStep, MutatorStepKeeps, StutterStep DEF Next

\* The inductive invariant holds all the time.
THEOREM Invariance == ASSUME NothingShared PROVE Spec => []IInv
<1>1. IInv /\ [Next]_vars => IInv'
  BY Inductive
<1> QED BY <1>1, Initial, PTL DEF Spec

(***************************************************************************)
(* What it says.                                                           *)
(***************************************************************************)

\* Every variable has its type; an object has one of the four colors.
THEOREM TypeCorrect == NothingShared => (Spec => []TypeOK)
<1>1. IInv => TypeOK
  BY DEF IInv
<1> SUFFICES ASSUME NothingShared PROVE Spec => []TypeOK
  OBVIOUS
<1> QED BY <1>1, Invariance, PTL

\* The objects that are not dead are closed under what the program follows.
LEMMA SurvivesReachable == IInv => ReachableSurvives
<1> SUFFICES ASSUME IInv PROVE ReachableSurvives
  OBVIOUS
<1> DEFINE S == {o \in alloc : color[o] # "old"}
<1>1. \A o \in S : o \in Obj /\ Alive(o)
  BY DEF IInv, TypeOK, Alive
<1>2. \A x : Alive(x) => x \in S
  BY DEF Alive
<1>3. Roots \subseteq S
  BY DEF Roots, IInv, Survives
<1>4. \A th \in Thread \intersect S : \A i \in Slot : slot[th][i] \in S \union {Nil}
  BY DEF IInv, Survives
<1>5. \A o \in S : Edges(o) \subseteq S
  <2> SUFFICES ASSUME NEW o \in S, NEW x \in Edges(o) PROVE x \in S
    OBVIOUS
  <2>1. CASE o \in Thread
    <3>1. Edges(o) = {slot[o][i] : i \in 1..top[o]} \ {Nil}
      BY <1>1, <2>1, Kinds DEF Edges, Live
    <3>2. \A i \in 1..top[o] : i \in Slot
      BY <2>1, ConstantsOK DEF Slot, IInv, TypeOK
    <3> QED BY <1>4, <2>1, <3>1, <3>2
  <2>2. CASE o \in Upval /\ at[o] # Closed
    <3>1. Edges(o) = {Pointee(o)} \ {Nil}
      BY <1>1, <2>2, Kinds DEF Edges, UvVal, Pointee
    <3> QED BY <2>2, <3>1 DEF IInv, Survives
  <2>3. CASE o \notin Thread /\ (o \in Upval => at[o] = Closed)
    <3>1. Edges(o) = refs[o]
      BY <1>1, <2>3, Kinds DEF Edges, UvVal
    <3> QED BY <1>1, <3>1 DEF IInv, Survives
  <2> QED BY <2>1, <2>2, <2>3
<1> QED BY <1>3, <1>4, <1>5 DEF ReachableSurvives

\* Nothing the program can get at is freed or about to be freed.
THEOREM NothingReachableDies == NothingShared => (Spec => []ReachableSurvives)
<1> SUFFICES ASSUME NothingShared PROVE Spec => []ReachableSurvives
  OBVIOUS
<1> QED BY SurvivesReachable, Invariance, PTL

\* While marking no black object refers to a white one.
THEOREM TricolorInvariant == NothingShared => (Spec => []NoBlackToWhite)
<1>1. IInv => NoBlackToWhite
  <2> SUFFICES ASSUME IInv, Marking, NEW o \in alloc \ pending, color[o] = "black",
                      NEW x \in Strong(o)
               PROVE  color[x] \in {"gray", "black"}
    BY DEF NoBlackToWhite
  <2>1. o \in Obj /\ o \notin Weak /\ o \notin Thread /\ (o \in Upval => at[o] = Closed)
    BY DEF IInv, TypeOK, Painted
  <2>2. Strong(o) = refs[o]
    BY <2>1, Kinds DEF Strong, Edges, UvVal
  <2> QED BY <2>1, <2>2 DEF IInv, Tricolor, Marks
<1> SUFFICES ASSUME NothingShared PROVE Spec => []NoBlackToWhite
  OBVIOUS
<1> QED BY <1>1, Invariance, PTL

\* While marking the three lists have the gray objects, each of them once.
THEOREM GrayListed == NothingShared => (Spec => []GrayOnOneList)
<1>1. IInv => GrayOnOneList
  BY Kinds DEF IInv, GrayOnOneList, Tricolor, Shape, TypeOK
<1> SUFFICES ASSUME NothingShared PROVE Spec => []GrayOnOneList
  OBVIOUS
<1> QED BY <1>1, Invariance, PTL

\* Open upvalues are never black, and closed ones never gray while marking.
THEOREM UpvaluesColored == NothingShared => (Spec => []UpvalueColors)
<1>1. IInv => UpvalueColors
  BY DEF IInv, UpvalueColors, Painted, Tricolor, Open
<1> SUFFICES ASSUME NothingShared PROVE Spec => []UpvalueColors
  OBVIOUS
<1> QED BY <1>1, Invariance, PTL

\* A cycle starts with white objects only, but for the userdata that wait for
\* their finalizer.
THEOREM RestartsClean == NothingShared => (Spec => []CleanRestart)
<1>1. IInv => CleanRestart
  BY DEF IInv, CleanRestart, Painted, TypeOK
<1> SUFFICES ASSUME NothingShared PROVE Spec => []CleanRestart
  OBVIOUS
<1> QED BY <1>1, Invariance, PTL

\* What a step frees is dead, and userdata are freed only by the sweep.
LEMMA FreesOnlyDead ==
  ASSUME IInv, [Next]_vars
  PROVE  \A x \in Udata : x \in alloc /\ x \notin alloc' => x \in ran
<1> SUFFICES ASSUME NEW x \in Udata, x \in alloc, x \notin alloc' PROVE x \in ran
  OBVIOUS
<1>1. ASSUME NEW o \in Obj, SweepOne(o) PROVE color[x] = "old"
  BY <1>1 DEF SweepOne, Free
<1>2. CASE SweepString \/ Sweep
  BY <1>1, <1>2 DEF SweepString, Sweep, IInv, Books, TypeOK
<1>3. CASE Pop
  <2>1. \A v \in Open : v # x  BY Kinds DEF Open
  <2> QED BY <1>3, <2>1 DEF Pop, CloseUv
<1>4. CASE GcStep /\ ~SweepString /\ ~Sweep
  BY <1>4 DEF GcStep, MarkStart, Propagate, Traverse, EnterAtomic, AtomicOpenUpvalues, AtomicRoots,
     AtomicAgain, AtomicSeparate, AtomicClear, Finalize, EndCycle, heap
<1>5. CASE FullGc \/ UNCHANGED vars
  BY <1>5 DEF FullGc, vars, heap
<1>6. CASE MutatorStep /\ ~Pop
  BY <1>6 DEF MutatorStep, Frame, Load, New, Intern, NewFunc, Store, Erase, SetUpvalue,
     SetUpvalueByApi, SetEnv, Switch
<1> QED BY <1>2, <1>3, <1>4, <1>5, <1>6 DEF Next

\* A userdata has its finalizer called exactly once before it is freed.
THEOREM FinalizersRunOnce == NothingShared => (Spec => FinalizedOnce)
<1>1. ASSUME IInv, IInv', [Next]_vars
      PROVE  [\A x \in Udata : /\ x \in pending' => x \notin ran'
                               /\ x \in alloc \ alloc' => x \in ran]_vars
  BY <1>1, FreesOnlyDead DEF IInv, Books
<1> SUFFICES ASSUME NothingShared PROVE Spec => FinalizedOnce
  OBVIOUS
<1> QED BY <1>1, Invariance, PTL DEF Spec, FinalizedOnce

\* When the collector separates a white userdata, the marked objects hold the
\* roots and, but for what waits for its finalizer, all they refer to.
LEMMA SeparatesGarbage ==
  ASSUME IInv, AtomicSeparate, NEW x \in pending' \ pending
  PROVE  \E S \in SUBSET (alloc \ {x}) :
           Roots \subseteq S /\ \A o \in S \ pending : Strong(o) \subseteq S
<1> DEFINE S == {o \in alloc : color[o] \in Marks}
<1>1. Tricolor /\ stage = 3 /\ gray = {}
  BY DEF AtomicSeparate, IInv, Books, Marking
<1>2. x \in Separated /\ x \notin S
  BY DEF AtomicSeparate, Separated, Marks
<1>3. \A o \in Obj : color[o] \in Marks => o \in S
  BY DEF IInv, Shape, Marks
<1>4. Roots \subseteq S
  BY <1>1, <1>3, Kinds DEF Roots, Tricolor, IInv, Atomic, TypeOK
<1>5. \A o \in S \ pending : Strong(o) \subseteq S
  <2> SUFFICES ASSUME NEW o \in S \ pending, NEW y \in Strong(o) PROVE y \in S
    OBVIOUS
  <2>1. o \in Obj /\ o \in alloc /\ color[o] \in Marks
    BY DEF IInv, TypeOK
  <2>2. o \notin Weak
    BY <2>1, Kinds DEF Strong
  <2>3. CASE o \in Thread
    <3>1. Strong(o) = {slot[o][i] : i \in 1..Limit(o)} \ {Nil}
      BY <2>1, <2>3, Kinds DEF Strong
    <3>2. \A i \in 1..Limit(o) : i \in Slot
      BY <2>3, ConstantsOK DEF Limit, Slot, IInv, TypeOK
    <3>3. o \in again
      BY <1>1, <2>1, <2>3, Kinds DEF IInv, Painted, Tricolor, Marks
    <3>4. PICK i \in Slot : y = slot[o][i] /\ y # Nil
      BY <3>1, <3>2
    <3>5. y \in Obj
      BY <2>3, <3>4, Kinds DEF IInv, TypeOK
    <3> QED BY <1>1, <1>3, <3>3, <3>4, <3>5 DEF IInv, Atomic
  <2>4. CASE o \in Upval /\ at[o] # Closed
    <3>1. Strong(o) = {Pointee(o)} \ {Nil}
      BY <2>1, <2>2, <2>4, Kinds DEF Strong, Edges, UvVal, Pointee
    <3>2. color[o] = "gray"  BY <2>1, <2>4 DEF IInv, Painted, Marks
    <3>3. y \in Obj  BY <2>4, <3>1, Pointees, Kinds DEF IInv
    <3> QED BY <1>1, <1>3, <2>4, <3>1, <3>2, <3>3 DEF IInv, Atomic
  <2>5. CASE o \notin Thread /\ (o \in Upval => at[o] = Closed)
    <3>1. Strong(o) = refs[o]
      BY <2>1, <2>2, <2>5, Kinds DEF Strong, Edges, UvVal
    <3>2. o \notin Str  BY <2>1, <3>1 DEF IInv, Shape
    <3>3. color[o] = "black"
      <4>1. CASE o \in Tab \union Func
        <5>1. o \in Linked /\ o \notin again /\ o \notin weak
          BY <1>1, <2>1, <2>2, <4>1, Kinds DEF IInv, Atomic, Tricolor
        <5> QED BY <1>1, <2>1, <5>1 DEF Tricolor, Marks
      <4>2. CASE o \in Upval  BY <1>1, <2>1, <2>5, <4>2 DEF Tricolor, Marks
      <4>3. CASE o \in Udata  BY <2>1, <4>3 DEF IInv, Painted, Marks
      <4> QED BY <2>1, <2>5, <3>2, <4>1, <4>2, <4>3 DEF Obj
    <3>4. y \in Obj  BY <2>1, <3>1 DEF IInv, TypeOK
    <3> QED BY <1>1, <1>3, <2>1, <3>1, <3>3, <3>4 DEF Tricolor
  <2> QED BY <2>3, <2>4, <2>5
<1> QED BY <1>2, <1>4, <1>5

\* What is queued for its finalizer is garbage at that moment.
THEOREM FinalizesOnlyGarbage == NothingShared => (Spec => FinalizesGarbage)
<1>1. ASSUME IInv, [Next]_vars, NEW x \in pending' \ pending
      PROVE  AtomicSeparate
  <2>1. CASE GcStep /\ ~AtomicSeparate
    BY <1>1, <2>1 DEF GcStep, MarkStart, Propagate, Traverse, EnterAtomic, AtomicOpenUpvalues,
       AtomicRoots, AtomicAgain, AtomicClear, SweepString, Sweep, Finalize, EndCycle
  <2>2. CASE FullGc \/ UNCHANGED vars
    BY <1>1, <2>2 DEF FullGc, vars, cycle
  <2>3. CASE MutatorStep
    BY <1>1, <2>3 DEF MutatorStep, Frame, Pop, Load, New, Intern, NewFunc, Store, Erase, SetUpvalue,
       SetUpvalueByApi, SetEnv, Switch, cycle
  <2> QED BY <1>1, <2>1, <2>2, <2>3 DEF Next
<1>2. ASSUME IInv, [Next]_vars
      PROVE  [\A x \in pending' \ pending :
                \E S \in SUBSET (alloc \ {x}) :
                  Roots \subseteq S /\ \A o \in S \ pending : Strong(o) \subseteq S]_vars
  BY <1>1, <1>2, SeparatesGarbage
<1> SUFFICES ASSUME NothingShared PROVE Spec => FinalizesGarbage
  OBVIOUS
<1> QED BY <1>2, Invariance, PTL DEF Spec, FinalizesGarbage
=============================================================================
