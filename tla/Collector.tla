------------------------------ MODULE Collector ------------------------------
(***************************************************************************)
(* The incremental garbage collector of the Lua runtime, src/luajit/lj_gc.c *)
(* with the write barriers of lj_gc.h and the upvalue, string and thread   *)
(* code that shares its colors, running against the Lua program (the       *)
(* mutator).  A cycle is                                                   *)
(*   pause -> propagate -> atomic -> sweepstring -> sweep -> finalize.     *)
(*                                                                         *)
(* Abstractions.  Colors are kept relative to g->gc.currentwhite: "white"  *)
(* is the current white, "old" the other one, so a dead object is an old   *)
(* one and the flip swaps the two.  The linked lists are sets, since no    *)
(* property depends on their order.  gray and grayagain share the gclist   *)
(* link of an object; outside the mark phase nothing reads grayagain       *)
(* before gc_mark_start empties it, so it is not kept there.  One step of  *)
(* the collector is one gc_onestep that sweeps one object (GCSWEEPMAX is   *)
(* 40), and the program may run between any two: a finer interleaving      *)
(* than the debt accounting of lj_gc_step allows.  Traces, prototypes and  *)
(* cdata are left out, as are memory errors.                               *)
(***************************************************************************)
EXTENDS FiniteSets, Naturals

CONSTANTS
  Tab,            \* tables, the weak ones among them, and the root table
  WeakVal,        \* tables with __mode "v": their contents are weak values
  WeakKey,        \* tables with __mode "k": their contents are weak keys
  Func,           \* Lua closures with one upvalue
  Upval,          \* upvalues
  Udata,          \* userdata with a __gc metamethod
  Str,            \* interned strings
  Thread,         \* threads, the main thread among them
  Registry,       \* the root table: registry, globals and basic metatables
  Main,           \* the main thread, which is never freed
  NSlots,         \* bound: stack slots of a thread
  Arenas,         \* bound: the objects one behaviour may create, the stack
                  \* slots it may use, which of the operations in Rare it
                  \* calls, and the object that GarbageGoes watches
  Nil, Closed

Obj    == Tab \union Func \union Upval \union Udata \union Str \union Thread
Value  == Obj \ Upval             \* what a slot or a table can hold
Weak   == WeakVal \union WeakKey
Linked == Tab \union Func \union Thread    \* objects with a gclist link
Slot   == 1..NSlots
Rare   == {"lj_gc_fullgc", "lua_setupvalue", "frames"}

ASSUME ConstantsOK ==
  /\ NSlots \in Nat \ {0}
  /\ Weak \subseteq Tab /\ WeakVal \intersect WeakKey = {}
  /\ Registry \in Tab \ Weak /\ Main \in Thread
  /\ Arenas \subseteq [objects : SUBSET Obj, depth : [Thread -> 0..NSlots],
                       uses : SUBSET Rare, watched : Obj]
  /\ Nil \notin Obj /\ Closed \notin (Thread \X Slot)
  /\ Tab \intersect (Func \union Upval \union Udata \union Str \union Thread) = {}
  /\ Func \intersect (Upval \union Udata \union Str \union Thread) = {}
  /\ Upval \intersect (Udata \union Str \union Thread) = {}
  /\ Udata \intersect (Str \union Thread) = {} /\ Str \intersect Thread = {}

VARIABLES
  alloc,     \* objects that exist
  color,     \* gch.marked: white, old, gray or black
  refs,      \* contents of tables, upvalue of closures, value of closed
             \* upvalues, environment of userdata
  slot, top, \* stacks; slots above top keep what was last written there
  wide,      \* threads whose frame covers every slot, written or not
  at,        \* where an open upvalue points, or Closed
  cur,       \* the running thread L
  state,     \* g->gc.state
  stage,     \* how far atomic() has come, 0 before it starts
  gray, again, weak,   \* g->gc.gray, grayagain and weak
  unswept,   \* what the sweep has still to visit
  pending,   \* g->gc.mmudata
  finalized, \* LJ_GC_FINALIZED
  ran,       \* userdata whose __gc has been called, for the properties
  full,      \* progress of lj_gc_fullgc: no, finish (the sweep) or cycle
  arena

heap == <<alloc, refs, slot, top, wide, at, cur>>
lists == <<gray, again, weak>>
cycle == <<state, stage, unswept, pending, finalized, ran, full, arena>>
vars == <<heap, color, lists, cycle>>

(***************************************************************************)
(* Reading the heap                                                        *)
(***************************************************************************)
Live(th) == {slot[th][i] : i \in 1..top[th]} \ {Nil}
Open     == {v \in Upval \intersect alloc : at[v] # Closed}
UvVal(v) == IF at[v] = Closed THEN refs[v]
            ELSE {slot[at[v][1]][at[v][2]]} \ {Nil}

\* Everything a program that holds o can get at through it.
Edges(o) == CASE o \in Thread -> Live(o)
              [] o \in Upval  -> UvVal(o)
              [] OTHER        -> refs[o]

\* What the marker follows: every slot up to the end of the frame, but not
\* the weak references.
Limit(th) == IF th \in wide THEN NSlots ELSE top[th]

Strong(o) == CASE o \in Weak   -> {}
               [] o \in Thread -> {slot[o][i] : i \in 1..Limit(o)} \ {Nil}
               [] OTHER        -> Edges(o)

Marking == state \in {"propagate", "atomic"}

(***************************************************************************)
(* gc_mark for the white objects of X: userdata turn black and hand the    *)
(* mark on, upvalues hand it on and turn black when closed, strings turn   *)
(* gray for good, the others wait in the gray list.                        *)
(***************************************************************************)
Whites(C, X) == {o \in X : C[o] \in {"white", "old"}}

MarkSet(C, X) ==
  LET direct == Whites(C, X)
      values == direct \union Whites(C, UNION {UvVal(v) : v \in direct \intersect Upval})
  IN  values \union Whites(C, UNION {refs[u] : u \in values \intersect Udata})

Mark(C, X) ==
  LET marked == MarkSet(C, X)
  IN  [o \in Obj |-> IF o \notin marked THEN C[o]
                     ELSE IF o \in Udata \/ (o \in Upval /\ at[o] = Closed)
                          THEN "black" ELSE "gray"]

Grayed(C, X) == MarkSet(C, X) \intersect Linked

MakeWhite(C, X) == [o \in Obj |-> IF o \in X THEN "white" ELSE C[o]]

(***************************************************************************)
(* The initial state: only the main thread and the root table exist.       *)
(***************************************************************************)
Init ==
  /\ alloc = {Main, Registry}
  /\ color = [o \in Obj |-> "white"]
  /\ refs = [o \in Obj |-> {}]
  /\ slot = [th \in Thread |-> [i \in Slot |-> Nil]]
  /\ top = [th \in Thread |-> 0]
  /\ wide = {}
  /\ at = [v \in Upval |-> Closed]
  /\ cur = Main
  /\ state = "pause" /\ stage = 0
  /\ gray = {} /\ again = {} /\ weak = {}
  /\ unswept = {} /\ pending = {} /\ finalized = {} /\ ran = {}
  /\ full = "no"
  /\ arena \in Arenas

(***************************************************************************)
(* The collector.  gc_mark_start, one case of gc_onestep:                  *)
(***************************************************************************)
MarkStart ==
  /\ state = "pause"
  /\ color' = Mark(color, {Main, Registry})
  /\ gray' = Grayed(color, {Main, Registry}) /\ again' = {} /\ weak' = {}
  /\ state' = "propagate"
  /\ UNCHANGED <<heap, stage, unswept, pending, finalized, ran, full, arena>>

\* propagatemark: threads stay gray and are visited again in the atomic
\* phase, where the slots above top are cleared; weak tables stay gray.
Traverse(o) ==
  /\ o \in gray
  /\ LET black == [color EXCEPT ![o] = IF o \in Thread \union Weak THEN "gray" ELSE "black"]
     IN  /\ color' = Mark(black, Strong(o))
         /\ gray' = (gray \ {o}) \union Grayed(black, Strong(o))
  /\ again' = IF o \in Thread THEN again \union {o} ELSE again
  /\ weak' = IF o \in Weak THEN weak \union {o} ELSE weak
  /\ slot' = IF o \in Thread /\ state = "atomic"
             THEN [slot EXCEPT ![o] = [i \in Slot |-> IF i > Limit(o) THEN Nil ELSE @[i]]]
             ELSE slot
  /\ UNCHANGED <<alloc, refs, top, wide, at, cur, state, stage, unswept, pending,
                 finalized, ran, full, arena>>

Propagate ==
  /\ state = "propagate" \/ stage > 0
  /\ \E o \in gray : Traverse(o)

EnterAtomic ==
  /\ state = "propagate" /\ gray = {}
  /\ state' = "atomic"
  /\ UNCHANGED <<heap, color, stage, lists, unswept, pending, finalized, ran,
                 full, arena>>

\* atomic() in the order of its parts; the program cannot run while stage is
\* not 0, and gc_propagate_gray runs between two parts until gray is empty.
\* On a trace the step is not taken: that is a step of the program instead.
AtomicOpenUpvalues ==
  /\ state = "atomic" /\ stage = 0
  /\ LET values == UNION {UvVal(v) : v \in {w \in Open : color[w] = "gray"}}
     IN  /\ color' = Mark(color, values)
         /\ gray' = gray \union Grayed(color, values)
  /\ stage' = 1
  /\ UNCHANGED <<heap, state, again, weak, unswept, pending, finalized, ran,
                 full, arena>>

LateRootsStatic == {Registry}     \* mutant: the running thread is not marked
LateRoots == {cur, Registry}

AtomicRoots ==
  /\ stage = 1 /\ gray = {}
  /\ color' = Mark(color, LateRoots)
  /\ gray' = weak \union Grayed(color, LateRoots)
  /\ weak' = {}
  /\ stage' = 2
  /\ UNCHANGED <<heap, state, again, unswept, pending, finalized, ran, full, arena>>

SecondChanceLost == {}            \* mutant: grayagain is only emptied
SecondChance == again

AtomicAgain ==
  /\ stage = 2 /\ gray = {}
  /\ gray' = SecondChance /\ again' = {}
  /\ stage' = 3
  /\ UNCHANGED <<heap, color, state, weak, unswept, pending, finalized, ran,
                 full, arena>>

\* lj_gc_separateudata and gc_mark_mmudata: what is pending from an earlier
\* cycle is made white and marked as well.
SeparatedDead ==                  \* mutant: isdead in place of iswhite
  {u \in (Udata \intersect alloc) \ (pending \union finalized) : color[u] = "old"}
Separated == {u \in (Udata \intersect alloc) \ (pending \union finalized) :
                color[u] \in {"white", "old"}}

FlaggedNot == finalized           \* mutant: no markfinalized
Flagged == finalized \union Separated

AtomicSeparate ==
  /\ stage = 3 /\ gray = {}
  /\ pending' = pending \union Separated
  /\ finalized' = Flagged
  /\ LET white == MakeWhite(color, pending')
     IN  /\ color' = Mark(white, pending')
         /\ gray' = Grayed(white, pending')
  /\ stage' = 4
  /\ UNCHANGED <<heap, state, again, weak, unswept, ran, full, arena>>

\* gc_mayclear on an entry of a weak table; strings are marked and kept.
MayClear(t, o) ==
  /\ o \notin Str
  /\ color[o] \in {"white", "old"} \/ (o \in finalized /\ t \in WeakVal)

\* The new current white.  What does not exist stays white here.
FlippedNot(C) == C                \* mutant: the current white is kept
Flipped(C) ==
  [o \in Obj |-> CASE o \in alloc /\ C[o] = "white" -> "old"
                   [] o \in alloc /\ C[o] = "old"   -> "white"
                   [] OTHER                        -> C[o]]

\* gc_clearweak and the flip of the current white, which starts the sweep.
\* Open upvalues are swept with their thread and what is pending is on a list
\* of its own.
AtomicClear ==
  /\ stage = 4 /\ gray = {}
  /\ refs' = [o \in Obj |-> IF o \in weak THEN {x \in refs[o] : ~MayClear(o, x)}
                            ELSE refs[o]]
  /\ LET marked == Mark(color, Str \intersect UNION {refs[t] : t \in weak})
     IN  color' = Flipped(marked)
  /\ unswept' = alloc \ (Open \union pending)
  /\ state' = "sweepstring" /\ stage' = 0
  /\ gray' = {} /\ again' = {} /\ weak' = {}
  /\ UNCHANGED <<alloc, slot, top, wide, at, cur, pending, finalized, ran, full, arena>>

\* Freeing the objects of X, seen from the heap: the identities can be used
\* again.  A freed thread closes the open upvalues that are left on it.
Free(X) ==
  LET owned == {v \in Open \ X : at[v][1] \in X}
  IN /\ alloc' = alloc \ X
     /\ refs' = [o \in Obj |-> CASE o \in X     -> {}
                                 [] o \in owned -> UvVal(o)
                                 [] OTHER       -> refs[o]]
     /\ at' = [v \in Upval |-> IF v \in X \union owned THEN Closed ELSE at[v]]
     /\ slot' = [th \in Thread |-> IF th \in X THEN [i \in Slot |-> Nil] ELSE slot[th]]
     /\ top' = [th \in Thread |-> IF th \in X THEN 0 ELSE top[th]]
     /\ wide' = wide \ X
     /\ finalized' = finalized \ X
     /\ ran' = ran \ X

WhitenedNotBlack(X) == MakeWhite(color, {o \in X : color[o] # "black"})   \* mutant
Whitened(X) == MakeWhite(color, X)

\* gc_sweep on one object: the open upvalues of a thread first.
SweepOne(o) ==
  LET upvals == {v \in Open : at[v][1] = o}
      dead   == {x \in upvals \union {o} : color[x] = "old" /\ x # Main}
  IN /\ Free(dead)
     /\ color' = Whitened(upvals \union {o})
     /\ unswept' = unswept \ {o}

SweepString ==
  /\ state = "sweepstring"
  /\ \/ \E s \in unswept \intersect Str : SweepOne(s) /\ state' = state
     \/ /\ unswept \intersect Str = {}
        /\ state' = "sweep"
        /\ UNCHANGED <<alloc, refs, slot, top, wide, at, color, unswept, finalized, ran>>
  /\ UNCHANGED <<cur, stage, lists, pending, full, arena>>

Sweep ==
  /\ state = "sweep"
  /\ \/ \E o \in unswept : SweepOne(o) /\ UNCHANGED <<state, full>>
     \/ /\ unswept = {}
        /\ \/ full = "finish" /\ state' = "pause" /\ full' = "cycle"
           \/ /\ full # "finish"
              /\ state' = IF pending = {} THEN "pause" ELSE "finalize"
              /\ full' = IF pending = {} THEN "no" ELSE full
        /\ UNCHANGED <<alloc, refs, slot, top, wide, at, color, unswept, finalized, ran>>
  /\ UNCHANGED <<cur, stage, lists, pending, arena>>

\* gc_finalize and the __gc callback, which may keep its argument in the root
\* table or fail: an error leaves lj_gc_fullgc, too.
Finalize(u, keep, fails) ==
  /\ state = "finalize" /\ u \in pending
  /\ pending' = pending \ {u}
  /\ color' = [color EXCEPT ![u] = "white"]
  /\ ran' = ran \union {u}
  /\ refs' = IF keep THEN [refs EXCEPT ![Registry] = @ \union {u}] ELSE refs
  /\ full' = IF fails THEN "no" ELSE full
  /\ UNCHANGED <<alloc, slot, top, wide, at, cur, state, stage, lists, unswept,
                 finalized, arena>>

EndCycle ==
  /\ state = "finalize" /\ pending = {}
  /\ state' = "pause" /\ full' = "no"
  /\ UNCHANGED <<heap, color, stage, lists, unswept, pending, finalized, ran, arena>>

GcStep ==
  \/ MarkStart \/ Propagate \/ EnterAtomic
  \/ AtomicOpenUpvalues \/ AtomicRoots \/ AtomicAgain \/ AtomicSeparate \/ AtomicClear
  \/ SweepString \/ Sweep
  \/ \E u \in Udata, keep, fails \in BOOLEAN : Finalize(u, keep, fails)
  \/ EndCycle

\* The start of lj_gc_fullgc: an unfinished mark phase is dropped and
\* everything swept once to make it white, a cycle that waits for finalizers
\* is ended, and then a whole cycle runs.
FullGc ==
  /\ "lj_gc_fullgc" \in arena.uses /\ full = "no" /\ stage = 0
  /\ IF state \in {"pause", "propagate", "atomic"}
     THEN /\ state' = "sweepstring" /\ full' = "finish"
          /\ unswept' = alloc \ (Open \union pending)
          /\ gray' = {} /\ again' = {} /\ weak' = {}
     ELSE /\ IF state = "finalize"
             THEN state' = "pause" /\ full' = "cycle"
             ELSE state' = state /\ full' = "finish"
          /\ UNCHANGED <<unswept, lists>>
  /\ UNCHANGED <<heap, color, stage, pending, finalized, ran, arena>>

(***************************************************************************)
(* The write barriers                                                      *)
(***************************************************************************)
\* lj_gc_barrierback for a store into table t (lj_gc_anybarriert).
BarrierBackUnlisted(t) ==         \* mutant: gray, but not on grayagain
  /\ color' = IF color[t] = "black" THEN [color EXCEPT ![t] = "gray"] ELSE color
  /\ UNCHANGED lists

BarrierBack(t) ==
  /\ color' = IF color[t] = "black" THEN [color EXCEPT ![t] = "gray"] ELSE color
  /\ again' = IF color[t] = "black" /\ Marking THEN again \union {t} ELSE again
  /\ UNCHANGED <<gray, weak>>

BarrierNone(C, o, x) == color' = C /\ UNCHANGED lists    \* mutant: no barrier

\* lj_gc_barrierf and lj_gc_barrieruv: o, now of color C[o], got value x.
Barrier(C, o, x) ==
  /\ IF C[o] = "black" /\ x # Nil /\ color[x] \in {"white", "old"}
     THEN IF Marking
          THEN color' = Mark(C, {x}) /\ gray' = gray \union Grayed(C, {x})
          ELSE color' = MakeWhite(C, {o}) /\ gray' = gray
     ELSE color' = C /\ gray' = gray
  /\ UNCHANGED <<again, weak>>

(***************************************************************************)
(* The Lua program, through the C API or the equal VM instructions.  It    *)
(* runs between two steps of the collector and, in the state finalize, in  *)
(* the __gc callbacks of a full collection as well.                        *)
(***************************************************************************)
Mutator == stage = 0 /\ (full = "no" \/ state = "finalize")

\* What the program holds, and the globals, which it loads for the purpose.
AtHand   == Live(cur) \union {Registry} \union refs[Registry]
Held     == Live(cur) \union {Registry}
Readable == LET direct == Held \union UNION {Edges(o) : o \in Held}
            IN  (direct \union UNION {UvVal(v) : v \in direct \intersect Upval})
                \ (Upval \union {Registry})    \* the root table is always at hand

Pushed(o) ==
  /\ top[cur] < arena.depth[cur]
  /\ slot' = [slot EXCEPT ![cur][top[cur] + 1] = o]
  /\ top' = [top EXCEPT ![cur] = @ + 1]

\* lua_pushvalue, lua_rawget, lua_getupvalue, lua_getfenv...
Load(o) ==
  /\ Mutator /\ o \in Readable /\ Pushed(o)
  /\ UNCHANGED <<alloc, refs, wide, at, cur, color, lists, cycle>>

\* A call of, or the return from, a function whose frame covers slots that it
\* has not written and that keep their stale values.
Frame ==
  /\ Mutator /\ "frames" \in arena.uses
  /\ wide' = IF cur \in wide THEN wide \ {cur} ELSE wide \union {cur}
  /\ UNCHANGED <<alloc, refs, slot, top, at, cur, color, lists, cycle>>

\* lj_mem_newgco, lj_udata_new, lj_state_new and the new string of
\* lj_str_new: the object is white and on top of the stack.
New(o) ==
  /\ Mutator /\ o \in (arena.objects \intersect (Value \ Func)) \ alloc
  /\ Pushed(o)
  /\ alloc' = alloc \union {o}
  /\ UNCHANGED <<refs, wide, at, cur, color, lists, cycle>>

\* lj_str_new finds the string: a dead one is resurrected.
Intern(s) ==
  /\ Mutator /\ s \in Str \intersect alloc /\ Pushed(s)
  /\ color' = IF color[s] = "old" THEN [color EXCEPT ![s] = "white"] ELSE color
  /\ UNCHANGED <<alloc, refs, wide, at, cur, lists, cycle>>

\* lj_func_newL_gc with a local in slot i as upvalue: func_finduv finds the
\* open upvalue of the slot, resurrecting a dead one, or makes a new one.
NewFunc(f, i) ==
  /\ Mutator /\ f \in (arena.objects \intersect Func) \ alloc
  /\ i \in 1..top[cur] /\ Pushed(f)
  /\ LET found == {v \in Open : at[v] = <<cur, i>>}
     IN \/ \E v \in found :
             /\ color' = IF color[v] = "old" THEN [color EXCEPT ![v] = "white"] ELSE color
             /\ alloc' = alloc \union {f}
             /\ refs' = [refs EXCEPT ![f] = {v}]
             /\ at' = at
        \/ \E v \in (arena.objects \intersect Upval) \ alloc :
             /\ found = {}
             /\ alloc' = alloc \union {f, v}
             /\ refs' = [refs EXCEPT ![f] = {v}]
             /\ at' = [at EXCEPT ![v] = <<cur, i>>]
             /\ color' = color
  /\ UNCHANGED <<wide, cur, lists, cycle>>

\* The top slot goes out of scope: lj_func_closeuv and lj_gc_closeuv on its
\* open upvalue, which is freed when dead and else copies the value.
ClosedColorKept(v) == color[v]    \* mutant: a gray upvalue stays gray
ClosedColor(v) == IF color[v] = "gray" /\ Marking THEN "black" ELSE "white"

CloseUv(v, x) ==
  LET C == [color EXCEPT ![v] = ClosedColor(v)]
  IN  /\ at' = [at EXCEPT ![v] = Closed]
      /\ IF color[v] = "old"
         THEN /\ alloc' = alloc \ {v} /\ refs' = refs
              /\ color' = [color EXCEPT ![v] = "white"] /\ UNCHANGED lists
         ELSE /\ alloc' = alloc
              /\ refs' = [refs EXCEPT ![v] = {x} \ {Nil}]
              /\ Barrier(C, v, x)

Pop ==
  /\ Mutator /\ top[cur] > 0
  /\ top' = [top EXCEPT ![cur] = @ - 1]
  /\ LET here == {v \in Open : at[v] = <<cur, top[cur]>>}
     IN \/ here = {} /\ UNCHANGED <<alloc, refs, at, color, lists>>
        \/ \E v \in here : CloseUv(v, slot[cur][top[cur]])
  /\ UNCHANGED <<slot, wide, cur, cycle>>

\* An entry of a table is set or removed: lua_rawset moves a black table back
\* whatever the value, lua_rawseti (lj_gc_barriert) only for a white value.
Store(t, x) ==
  /\ Mutator /\ t \in Tab \intersect AtHand /\ x \in Live(cur) \ refs[t]
  /\ refs' = [refs EXCEPT ![t] = @ \union {x}]
  /\ \/ BarrierBack(t)
     \/ Whites(color, {x}) = {} /\ UNCHANGED <<color, lists>>
  /\ UNCHANGED <<alloc, slot, top, wide, at, cur, cycle>>

Erase(t, x) ==
  /\ Mutator /\ t \in Tab \intersect AtHand /\ x \in refs[t]
  /\ refs' = [refs EXCEPT ![t] = @ \ {x}]
  /\ BarrierBack(t) \/ UNCHANGED <<color, lists>>
  /\ UNCHANGED <<alloc, slot, top, wide, at, cur, cycle>>

\* An assignment to a captured local: BC_USETV with lj_gc_barrieruv.
SetUpvalue(v, x) ==
  /\ Mutator /\ x \in Live(cur)
  /\ \E f \in Func \intersect AtHand : v \in refs[f]
  /\ \/ /\ at[v] = Closed
        /\ refs' = [refs EXCEPT ![v] = {x}]
        /\ Barrier(color, v, x)
        /\ slot' = slot
     \/ /\ at[v] # Closed
        /\ slot' = [slot EXCEPT ![at[v][1]][at[v][2]] = x]
        /\ UNCHANGED <<refs, color, lists>>
  /\ UNCHANGED <<alloc, top, wide, at, cur, cycle>>

\* lua_setupvalue (and debug.setupvalue): the barrier looks at the closure,
\* not at the upvalue that takes the value.
SetUpvalueByApi(f, x) ==
  /\ "lua_setupvalue" \in arena.uses /\ Mutator /\ f \in Func \intersect AtHand /\ x \in Live(cur)
  /\ \E v \in refs[f] :
       /\ at[v] = Closed
       /\ refs' = [refs EXCEPT ![v] = {x}]
  /\ Barrier(color, f, x)
  /\ UNCHANGED <<alloc, slot, top, wide, at, cur, cycle>>

\* lua_setfenv and lua_setmetatable on userdata.
SetEnv(u, t) ==
  /\ Mutator /\ u \in Udata \intersect Live(cur) /\ t \in (Tab \intersect Held) \ refs[u]
  /\ refs' = [refs EXCEPT ![u] = {t}]
  /\ Barrier(color, u, t)
  /\ UNCHANGED <<alloc, slot, top, wide, at, cur, cycle>>

\* Resuming a thread, which a C function may have popped from the stack
\* before (lua_newthread, lua_pop, lua_resume), or returning from it.
Switch(th) ==
  /\ Mutator
  /\ \/ /\ cur = Main /\ th \in Thread \intersect Live(cur)
        /\ top' \in {top, [top EXCEPT ![cur] = @ - 1]}
        /\ top' # top => /\ slot[cur][top[cur]] = th
                         /\ \A v \in Open : at[v] # <<cur, top[cur]>>
     \/ cur # Main /\ th = Main /\ top' = top
  /\ cur' = th
  /\ UNCHANGED <<alloc, refs, slot, wide, at, color, lists, cycle>>

MutatorStep ==
  \/ Frame \/ Pop
  \/ \E o \in Value : Load(o) \/ New(o)
  \/ \E s \in Str : Intern(s)
  \/ \E f \in Func, i \in Slot : NewFunc(f, i)
  \/ \E t \in Tab, x \in Value : Store(t, x) \/ Erase(t, x)
  \/ \E v \in Upval, x \in Value : SetUpvalue(v, x)
  \/ \E f \in Func, x \in Value : SetUpvalueByApi(f, x)
  \/ \E u \in Udata, t \in Tab : SetEnv(u, t)
  \/ \E th \in Thread : Switch(th)

Next == GcStep \/ FullGc \/ MutatorStep

Spec     == Init /\ [][Next]_vars
\* Allocation drives the collector on (lj_gc_check).  GcStep is enabled in every
\* state, so this is WF_vars(GcStep), which costs TLC twice the time.
FairSpec == Spec /\ []<><<GcStep>>_vars

(***************************************************************************)
(* Properties                                                              *)
(***************************************************************************)
TypeOK ==
  /\ alloc \subseteq Obj /\ {Main, Registry} \subseteq alloc
  /\ color \in [Obj -> {"white", "old", "gray", "black"}]
  /\ refs \in [Obj -> SUBSET Obj]
  /\ slot \in [Thread -> [Slot -> Value \union {Nil}]]
  /\ top \in [Thread -> 0..NSlots]
  /\ at \in [Upval -> (Thread \X Slot) \union {Closed}]
  /\ wide \subseteq Thread /\ cur \in Thread
  /\ state \in {"pause", "propagate", "atomic", "sweepstring", "sweep", "finalize"}
  /\ stage \in 0..4
  /\ gray \subseteq Obj /\ again \subseteq Obj /\ weak \subseteq Obj
  /\ unswept \subseteq Obj
  /\ pending \subseteq Udata /\ finalized \subseteq Udata /\ ran \subseteq Udata
  /\ full \in {"no", "finish", "cycle"}
  /\ arena \in Arenas

\* Where everything that the program can get at is reached from.
Roots == {Main, Registry, cur}

\* Nothing the program can get at has been freed or is about to be: some set of
\* objects that exist and are not dead has the roots and all that its members
\* refer to, with the weak entries and with what a slot above the top of a
\* stack still names, since a frame may cover it.
ReachableSurvives ==
  \E S \in SUBSET {o \in alloc : color[o] # "old"} :
    /\ Roots \subseteq S
    /\ \A o \in S :
         /\ Edges(o) \subseteq S
         /\ o \in Thread => \A i \in Slot : slot[o][i] \in S \union {Nil}

\* The invariant that the barriers preserve while marking: no black object
\* refers to a white one.  Userdata that wait for their finalizer since an
\* earlier cycle keep their black and are marked again by gc_mark_mmudata.
NoBlackToWhite ==
  Marking => \A o \in alloc \ pending :
    color[o] = "black" => \A x \in Strong(o) : color[x] \in {"gray", "black"}

\* An object has one gclist link: while marking every gray table, closure or
\* thread is on exactly one of the three lists and will be visited, and
\* nothing else is on a list.
GrayOnOneList ==
  Marking =>
    /\ gray \union again \union weak = {o \in alloc \intersect Linked : color[o] = "gray"}
    /\ gray \intersect again = {} /\ gray \intersect weak = {} /\ again \intersect weak = {}

\* A closed upvalue is never gray while marking, since nothing would visit
\* it, and an open one is never black, since stores to its slot have no
\* barrier (the assertions of lj_gc_closeuv and lj_func_closeuv).
UpvalueColors ==
  /\ \A v \in Open : color[v] # "black"
  /\ Marking => \A v \in (Upval \intersect alloc) \ Open : color[v] # "gray"

\* Between two cycles everything is white but the userdata that wait for
\* their finalizer, so that no barrier applies and nothing is dead.
CleanRestart ==
  state \in {"pause", "finalize"} => \A o \in alloc \ pending : color[o] = "white"

\* A finalizer is called exactly once in the life of a userdata: none waits for
\* it that has had it, not even after it was resurrected, and a userdata is
\* freed only after the call (lj_gc_separateudata, gc_finalize, gc_sweep).
FinalizedOnce ==
  [][\A x \in Udata : /\ x \in pending' => x \notin ran'
                      /\ x \in alloc \ alloc' => x \in ran]_vars

\* The collector queues userdata for finalization only when the program
\* cannot get at them any more other than through weak entries or through
\* userdata that wait for their finalizer already: some set without the new
\* one has the roots and what its other members refer to.
FinalizesGarbage ==
  [][\A x \in pending' \ pending :
       \E S \in SUBSET (alloc \ {x}) :
         Roots \subseteq S /\ \A o \in S \ pending : Strong(o) \subseteq S]_vars

\* Whatever neither the program nor a stale slot of a frame can get at is freed
\* in the end, unless a finalizer, a weak table or the string table makes it
\* reachable again: the watched object is never garbage from some point on.
Retained ==
  LET further(X)          == X \union UNION {Edges(o) \union Strong(o) : o \in X}
      near[X \in SUBSET Obj] == IF further(X) = X THEN X ELSE near[further(X)]
  IN  near[Roots]
GarbageGoes == []<>(arena.watched \notin alloc \ Retained)
=============================================================================
