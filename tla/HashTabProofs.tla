---------------------------- MODULE HashTabProofs ----------------------------
(***************************************************************************)
(* For any keys and hashes, and tables of any size: HashTab implements     *)
(* LuaTable, and its length is a border, as long as no string gets the     *)
(* address of an older one (setup.recycled = 0).  Otherwise the first is   *)
(* false: run hash_tab_resurrected.                                        *)
(*                                                                         *)
(* Chains are finite because every set of nodes that is closed under next  *)
(* holds an end (Ending), and what a walk along a chain or a loop computes *)
(* follows from the least node set, or the least number, for which it      *)
(* would be something else (WFMin).  So no theorem with an operator as a   *)
(* parameter is needed.                                                    *)
(***************************************************************************)
EXTENDS HashTab, WellFoundedInduction, FiniteSetTheorems, TLAPS

\* Nodes reached from p when links are followed: those in every set that holds
\* p and is closed under next.
Closed(node, S) == \A n \in S : node[n].next # None => node[n].next \in S
Chain(node, p)  == {n \in DOMAIN node : \A S \in SUBSET DOMAIN node :
                                          p \in S /\ Closed(node, S) => n \in S}

Record(size) == [key : Key \union {Nil}, val : Key \union {Nil}, next : -1..size - 1]
Nodes(size)  == [0..size - 1 -> Record(size)]

Shape(t) ==
  /\ t = [arr |-> t.arr, hsize |-> t.hsize, node |-> t.node, free |-> t.free]
  /\ t.arr \in [0..Asize(t) - 1 -> Key \union {Nil}]
  /\ Asize(t) \in Nat
  /\ t.hsize \in Nat /\ t.node \in Nodes(t.hsize) /\ t.free \in 0..t.hsize

\* A field is in one place: where its key belongs, and in one node.
InPlace(t) ==
  /\ \A i \in DOMAIN t.arr : t.arr[i] # Nil => i \in Key
  /\ \A n \in DOMAIN t.node : /\ t.node[n].key # Nil => t.node[n].key \notin DOMAIN t.arr
                              /\ t.node[n].val # Nil => t.node[n].key # Nil
  /\ \A m, n \in DOMAIN t.node : t.node[m].key = t.node[n].key => m = n \/ t.node[n].key = Nil

\* Links lead to an end from everywhere: no set is closed without one.
Ending(node) ==
  \A S \in SUBSET DOMAIN node : S # {} /\ Closed(node, S) => \E n \in S : node[n].next = None

\* Chains end and do not meet, and nodes that were never used are on none.
Separate(t) ==
  /\ Ending(t.node)
  /\ \A m, n \in DOMAIN t.node : t.node[m].next = t.node[n].next => m = n \/ t.node[n].next = None
  /\ \A n \in DOMAIN t.node : t.node[n].key = Nil => t.node[n].next = None
  /\ \A m \in DOMAIN t.node : t.node[m].next # None => t.node[t.node[m].next].key # Nil

\* A key is found from its main position, and that node holds a key that
\* belongs there.
Anchored(t) ==
  \A n \in DOMAIN t.node : t.node[n].key # Nil =>
    LET p == Main(t, t.node[n].key)
    IN  /\ n \in Chain(t.node, p)
        /\ t.node[p].key # Nil /\ Main(t, t.node[p].key) = p

\* Behind the free pointer every node has been used.
TopUsed(t) == \A n \in DOMAIN t.node : n >= t.free => t.node[n].key # Nil

Good(t) == Shape(t) /\ InPlace(t) /\ Separate(t) /\ Anchored(t) /\ TopUsed(t)

\* A traversal of t at the cursor c has visited what is present up to there, and
\* nothing behind it.
TraversalOf(t, c, vs) ==
  /\ vs \in Seq(Key) /\ c \in Key \union {Nil}
  /\ KeyKnown(t, c)
  /\ c = Nil => vs = <<>>
  /\ \A k \in ToSet(vs) : KeyKnown(t, k) /\ KeyIndex(t, k) <= KeyIndex(t, c)
  /\ \A i \in Indices(t) : ValAt(t, i) # Nil /\ i <= KeyIndex(t, c) => KeyAt(t, i) \in ToSet(vs)

WalkOK ==
  \/ walk = "on" /\ TraversalOf(tab, cursor, visits)
  \/ walk \in {"off", "undefined"} /\ cursor = Nil /\ visits = <<>>

\* The hash part has no nodes, or a power of two that is not 1.
SizeOK(t) == t.hsize = 0 \/ \E b \in 1..t.hsize : t.hsize = Pow2[b]

Params == /\ setup \in Setups /\ hash \in [Key -> Nat] /\ recycled = 0 /\ recycled = setup.recycled

IInv == Params /\ Good(tab) /\ SizeOK(tab) /\ WalkOK

\* f is the function on the numbers with these values at 0 and at n + 1.
Recurs(f, A, a, G) == f \in [Nat -> A] /\ f[0] = a /\ \A n \in Nat : f[n + 1] = G[n][f[n]]

\* The keys in the hash part.
Keyed(t) == {t.node[n].key : n \in DOMAIN t.node} \ {Nil}

\* The table r is t with v under k, and no part of another size.
Stored(t, k, v, r) ==
  /\ Good(r) /\ DOMAIN r.arr = DOMAIN t.arr /\ r.hsize = t.hsize
  /\ Keyed(r) \subseteq Keyed(t) \union {k}
  /\ \A j \in Key : Get(r, j) = IF j = k THEN v ELSE Get(t, j)

\* The keys present that an array part of this size does not take.
Hashed(t, asize) == {k \in Key : Get(t, k) # Nil /\ k \notin 0..asize - 1}

\* The tables with parts of these sizes.
Tables(asize, hsize) == [arr : [0..asize - 1 -> Key \union {Nil}], hsize : {hsize},
                         node : Nodes(hsize), free : 0..hsize]

\* A table x on the way of resizing t: the first i fields of t have been moved.
Moved(t, i, x, asize, hsize) ==
  /\ Good(x) /\ DOMAIN x.arr = 0..asize - 1 /\ x.hsize = hsize
  /\ Keyed(x) \subseteq Hashed(t, asize)
  /\ \A k \in Key : Get(x, k) = IF \E j \in 0..i - 1 : ValAt(t, j) # Nil /\ KeyAt(t, j) = k
                                THEN Get(t, k) ELSE Nil

(***************************************************************************)
(* Induction and recursion over numbers.                                   *)
(***************************************************************************)

\* A set of numbers that is not empty has a least one.
LEMMA LeastNat ==
  ASSUME NEW S \in SUBSET Nat, S # {}
  PROVE  \E m \in S : \A k \in S : m <= k
<1> DEFINE T == {0..k - 1 : k \in S}
<1> HIDE DEF T
<1>1. T \subseteq FiniteSubsetsOf(Nat)
  <2> SUFFICES ASSUME NEW k \in S PROVE 0..k - 1 \in FiniteSubsetsOf(Nat)
    BY DEF T
  <2>1. IsFiniteSet(0..k - 1)
    BY FS_Interval
  <2> QED BY <2>1 DEF FiniteSubsetsOf
<1>2. T # {}
  BY DEF T
<1>3. \E x \in T : \A y \in T : <<y, x>> \notin StrictSubsetOrdering(Nat)
  BY <1>1, <1>2, FS_StrictSubsetOrderingWellFounded, WFMin
<1>4. PICK m \in S : \A k \in S : <<0..k - 1, 0..m - 1>> \notin StrictSubsetOrdering(Nat)
  BY <1>3 DEF T
<1>5. ASSUME NEW k \in S, k < m PROVE FALSE
  <2>1. 0..k - 1 # 0..m - 1
    <3>1. k \in 0..m - 1 /\ k \notin 0..k - 1
      BY <1>5
    <3> QED BY <3>1
  <2>2. 0..k - 1 \subseteq 0..m - 1
    BY <1>5
  <2>3. <<0..k - 1, 0..m - 1>> \in StrictSubsetOrdering(Nat)
    BY <2>1, <2>2 DEF StrictSubsetOrdering
  <2> QED BY <1>4, <2>3
<1> QED BY <1>4, <1>5

\* A set that holds 0, and with n its successor, holds every number up to a bound.
LEMMA Upto ==
  ASSUME NEW S, NEW N \in Nat, 0 \in S,
         \A n \in 0..N - 1 : n \in S => n + 1 \in S
  PROVE  0..N \subseteq S
<1> SUFFICES ASSUME NEW x \in 0..N, x \notin S PROVE FALSE
  OBVIOUS
<1> DEFINE T == {n \in 0..N : n \notin S}
<1>1. PICK m \in T : \A k \in T : m <= k
  <2>1. T \in SUBSET Nat /\ x \in T
    OBVIOUS
  <2> QED BY <2>1, LeastNat
<1>2. m # 0 /\ m \in 0..N
  OBVIOUS
<1>3. m - 1 \in 0..N - 1 /\ m - 1 \in S
  <2>1. m - 1 \in 0..N /\ ~ (m <= m - 1)
    BY <1>2
  <2> QED BY <1>1, <1>2, <2>1
<1>4. m - 1 + 1 \in S
  BY <1>3
<1> QED BY <1>2, <1>4

\* The same without a bound.
LEMMA AllNat ==
  ASSUME NEW S, 0 \in S, \A n \in Nat : n \in S => n + 1 \in S
  PROVE  Nat \subseteq S
<1> SUFFICES ASSUME NEW x \in Nat PROVE x \in S
  OBVIOUS
<1>1. 0..x \subseteq S
  BY Upto
<1> QED BY <1>1

\* A function that is given by its first value and by how each value follows
\* from the one before it.
LEMMA Recursion ==
  ASSUME NEW A, NEW a \in A, NEW G \in [Nat -> [A -> A]]
  PROVE  \E f : Recurs(f, A, a, G)
<1> DEFINE R(n, g) == /\ g \in [0..n -> A] /\ g[0] = a
                      /\ \A m \in 0..n - 1 : g[m + 1] = G[m][g[m]]
           P == {n \in Nat : \E g : R(n, g)}
           f == [n \in Nat |-> (CHOOSE g : R(n, g))[n]]
<1>1. 0 \in P
  <2>1. R(0, [m \in 0..0 |-> a])
    OBVIOUS
  <2> QED BY <2>1
<1>2. ASSUME NEW n \in P PROVE n + 1 \in P
  <2>1. PICK g : R(n, g)
    OBVIOUS
  <2> DEFINE h == [m \in 0..n + 1 |-> IF m = n + 1 THEN G[n][g[n]] ELSE g[m]]
  <2>2. g[n] \in A
    BY <2>1
  <2>3. h \in [0..n + 1 -> A]
    BY <2>1, <2>2
  <2>4. h[0] = a
    BY <2>1
  <2>5. ASSUME NEW m \in 0..(n + 1) - 1 PROVE h[m + 1] = G[m][h[m]]
    <3>1. CASE m = n
      BY <3>1
    <3>2. CASE m # n
      BY <2>1, <3>2
    <3> QED BY <3>1, <3>2
  <2> HIDE DEF h
  <2>6. R(n + 1, h)
    BY <2>3, <2>4, <2>5
  <2> QED BY <2>6
<1>3. Nat \subseteq P
  BY <1>1, <1>2, AllNat
<1>c. \A n \in Nat : R(n, CHOOSE g : R(n, g))
  BY <1>3
<1>4. ASSUME NEW n \in Nat, NEW g, NEW h, R(n, g), R(n + 1, h)
      PROVE  g[n] = h[n]
  <2> DEFINE S == {m \in 0..n : g[m] = h[m]}
  <2>1. 0 \in S
    BY <1>4
  <2>2. ASSUME NEW m \in 0..n - 1, m \in S PROVE m + 1 \in S
    <3>1. g[m + 1] = G[m][g[m]] /\ h[m + 1] = G[m][h[m]] /\ g[m] = h[m]
      BY <1>4, <2>2
    <3> QED BY <3>1
  <2>3. 0..n \subseteq S
    <3> HIDE DEF S
    <3> QED BY <2>1, <2>2, Upto
  <2> QED BY <2>3
<1> HIDE DEF R, P
<1>6. ASSUME NEW n \in Nat PROVE f[n] \in A /\ (n = 0 => f[n] = a)
  <2> DEFINE g == CHOOSE x : R(n, x)
  <2>1. f[n] = g[n] /\ R(n, g)
    BY <1>c
  <2> HIDE DEF f, g
  <2> QED BY <2>1 DEF R
<1>7. ASSUME NEW n \in Nat PROVE f[n + 1] = G[n][f[n]]
  <2> DEFINE g == CHOOSE x : R(n, x)
             h == CHOOSE x : R(n + 1, x)
  <2>1. R(n, g) /\ R(n + 1, h) /\ f[n] = g[n] /\ f[n + 1] = h[n + 1]
    BY <1>c
  <2> HIDE DEF g, h, f
  <2>2. g[n] = h[n]
    BY <1>4, <2>1
  <2>3. h[n + 1] = G[n][h[n]]
    BY <2>1 DEF R
  <2> QED BY <2>1, <2>2, <2>3
<1>8. f \in [Nat -> A]
  BY <1>6
<1> HIDE DEF f
<1> QED BY <1>6, <1>7, <1>8 DEF Recurs

\* Powers of two.
LEMMA Powers ==
  /\ Pow2[0] = 1
  /\ \A n \in Nat : Pow2[n] \in Nat /\ Pow2[n + 1] = 2 * Pow2[n] /\ Pow2[n] > n
<1> DEFINE G == [n \in Nat |-> [x \in Nat |-> 2 * x]]
<1>1. PICK f : Recurs(f, Nat, 1, G)
  <2>1. G \in [Nat -> [Nat -> Nat]] /\ 1 \in Nat
    OBVIOUS
  <2> HIDE DEF G
  <2> QED BY <2>1, Recursion
<1>2. ASSUME NEW n \in Nat PROVE f[n + 1] = 2 * f[n] /\ f[0] = 1 /\ f[n] \in Nat
  BY <1>1 DEF Recurs
<1>3. f = [b \in Nat |-> IF b = 0 THEN 1 ELSE 2 * f[b - 1]]
  <2>1. ASSUME NEW b \in Nat, b # 0 PROVE f[b] = 2 * f[b - 1]
    <3>1. b - 1 \in Nat /\ b - 1 + 1 = b
      BY <2>1
    <3> QED BY <1>2, <3>1
  <2> QED BY <1>1, <1>2, <2>1 DEF Recurs
<1>4. Pow2 = [b \in Nat |-> IF b = 0 THEN 1 ELSE 2 * Pow2[b - 1]]
  BY <1>3 DEF Pow2
<1>5. Pow2[0] = 1
  BY <1>4
<1>6. ASSUME NEW n \in Nat PROVE Pow2[n + 1] = 2 * Pow2[n]
  <2>1. n + 1 \in Nat /\ n + 1 # 0 /\ n + 1 - 1 = n
    OBVIOUS
  <2> QED BY <1>4, <2>1
<1> DEFINE S == {n \in Nat : Pow2[n] \in Nat /\ Pow2[n] > n}
<1>7. Nat \subseteq S
  <2>1. 0 \in S
    BY <1>5
  <2>2. ASSUME NEW n \in Nat, n \in S PROVE n + 1 \in S
    BY <1>6, <2>2
  <2> HIDE DEF S
  <2> QED BY <2>1, <2>2, AllNat
<1> QED BY <1>5, <1>6, <1>7

(***************************************************************************)
(* Chains and lookups.                                                     *)
(***************************************************************************)

\* A node reaches itself, and any other node by its link.
LEMMA ChainStep ==
  ASSUME NEW size \in Nat, NEW node \in Nodes(size), NEW n \in DOMAIN node, NEW m \in DOMAIN node
  PROVE  /\ n \in Chain(node, n)
         /\ m # n => (m \in Chain(node, n) <=> node[n].next # None /\ m \in Chain(node, node[n].next))
<1> DEFINE D == DOMAIN node
           y == node[n].next
<1>0. y = None \/ y \in D
  BY DEF Nodes, Record, None
<1>1. n \in Chain(node, n)
  BY DEF Chain
<1>2. ASSUME m # n, m \in Chain(node, n) PROVE y # None
  <2>1. SUFFICES ASSUME y = None PROVE FALSE
    OBVIOUS
  <2>2. {n} \in SUBSET D /\ Closed(node, {n}) /\ n \in {n}
    BY <2>1 DEF Closed
  <2>3. m \in {n}
    BY <1>2, <2>2 DEF Chain
  <2> QED BY <1>2, <2>3
<1>3. ASSUME m # n, m \in Chain(node, n), y # None PROVE m \in Chain(node, y)
  <2> SUFFICES ASSUME NEW S \in SUBSET D, y \in S, Closed(node, S) PROVE m \in S
    BY DEF Chain
  <2>1. S \union {n} \in SUBSET D /\ Closed(node, S \union {n})
    BY DEF Closed
  <2>2. m \in S \union {n}
    BY <1>3, <2>1 DEF Chain
  <2> QED BY <1>3, <2>2
<1>4. ASSUME y # None, m \in Chain(node, y) PROVE m \in Chain(node, n)
  <2> SUFFICES ASSUME NEW S \in SUBSET D, n \in S, Closed(node, S) PROVE m \in S
    BY DEF Chain
  <2>1. y \in S
    BY <1>4 DEF Closed
  <2> QED BY <1>4, <2>1 DEF Chain
<1> QED BY <1>1, <1>2, <1>3, <1>4

\* The main position of a key is a node of the hash part.
LEMMA MainType ==
  ASSUME NEW t, Shape(t), t.hsize > 0, hash \in [Key -> Nat], NEW k \in Key
  PROVE  Main(t, k) \in 0..t.hsize - 1
<1>1. hash[k] \in Nat /\ t.hsize \in Nat
  BY DEF Shape
<1> QED BY <1>1 DEF Main

\* The walk along a chain is well-defined: it ends at the node that holds k.
LEMMA FindWalk ==
  ASSUME NEW t, Shape(t), InPlace(t), NEW k \in Key
  PROVE  \E f : f = [n \in {None} \union DOMAIN t.node |->
                       IF n = None THEN None ELSE IF t.node[n].key = k THEN n ELSE f[t.node[n].next]]
<1> DEFINE D == DOMAIN t.node
           h == CHOOSE m \in D : t.node[m].key = k
           On(n) == n \in D /\ h \in D /\ t.node[h].key = k /\ h \in Chain(t.node, n)
           f == [n \in {None} \union D |-> IF On(n) THEN h ELSE None]
<1>0. t.node \in Nodes(t.hsize) /\ t.hsize \in Nat /\ D = 0..t.hsize - 1 /\ None \notin D /\ k # Nil
  BY ConstantsOK DEF Shape, Nodes, Record, None
<1>1. ASSUME NEW n \in D, t.node[n].key = k PROVE h = n /\ f[n] = n
  <2>1. h \in D /\ t.node[h].key = k
    BY <1>1
  <2>2. h = n
    <3> HIDE DEF h
    <3> QED BY <1>0, <1>1, <2>1 DEF InPlace
  <2>3. n \in Chain(t.node, n)
    BY <1>0, ChainStep
  <2> QED BY <1>1, <2>1, <2>2, <2>3
<1>2. ASSUME NEW n \in D, t.node[n].key # k PROVE f[n] = f[t.node[n].next]
  <2> DEFINE y == t.node[n].next
  <2>1. y = None \/ y \in D
    BY <1>0 DEF Nodes, Record, None
  <2>2. ASSUME h \in D, t.node[h].key = k PROVE h \in Chain(t.node, n) <=> y # None /\ h \in Chain(t.node, y)
    <3>1. h # n
      BY <1>2, <2>2
    <3> HIDE DEF h
    <3> QED BY <1>0, <2>2, <3>1, ChainStep
  <2>3. On(n) <=> On(y)
    <3> HIDE DEF h
    <3> QED BY <1>0, <2>1, <2>2
  <2> QED BY <2>1, <2>3
<1>3. f[None] = None
  BY <1>0
<1>4. f = [n \in {None} \union D |-> IF n = None THEN None ELSE IF t.node[n].key = k THEN n ELSE f[t.node[n].next]]
  <2> DEFINE g == [n \in {None} \union D |-> IF n = None THEN None ELSE IF t.node[n].key = k THEN n ELSE f[t.node[n].next]]
  <2> SUFFICES ASSUME NEW n \in {None} \union D PROVE f[n] = g[n]
    OBVIOUS
  <2> HIDE DEF f
  <2> QED BY <1>1, <1>2, <1>3
<1> QED BY <1>4

\* A lookup finds the node that holds the key, if there is one.
LEMMA FindSpec ==
  ASSUME NEW t, Good(t), hash \in [Key -> Nat], NEW k \in Key
  PROVE  /\ Find(t, k) \in {None} \union DOMAIN t.node
         /\ Find(t, k) # None => t.node[Find(t, k)].key = k
         /\ \A n \in DOMAIN t.node : t.node[n].key = k => Find(t, k) = n
<1> DEFINE D == DOMAIN t.node
           from[n \in {None} \union DOMAIN t.node] ==
             IF n = None THEN None ELSE IF t.node[n].key = k THEN n ELSE from[t.node[n].next]
<1>0. t.node \in Nodes(t.hsize) /\ t.hsize \in Nat /\ D = 0..t.hsize - 1 /\ None \notin D /\ k # Nil
  BY ConstantsOK DEF Good, Shape, Nodes, Record, None
<1>1. CASE t.hsize = 0
  BY <1>0, <1>1 DEF Find
<1>2. CASE t.hsize # 0
  <2> DEFINE p == Main(t, k)
  <2>1. p \in D
    BY <1>0, <1>2, MainType DEF Good
  <2>2. from = [n \in {None} \union D |-> IF n = None THEN None ELSE IF t.node[n].key = k THEN n ELSE from[t.node[n].next]]
    BY FindWalk DEF Good
  <2>3. Find(t, k) = from[p]
    BY <1>2 DEF Find
  <2> HIDE DEF from, p
  <2>4. from[None] = None
    BY <2>2
  <2>5. \A n \in D : from[n] = IF t.node[n].key = k THEN n ELSE from[t.node[n].next]
    BY <1>0, <2>2
  <2>6. \A n \in D : t.node[n].next = None \/ t.node[n].next \in D
    BY <1>0 DEF Nodes, Record, None
  <2>7. from[p] = None \/ (from[p] \in D /\ t.node[from[p]].key = k)
    <3> DEFINE S == {n \in D : ~ (from[n] = None \/ (from[n] \in D /\ t.node[from[n]].key = k))}
    <3>1. ASSUME NEW n \in S PROVE t.node[n].next # None /\ t.node[n].next \in S
      BY <2>4, <2>5, <2>6
    <3> HIDE DEF S
    <3>2. S \in SUBSET D /\ Closed(t.node, S)
      BY <3>1 DEF Closed, S
    <3>3. S = {}
      BY <3>1, <3>2 DEF Good, Separate, Ending
    <3> QED BY <2>1, <3>3 DEF S
  <2>8. ASSUME NEW m \in D, t.node[m].key = k PROVE from[p] = m
    <3> SUFFICES ASSUME from[p] # m PROVE FALSE
      OBVIOUS
    <3> DEFINE S == {n \in D : from[n] # m}
    <3>1. m \in Chain(t.node, p)
      BY <1>0, <2>8 DEF Good, Anchored, p
    <3>2. from[m] = m
      BY <2>5, <2>8
    <3>3. ASSUME NEW n \in S PROVE t.node[n].next = None \/ t.node[n].next \in S
      <4>1. t.node[n].key # k
        BY <1>0, <2>8, <3>2 DEF Good, InPlace
      <4> QED BY <2>5, <2>6, <4>1
    <3> HIDE DEF S
    <3>4. S \in SUBSET D /\ Closed(t.node, S)
      BY <3>3 DEF Closed, S
    <3>5. p \in S
      BY <2>1 DEF S
    <3>6. m \in S
      BY <3>1, <3>4, <3>5 DEF Chain
    <3> QED BY <3>2, <3>6 DEF S
  <2> QED BY <2>3, <2>7, <2>8
<1> QED BY <1>1, <1>2

\* The predecessor of a node that is not the main position of its key.
LEMMA PredSpec ==
  ASSUME NEW t, Good(t), hash \in [Key -> Nat], NEW n \in DOMAIN t.node,
         t.node[n].key # Nil, Main(t, t.node[n].key) # n
  PROVE  LET pred[p \in {None} \union DOMAIN t.node] ==
               IF p = None \/ t.node[p].next = n THEN p ELSE pred[t.node[p].next]
             q == pred[Main(t, t.node[n].key)]
         IN  q \in DOMAIN t.node /\ t.node[q].next = n
<1> DEFINE D == DOMAIN t.node
           pred[p \in {None} \union DOMAIN t.node] ==
             IF p = None \/ t.node[p].next = n THEN p ELSE pred[t.node[p].next]
           p == Main(t, t.node[n].key)
<1>0. t.node \in Nodes(t.hsize) /\ t.hsize \in Nat /\ D = 0..t.hsize - 1 /\ None \notin D
  BY DEF Good, Shape, Nodes, Record, None
<1>1. t.node[n].key \in Key
  BY <1>0 DEF Nodes, Record
<1>2. p \in D
  <2>1. t.hsize > 0
    BY <1>0
  <2> QED BY <1>0, <1>1, <2>1, MainType DEF Good
<1>3. n \in Chain(t.node, p)
  BY DEF Good, Anchored
<1>4. \A m \in D : t.node[m].next = None \/ t.node[m].next \in D
  BY <1>0 DEF Nodes, Record, None
<1> HIDE DEF p
<1>5. PICK q \in D : t.node[q].next = n
  <2> SUFFICES ASSUME \A m \in D : t.node[m].next # n PROVE FALSE
    OBVIOUS
  <2>1. D \ {n} \in SUBSET D /\ Closed(t.node, D \ {n})
    BY <1>4 DEF Closed
  <2>2. n \in D \ {n}
    BY <1>2, <1>3, <2>1 DEF Chain, p
  <2> QED BY <2>2
<1>6. \A m \in D : t.node[m].next = n => m = q
  BY <1>0, <1>5 DEF Good, Separate
<1>7. pred = [m \in {None} \union D |-> IF m = None \/ t.node[m].next = n THEN m ELSE pred[t.node[m].next]]
  <2> DEFINE On(m) == m \in D /\ t.node[m].next # None /\ n \in Chain(t.node, t.node[m].next)
             g == [m \in {None} \union D |-> IF On(m) THEN q ELSE None]
  <2>1. ASSUME NEW m \in D, t.node[m].next = n PROVE g[m] = m
    <3>1. n \in Chain(t.node, n)
      BY <1>0, ChainStep
    <3> QED BY <1>0, <1>6, <2>1, <3>1
  <2>2. ASSUME NEW m \in D, t.node[m].next # n PROVE g[m] = g[t.node[m].next]
    <3> DEFINE y == t.node[m].next
    <3>1. CASE y = None
      BY <1>0, <3>1
    <3>2. CASE y \in D
      <4>1. n \in Chain(t.node, y) <=> t.node[y].next # None /\ n \in Chain(t.node, t.node[y].next)
        BY <1>0, <2>2, <3>2, ChainStep
      <4>2. On(m) <=> On(y)
        BY <1>0, <3>2, <4>1
      <4> QED BY <3>2, <4>2
    <3> QED BY <1>4, <3>1, <3>2
  <2>3. g[None] = None
    BY <1>0
  <2>4. g = [m \in {None} \union D |-> IF m = None \/ t.node[m].next = n THEN m ELSE g[t.node[m].next]]
    <3> DEFINE h == [m \in {None} \union D |-> IF m = None \/ t.node[m].next = n THEN m ELSE g[t.node[m].next]]
    <3> SUFFICES ASSUME NEW m \in {None} \union D PROVE g[m] = h[m]
      OBVIOUS
    <3> HIDE DEF g
    <3> QED BY <2>1, <2>2, <2>3
  <2> HIDE DEF g
  <2> QED BY <2>4
<1> HIDE DEF pred
<1>8. \A m \in D : pred[m] = IF t.node[m].next = n THEN m ELSE pred[t.node[m].next]
  BY <1>0, <1>7
<1>9. pred[p] = q
  <2> SUFFICES ASSUME pred[p] # q PROVE FALSE
    OBVIOUS
  <2> DEFINE S == {m \in D : m # n /\ pred[m] # q}
  <2>1. pred[q] = q
    BY <1>5, <1>8
  <2>2. ASSUME NEW m \in S PROVE t.node[m].next = None \/ t.node[m].next \in S
    <3>1. t.node[m].next # n
      BY <1>6, <2>1
    <3> QED BY <1>4, <1>8, <3>1
  <2>3. S \in SUBSET D /\ p \in S
    BY <1>2 DEF p
  <2> HIDE DEF S
  <2>4. Closed(t.node, S)
    BY <2>2 DEF Closed
  <2>5. n \in S
    BY <1>3, <2>3, <2>4 DEF Chain
  <2> QED BY <2>5 DEF S
<1> QED BY <1>5, <1>9 DEF pred, p

(***************************************************************************)
(* Reads and insertions.                                                   *)
(***************************************************************************)

\* A set of numbers with a bound has a greatest one.
LEMMA MaxSpec ==
  ASSUME NEW N \in Nat, NEW S \in SUBSET (0..N), S # {}
  PROVE  Max(S) \in S /\ \A x \in S : x <= Max(S)
<1> DEFINE T == {N - x : x \in S}
<1>1. PICK m \in T : \A y \in T : m <= y
  <2>0. \A x \in S : N - x \in Nat
    OBVIOUS
  <2>1. T \in SUBSET Nat /\ T # {}
    BY <2>0
  <2> HIDE DEF T
  <2> QED BY <2>1, LeastNat
<1>2. PICK x \in S : m = N - x
  OBVIOUS
<1>3. \A y \in S : x >= y
  BY <1>1, <1>2
<1> QED BY <1>3 DEF Max

\* Likewise the least one.
LEMMA MinSpec ==
  ASSUME NEW S \in SUBSET Nat, S # {}
  PROVE  Min(S) \in S /\ \A x \in S : Min(S) <= x
<1>1. \E m \in S : \A x \in S : m <= x
  BY LeastNat
<1> QED BY <1>1 DEF Min

\* What the nodes of a table are.
LEMMA NodeFacts ==
  ASSUME NEW t, Shape(t), hash \in [Key -> Nat]
  PROVE  /\ t.hsize \in Nat /\ t.free \in 0..t.hsize
         /\ DOMAIN t.node = 0..t.hsize - 1 /\ None \notin DOMAIN t.node
         /\ t.node \in Nodes(t.hsize)
         /\ \A n \in DOMAIN t.node :
              /\ t.node[n] = [key |-> t.node[n].key, val |-> t.node[n].val, next |-> t.node[n].next]
              /\ t.node[n].key \in Key \union {Nil} /\ t.node[n].val \in Key \union {Nil}
              /\ t.node[n].next = None \/ t.node[n].next \in DOMAIN t.node
         /\ \A k \in Key : t.hsize > 0 => Main(t, k) \in DOMAIN t.node
         /\ \A n \in DOMAIN t.node : t.node[n].key # Nil => Main(t, t.node[n].key) \in DOMAIN t.node
<1>1. t.hsize \in Nat /\ t.free \in 0..t.hsize /\ t.node \in Nodes(t.hsize)
  BY DEF Shape
<1>2. DOMAIN t.node = 0..t.hsize - 1 /\ None \notin DOMAIN t.node
  BY <1>1 DEF Nodes, Record, None
<1>3. \A n \in DOMAIN t.node :
        /\ t.node[n] = [key |-> t.node[n].key, val |-> t.node[n].val, next |-> t.node[n].next]
        /\ t.node[n].key \in Key \union {Nil} /\ t.node[n].val \in Key \union {Nil}
        /\ t.node[n].next \in -1..t.hsize - 1
  BY <1>1, <1>2 DEF Nodes, Record
<1>4. ASSUME NEW n \in DOMAIN t.node PROVE t.node[n].next = None \/ t.node[n].next \in DOMAIN t.node
  <2>1. \A y \in -1..t.hsize - 1 : y = -1 \/ y \in 0..t.hsize - 1
    BY <1>1
  <2> QED BY <1>2, <1>3, <2>1 DEF None
<1>5. \A k \in Key : t.hsize > 0 => Main(t, k) \in DOMAIN t.node
  BY <1>2, MainType
<1>6. \A n \in DOMAIN t.node : t.hsize > 0
  BY <1>1, <1>2
<1> QED BY <1>1, <1>2, <1>3, <1>4, <1>5, <1>6

\* A read, by where the key is.
LEMMA GetSpec ==
  ASSUME NEW t, Good(t), hash \in [Key -> Nat], NEW k \in Key
  PROVE  /\ k \in DOMAIN t.arr => Get(t, k) = t.arr[k]
         /\ \A n \in DOMAIN t.node : t.node[n].key = k => Get(t, k) = t.node[n].val
         /\ k \notin DOMAIN t.arr /\ (\A n \in DOMAIN t.node : t.node[n].key # k) => Get(t, k) = Nil
         /\ Get(t, k) \in Key \union {Nil}
<1>1. k \in DOMAIN t.arr => Get(t, k) = t.arr[k]
  BY DEF Get, InArray
<1>2. ASSUME NEW n \in DOMAIN t.node, t.node[n].key = k PROVE Get(t, k) = t.node[n].val
  <2>1. k \notin DOMAIN t.arr
    BY <1>2, ConstantsOK DEF Good, InPlace
  <2>2. Find(t, k) = n /\ n # None
    BY <1>2, FindSpec, NodeFacts DEF Good
  <2> QED BY <2>1, <2>2 DEF Get, InArray
<1>3. ASSUME k \notin DOMAIN t.arr, \A n \in DOMAIN t.node : t.node[n].key # k PROVE Get(t, k) = Nil
  <2>1. Find(t, k) = None
    BY <1>3, FindSpec
  <2> QED BY <1>3, <2>1 DEF Get, InArray
<1>4. Get(t, k) \in Key \union {Nil}
  BY <1>1, <1>2, <1>3 DEF Good, Shape, Nodes, Record
<1> QED BY <1>1, <1>2, <1>3, <1>4

\* The free node is the last one that was never used.
LEMMA FreeSpec ==
  ASSUME NEW t, Good(t)
  PROVE  /\ FreeNode(t) = None => \A n \in DOMAIN t.node : t.node[n].key # Nil
         /\ FreeNode(t) # None => /\ FreeNode(t) \in 0..t.free - 1 /\ FreeNode(t) \in DOMAIN t.node
                                  /\ t.node[FreeNode(t)].key = Nil
                                  /\ \A n \in DOMAIN t.node : n > FreeNode(t) => t.node[n].key # Nil
<1> DEFINE U == {f \in 0..t.free - 1 : t.node[f].key = Nil}
<1>0. t.hsize \in Nat /\ t.free \in 0..t.hsize /\ DOMAIN t.node = 0..t.hsize - 1
  BY DEF Good, Shape, Nodes, Record
<1>1. \A n \in DOMAIN t.node : n \in U \/ t.node[n].key # Nil
  BY <1>0 DEF Good, TopUsed
<1>2. CASE U = {}
  BY <1>1, <1>2 DEF FreeNode
<1>3. CASE U # {}
  <2>1. FreeNode(t) = Max(U)
    BY <1>3 DEF FreeNode
  <2>2. U \in SUBSET (0..t.hsize)
    BY <1>0
  <2>3. Max(U) \in U /\ \A x \in U : x <= Max(U)
    <3> HIDE DEF U
    <3> QED BY <1>0, <1>3, <2>2, MaxSpec
  <2>4. Max(U) \in 0..t.free - 1 /\ t.node[Max(U)].key = Nil
    BY <2>3
  <2>5. \A n \in DOMAIN t.node : n > Max(U) => t.node[n].key # Nil
    <3> HIDE DEF U
    <3> QED BY <1>0, <1>1, <2>3, <2>4
  <2>6. Max(U) \in DOMAIN t.node /\ Max(U) # None
    BY <1>0, <2>4 DEF None
  <2> HIDE DEF U
  <2> QED BY <2>1, <2>4, <2>5, <2>6
<1> QED BY <1>2, <1>3

\* Where no link changes, no chain does.
LEMMA SameLinks ==
  ASSUME NEW N, NEW M, DOMAIN N = DOMAIN M, \A n \in DOMAIN N : M[n].next = N[n].next
  PROVE  /\ \A p : Chain(M, p) = Chain(N, p)
         /\ Ending(N) => Ending(M)
<1>1. \A S \in SUBSET DOMAIN N : Closed(N, S) <=> Closed(M, S)
  BY DEF Closed
<1> QED BY <1>1 DEF Chain, Ending

\* A table with one field of the array part changed.
LEMMA ArrayUpdated ==
  ASSUME NEW t, Shape(t), NEW k \in DOMAIN t.arr, NEW v \in Key \union {Nil}
  PROVE  LET r == [t EXCEPT !.arr[k] = v]
         IN  /\ r = [arr |-> r.arr, hsize |-> t.hsize, node |-> t.node, free |-> t.free]
             /\ r.hsize = t.hsize /\ r.node = t.node /\ r.free = t.free
             /\ DOMAIN r.arr = DOMAIN t.arr
             /\ r.arr[k] = v /\ \A i \in DOMAIN t.arr : i # k => r.arr[i] = t.arr[i]
             /\ r.arr \in [0..Asize(t) - 1 -> Key \union {Nil}]
<1> DEFINE r == [t EXCEPT !.arr[k] = v]
<1>0. /\ t = [arr |-> t.arr, hsize |-> t.hsize, node |-> t.node, free |-> t.free]
      /\ t.arr \in [0..Asize(t) - 1 -> Key \union {Nil}] /\ k \in DOMAIN t.arr
  BY DEF Shape
<1>1. r.arr = [t.arr EXCEPT ![k] = v]
  BY <1>0
<1>2. r.hsize = t.hsize /\ r.node = t.node /\ r.free = t.free
  BY <1>0
<1>3. r = [arr |-> r.arr, hsize |-> r.hsize, node |-> r.node, free |-> r.free]
  BY <1>0
<1> HIDE DEF r
<1>4. /\ r = [arr |-> r.arr, hsize |-> t.hsize, node |-> t.node, free |-> t.free]
      /\ r.hsize = t.hsize /\ r.node = t.node /\ r.free = t.free
      /\ DOMAIN r.arr = DOMAIN t.arr
      /\ r.arr[k] = v /\ \A i \in DOMAIN t.arr : i # k => r.arr[i] = t.arr[i]
      /\ r.arr \in [0..Asize(t) - 1 -> Key \union {Nil}]
  BY <1>0, <1>1, <1>2, <1>3
<1> QED BY <1>4 DEF r

\* A field of the array part is assigned.
LEMMA SetArray ==
  ASSUME NEW t, Good(t), hash \in [Key -> Nat], NEW k \in Key, NEW v \in Key \union {Nil}, InArray(t, k)
  PROVE  Stored(t, k, v, [t EXCEPT !.arr[k] = v])
<1> DEFINE r == [t EXCEPT !.arr[k] = v]
<1>0. Shape(t) /\ k \in DOMAIN t.arr
  BY DEF Good, InArray
<1>1. /\ r = [arr |-> r.arr, hsize |-> t.hsize, node |-> t.node, free |-> t.free]
      /\ r.hsize = t.hsize /\ r.node = t.node /\ r.free = t.free
      /\ DOMAIN r.arr = DOMAIN t.arr
      /\ r.arr[k] = v /\ \A i \in DOMAIN t.arr : i # k => r.arr[i] = t.arr[i]
      /\ r.arr \in [0..Asize(t) - 1 -> Key \union {Nil}]
  BY <1>0, ArrayUpdated
<1>2. Asize(r) = Asize(t)
  BY <1>1 DEF Asize
<1> HIDE DEF r
<1>3. Shape(r)
  BY <1>1, <1>2 DEF Good, Shape
<1>4. InPlace(r)
  BY <1>1 DEF Good, InPlace
<1>5. Separate(r) /\ Anchored(r) /\ TopUsed(r)
  <2>1. \A j : Main(r, j) = Main(t, j)
    BY <1>1 DEF Main
  <2>2. Anchored(r)
    BY <1>1, <2>1 DEF Good, Anchored
  <2> QED BY <1>1, <2>2 DEF Good, Separate, TopUsed
<1>6. Good(r)
  BY <1>3, <1>4, <1>5 DEF Good
<1>7. Keyed(r) = Keyed(t)
  BY <1>1 DEF Keyed
<1>8. ASSUME NEW j \in Key PROVE Get(r, j) = IF j = k THEN v ELSE Get(t, j)
  <2>1. CASE j \in DOMAIN t.arr
    BY <1>1, <1>6, <2>1, GetSpec DEF InArray
  <2>2. CASE j \notin DOMAIN t.arr
    <3>1. Get(r, j) = Get(t, j)
      <4>1. DOMAIN r.arr = DOMAIN t.arr /\ r.node = t.node
        BY <1>1
      <4> HIDE DEF r
      <4>2. ASSUME NEW n \in DOMAIN t.node, t.node[n].key = j PROVE Get(r, j) = Get(t, j)
        <5>1. Get(t, j) = t.node[n].val
          BY <4>2, GetSpec
        <5>2. Get(r, j) = r.node[n].val
          BY <1>6, <4>1, <4>2, GetSpec
        <5> QED BY <4>1, <5>1, <5>2
      <4>3. ASSUME \A n \in DOMAIN t.node : t.node[n].key # j PROVE Get(r, j) = Get(t, j)
        <5>1. Get(t, j) = Nil
          BY <2>2, <4>3, GetSpec
        <5>2. Get(r, j) = Nil
          BY <1>6, <2>2, <4>1, <4>3, GetSpec
        <5> QED BY <5>1, <5>2
      <4> QED BY <4>2, <4>3
    <3> QED BY <2>2, <3>1 DEF InArray
  <2> QED BY <2>1, <2>2
<1> QED BY <1>1, <1>6, <1>7, <1>8 DEF Stored, r

\* A table with one value of a node changed.
LEMMA NodeUpdated ==
  ASSUME NEW t, Shape(t), hash \in [Key -> Nat], NEW n \in DOMAIN t.node, NEW v \in Key \union {Nil},
         NEW r, r = [t EXCEPT !.node[n].val = v]
  PROVE  LET N == r.node
         IN  /\ r = [arr |-> t.arr, hsize |-> t.hsize, node |-> N, free |-> t.free]
             /\ r.hsize = t.hsize /\ r.arr = t.arr /\ r.free = t.free /\ DOMAIN N = DOMAIN t.node
             /\ N \in Nodes(t.hsize)
             /\ \A m \in DOMAIN N : N[m].key = t.node[m].key /\ N[m].next = t.node[m].next
             /\ N[n].val = v /\ \A m \in DOMAIN N : m # n => N[m].val = t.node[m].val
<1> DEFINE N == r.node
<1>0. /\ t.node \in Nodes(t.hsize)
      /\ t = [arr |-> t.arr, hsize |-> t.hsize, node |-> t.node, free |-> t.free]
  BY DEF Shape
<1>1. /\ r = [arr |-> t.arr, hsize |-> t.hsize, node |-> N, free |-> t.free]
      /\ r.hsize = t.hsize /\ r.arr = t.arr /\ r.free = t.free /\ DOMAIN N = DOMAIN t.node
      /\ N \in Nodes(t.hsize)
      /\ \A m \in DOMAIN N : N[m].key = t.node[m].key /\ N[m].next = t.node[m].next
      /\ N[n].val = v /\ \A m \in DOMAIN N : m # n => N[m].val = t.node[m].val
  <2>1. /\ r = [arr |-> t.arr, hsize |-> t.hsize, node |-> N, free |-> t.free]
        /\ r.hsize = t.hsize /\ r.arr = t.arr /\ r.free = t.free
        /\ N = [t.node EXCEPT ![n].val = v]
    BY <1>0
  <2>2. DOMAIN N = DOMAIN t.node
    BY <2>1
  <2>3. N[n] = [key |-> t.node[n].key, val |-> v, next |-> t.node[n].next]
        /\ \A m \in DOMAIN N : m # n => N[m] = t.node[m]
    <3>1. N[n] = [t.node[n] EXCEPT !.val = v] /\ \A m \in DOMAIN N : m # n => N[m] = t.node[m]
      BY <2>1
    <3>2. t.node[n] = [key |-> t.node[n].key, val |-> t.node[n].val, next |-> t.node[n].next]
      BY NodeFacts
    <3>3. [t.node[n] EXCEPT !.val = v] = [key |-> t.node[n].key, val |-> v, next |-> t.node[n].next]
      BY <3>2
    <3> QED BY <3>1, <3>3
  <2>4. N \in Nodes(t.hsize)
    <3>1. \A m \in DOMAIN t.node : t.node[m] \in Record(t.hsize)
      BY <1>0 DEF Nodes
    <3>2. [key |-> t.node[n].key, val |-> v, next |-> t.node[n].next] \in Record(t.hsize)
      BY <3>1 DEF Record
    <3>3. \A m \in DOMAIN t.node : N[m] \in Record(t.hsize)
      BY <2>2, <2>3, <3>1, <3>2
    <3> QED BY <1>0, <2>1, <2>2, <3>3 DEF Nodes
  <2>5. \A m \in DOMAIN N : N[m].key = t.node[m].key /\ N[m].next = t.node[m].next
    BY <2>3
  <2> QED BY <2>1, <2>2, <2>3, <2>4, <2>5
<1> QED BY <1>1

\* The value of a node is assigned.
LEMMA SetFound ==
  ASSUME NEW t, Good(t), hash \in [Key -> Nat], NEW k \in Key, NEW v \in Key \union {Nil},
         NEW n \in DOMAIN t.node, t.node[n].key = k
  PROVE  Stored(t, k, v, [t EXCEPT !.node[n].val = v])
<1> DEFINE r == [t EXCEPT !.node[n].val = v]
           N == r.node
<1>0. k # Nil
  BY ConstantsOK
<1>f. Shape(t)
  BY DEF Good
<1>e. r = [t EXCEPT !.node[n].val = v]
  OBVIOUS
<1> HIDE DEF r
<1>1. /\ r = [arr |-> t.arr, hsize |-> t.hsize, node |-> N, free |-> t.free]
      /\ r.hsize = t.hsize /\ r.arr = t.arr /\ r.free = t.free /\ DOMAIN N = DOMAIN t.node
      /\ N \in Nodes(t.hsize)
      /\ \A m \in DOMAIN N : N[m].key = t.node[m].key /\ N[m].next = t.node[m].next
      /\ N[n].val = v /\ \A m \in DOMAIN N : m # n => N[m].val = t.node[m].val
  <2>1. /\ r = [arr |-> t.arr, hsize |-> t.hsize, node |-> r.node, free |-> t.free]
        /\ r.hsize = t.hsize /\ r.arr = t.arr /\ r.free = t.free
    <3>1. t = [arr |-> t.arr, hsize |-> t.hsize, node |-> t.node, free |-> t.free]
      BY <1>f DEF Shape
    <3> QED BY <1>e, <3>1
  <2>2. r.node \in Nodes(t.hsize)
    BY <1>f, <1>e, NodeUpdated
  <2>3. /\ DOMAIN r.node = DOMAIN t.node
        /\ \A m \in DOMAIN r.node : r.node[m].key = t.node[m].key /\ r.node[m].next = t.node[m].next
    BY <1>f, <1>e, NodeUpdated
  <2>4. r.node[n].val = v /\ \A m \in DOMAIN r.node : m # n => r.node[m].val = t.node[m].val
    BY <1>f, <1>e, NodeUpdated
  <2> QED BY <2>1, <2>2, <2>3, <2>4
<1>2. Asize(r) = Asize(t)
  BY <1>1 DEF Asize
<1>3. Shape(r)
  BY <1>1, <1>2 DEF Good, Shape
<1>4. InPlace(r)
  BY <1>0, <1>1 DEF Good, InPlace
<1>5. (\A p : Chain(N, p) = Chain(t.node, p)) /\ Ending(N)
  BY <1>1, SameLinks DEF Good, Separate
<1>6. Separate(r)
  <2>1. \A m \in DOMAIN t.node : t.node[m].next # None => t.node[m].next \in DOMAIN t.node
    BY <1>f, NodeFacts
  <2> QED BY <1>1, <1>5, <2>1 DEF Good, Separate
<1>7. Anchored(r)
  <2> SUFFICES ASSUME NEW m \in DOMAIN N, N[m].key # Nil
               PROVE  LET p == Main(r, N[m].key)
                      IN  m \in Chain(N, p) /\ N[p].key # Nil /\ Main(r, N[p].key) = p
    BY DEF Anchored
  <2> DEFINE p == Main(t, t.node[m].key)
  <2>1. p \in DOMAIN t.node /\ m \in Chain(t.node, p) /\ t.node[p].key # Nil /\ Main(t, t.node[p].key) = p
    <3>1. m \in DOMAIN t.node /\ t.node[m].key # Nil
      BY <1>1
    <3>2. p \in DOMAIN t.node
      BY <1>f, <3>1, NodeFacts
    <3> HIDE DEF p
    <3> QED BY <3>1, <3>2 DEF Good, Anchored, p
  <2> QED BY <1>1, <1>5, <2>1 DEF Main
<1>8. TopUsed(r)
  BY <1>1 DEF Good, TopUsed
<1>9. Good(r)
  BY <1>3, <1>4, <1>6, <1>7, <1>8 DEF Good
<1>10. Keyed(r) = Keyed(t)
  BY <1>1 DEF Keyed
<1>11. ASSUME NEW j \in Key PROVE Get(r, j) = IF j = k THEN v ELSE Get(t, j)
  <2>1. CASE j = k
    BY <1>1, <1>9, <2>1, GetSpec
  <2>2. CASE j # k
    <3>1. CASE j \in DOMAIN t.arr
      BY <1>1, <1>9, <2>2, <3>1, GetSpec
    <3>2. CASE \E m \in DOMAIN t.node : t.node[m].key = j
      <4>1. PICK m \in DOMAIN t.node : t.node[m].key = j
        BY <3>2
      <4> QED BY <1>1, <1>9, <2>2, <4>1, GetSpec
    <3>3. CASE j \notin DOMAIN t.arr /\ \A m \in DOMAIN t.node : t.node[m].key # j
      BY <1>1, <1>9, <2>2, <3>3, GetSpec
    <3> QED BY <3>1, <3>2, <3>3
  <2> QED BY <2>1, <2>2
<1> QED BY <1>1, <1>9, <1>10, <1>11 DEF Stored, r

\* A table with other nodes stores v under k if a node holds the pair, every
\* other field of it is one of t, and no field of t is lost.
LEMMA StoredByNodes ==
  ASSUME NEW t, Good(t), hash \in [Key -> Nat], NEW k \in Key, NEW v \in Key \union {Nil}, ~InArray(t, k),
         NEW r, Good(r), r.arr = t.arr, r.hsize = t.hsize,
         \E n \in DOMAIN r.node : r.node[n].key = k /\ r.node[n].val = v,
         \A n \in DOMAIN r.node : r.node[n].key \in {Nil, k} \/
           \E m \in DOMAIN t.node : t.node[m].key = r.node[n].key /\ t.node[m].val = r.node[n].val,
         \A m \in DOMAIN t.node : t.node[m].key # Nil /\ t.node[m].key # k /\ t.node[m].val # Nil =>
           \E n \in DOMAIN r.node : r.node[n].key = t.node[m].key /\ r.node[n].val = t.node[m].val
  PROVE  Stored(t, k, v, r)
<1>1. Keyed(r) \subseteq Keyed(t) \union {k}
  BY DEF Keyed
<1>2. ASSUME NEW j \in Key PROVE Get(r, j) = IF j = k THEN v ELSE Get(t, j)
  <2>0. j # Nil
    BY ConstantsOK
  <2>1. CASE j = k
    BY <2>1, GetSpec
  <2>2. CASE j # k /\ j \in DOMAIN t.arr
    BY <2>2, GetSpec
  <2>3. CASE j # k /\ \E n \in DOMAIN r.node : r.node[n].key = j
    <3>1. PICK n \in DOMAIN r.node : r.node[n].key = j
      BY <2>3
    <3>2. PICK m \in DOMAIN t.node : t.node[m].key = j /\ t.node[m].val = r.node[n].val
      BY <2>0, <2>3, <3>1
    <3>3. Get(r, j) = r.node[n].val
      BY <3>1, GetSpec
    <3>4. Get(t, j) = t.node[m].val
      BY <3>2, GetSpec
    <3> QED BY <2>3, <3>2, <3>3, <3>4
  <2>4. CASE j # k /\ j \notin DOMAIN t.arr /\ \A n \in DOMAIN r.node : r.node[n].key # j
    <3>1. Get(r, j) = Nil
      BY <2>4, GetSpec
    <3>2. CASE \E m \in DOMAIN t.node : t.node[m].key = j
      <4>1. PICK m \in DOMAIN t.node : t.node[m].key = j
        BY <3>2
      <4>2. t.node[m].val = Nil
        BY <2>0, <2>4, <4>1
      <4>3. Get(t, j) = t.node[m].val
        BY <4>1, GetSpec
      <4> QED BY <2>4, <3>1, <4>2, <4>3
    <3>3. CASE \A m \in DOMAIN t.node : t.node[m].key # j
      BY <2>4, <3>1, <3>3, GetSpec
    <3> QED BY <3>2, <3>3
  <2> QED BY <2>1, <2>2, <2>3, <2>4
<1> QED BY <1>1, <1>2 DEF Stored

\* The record that a new pair is stored in.
LEMMA RecordType ==
  ASSUME NEW size \in Nat, NEW k \in Key, NEW v \in Key \union {Nil},
         NEW y, y = None \/ y \in 0..size - 1
  PROVE  [key |-> k, val |-> v, next |-> y] \in Record(size)
<1>1. y \in -1..size - 1
  BY DEF None
<1> QED BY <1>1 DEF Record

\* Records of nodes, changed field by field.
LEMMA NodeChanges ==
  ASSUME NEW x, x = [key |-> x.key, val |-> x.val, next |-> x.next], NEW a, NEW b, NEW c
  PROVE  /\ [[x EXCEPT !.key = a] EXCEPT !.val = b] = [key |-> a, val |-> b, next |-> x.next]
         /\ [x EXCEPT !.next = c] = [key |-> x.key, val |-> x.val, next |-> c]
<1> DEFINE y == [x EXCEPT !.key = a]
<1>1. y = [key |-> a, val |-> x.val, next |-> x.next]
  OBVIOUS
<1>2. [y EXCEPT !.val = b] = [key |-> a, val |-> b, next |-> x.next]
  <2> HIDE DEF y
  <2> QED BY <1>1
<1>3. [x EXCEPT !.next = c] = [key |-> x.key, val |-> x.val, next |-> c]
  OBVIOUS
<1> QED BY <1>2, <1>3

\* A table with other nodes.
LEMMA TableChanges ==
  ASSUME NEW t, t = [arr |-> t.arr, hsize |-> t.hsize, node |-> t.node, free |-> t.free], NEW f, NEW a, NEW b
  PROVE  /\ [[t EXCEPT !.node = a] EXCEPT !.node = b]
              = [arr |-> t.arr, hsize |-> t.hsize, node |-> b, free |-> t.free]
         /\ [[t EXCEPT !.free = f] EXCEPT !.node = b]
              = [arr |-> t.arr, hsize |-> t.hsize, node |-> b, free |-> f]
<1> DEFINE x == [t EXCEPT !.node = a]
           y == [t EXCEPT !.free = f]
<1>1. x = [arr |-> t.arr, hsize |-> t.hsize, node |-> a, free |-> t.free]
  OBVIOUS
<1>2. y = [arr |-> t.arr, hsize |-> t.hsize, node |-> t.node, free |-> f]
  OBVIOUS
<1> HIDE DEF x, y
<1>3. [x EXCEPT !.node = b] = [arr |-> t.arr, hsize |-> t.hsize, node |-> b, free |-> t.free]
  BY <1>1
<1>4. [y EXCEPT !.node = b] = [arr |-> t.arr, hsize |-> t.hsize, node |-> b, free |-> f]
  BY <1>2
<1> QED BY <1>3, <1>4 DEF x, y

\* The main position of the key is not in use: it gets the pair and stays on its chain.
LEMMA SetUnused ==
  ASSUME NEW t, Good(t), hash \in [Key -> Nat], NEW k \in Key, NEW v \in Key \union {Nil},
         ~InArray(t, k), \A m \in DOMAIN t.node : t.node[m].key # k, t.hsize > 0,
         t.node[Main(t, k)].val = Nil
  PROVE  Stored(t, k, v, [t EXCEPT !.node[Main(t, k)].key = k, !.node[Main(t, k)].val = v])
<1> DEFINE n == Main(t, k)
           r == [t EXCEPT !.node[n].key = k, !.node[n].val = v]
           N == r.node
           D == DOMAIN t.node
<1>s. Shape(t) /\ InPlace(t) /\ Separate(t) /\ Anchored(t) /\ TopUsed(t) /\ k # Nil
  BY ConstantsOK DEF Good
<1>n. n \in D
  BY <1>s, NodeFacts
<1>v. t.node[n].val = Nil
  OBVIOUS
<1> DEFINE R == [key |-> k, val |-> v, next |-> t.node[n].next]
<1>1. /\ r = [arr |-> t.arr, hsize |-> t.hsize, node |-> N, free |-> t.free]
      /\ r.hsize = t.hsize /\ r.arr = t.arr /\ r.free = t.free
      /\ N = [t.node EXCEPT ![n] = R]
  <2>1. t = [arr |-> t.arr, hsize |-> t.hsize, node |-> t.node, free |-> t.free]
    BY <1>s DEF Shape
  <2>2. t.node[n] = [key |-> t.node[n].key, val |-> t.node[n].val, next |-> t.node[n].next]
    BY <1>s, <1>n, NodeFacts
  <2>3. N = [[t.node EXCEPT ![n].key = k] EXCEPT ![n].val = v]
    BY <2>1
  <2>4. [[t.node[n] EXCEPT !.key = k] EXCEPT !.val = v] = R
    <3> DEFINE x == t.node[n]
    <3>1. x = [key |-> x.key, val |-> x.val, next |-> x.next]
      BY <2>2
    <3>2. R = [key |-> k, val |-> v, next |-> x.next]
      OBVIOUS
    <3> HIDE DEF x, R
    <3>3. [[x EXCEPT !.key = k] EXCEPT !.val = v] = R
      BY <3>1, <3>2, NodeChanges, Zenon
    <3> QED BY <3>3 DEF x
  <2>5. N = [t.node EXCEPT ![n] = R]
    <3> DEFINE M == [t.node EXCEPT ![n].key = k]
    <3>1. M[n] = [t.node[n] EXCEPT !.key = k] /\ DOMAIN M = D /\ \A m \in D : m # n => M[m] = t.node[m]
      BY <1>n
    <3>2. N = [M EXCEPT ![n] = [M[n] EXCEPT !.val = v]]
      BY <2>3
    <3>3. N = [M EXCEPT ![n] = R]
      BY <2>4, <3>1, <3>2
    <3>4. DOMAIN M = D /\ \A m \in D : m # n => M[m] = t.node[m]
      BY <3>1
    <3> HIDE DEF M, R, r, n, N
    <3> QED BY <3>3, <3>4
  <2>6. /\ r = [arr |-> t.arr, hsize |-> t.hsize, node |-> N, free |-> t.free]
        /\ r.hsize = t.hsize /\ r.arr = t.arr /\ r.free = t.free
    <3> DEFINE a == [t.node EXCEPT ![n].key = k]
               b == [[t EXCEPT !.node = a].node EXCEPT ![n].val = v]
    <3>1. r = [[t EXCEPT !.node = a] EXCEPT !.node = b]
      OBVIOUS
    <3> HIDE DEF a, b, r
    <3>2. r = [arr |-> t.arr, hsize |-> t.hsize, node |-> b, free |-> t.free]
      BY <2>1, <3>1, TableChanges, Zenon
    <3> QED BY <3>2
  <2> HIDE DEF r
  <2> QED BY <2>5, <2>6
<1> HIDE DEF r, n
<1>2. DOMAIN N = D /\ N[n] = R /\ \A m \in D : m # n => N[m] = t.node[m]
  BY <1>n, <1>1
<1>3. N \in Nodes(t.hsize)
  <2>1. R \in Record(t.hsize)
    BY <1>s, <1>n, NodeFacts, RecordType
  <2>2. D = 0..t.hsize - 1 /\ \A m \in D : t.node[m] \in Record(t.hsize)
    BY <1>s, NodeFacts DEF Nodes
  <2> HIDE DEF R
  <2> QED BY <1>1, <1>2, <2>1, <2>2 DEF Nodes
<1>4. Shape(r)
  <2>1. Asize(r) = Asize(t)
    BY <1>1 DEF Asize
  <2> HIDE DEF R
  <2> QED BY <1>1, <1>3, <1>s, <2>1 DEF Shape
<1>5. N[n].key = k /\ N[n].val = v /\ N[n].next = t.node[n].next
  BY <1>2
<1> HIDE DEF R
<1>6. \A m \in D : N[m].next = t.node[m].next
  BY <1>2, <1>5
<1>7. InPlace(r)
  <2>1. k \notin DOMAIN t.arr
    BY DEF InArray
  <2> QED BY <1>s, <1>1, <1>2, <1>5, <2>1 DEF InPlace
<1>8. (\A p : Chain(N, p) = Chain(t.node, p)) /\ Ending(N)
  BY <1>s, <1>2, <1>6, SameLinks DEF Separate
<1>9. Separate(r)
  <2>1. \A m \in D : t.node[m].next = None \/ t.node[m].next \in D
    BY <1>s, NodeFacts
  <2> QED BY <1>s, <1>1, <1>2, <1>5, <1>6, <1>8, <2>1 DEF Separate
<1>m. \A j : Main(r, j) = Main(t, j)
  BY <1>1 DEF Main
<1>10. Anchored(r)
  <2> SUFFICES ASSUME NEW m \in D, N[m].key # Nil
               PROVE  /\ m \in Chain(N, Main(r, N[m].key))
                      /\ N[Main(r, N[m].key)].key # Nil
                      /\ Main(r, N[Main(r, N[m].key)].key) = Main(r, N[m].key)
    BY <1>2 DEF Anchored
  <2>1. CASE m = n
    <3>1. n \in Chain(t.node, n)
      BY <1>s, <1>n, NodeFacts, ChainStep
    <3> QED BY <1>s, <1>5, <1>8, <1>m, <2>1, <3>1 DEF n
  <2>2. CASE m # n
    <3> DEFINE p == Main(t, t.node[m].key)
    <3>1. t.node[m].key # Nil /\ N[m].key = t.node[m].key
      BY <1>2, <2>2
    <3>2. p \in D /\ m \in Chain(t.node, p) /\ t.node[p].key # Nil /\ Main(t, t.node[p].key) = p
      BY <1>s, <3>1, NodeFacts DEF Anchored
    <3>3. CASE p = n
      BY <1>s, <1>5, <1>8, <1>m, <3>1, <3>2, <3>3 DEF n
    <3>4. CASE p # n
      BY <1>2, <1>8, <1>m, <3>1, <3>2, <3>4
    <3> QED BY <3>3, <3>4
  <2> QED BY <2>1, <2>2
<1>11. TopUsed(r)
  BY <1>s, <1>1, <1>2, <1>5 DEF TopUsed
<1>12. Good(r)
  BY <1>4, <1>7, <1>9, <1>10, <1>11 DEF Good
<1>13. Stored(t, k, v, r)
  <2>1. \E m \in DOMAIN N : N[m].key = k /\ N[m].val = v
    BY <1>n, <1>2, <1>5
  <2>2. \A m \in DOMAIN N : N[m].key \in {Nil, k} \/
          \E x \in D : t.node[x].key = N[m].key /\ t.node[x].val = N[m].val
    BY <1>2, <1>5
  <2>3. \A m \in D : t.node[m].key # Nil /\ t.node[m].key # k /\ t.node[m].val # Nil =>
          \E x \in DOMAIN N : N[x].key = t.node[m].key /\ N[x].val = t.node[m].val
    BY <1>2, <1>v
  <2> QED BY <1>1, <1>12, <2>1, <2>2, <2>3, StoredByNodes
<1> QED BY <1>13 DEF r, n

\* The main position n holds a key that belongs there: the pair goes to the free
\* node, behind n.
LEMMA SetChained ==
  ASSUME NEW t, Good(t), hash \in [Key -> Nat], NEW k \in Key, NEW v \in Key \union {Nil},
         ~InArray(t, k), \A m \in DOMAIN t.node : t.node[m].key # k, t.hsize > 0,
         t.node[Main(t, k)].val # Nil, Main(t, t.node[Main(t, k)].key) = Main(t, k), FreeNode(t) # None
  PROVE  Stored(t, k, v, Chained(t, k, v, Main(t, k), FreeNode(t)))
<1> DEFINE n == Main(t, k)
           f == FreeNode(t)
           r == Chained(t, k, v, n, f)
           N == r.node
           D == DOMAIN t.node
           y == t.node[n].next
           R == [key |-> k, val |-> v, next |-> y]
           Q == [key |-> t.node[n].key, val |-> t.node[n].val, next |-> f]
<1>s. Shape(t) /\ InPlace(t) /\ Separate(t) /\ Anchored(t) /\ TopUsed(t) /\ k # Nil
  BY ConstantsOK DEF Good
<1>n. n \in D
  BY <1>s, NodeFacts
<1>v. t.node[n].val # Nil /\ Main(t, t.node[n].key) = n
  OBVIOUS
<1>f. /\ f \in D /\ f \in 0..t.free - 1 /\ t.node[f].key = Nil
      /\ \A m \in D : m > f => t.node[m].key # Nil
  BY FreeSpec
<1>d. D = 0..t.hsize - 1 /\ t.hsize \in Nat /\ t.free \in 0..t.hsize /\ None \notin D
  BY <1>s, NodeFacts
<1> HIDE DEF n, f
<1>k. t.node[n].key # Nil /\ n # f
  BY <1>s, <1>n, <1>v, <1>f DEF InPlace
<1>y. (y = None \/ y \in D) /\ y # f
  <2>1. y = None \/ y \in D
    BY <1>s, <1>n, NodeFacts
  <2>2. y # None => t.node[y].key # Nil
    BY <1>s, <1>n DEF Separate
  <2> QED BY <1>d, <1>f, <2>1, <2>2
<1>1. /\ r = [arr |-> t.arr, hsize |-> t.hsize, node |-> N, free |-> f]
      /\ r.hsize = t.hsize /\ r.arr = t.arr /\ r.free = f
      /\ N = [t.node EXCEPT ![f] = R, ![n] = Q]
  <2>1. t = [arr |-> t.arr, hsize |-> t.hsize, node |-> t.node, free |-> t.free]
    BY <1>s DEF Shape
  <2>2. t.node[n] = [key |-> t.node[n].key, val |-> t.node[n].val, next |-> t.node[n].next]
    BY <1>s, <1>n, NodeFacts
  <2>3. N = [[t.node EXCEPT ![f] = R] EXCEPT ![n].next = f]
    BY <2>1 DEF Chained
  <2>4. [t.node[n] EXCEPT !.next = f] = Q
    <3> DEFINE x == t.node[n]
    <3>1. x = [key |-> x.key, val |-> x.val, next |-> x.next]
      BY <2>2
    <3>2. Q = [key |-> x.key, val |-> x.val, next |-> f]
      OBVIOUS
    <3> HIDE DEF x, Q
    <3>3. [x EXCEPT !.next = f] = Q
      BY <3>1, <3>2, NodeChanges, Zenon
    <3> QED BY <3>3 DEF x
  <2>5. N = [t.node EXCEPT ![f] = R, ![n] = Q]
    <3> DEFINE M == [t.node EXCEPT ![f] = R]
    <3>1. M[n] = t.node[n]
      BY <1>n, <1>f, <1>k
    <3>2. N = [M EXCEPT ![n] = [M[n] EXCEPT !.next = f]]
      BY <2>3
    <3>3. N = [M EXCEPT ![n] = Q]
      BY <2>4, <3>1, <3>2
    <3> QED BY <3>3
  <2>6. /\ r = [arr |-> t.arr, hsize |-> t.hsize, node |-> N, free |-> f]
        /\ r.hsize = t.hsize /\ r.arr = t.arr /\ r.free = f
    <3> DEFINE b == [[[t EXCEPT !.free = f].node EXCEPT ![f] = [key |-> k, val |-> v, next |-> t.node[n].next]]
                       EXCEPT ![n].next = f]
    <3>1. r = [[t EXCEPT !.free = f] EXCEPT !.node = b]
      BY DEF Chained
    <3> HIDE DEF b, r
    <3>2. r = [arr |-> t.arr, hsize |-> t.hsize, node |-> b, free |-> f]
      BY <2>1, <3>1, TableChanges, Zenon
    <3> QED BY <3>2
  <2> HIDE DEF r
  <2> QED BY <2>5, <2>6
<1> HIDE DEF r
<1>2. DOMAIN N = D /\ N[f] = R /\ N[n] = Q /\ \A m \in D : m # n /\ m # f => N[m] = t.node[m]
  <2> HIDE DEF R, Q
  <2> QED BY <1>n, <1>f, <1>k, <1>1
<1>3. N \in Nodes(t.hsize)
  <2>1. R \in Record(t.hsize)
    BY <1>d, <1>y, RecordType
  <2>2. Q \in Record(t.hsize)
    <3>1. t.node[n].key \in Key /\ t.node[n].val \in Key \union {Nil}
      BY <1>s, <1>n, <1>k, NodeFacts
    <3> QED BY <1>d, <1>f, <3>1, RecordType
  <2>3. \A m \in D : t.node[m] \in Record(t.hsize)
    BY <1>s, <1>d, NodeFacts DEF Nodes
  <2> HIDE DEF R, Q
  <2> QED BY <1>1, <1>2, <1>d, <2>1, <2>2, <2>3 DEF Nodes
<1>4. Shape(r)
  <2>1. Asize(r) = Asize(t)
    BY <1>1 DEF Asize
  <2>2. f \in 0..t.hsize
    BY <1>f, <1>d
  <2> HIDE DEF R, Q
  <2> QED BY <1>1, <1>3, <1>s, <2>1, <2>2 DEF Shape
<1>5. /\ N[f].key = k /\ N[f].val = v /\ N[f].next = y
      /\ N[n].key = t.node[n].key /\ N[n].val = t.node[n].val /\ N[n].next = f
  BY <1>2
<1> HIDE DEF R, Q
<1>6. \A m \in D : m # f => N[m].key = t.node[m].key /\ N[m].val = t.node[m].val
  BY <1>2, <1>5
<1>7. InPlace(r)
  <2>1. k \notin DOMAIN t.arr
    BY DEF InArray
  <2> QED BY <1>s, <1>1, <1>2, <1>5, <1>6, <2>1 DEF InPlace
<1>8. ASSUME NEW S \in SUBSET D, Closed(N, S)
      PROVE  Closed(t.node, S) /\ (n \in S => f \in S) /\ (f \in S /\ y # None => y \in S)
  <2>1. f # None
    BY <1>f, <1>d
  <2>2. (n \in S => f \in S) /\ (f \in S /\ y # None => y \in S)
    BY <1>2, <1>5, <1>8, <2>1 DEF Closed
  <2>3. t.node[f].next = None
    BY <1>s, <1>f DEF Separate
  <2> QED BY <1>2, <1>8, <2>2, <2>3 DEF Closed
<1>9. \A p, m \in D : m \in Chain(t.node, p) => m \in Chain(N, p)
  BY <1>2, <1>8 DEF Chain
<1>10. \A m \in D : t.node[m].next # f
  BY <1>s, <1>f, <1>d DEF Separate
<1>11. Ending(N)
  <2> SUFFICES ASSUME NEW S \in SUBSET D, S # {}, Closed(N, S), \A m \in S : N[m].next # None
               PROVE  FALSE
    BY <1>2 DEF Ending
  <2> DEFINE T == S \ {f}
  <2>1. Closed(t.node, T)
    BY <1>8, <1>10 DEF Closed
  <2>2. T # {}
    <3>1. f \in S => y # None /\ y \in S
      BY <1>5, <1>8
    <3> QED BY <1>y, <3>1
  <2>3. PICK x \in T : t.node[x].next = None
    BY <1>s, <2>1, <2>2 DEF Separate, Ending
  <2>4. x = n
    BY <1>2, <2>3
  <2>5. f \in S /\ y = None
    BY <1>8, <2>3, <2>4
  <2> QED BY <1>5, <2>5
<1>12. Separate(r)
  <2>1. \A m \in D : t.node[m].next = None \/ t.node[m].next \in D
    BY <1>s, NodeFacts
  <2>2. ASSUME NEW a \in D, NEW b \in D, N[a].next = N[b].next, N[b].next # None PROVE a = b
    <3>1. CASE a # n /\ b # n /\ a # f /\ b # f
      BY <1>s, <1>2, <2>2, <3>1 DEF Separate
    <3>2. CASE a = n \/ b = n
      BY <1>2, <1>5, <1>10, <1>y, <2>2, <3>2
    <3>3. CASE a = f /\ b # n /\ b # f
      BY <1>s, <1>2, <1>5, <1>n, <2>2, <3>3 DEF Separate
    <3>4. CASE b = f /\ a # n /\ a # f
      BY <1>s, <1>2, <1>5, <1>n, <2>2, <3>4 DEF Separate
    <3> QED BY <3>1, <3>2, <3>3, <3>4
  <2>3. ASSUME NEW a \in D, N[a].key = Nil PROVE N[a].next = None
    BY <1>s, <1>2, <1>5, <1>k, <2>3 DEF Separate
  <2>4. ASSUME NEW a \in D, N[a].next # None PROVE N[N[a].next].key # Nil
    <3>1. CASE a = n
      BY <1>s, <1>5, <3>1
    <3>2. CASE a = f
      <4>1. y \in D /\ t.node[y].key # Nil
        BY <1>s, <1>5, <1>n, <1>y, <2>4, <3>2 DEF Separate
      <4> QED BY <1>5, <1>6, <1>y, <3>2, <4>1
    <3>3. CASE a # n /\ a # f
      <4> DEFINE z == t.node[a].next
      <4>1. N[a].next = z /\ z \in D /\ t.node[z].key # Nil /\ z # f
        BY <1>s, <1>2, <1>10, <2>1, <2>4, <3>3 DEF Separate
      <4> QED BY <1>6, <4>1
    <3> QED BY <3>1, <3>2, <3>3
  <2> QED BY <1>1, <1>2, <1>11, <2>2, <2>3, <2>4 DEF Separate
<1>m. \A j : Main(r, j) = Main(t, j)
  BY <1>1 DEF Main
<1>13. Anchored(r)
  <2> SUFFICES ASSUME NEW m \in D, N[m].key # Nil
               PROVE  /\ m \in Chain(N, Main(r, N[m].key))
                      /\ N[Main(r, N[m].key)].key # Nil
                      /\ Main(r, N[Main(r, N[m].key)].key) = Main(r, N[m].key)
    BY <1>2 DEF Anchored
  <2>1. CASE m = f
    <3>1. f \in Chain(N, n)
      BY <1>2, <1>8, <1>f DEF Chain
    <3>2. Main(t, N[f].key) = n
      BY <1>5 DEF n
    <3> QED BY <1>5, <1>k, <1>m, <1>v, <2>1, <3>1, <3>2
  <2>2. CASE m # f
    <3> DEFINE p == Main(t, t.node[m].key)
    <3>1. t.node[m].key # Nil /\ N[m].key = t.node[m].key
      BY <1>6, <2>2
    <3>2. p \in D /\ m \in Chain(t.node, p) /\ t.node[p].key # Nil /\ Main(t, t.node[p].key) = p
      BY <1>s, <3>1, NodeFacts DEF Anchored
    <3>3. p # f /\ m \in Chain(N, p)
      BY <1>9, <1>f, <3>2
    <3> QED BY <1>6, <1>m, <3>1, <3>2, <3>3
  <2> QED BY <2>1, <2>2
<1>14. TopUsed(r)
  <2> SUFFICES ASSUME NEW m \in D, m >= f PROVE N[m].key # Nil
    BY <1>1, <1>2 DEF TopUsed
  <2>1. m = f \/ m > f
    BY <1>d, <1>f
  <2> QED BY <1>s, <1>5, <1>6, <1>f, <2>1
<1>15. Good(r)
  BY <1>4, <1>7, <1>12, <1>13, <1>14 DEF Good
<1>16. Stored(t, k, v, r)
  <2>1. \E m \in DOMAIN N : N[m].key = k /\ N[m].val = v
    BY <1>f, <1>2, <1>5
  <2>2. \A m \in DOMAIN N : N[m].key \in {Nil, k} \/
          \E x \in D : t.node[x].key = N[m].key /\ t.node[x].val = N[m].val
    BY <1>2, <1>5, <1>6
  <2>3. \A m \in D : t.node[m].key # Nil /\ t.node[m].key # k /\ t.node[m].val # Nil =>
          \E x \in DOMAIN N : N[x].key = t.node[m].key /\ N[x].val = t.node[m].val
    BY <1>2, <1>6, <1>f
  <2> QED BY <1>1, <1>15, <2>1, <2>2, <2>3, StoredByNodes
<1> QED BY <1>16 DEF r, n, f

\* The main position n holds a key that belongs elsewhere: what it holds moves to
\* the free node, and the pair starts a chain of its own there.  No string is
\* resurrected, as a key whose main position is n would have found n holding a key
\* that belongs there.
LEMMA SetDisplaced ==
  ASSUME NEW t, Good(t), hash \in [Key -> Nat], NEW k \in Key, NEW v \in Key \union {Nil},
         ~InArray(t, k), \A m \in DOMAIN t.node : t.node[m].key # k, t.hsize > 0,
         t.node[Main(t, k)].val # Nil, Main(t, t.node[Main(t, k)].key) # Main(t, k), FreeNode(t) # None
  PROVE  Stored(t, k, v, Displaced(t, k, v, Main(t, k), FreeNode(t)))
<1> DEFINE n == Main(t, k)
           f == FreeNode(t)
           r == Displaced(t, k, v, n, f)
           N == r.node
           D == DOMAIN t.node
           y == t.node[n].next
           pred[p \in {None} \union DOMAIN t.node] ==
             IF p = None \/ t.node[p].next = n THEN p ELSE pred[t.node[p].next]
           q == pred[Main(t, t.node[n].key)]
           R == [key |-> k, val |-> v, next |-> None]
           Q == [key |-> t.node[q].key, val |-> t.node[q].val, next |-> f]
<1>s. Shape(t) /\ InPlace(t) /\ Separate(t) /\ Anchored(t) /\ TopUsed(t) /\ k # Nil
  BY ConstantsOK DEF Good
<1>n. n \in D
  BY <1>s, NodeFacts
<1>v. t.node[n].val # Nil /\ Main(t, t.node[n].key) # n
  OBVIOUS
<1>f. /\ f \in D /\ f \in 0..t.free - 1 /\ t.node[f].key = Nil
      /\ \A m \in D : m > f => t.node[m].key # Nil
  BY FreeSpec
<1>d. D = 0..t.hsize - 1 /\ t.hsize \in Nat /\ t.free \in 0..t.hsize /\ None \notin D
  BY <1>s, NodeFacts
<1>q. q \in D /\ t.node[q].next = n
  <2>1. t.node[n].key # Nil
    BY <1>s, <1>n, <1>v DEF InPlace
  <2> HIDE DEF n
  <2> QED BY <1>n, <1>v, <2>1, PredSpec
<1>r. r = [[t EXCEPT !.free = f] EXCEPT !.node =
            [[[t.node EXCEPT ![q].next = f] EXCEPT ![f] = t.node[n]] EXCEPT ![n] = R]]
  <2>1. \A m \in D : ~Resurrected(t, m, n)
    <3> SUFFICES ASSUME NEW m \in D, t.node[m].val # Nil, Main(t, t.node[m].key) = n PROVE FALSE
      BY DEF Resurrected
    <3> HIDE DEF n
    <3>1. t.node[m].key # Nil
      BY <1>s DEF InPlace
    <3> QED BY <1>s, <1>v, <3>1 DEF Anchored
  <2> QED BY <2>1 DEF Displaced
<1> HIDE DEF n, f, r, pred, q
<1>k. t.node[n].key # Nil /\ n # f /\ q # f
  BY <1>s, <1>n, <1>v, <1>f, <1>q, <1>d DEF InPlace, Separate
<1>x. q # n /\ \A m \in D : t.node[m].next = n => m = q
  <2>1. \A m \in D : t.node[m].next = n => m = q
    BY <1>s, <1>q, <1>n, <1>d DEF Separate
  <2>2. ASSUME q = n PROVE FALSE
    <3>1. {n} \in SUBSET D /\ {n} # {} /\ Closed(t.node, {n})
      BY <1>n, <1>q, <2>2 DEF Closed
    <3>2. t.node[n].next = None
      BY <1>s, <3>1 DEF Separate, Ending
    <3> QED BY <1>d, <1>n, <1>q, <2>2, <3>2
  <2> QED BY <2>1, <2>2
<1>0. \A m \in D : t.node[m].next = None \/ t.node[m].next \in D
  BY <1>s, NodeFacts
<1>10. \A m \in D : t.node[m].next # f
  BY <1>s, <1>f, <1>d DEF Separate
<1>y. (y = None \/ y \in D) /\ y # f /\ y # n
  BY <1>0, <1>10, <1>n, <1>x
<1>e. \A m \in D : t.node[m].key # Nil => Main(t, t.node[m].key) # n
  BY <1>s, <1>v DEF Anchored
<1>1. /\ r = [arr |-> t.arr, hsize |-> t.hsize, node |-> N, free |-> f]
      /\ r.hsize = t.hsize /\ r.arr = t.arr /\ r.free = f
      /\ N = [m \in D |-> IF m = n THEN R ELSE IF m = f THEN t.node[n] ELSE IF m = q THEN Q ELSE t.node[m]]
  <2> DEFINE L == [t.node EXCEPT ![q].next = f]
             M == [L EXCEPT ![f] = t.node[n]]
             b == [M EXCEPT ![n] = R]
  <2>1. t = [arr |-> t.arr, hsize |-> t.hsize, node |-> t.node, free |-> t.free]
    BY <1>s DEF Shape
  <2>2. [t.node[q] EXCEPT !.next = f] = Q
    <3> DEFINE z == t.node[q]
    <3>1. z = [key |-> z.key, val |-> z.val, next |-> z.next]
      BY <1>s, <1>q, NodeFacts
    <3>2. Q = [key |-> z.key, val |-> z.val, next |-> f]
      OBVIOUS
    <3> HIDE DEF z, Q
    <3>3. [z EXCEPT !.next = f] = Q
      BY <3>1, <3>2, NodeChanges, Zenon
    <3> QED BY <3>3 DEF z
  <2>3. DOMAIN L = D /\ \A m \in D : L[m] = IF m = q THEN Q ELSE t.node[m]
    <3>1. L = [t.node EXCEPT ![q] = [t.node[q] EXCEPT !.next = f]]
      OBVIOUS
    <3>2. L = [t.node EXCEPT ![q] = Q]
      BY <2>2, <3>1
    <3> HIDE DEF L, Q
    <3> QED BY <1>q, <3>2
  <2>4. r = [[t EXCEPT !.free = f] EXCEPT !.node = b]
    BY <1>r
  <2> HIDE DEF L, Q, R
  <2>5. DOMAIN M = D /\ \A m \in D : M[m] = IF m = f THEN t.node[n] ELSE IF m = q THEN Q ELSE t.node[m]
    BY <1>f, <2>3
  <2> HIDE DEF M
  <2>6. b = [m \in D |-> IF m = n THEN R ELSE IF m = f THEN t.node[n] ELSE IF m = q THEN Q ELSE t.node[m]]
    BY <1>n, <2>5
  <2> HIDE DEF b
  <2>7. r = [arr |-> t.arr, hsize |-> t.hsize, node |-> b, free |-> f]
    BY <2>1, <2>4, TableChanges, Zenon
  <2> QED BY <2>6, <2>7
<1>2. DOMAIN N = D /\ N[n] = R /\ N[f] = t.node[n] /\ N[q] = Q
      /\ \A m \in D : m # n /\ m # f /\ m # q => N[m] = t.node[m]
  <2> HIDE DEF R, Q
  <2> QED BY <1>n, <1>f, <1>q, <1>x, <1>k, <1>1
<1>3. N \in Nodes(t.hsize)
  <2>1. R \in Record(t.hsize)
    BY <1>d, RecordType
  <2>2. Q \in Record(t.hsize)
    <3>1. t.node[q].key \in Key /\ t.node[q].val \in Key \union {Nil}
      BY <1>s, <1>q, <1>n, <1>d, NodeFacts DEF Separate
    <3> QED BY <1>d, <1>f, <3>1, RecordType
  <2>3. \A m \in D : t.node[m] \in Record(t.hsize)
    BY <1>s, <1>d, NodeFacts DEF Nodes
  <2> HIDE DEF R, Q
  <2> QED BY <1>1, <1>2, <1>d, <1>n, <2>1, <2>2, <2>3 DEF Nodes
<1>4. Shape(r)
  <2>1. Asize(r) = Asize(t)
    BY <1>1 DEF Asize
  <2>2. f \in 0..t.hsize
    BY <1>f, <1>d
  <2> HIDE DEF R, Q
  <2> QED BY <1>1, <1>3, <1>s, <2>1, <2>2 DEF Shape
<1>5. /\ N[n].key = k /\ N[n].val = v /\ N[n].next = None
      /\ N[f].key = t.node[n].key /\ N[f].val = t.node[n].val /\ N[f].next = y
      /\ N[q].key = t.node[q].key /\ N[q].val = t.node[q].val /\ N[q].next = f
  BY <1>2
<1> HIDE DEF R, Q
<1>6. /\ \A m \in D : m # f /\ m # n => N[m].key = t.node[m].key /\ N[m].val = t.node[m].val
      /\ \A m \in D : m # f /\ m # n /\ m # q => N[m].next = t.node[m].next
  BY <1>2, <1>5
<1>7. InPlace(r)
  <2>1. k \notin DOMAIN t.arr
    BY DEF InArray
  <2>2. \A m \in D : (N[m].key # Nil => N[m].key \notin DOMAIN t.arr) /\ (N[m].val # Nil => N[m].key # Nil)
    <3> SUFFICES ASSUME NEW m \in D
                 PROVE  (N[m].key # Nil => N[m].key \notin DOMAIN t.arr) /\ (N[m].val # Nil => N[m].key # Nil)
      OBVIOUS
    <3>1. CASE m = n
      BY <1>s, <1>5, <2>1, <3>1
    <3>2. CASE m = f
      BY <1>s, <1>5, <1>n, <3>2 DEF InPlace
    <3>3. CASE m # n /\ m # f
      BY <1>s, <1>6, <3>3 DEF InPlace
    <3> QED BY <3>1, <3>2, <3>3
  <2>3. ASSUME NEW a \in D, NEW b \in D, N[a].key = N[b].key PROVE a = b \/ N[b].key = Nil
    <3> DEFINE pre(m) == IF m = f THEN n ELSE m
    <3>1. CASE a = n \/ b = n
      BY <1>5, <1>6, <1>n, <1>k, <2>3, <3>1
    <3>2. CASE a # n /\ b # n
      <4>1. \A m \in D : m # n => pre(m) \in D /\ t.node[pre(m)].key = N[m].key
        BY <1>5, <1>6, <1>n
      <4>2. pre(a) = pre(b) => a = b
        BY <3>2
      <4> HIDE DEF pre
      <4> QED BY <1>s, <2>3, <3>2, <4>1, <4>2 DEF InPlace
    <3> QED BY <3>1, <3>2
  <2>4. r.arr = t.arr /\ DOMAIN N = D
    BY <1>1, <1>2
  <2>5. \A i \in DOMAIN t.arr : t.arr[i] # Nil => i \in Key
    BY <1>s DEF InPlace
  <2> QED BY <2>2, <2>3, <2>4, <2>5 DEF InPlace
<1>8. ASSUME NEW S \in SUBSET D, Closed(N, S),
             NEW T, T = {m \in D : (m # n /\ m # f /\ m \in S) \/ (m = n /\ f \in S)}
      PROVE  \A m \in T : t.node[m].next = None \/ t.node[m].next \in T \/ (t.node[m].next = n /\ n \in S)
  <2> SUFFICES ASSUME NEW m \in T, t.node[m].next # None, t.node[m].next # n \/ n \notin S
               PROVE  t.node[m].next \in T
    OBVIOUS
  <2>1. CASE m = n
    <3>1. f \in S /\ N[f].next # None
      BY <1>5, <1>8, <2>1
    <3>2. y \in S
      BY <1>5, <1>8, <3>1 DEF Closed
    <3> QED BY <1>8, <1>y, <2>1, <3>2
  <2>2. CASE m = q
    <3>1. m \in S
      BY <1>8, <1>x, <2>2
    <3>2. f \in S
      BY <1>5, <1>8, <1>f, <1>d, <2>2, <3>1 DEF Closed
    <3> QED BY <1>8, <1>n, <1>q, <2>2, <3>2
  <2>3. CASE m # n /\ m # q
    <3>1. m \in S /\ m # f
      BY <1>8, <2>3
    <3>2. N[m].next = t.node[m].next
      BY <1>6, <1>8, <2>3, <3>1
    <3>3. t.node[m].next \in S
      BY <1>8, <3>1, <3>2 DEF Closed
    <3>4. t.node[m].next # n /\ t.node[m].next # f
      BY <1>8, <1>x, <1>10, <2>3, <3>1
    <3> QED BY <1>8, <3>3, <3>4
  <2> QED BY <2>1, <2>2, <2>3
<1>9. ASSUME NEW p \in D, p # n, p # f, NEW S \in SUBSET D, p \in S, Closed(N, S),
             NEW m \in Chain(t.node, p)
      PROVE  IF m = n THEN f \in S ELSE m = f \/ m \in S
  <2> DEFINE T == {x \in D : (x # n /\ x # f /\ x \in S) \/ (x = n /\ f \in S)}
  <2>1. \A x \in T : t.node[x].next = None \/ t.node[x].next \in T
    <3> SUFFICES ASSUME NEW x \in T, t.node[x].next = n PROVE n \in T
      <4>0. S \in SUBSET D /\ Closed(N, S) /\ T = {z \in D : (z # n /\ z # f /\ z \in S) \/ (z = n /\ f \in S)}
        BY <1>9
      <4> HIDE DEF T
      <4>1. \A z \in T : t.node[z].next = None \/ t.node[z].next \in T \/ (t.node[z].next = n /\ n \in S)
        BY <1>8, <4>0
      <4> QED BY <4>1
    <3>1. x = q
      BY <1>x
    <3>2. q \in S
      BY <1>x, <3>1
    <3>3. f \in S
      BY <1>5, <1>9, <1>f, <1>d, <3>2 DEF Closed
    <3> QED BY <1>n, <3>3
  <2>2. T \in SUBSET D /\ p \in T
    BY <1>9
  <2> HIDE DEF T
  <2>3. m \in T
    BY <1>9, <2>1, <2>2 DEF Chain, Closed
  <2> QED BY <2>3 DEF T
<1>11. Ending(N)
  <2> SUFFICES ASSUME NEW S \in SUBSET D, S # {}, Closed(N, S), \A m \in S : N[m].next # None
               PROVE  FALSE
    BY <1>2 DEF Ending
  <2> DEFINE T == {x \in D : (x # n /\ x # f /\ x \in S) \/ (x = n /\ f \in S)}
  <2>0. n \notin S
    BY <1>5
  <2>1. Closed(t.node, T)
    <3>0. S \in SUBSET D /\ Closed(N, S) /\ T = {m \in D : (m # n /\ m # f /\ m \in S) \/ (m = n /\ f \in S)}
      OBVIOUS
    <3> HIDE DEF T
    <3>1. \A x \in T : t.node[x].next = None \/ t.node[x].next \in T \/ (t.node[x].next = n /\ n \in S)
      BY <1>8, <3>0
    <3> QED BY <2>0, <3>1 DEF Closed
  <2>2. T # {} /\ T \in SUBSET D
    BY <1>n, <2>0
  <2>3. PICK x \in T : t.node[x].next = None
    <3> HIDE DEF T
    <3> QED BY <1>s, <2>1, <2>2 DEF Separate, Ending
  <2>4. CASE x = n
    BY <1>5, <2>3, <2>4
  <2>5. CASE x # n
    <3>1. x \in S /\ x # f /\ x # q
      BY <2>3, <2>5, <1>q, <1>d, <1>n
    <3> QED BY <1>6, <2>3, <2>5, <3>1
  <2> QED BY <2>4, <2>5
<1>12. Separate(r)
  <2>2. ASSUME NEW a \in D, NEW b \in D, N[a].next = N[b].next, N[b].next # None PROVE a = b
    <3>0. a # n /\ b # n
      BY <1>5, <2>2
    <3>1. CASE a # f /\ b # f /\ a # q /\ b # q
      BY <1>s, <1>6, <2>2, <3>0, <3>1 DEF Separate
    <3>2. CASE a = q \/ b = q
      BY <1>5, <1>6, <1>10, <1>y, <2>2, <3>0, <3>2
    <3>3. CASE a = f /\ b # q /\ b # f
      BY <1>s, <1>6, <1>5, <1>n, <2>2, <3>0, <3>3 DEF Separate
    <3>4. CASE b = f /\ a # q /\ a # f
      BY <1>s, <1>6, <1>5, <1>n, <2>2, <3>0, <3>4 DEF Separate
    <3> QED BY <3>1, <3>2, <3>3, <3>4
  <2>3. ASSUME NEW a \in D, N[a].key = Nil PROVE N[a].next = None
    <3>1. a # n /\ a # f
      BY <1>5, <1>k, <1>s, <2>3
    <3>2. t.node[a].key = Nil /\ t.node[a].next = None
      BY <1>6, <1>s, <2>3, <3>1 DEF Separate
    <3>3. a # q
      BY <1>q, <1>d, <1>n, <3>2
    <3> QED BY <1>6, <3>1, <3>2, <3>3
  <2>4. ASSUME NEW a \in D, N[a].next # None PROVE N[N[a].next].key # Nil
    <3>0. a # n
      BY <1>5, <2>4
    <3>1. CASE a = q
      BY <1>5, <1>k, <3>1
    <3>2. CASE a = f
      <4>1. y \in D /\ t.node[y].key # Nil
        BY <1>s, <1>5, <1>n, <1>y, <2>4, <3>2 DEF Separate
      <4> QED BY <1>5, <1>6, <1>y, <3>2, <4>1
    <3>3. CASE a # q /\ a # f
      <4> DEFINE z == t.node[a].next
      <4>1. N[a].next = z /\ z \in D /\ t.node[z].key # Nil /\ z # f /\ z # n
        BY <1>s, <1>6, <1>10, <1>0, <1>x, <2>4, <3>0, <3>3 DEF Separate
      <4> QED BY <1>6, <4>1
    <3> QED BY <3>1, <3>2, <3>3
  <2> QED BY <1>1, <1>2, <1>11, <2>2, <2>3, <2>4 DEF Separate
<1>m. \A j : Main(r, j) = Main(t, j)
  BY <1>1 DEF Main
<1>13. Anchored(r)
  <2> SUFFICES ASSUME NEW m \in D, N[m].key # Nil
               PROVE  /\ m \in Chain(N, Main(r, N[m].key))
                      /\ N[Main(r, N[m].key)].key # Nil
                      /\ Main(r, N[Main(r, N[m].key)].key) = Main(r, N[m].key)
    BY <1>2 DEF Anchored
  <2>1. CASE m = n
    <3>1. n \in Chain(N, n)
      BY <1>2, <1>3, <1>d, <1>n, ChainStep
    <3>2. Main(t, k) = n
      BY DEF n
    <3> QED BY <1>5, <1>s, <1>m, <2>1, <3>1, <3>2
  <2>2. CASE m # n
    <3> DEFINE x == IF m = f THEN n ELSE m
               p == Main(t, t.node[x].key)
    <3>1. x \in D /\ t.node[x].key # Nil /\ N[m].key = t.node[x].key
      BY <1>5, <1>6, <1>n, <1>k, <2>2
    <3> HIDE DEF x
    <3>2. p \in D /\ x \in Chain(t.node, p) /\ t.node[p].key # Nil /\ Main(t, t.node[p].key) = p
      BY <1>s, <3>1, NodeFacts DEF Anchored
    <3>3. p # f /\ p # n
      BY <1>e, <1>f, <3>1, <3>2
    <3> HIDE DEF p
    <3>4. m \in Chain(N, p)
      <4> SUFFICES ASSUME NEW S \in SUBSET D, p \in S, Closed(N, S) PROVE m \in S
        BY <1>2 DEF Chain
      <4>1. IF x = n THEN f \in S ELSE x = f \/ x \in S
        BY <1>9, <3>2, <3>3
      <4> QED BY <2>2, <4>1 DEF x
    <3> QED BY <1>6, <1>m, <3>1, <3>2, <3>3, <3>4 DEF p
  <2> QED BY <2>1, <2>2
<1>14. TopUsed(r)
  <2> SUFFICES ASSUME NEW m \in D, m >= f PROVE N[m].key # Nil
    BY <1>1, <1>2 DEF TopUsed
  <2>1. m = f \/ m > f
    BY <1>d, <1>f
  <2> QED BY <1>s, <1>5, <1>6, <1>f, <1>k, <2>1
<1>15. Good(r)
  BY <1>4, <1>7, <1>12, <1>13, <1>14 DEF Good
<1>16. Stored(t, k, v, r)
  <2>1. \E m \in DOMAIN N : N[m].key = k /\ N[m].val = v
    BY <1>n, <1>2, <1>5
  <2>2. \A m \in DOMAIN N : N[m].key \in {Nil, k} \/
          \E x \in D : t.node[x].key = N[m].key /\ t.node[x].val = N[m].val
    BY <1>2, <1>5, <1>6, <1>n
  <2>3. \A m \in D : t.node[m].key # Nil /\ t.node[m].key # k /\ t.node[m].val # Nil =>
          \E x \in DOMAIN N : N[x].key = t.node[m].key /\ N[x].val = t.node[m].val
    BY <1>2, <1>5, <1>6, <1>f
  <2> QED BY <1>1, <1>15, <2>1, <2>2, <2>3, StoredByNodes
<1> QED BY <1>16 DEF r, n, f

(***************************************************************************)
(* Assignments and sizing.                                                 *)
(***************************************************************************)

\* An assignment that finds its key, or room for it, stores the value.
LEMMA SetSpec ==
  ASSUME NEW t, Good(t), hash \in [Key -> Nat], NEW k \in Key, NEW v \in Key \union {Nil},
         InArray(t, k) \/ Find(t, k) # None \/ HasRoom(t, k)
  PROVE  Stored(t, k, v, SetInPlace(t, k, v))
<1>1. CASE InArray(t, k)
  BY <1>1, SetArray DEF SetInPlace
<1>2. CASE ~InArray(t, k) /\ Find(t, k) # None
  <2> DEFINE n == Find(t, k)
  <2>1. n \in DOMAIN t.node /\ t.node[n].key = k
    BY <1>2, FindSpec
  <2>2. SetInPlace(t, k, v) = [t EXCEPT !.node[n].val = v]
    BY <1>2 DEF SetInPlace
  <2> HIDE DEF n
  <2> QED BY <2>1, <2>2, SetFound
<1>3. CASE ~InArray(t, k) /\ Find(t, k) = None
  <2>0. Shape(t) /\ InPlace(t)
    BY DEF Good
  <2>1. HasRoom(t, k) /\ t.hsize > 0
    BY <1>3 DEF HasRoom
  <2>2. \A m \in DOMAIN t.node : t.node[m].key # k
    BY <1>3, <2>0, FindSpec, NodeFacts
  <2>3. SetInPlace(t, k, v) = NewKey(t, k, v)
    BY <1>3, <2>1 DEF SetInPlace
  <2>4. CASE t.node[Main(t, k)].val = Nil
    <3>1. NewKey(t, k, v) = [t EXCEPT !.node[Main(t, k)].key = k, !.node[Main(t, k)].val = v]
      BY <2>4 DEF NewKey
    <3>2. Stored(t, k, v, [t EXCEPT !.node[Main(t, k)].key = k, !.node[Main(t, k)].val = v])
      BY <1>3, <2>1, <2>2, <2>4, SetUnused
    <3> QED BY <2>3, <3>1, <3>2, Zenon
  <2>5. CASE t.node[Main(t, k)].val # Nil
    <3>1. FreeNode(t) # None
      BY <2>1, <2>5 DEF HasRoom
    <3>2. CASE Main(t, t.node[Main(t, k)].key) = Main(t, k)
      <4>1. NewKey(t, k, v) = Chained(t, k, v, Main(t, k), FreeNode(t))
        BY <2>5, <3>2 DEF NewKey
      <4> QED BY <1>3, <2>1, <2>2, <2>3, <2>5, <3>1, <3>2, <4>1, SetChained
    <3>3. CASE Main(t, t.node[Main(t, k)].key) # Main(t, k)
      <4>1. NewKey(t, k, v) = Displaced(t, k, v, Main(t, k), FreeNode(t))
        BY <2>5, <3>3 DEF NewKey
      <4> QED BY <1>3, <2>1, <2>2, <2>3, <2>5, <3>1, <3>3, <4>1, SetDisplaced
    <3> QED BY <3>2, <3>3
  <2> QED BY <2>4, <2>5
<1> QED BY <1>1, <1>2, <1>3

\* The first n numbers.
LEMMA Interval ==
  ASSUME NEW n \in Nat
  PROVE  IsFiniteSet(0..n - 1) /\ Cardinality(0..n - 1) = n
BY FS_Interval

\* A set that maps one-to-one into a finite one is finite and no larger.
LEMMA OneToOne ==
  ASSUME NEW S, NEW T, IsFiniteSet(T), NEW f \in [S -> T], \A a, b \in S : f[a] = f[b] => a = b
  PROVE  IsFiniteSet(S) /\ Cardinality(S) <= Cardinality(T)
<1>1. f \in Injection(S, T)
  BY DEF Injection, IsInjective
<1> QED BY <1>1, FS_Injection

\* A new table is empty.
LEMMA NewSpec ==
  ASSUME NEW asize \in Nat, NEW hsize \in Nat, hash \in [Key -> Nat]
  PROVE  LET t == NewTab(asize, hsize)
         IN  /\ Good(t) /\ DOMAIN t.arr = 0..asize - 1 /\ t.hsize = hsize /\ Keyed(t) = {}
             /\ \A k \in Key : Get(t, k) = Nil
<1> DEFINE t == NewTab(asize, hsize)
<1>1. /\ t = [arr |-> t.arr, hsize |-> t.hsize, node |-> t.node, free |-> t.free]
      /\ t.arr = [i \in 0..asize - 1 |-> Nil] /\ t.hsize = hsize /\ t.free = hsize
      /\ t.node = [n \in 0..hsize - 1 |-> EmptyNode]
  BY DEF NewTab
<1> HIDE DEF t
<1>2. EmptyNode.key = Nil /\ EmptyNode.val = Nil /\ EmptyNode.next = None /\ EmptyNode \in Record(hsize)
  BY DEF EmptyNode, Record, None
<1>3. DOMAIN t.arr = 0..asize - 1 /\ \A i \in DOMAIN t.arr : t.arr[i] = Nil
  BY <1>1
<1>4. DOMAIN t.node = 0..hsize - 1
      /\ \A n \in DOMAIN t.node : t.node[n].key = Nil /\ t.node[n].val = Nil /\ t.node[n].next = None
  BY <1>1, <1>2
<1>5. Asize(t) = asize
  <2>1. Cardinality(0..asize - 1) = asize
    BY FS_Interval
  <2> QED BY <1>3, <2>1 DEF Asize
<1>6. Shape(t)
  <2>1. t.node \in Nodes(hsize)
    BY <1>1, <1>2 DEF Nodes
  <2> QED BY <1>1, <1>5, <2>1 DEF Shape
<1>7. InPlace(t) /\ Separate(t) /\ Anchored(t) /\ TopUsed(t)
  <2>1. InPlace(t)
    BY <1>3, <1>4 DEF InPlace
  <2>2. Ending(t.node)
    BY <1>4 DEF Ending
  <2>3. TopUsed(t)
    BY <1>1, <1>4 DEF TopUsed
  <2> QED BY <1>4, <2>1, <2>2, <2>3 DEF Separate, Anchored
<1>8. Good(t)
  BY <1>6, <1>7 DEF Good
<1>9. Keyed(t) = {}
  BY <1>4 DEF Keyed
<1>10. \A k \in Key : Get(t, k) = Nil
  <2> SUFFICES ASSUME NEW k \in Key PROVE Get(t, k) = Nil
    OBVIOUS
  <2>1. CASE k \in DOMAIN t.arr
    <3>1. Get(t, k) = t.arr[k]
      BY <1>8, <2>1, GetSpec
    <3> QED BY <1>3, <2>1, <3>1
  <2>2. CASE k \notin DOMAIN t.arr
    <3>1. \A n \in DOMAIN t.node : t.node[n].key # k
      BY <1>4, ConstantsOK
    <3> QED BY <1>8, <2>2, <3>1, GetSpec
  <2> QED BY <2>1, <2>2
<1> QED BY <1>1, <1>3, <1>8, <1>9, <1>10 DEF t

\* Every field has one index in a traversal.
LEMMA FieldSpec ==
  ASSUME NEW t, Good(t), hash \in [Key -> Nat]
  PROVE  /\ \A i \in Indices(t) : /\ ValAt(t, i) \in Key \union {Nil}
                                  /\ ValAt(t, i) # Nil => KeyAt(t, i) \in Key /\ Get(t, KeyAt(t, i)) = ValAt(t, i)
         /\ \A k \in Key : Get(t, k) # Nil => \E i \in Indices(t) : KeyAt(t, i) = k /\ ValAt(t, i) # Nil
         /\ Asize(t) \in Nat /\ t.hsize \in Nat /\ DOMAIN t.arr = 0..Asize(t) - 1
<1>1. /\ Asize(t) \in Nat /\ t.hsize \in Nat
      /\ DOMAIN t.arr = 0..Asize(t) - 1 /\ DOMAIN t.node = 0..t.hsize - 1
      /\ \A i \in DOMAIN t.arr : t.arr[i] \in Key \union {Nil}
  BY NodeFacts DEF Good, Shape
<1>2. ASSUME NEW i \in Indices(t)
      PROVE  /\ ValAt(t, i) \in Key \union {Nil}
             /\ ValAt(t, i) # Nil => KeyAt(t, i) \in Key /\ Get(t, KeyAt(t, i)) = ValAt(t, i)
  <2>1. CASE i < Asize(t)
    <3>1. i \in DOMAIN t.arr /\ ValAt(t, i) = t.arr[i] /\ KeyAt(t, i) = i
      BY <1>1, <2>1 DEF Indices, ValAt, KeyAt
    <3>2. t.arr[i] # Nil => i \in Key
      BY <3>1 DEF Good, InPlace
    <3> QED BY <1>1, <3>1, <3>2, GetSpec
  <2>2. CASE ~(i < Asize(t))
    <3> DEFINE n == i - Asize(t)
    <3>1. n \in DOMAIN t.node /\ ValAt(t, i) = t.node[n].val /\ KeyAt(t, i) = t.node[n].key
      BY <1>1, <2>2 DEF Indices, ValAt, KeyAt
    <3> HIDE DEF n
    <3>2. t.node[n].val \in Key \union {Nil} /\ (t.node[n].val # Nil => t.node[n].key \in Key)
      BY <3>1, NodeFacts DEF Good, InPlace
    <3> QED BY <3>1, <3>2, GetSpec
  <2> QED BY <2>1, <2>2
<1>3. ASSUME NEW k \in Key, Get(t, k) # Nil
      PROVE  \E i \in Indices(t) : KeyAt(t, i) = k /\ ValAt(t, i) # Nil
  <2>1. CASE k \in DOMAIN t.arr
    <3>1. k \in Indices(t) /\ KeyAt(t, k) = k /\ ValAt(t, k) = t.arr[k]
      BY <1>1, <2>1 DEF Indices, ValAt, KeyAt
    <3> QED BY <1>3, <2>1, <3>1, GetSpec
  <2>2. CASE k \notin DOMAIN t.arr
    <3>1. PICK n \in DOMAIN t.node : t.node[n].key = k
      BY <1>3, <2>2, GetSpec
    <3> DEFINE i == Asize(t) + n
    <3>2. i \in Indices(t) /\ ~(i < Asize(t)) /\ i - Asize(t) = n
      BY <1>1 DEF Indices
    <3> HIDE DEF i
    <3>3. KeyAt(t, i) = t.node[n].key /\ ValAt(t, i) = t.node[n].val
      BY <3>2 DEF ValAt, KeyAt
    <3> QED BY <1>3, <3>1, <3>2, <3>3, GetSpec
  <2> QED BY <2>1, <2>2
<1> QED BY <1>1, <1>2, <1>3

\* There is room for a key as long as the keys in the hash part, with it, are not
\* more than the nodes.
LEMMA Room ==
  ASSUME NEW t, Good(t), hash \in [Key -> Nat], NEW k \in Key, k \notin Keyed(t),
         NEW H, IsFiniteSet(H), Cardinality(H) <= t.hsize, Keyed(t) \subseteq H, k \in H
  PROVE  HasRoom(t, k)
<1>0. t.hsize \in Nat /\ DOMAIN t.node = 0..t.hsize - 1
  BY NodeFacts DEF Good
<1> DEFINE K == H \ {k}
<1>1. IsFiniteSet(K) /\ Cardinality(K) = Cardinality(H) - 1 /\ Cardinality(K) \in Nat /\ Cardinality(H) \in Nat
  <2>1. IsFiniteSet(K) /\ Cardinality(K) = Cardinality(H) - 1
    BY FS_RemoveElement
  <2> HIDE DEF K
  <2> QED BY <2>1, FS_CardinalityType
<1>2. t.hsize > 0
  BY <1>0, <1>1
<1>3. FreeNode(t) # None
  <2> SUFFICES ASSUME \A n \in DOMAIN t.node : t.node[n].key # Nil PROVE FALSE
    BY FreeSpec
  <2> DEFINE f == [n \in 0..t.hsize - 1 |-> t.node[n].key]
  <2>1. \A n \in 0..t.hsize - 1 : t.node[n].key \in K
    BY <1>0 DEF Keyed
  <2>2. f \in [0..t.hsize - 1 -> K]
    BY <2>1
  <2>3. \A a, b \in 0..t.hsize - 1 : f[a] = f[b] => a = b
    BY <1>0 DEF Good, InPlace
  <2> HIDE DEF f, K
  <2>4. Cardinality(0..t.hsize - 1) <= Cardinality(K)
    BY <1>1, <2>2, <2>3, OneToOne
  <2>5. Cardinality(0..t.hsize - 1) = t.hsize
    <3>1. t.hsize \in Nat
      BY <1>0
    <3> QED BY <3>1, Interval
  <2> QED BY <1>0, <1>1, <2>4, <2>5
<1> QED BY <1>2, <1>3 DEF HasRoom

\* Resizing keeps every field, if the hash part has a node for each key that the
\* array part does not take.
LEMMA ResizedSpec ==
  ASSUME NEW t, Good(t), hash \in [Key -> Nat], NEW asize \in Nat, NEW hsize \in Nat,
         NEW H, IsFiniteSet(H), Cardinality(H) <= hsize, Hashed(t, asize) \subseteq H
  PROVE  LET r == Resized(t, asize, hsize)
         IN  /\ Good(r) /\ DOMAIN r.arr = 0..asize - 1 /\ r.hsize = hsize
             /\ Keyed(r) \subseteq Hashed(t, asize)
             /\ \A k \in Key : Get(r, k) = Get(t, k)
<1> DEFINE N == Asize(t) + t.hsize
           J(i, x) == Moved(t, i, x, asize, hsize)
           step(i, x) == IF ValAt(t, i) = Nil THEN x ELSE SetInPlace(x, KeyAt(t, i), ValAt(t, i))
           A == Tables(asize, hsize)
           a == NewTab(asize, hsize)
           G == [i \in Nat |-> [x \in A |-> IF step(i, x) \in A THEN step(i, x) ELSE x]]
<1>0. N \in Nat /\ Indices(t) = 0..N - 1
  BY FieldSpec DEF Indices
<1>1. \A i, x : J(i, x) => x \in A
  <2> SUFFICES ASSUME NEW x, Good(x), DOMAIN x.arr = 0..asize - 1, x.hsize = hsize PROVE x \in A
    BY DEF Moved
  <2>1. Asize(x) = asize
    BY FS_Interval DEF Asize
  <2>2. /\ x = [arr |-> x.arr, hsize |-> x.hsize, node |-> x.node, free |-> x.free]
        /\ x.arr \in [0..asize - 1 -> Key \union {Nil}]
        /\ x.hsize \in {hsize} /\ x.node \in Nodes(hsize) /\ x.free \in 0..hsize
    BY <2>1 DEF Good, Shape
  <2> QED BY <2>2 DEF Tables
<1>2. J(0, a)
  BY NewSpec DEF Moved
<1>3. ASSUME NEW i \in 0..N - 1, NEW x, J(i, x) PROVE J(i + 1, step(i, x))
  <2>0. /\ Good(x) /\ DOMAIN x.arr = 0..asize - 1 /\ x.hsize = hsize
        /\ Keyed(x) \subseteq Hashed(t, asize)
        /\ \A k \in Key : Get(x, k) = IF \E j \in 0..i - 1 : ValAt(t, j) # Nil /\ KeyAt(t, j) = k
                                      THEN Get(t, k) ELSE Nil
    BY <1>3 DEF Moved
  <2>i. \A j : j \in 0..(i + 1) - 1 <=> j \in 0..i - 1 \/ j = i
    BY <1>0
  <2>1. CASE ValAt(t, i) = Nil
    <3>1. \A k : (\E j \in 0..(i + 1) - 1 : ValAt(t, j) # Nil /\ KeyAt(t, j) = k)
                   <=> \E j \in 0..i - 1 : ValAt(t, j) # Nil /\ KeyAt(t, j) = k
      BY <2>i, <2>1
    <3> QED BY <2>0, <2>1, <3>1 DEF Moved
  <2>2. CASE ValAt(t, i) # Nil
    <3> DEFINE k == KeyAt(t, i)
               v == ValAt(t, i)
               r == SetInPlace(x, k, v)
    <3>1. k \in Key /\ v \in Key \union {Nil} /\ Get(t, k) = v
      BY <1>0, <2>2, FieldSpec
    <3> HIDE DEF k
    <3>2. InArray(x, k) \/ Find(x, k) # None \/ HasRoom(x, k)
      <4> SUFFICES ASSUME ~InArray(x, k), Find(x, k) = None PROVE HasRoom(x, k)
        OBVIOUS
      <4>1. k \notin Keyed(x)
        <5> SUFFICES ASSUME NEW n \in DOMAIN x.node, x.node[n].key = k PROVE FALSE
          BY DEF Keyed
        <5>1. Find(x, k) = n
          BY <2>0, <3>1, FindSpec
        <5>2. n # None
          BY <2>0, NodeFacts DEF Good
        <5> QED BY <5>1, <5>2
      <4>2. k \in Hashed(t, asize)
        BY <2>0, <2>2, <3>1 DEF Hashed, InArray
      <4> QED BY <2>0, <3>1, <4>1, <4>2, Room
    <3> HIDE DEF v
    <3>3. Stored(x, k, v, r)
      BY <2>0, <3>1, <3>2, SetSpec
    <3> HIDE DEF r
    <3>4. Good(r) /\ DOMAIN r.arr = 0..asize - 1 /\ r.hsize = hsize
      BY <2>0, <3>3 DEF Stored
    <3>5. Keyed(r) \subseteq Hashed(t, asize)
      <4> SUFFICES ASSUME NEW c \in Keyed(r) PROVE c \in Hashed(t, asize)
        OBVIOUS
      <4>1. c \in Keyed(x) \/ c = k
        BY <3>3 DEF Stored
      <4>2. c \notin 0..asize - 1
        BY <3>4 DEF Good, InPlace, Keyed
      <4> QED BY <2>0, <2>2, <3>1, <4>1, <4>2 DEF Hashed, v
    <3>6. ASSUME NEW c \in Key
          PROVE  Get(r, c) = IF \E j \in 0..(i + 1) - 1 : ValAt(t, j) # Nil /\ KeyAt(t, j) = c
                             THEN Get(t, c) ELSE Nil
      <4>1. Get(r, c) = IF c = k THEN v ELSE Get(x, c)
        BY <3>3 DEF Stored
      <4>2. CASE c = k
        BY <2>i, <2>2, <3>1, <4>1, <4>2 DEF k
      <4>3. CASE c # k
        <5>1. (\E j \in 0..(i + 1) - 1 : ValAt(t, j) # Nil /\ KeyAt(t, j) = c)
                <=> \E j \in 0..i - 1 : ValAt(t, j) # Nil /\ KeyAt(t, j) = c
          BY <2>i, <4>3 DEF k
        <5> QED BY <2>0, <4>1, <4>3, <5>1
      <4> QED BY <4>2, <4>3
    <3>7. step(i, x) = r
      BY <2>2 DEF r, k, v
    <3>8. J(i + 1, r)
      BY <3>4, <3>5, <3>6 DEF Moved
    <3> QED BY <3>7, <3>8
  <2> QED BY <2>1, <2>2
<1> HIDE DEF J, A, step, a
<1>4. PICK f : Recurs(f, A, a, G)
  <2>1. a \in A /\ G \in [Nat -> [A -> A]]
    BY <1>1, <1>2
  <2> HIDE DEF G
  <2> QED BY <2>1, Recursion
<1>5. f[0] = a /\ \A i \in Nat : f[i] \in A /\ f[i + 1] = IF step(i, f[i]) \in A THEN step(i, f[i]) ELSE f[i]
  BY <1>4 DEF Recurs
<1>6. \A i \in 0..N : J(i, f[i])
  <2> DEFINE S == {i \in 0..N : J(i, f[i])}
  <2>1. 0 \in S
    <3>1. J(0, f[0])
      BY <1>2, <1>5
    <3> HIDE DEF N
    <3> QED BY <1>0, <3>1
  <2>2. ASSUME NEW i \in 0..N - 1, i \in S PROVE i + 1 \in S
    <3>1. i \in Nat /\ i + 1 \in 0..N /\ J(i, f[i])
      BY <1>0, <2>2
    <3>2. J(i + 1, step(i, f[i]))
      BY <1>3, <3>1
    <3> QED BY <1>1, <1>5, <3>1, <3>2
  <2> HIDE DEF S
  <2>3. 0..N \subseteq S
    BY <1>0, <2>1, <2>2, Upto
  <2> QED BY <2>3 DEF S
<1>7. \A i \in 0..N - 1 : f[i + 1] = step(i, f[i])
  <2> SUFFICES ASSUME NEW i \in 0..N - 1 PROVE f[i + 1] = step(i, f[i])
    OBVIOUS
  <2>1. i \in Nat /\ i \in 0..N
    BY <1>0
  <2>2. step(i, f[i]) \in A
    BY <1>1, <1>3, <1>6, <2>1
  <2> QED BY <1>5, <2>1, <2>2
<1> DEFINE upto[i \in 0..Asize(t) + t.hsize] ==
             IF i = 0 THEN NewTab(asize, hsize)
             ELSE LET r == upto[i - 1]
                  IN  IF ValAt(t, i - 1) = Nil THEN r
                      ELSE SetInPlace(r, KeyAt(t, i - 1), ValAt(t, i - 1))
<1>8. upto = [i \in 0..N |-> IF i = 0 THEN a ELSE step(i - 1, upto[i - 1])]
  <2> DEFINE g == [i \in 0..N |-> f[i]]
  <2>1. ASSUME NEW i \in 0..N, i # 0 PROVE g[i] = step(i - 1, g[i - 1])
    <3>1. i - 1 \in 0..N - 1 /\ i - 1 \in 0..N /\ i - 1 + 1 = i
      BY <1>0, <2>1
    <3> QED BY <1>7, <3>1
  <2>2. g[0] = a
    BY <1>0, <1>5
  <2>3. g = [i \in 0..N |-> IF i = 0 THEN a ELSE step(i - 1, g[i - 1])]
    <3> DEFINE h == [i \in 0..N |-> IF i = 0 THEN a ELSE step(i - 1, g[i - 1])]
    <3>1. \A i \in 0..N : g[i] = h[i]
      <4> HIDE DEF g
      <4> QED BY <2>1, <2>2
    <3> HIDE DEF N
    <3> QED BY <3>1
  <2> HIDE DEF g
  <2> QED BY <2>3 DEF step, a
<1>9. Resized(t, asize, hsize) = upto[N]
  BY DEF Resized
<1> HIDE DEF upto, N
<1>10. \A i \in 0..N : upto[i] = f[i]
  <2> DEFINE S == {i \in 0..N : upto[i] = f[i]}
  <2>1. 0 \in S
    <3>1. 0 \in 0..N
      BY <1>0
    <3>2. upto[0] = a
      BY <1>8, <3>1
    <3> QED BY <1>5, <3>1, <3>2
  <2>2. ASSUME NEW i \in 0..N - 1, i \in S PROVE i + 1 \in S
    <3>1. i + 1 \in 0..N /\ i + 1 # 0 /\ i + 1 - 1 = i /\ upto[i] = f[i]
      BY <1>0, <2>2
    <3>2. upto[i + 1] = step((i + 1) - 1, upto[(i + 1) - 1])
      <4> DEFINE m == i + 1
      <4>1. m \in 0..N /\ m # 0
        BY <3>1
      <4> HIDE DEF m
      <4>2. upto[m] = step(m - 1, upto[m - 1])
        BY <1>8, <4>1
      <4> QED BY <4>2 DEF m
    <3> QED BY <1>7, <3>1, <3>2
  <2> HIDE DEF S
  <2>3. 0..N \subseteq S
    BY <1>0, <2>1, <2>2, Upto
  <2> QED BY <2>3 DEF S
<1> DEFINE r == Resized(t, asize, hsize)
<1>11. J(N, r)
  BY <1>0, <1>6, <1>9, <1>10
<1> HIDE DEF r
<1>12. ASSUME NEW k \in Key PROVE Get(r, k) = Get(t, k)
  <2>1. Get(r, k) = IF \E j \in 0..N - 1 : ValAt(t, j) # Nil /\ KeyAt(t, j) = k THEN Get(t, k) ELSE Nil
    BY <1>11 DEF J, Moved
  <2>2. Get(t, k) # Nil => \E j \in 0..N - 1 : ValAt(t, j) # Nil /\ KeyAt(t, j) = k
    BY <1>0, FieldSpec
  <2> QED BY <2>1, <2>2
<1> QED BY <1>11, <1>12 DEF J, Moved, r

\* The size of a hash part for so many pairs.
LEMMA HashSizeSpec ==
  ASSUME NEW p \in Nat
  PROVE  LET s == HashSize(p) IN s \in Nat /\ s >= p /\ (s = 0 \/ \E b \in 1..s : s = Pow2[b])
<1>1. CASE p = 0
  BY <1>1 DEF HashSize
<1>2. CASE p # 0
  <2> DEFINE P == {Pow2[b] : b \in 1..p}
             S == {s \in P : s >= p}
             s == Min(S)
  <2>1. \A b \in 1..p : Pow2[b] \in Nat /\ b \in 1..Pow2[b]
    <3> SUFFICES ASSUME NEW b \in 1..p PROVE Pow2[b] \in Nat /\ b \in 1..Pow2[b]
      OBVIOUS
    <3>1. Pow2[b] \in Nat /\ Pow2[b] > b
      BY Powers
    <3> QED BY <3>1
  <2>2. Pow2[p] > p /\ p \in 1..p /\ Pow2[p] \in Nat
    BY <1>2, Powers
  <2>3. S \in SUBSET Nat /\ S # {}
    <3>1. Pow2[p] \in S
      BY <2>2
    <3> QED BY <2>1, <3>1
  <2>4. s \in S
    <3> HIDE DEF S
    <3> QED BY <2>3, MinSpec
  <2> HIDE DEF s
  <2>5. PICK b \in 1..p : s = Pow2[b] /\ s >= p
    BY <2>4
  <2>6. s \in Nat /\ b \in 1..s
    BY <2>1, <2>5
  <2>7. HashSize(p) = s
    BY <1>2 DEF HashSize, s
  <2> QED BY <2>5, <2>6, <2>7
<1> QED BY <1>1, <1>2

\* The fields present are counted by LivePairs.
LEMMA LiveSpec ==
  ASSUME NEW t, Good(t), hash \in [Key -> Nat]
  PROVE  LET L == {k \in Key : Get(t, k) # Nil}
         IN  IsFiniteSet(L) /\ Cardinality(L) <= LivePairs(t) /\ LivePairs(t) \in Nat
<1> DEFINE L == {k \in Key : Get(t, k) # Nil}
           LA == {i \in DOMAIN t.arr : t.arr[i] # Nil}
           LN == {n \in DOMAIN t.node : t.node[n].val # Nil}
<1>0. /\ DOMAIN t.arr = 0..Asize(t) - 1 /\ Asize(t) \in Nat
      /\ DOMAIN t.node = 0..t.hsize - 1 /\ t.hsize \in Nat
  BY FieldSpec, NodeFacts DEF Good
<1>1. IsFiniteSet(LA) /\ Cardinality(LA) \in Nat
  <2>1. IsFiniteSet(0..Asize(t) - 1) /\ LA \in SUBSET (0..Asize(t) - 1)
    BY <1>0, FS_Interval
  <2> HIDE DEF LA
  <2> QED BY <2>1, FS_Subset, FS_CardinalityType
<1>2. IsFiniteSet(LN) /\ Cardinality(LN) \in Nat
  <2>1. IsFiniteSet(0..t.hsize - 1) /\ LN \in SUBSET (0..t.hsize - 1)
    <3>1. LN \in SUBSET (0..t.hsize - 1)
      BY <1>0
    <3>2. t.hsize - 1 \in Int
      BY <1>0
    <3> HIDE DEF LN
    <3> QED BY <3>1, <3>2, FS_Interval
  <2> HIDE DEF LN
  <2> QED BY <2>1, FS_Subset, FS_CardinalityType
<1>3. IsFiniteSet(L \ LA) /\ Cardinality(L \ LA) <= Cardinality(LN)
  <2> DEFINE f == [k \in L \ LA |-> CHOOSE n \in LN : t.node[n].key = k]
  <2>1. ASSUME NEW k \in L \ LA PROVE f[k] \in LN /\ t.node[f[k]].key = k
    <3>1. k \in Key /\ Get(t, k) # Nil /\ k \notin LA
      OBVIOUS
    <3>2. k \notin DOMAIN t.arr
      BY <3>1, GetSpec
    <3>3. \E n \in LN : t.node[n].key = k
      BY <3>1, <3>2, GetSpec
    <3> QED BY <3>3
  <2> HIDE DEF L, LA, LN
  <2>2. f \in [L \ LA -> LN]
    BY <2>1
  <2>3. \A a, b \in L \ LA : f[a] = f[b] => a = b
    BY <2>1
  <2> HIDE DEF f
  <2> QED BY <1>2, <2>2, <2>3, OneToOne
<1>4. LivePairs(t) = Cardinality(LA) + Cardinality(LN)
  BY DEF LivePairs
<1>5. L \subseteq (L \ LA) \union LA
  OBVIOUS
<1> HIDE DEF L, LA, LN
<1> DEFINE M == L \ LA
<1>6. Cardinality(M) \in Nat
  BY <1>3, FS_CardinalityType
<1>7. IsFiniteSet(M \union LA) /\ Cardinality(M \union LA) <= Cardinality(M) + Cardinality(LA)
  <2>0. IsFiniteSet(M)
    BY <1>3
  <2> HIDE DEF M
  <2>1. IsFiniteSet(M \union LA) /\ Cardinality(M \union LA) = Cardinality(M) + Cardinality(LA) - Cardinality(M \intersect LA)
    BY <1>1, <2>0, FS_Union
  <2>2. Cardinality(M \intersect LA) \in Nat
    BY <1>1, <2>0, FS_Intersection, FS_CardinalityType
  <2> QED BY <1>1, <1>6, <2>1, <2>2
<1>8. IsFiniteSet(L) /\ Cardinality(L) <= Cardinality(M \union LA)
  <2> HIDE DEF M
  <2> QED BY <1>5, <1>7, FS_Subset DEF M
<1>9. Cardinality(L) \in Nat /\ Cardinality(M \union LA) \in Nat
  BY <1>7, <1>8, FS_CardinalityType
<1>10. Cardinality(L) <= Cardinality(LA) + Cardinality(LN)
  <2>1. Cardinality(M) <= Cardinality(LN)
    BY <1>3
  <2> HIDE DEF M
  <2> QED BY <1>1, <1>2, <1>6, <1>7, <1>8, <1>9, <2>1
<1> QED BY <1>1, <1>2, <1>4, <1>8, <1>10 DEF L

\* A rehash makes room for every field and for the key that needed it.
LEMMA RehashSpec ==
  ASSUME NEW t, Good(t), hash \in [Key -> Nat], NEW ek \in Key
  PROVE  \E asize, hsize \in Nat :
           LET H == ({k \in Key : Get(t, k) # Nil} \union {ek}) \ (0..asize - 1)
           IN  /\ Rehashed(t, ek) = Resized(t, asize, hsize)
               /\ hsize = 0 \/ \E b \in 1..hsize : hsize = Pow2[b]
               /\ IsFiniteSet(H) /\ Cardinality(H) <= hsize
<1> DEFINE L == {k \in Key : Get(t, k) # Nil}
           E == L \union {ek}
           ints == IntsPresent(t, ek)
           bins == BestBins(ints)
           b == IF bins = {} THEN None ELSE Max(bins)
           asize == IF b = None THEN 0 ELSE Pow2[b + 1] + 1
           hsize == HashSize(Needed(t, ek, b))
           low == IF b = None THEN {} ELSE UpTo(ints, b)
<1>1. IsFiniteSet(E) /\ Cardinality(E) \in Nat /\ Cardinality(E) <= LivePairs(t) + 1 /\ LivePairs(t) \in Nat
  <2>1. IsFiniteSet(L) /\ Cardinality(L) <= LivePairs(t) /\ LivePairs(t) \in Nat
    BY LiveSpec
  <2> HIDE DEF L
  <2>2. Cardinality(L) \in Nat
    BY <2>1, FS_CardinalityType
  <2>3. IsFiniteSet(E) /\ Cardinality(E) \in {Cardinality(L), Cardinality(L) + 1}
    BY <2>1, FS_AddElement
  <2> QED BY <2>1, <2>2, <2>3
<1>2. ints \subseteq E /\ ints \subseteq Nat
  <2>0. DOMAIN t.arr \subseteq Nat
    BY FieldSpec
  <2>1. \A i \in DOMAIN t.arr : t.arr[i] # Nil => i \in L
    BY GetSpec DEF Good, InPlace
  <2>2. ASSUME NEW n \in DOMAIN t.node, t.node[n].val # Nil PROVE t.node[n].key \in L
    <3>1. t.node[n].key \in Key
      BY <2>2, NodeFacts DEF Good, InPlace
    <3> QED BY <2>2, <3>1, GetSpec
  <2>3. IntKey \subseteq Nat
    BY ConstantsOK
  <2> HIDE DEF L
  <2> QED BY <2>0, <2>1, <2>2, <2>3 DEF IntsPresent
<1> HIDE DEF ints, E
<1>3. IsFiniteSet(ints) /\ Cardinality(ints) \in Nat
  BY <1>1, <1>2, FS_Subset, FS_CardinalityType
<1>4. b = None \/ b \in Nat
  <2>1. bins \in SUBSET (0..Cardinality(ints))
    BY DEF BestBins
  <2> HIDE DEF bins
  <2>2. bins # {} => Max(bins) \in 0..Cardinality(ints)
    BY <1>3, <2>1, MaxSpec
  <2> QED BY <2>2
<1> HIDE DEF b
<1>5. asize \in Nat
  <2>1. b # None => Pow2[b + 1] \in Nat
    BY <1>4, Powers
  <2> QED BY <2>1
<1>6. low \subseteq E /\ low \subseteq 0..asize - 1
  <2>1. CASE b = None
    BY <2>1
  <2>2. CASE b # None
    <3>1. Pow2[b + 1] \in Nat /\ asize = Pow2[b + 1] + 1
      BY <1>4, <2>2, Powers
    <3>2. \A i \in Nat : i <= Pow2[b + 1] => i \in 0..asize - 1
      BY <3>1
    <3> HIDE DEF asize
    <3> QED BY <1>2, <2>2, <3>2 DEF UpTo
  <2> QED BY <2>1, <2>2
<1>7. IsFiniteSet(low) /\ Cardinality(low) \in Nat /\ Cardinality(low) <= Cardinality(E)
  <2> HIDE DEF low
  <2> QED BY <1>1, <1>6, FS_Subset, FS_CardinalityType
<1>8. Needed(t, ek, b) = 1 + LivePairs(t) - Cardinality(low)
  <2>1. Cardinality({}) = 0
    BY FS_EmptySet
  <2> QED BY <2>1 DEF Needed, ints
<1>9. Needed(t, ek, b) \in Nat
  <2> HIDE DEF low
  <2> QED BY <1>1, <1>7, <1>8
<1>10. hsize \in Nat /\ hsize >= Needed(t, ek, b) /\ (hsize = 0 \/ \E c \in 1..hsize : hsize = Pow2[c])
  BY <1>9, HashSizeSpec
<1>11. Rehashed(t, ek) = Resized(t, asize, hsize)
  BY DEF Rehashed, b, ints
<1> DEFINE H == E \ (0..asize - 1)
           X == E \ low
<1> HIDE DEF hsize, asize, low
<1>12. IsFiniteSet(X) /\ Cardinality(X) = Cardinality(E) - Cardinality(low)
  <2>1. E \intersect low = low
    BY <1>6
  <2>2. IsFiniteSet(X) /\ Cardinality(X) = Cardinality(E) - Cardinality(E \intersect low)
    BY <1>1, FS_Difference
  <2> QED BY <2>1, <2>2
<1>13. H \in SUBSET X
  BY <1>6
<1> HIDE DEF H, X
<1>14. IsFiniteSet(H) /\ Cardinality(H) <= Cardinality(X) /\ Cardinality(H) \in Nat /\ Cardinality(X) \in Nat
  BY <1>12, <1>13, FS_Subset, FS_CardinalityType
<1>15. Cardinality(H) <= hsize
  BY <1>1, <1>7, <1>8, <1>9, <1>10, <1>12, <1>14
<1> QED BY <1>5, <1>10, <1>11, <1>14, <1>15 DEF H, E

\* An assignment stores the value, whether or not the table is sized anew for it.
LEMMA AssignSpec ==
  ASSUME NEW t, Good(t), hash \in [Key -> Nat], NEW k \in Key, NEW v \in Key \union {Nil}
  PROVE  LET r == Set(t, k, v)
         IN  /\ Good(r) /\ (SizeOK(t) => SizeOK(r))
             /\ \A j \in Key : Get(r, j) = IF j = k THEN v ELSE Get(t, j)
<1> DEFINE r == Set(t, k, v)
<1>1. CASE InArray(t, k) \/ Find(t, k) # None \/ HasRoom(t, k)
  <2>1. Stored(t, k, v, SetInPlace(t, k, v))
    BY <1>1, SetSpec
  <2>2. r = SetInPlace(t, k, v)
    BY <1>1 DEF Set
  <2> HIDE DEF r
  <2> QED BY <2>1, <2>2 DEF Stored, SizeOK, r
<1>2. CASE ~(InArray(t, k) \/ Find(t, k) # None \/ HasRoom(t, k))
  <2> DEFINE x == Rehashed(t, k)
  <2>1. r = SetInPlace(x, k, v)
    BY <1>2 DEF Set
  <2>2. PICK asize \in Nat, hsize \in Nat :
          /\ x = Resized(t, asize, hsize)
          /\ hsize = 0 \/ \E b \in 1..hsize : hsize = Pow2[b]
          /\ IsFiniteSet(({j \in Key : Get(t, j) # Nil} \union {k}) \ (0..asize - 1))
          /\ Cardinality(({j \in Key : Get(t, j) # Nil} \union {k}) \ (0..asize - 1)) <= hsize
    BY RehashSpec
  <2> DEFINE H == ({j \in Key : Get(t, j) # Nil} \union {k}) \ (0..asize - 1)
  <2>3. IsFiniteSet(H) /\ Cardinality(H) <= hsize /\ Hashed(t, asize) \subseteq H
    BY <2>2 DEF Hashed
  <2>4. k \in 0..asize - 1 \/ k \in H
    OBVIOUS
  <2> HIDE DEF x, H
  <2>5. /\ Good(x) /\ DOMAIN x.arr = 0..asize - 1 /\ x.hsize = hsize
        /\ Keyed(x) \subseteq Hashed(t, asize)
        /\ \A j \in Key : Get(x, j) = Get(t, j)
    BY <2>2, <2>3, ResizedSpec
  <2>6. InArray(x, k) \/ Find(x, k) # None \/ HasRoom(x, k)
    <3> SUFFICES ASSUME ~InArray(x, k), Find(x, k) = None PROVE HasRoom(x, k)
      OBVIOUS
    <3>1. k \notin Keyed(x)
      BY <2>5, FindSpec, NodeFacts DEF Keyed, Good
    <3>2. k \in H
      BY <2>4, <2>5 DEF InArray
    <3> QED BY <2>3, <2>5, <3>1, <3>2, Room
  <2>7. Stored(x, k, v, SetInPlace(x, k, v))
    BY <2>5, <2>6, SetSpec
  <2>8. SizeOK(SetInPlace(x, k, v))
    BY <2>2, <2>5, <2>7 DEF Stored, SizeOK
  <2> HIDE DEF r
  <2> QED BY <2>1, <2>5, <2>7, <2>8 DEF Stored, r
<1> QED BY <1>1, <1>2

\* Growing the array part keeps every field.
LEMMA ReasizeSpec ==
  ASSUME NEW t, Good(t), hash \in [Key -> Nat], NEW asize \in Nat, asize >= Asize(t)
  PROVE  LET r == Resized(t, asize, t.hsize)
         IN  Good(r) /\ r.hsize = t.hsize /\ \A k \in Key : Get(r, k) = Get(t, k)
<1> DEFINE H == Hashed(t, asize)
           f == [k \in H |-> CHOOSE n \in DOMAIN t.node : t.node[n].key = k]
<1>0. t.hsize \in Nat /\ DOMAIN t.node = 0..t.hsize - 1 /\ Asize(t) \in Nat /\ DOMAIN t.arr = 0..Asize(t) - 1
  BY FieldSpec, NodeFacts DEF Good
<1>1. ASSUME NEW k \in H PROVE f[k] \in 0..t.hsize - 1 /\ t.node[f[k]].key = k
  <2>1. k \in Key /\ Get(t, k) # Nil /\ k \notin DOMAIN t.arr
    <3>1. \A i \in 0..Asize(t) - 1 : i \in 0..asize - 1
      BY <1>0
    <3> QED BY <1>0, <3>1 DEF Hashed
  <2>2. \E n \in DOMAIN t.node : t.node[n].key = k
    BY <2>1, GetSpec
  <2> HIDE DEF H
  <2> QED BY <1>0, <2>2
<1> HIDE DEF H
<1>2. f \in [H -> 0..t.hsize - 1] /\ \A a, c \in H : f[a] = f[c] => a = c
  <2>1. \A a, c \in H : f[a] = f[c] => a = c
    <3> HIDE DEF f
    <3> QED BY <1>1
  <2>2. f \in [H -> 0..t.hsize - 1]
    <3>1. \A k \in H : (CHOOSE n \in DOMAIN t.node : t.node[n].key = k) \in 0..t.hsize - 1
      BY <1>1
    <3> QED BY <3>1
  <2> QED BY <2>1, <2>2
<1> HIDE DEF f
<1>3. IsFiniteSet(0..t.hsize - 1) /\ Cardinality(0..t.hsize - 1) = t.hsize
  BY <1>0, Interval
<1>4. IsFiniteSet(H) /\ Cardinality(H) <= t.hsize
  BY <1>2, <1>3, OneToOne
<1> QED BY <1>0, <1>4, ResizedSpec DEF H

(***************************************************************************)
(* Traversals.                                                             *)
(***************************************************************************)

\* A known key has one index, and the field there is its own.
LEMMA IndexSpec ==
  ASSUME NEW t, Good(t), hash \in [Key -> Nat], NEW k \in Key
  PROVE  /\ \A i \in Indices(t) : KeyAt(t, i) = k => KeyKnown(t, k) /\ KeyIndex(t, k) = i
         /\ KeyKnown(t, k) => KeyIndex(t, k) \in Indices(t) /\ KeyAt(t, KeyIndex(t, k)) = k
<1>0. /\ Asize(t) \in Nat /\ t.hsize \in Nat /\ k # Nil
      /\ DOMAIN t.arr = 0..Asize(t) - 1 /\ DOMAIN t.node = 0..t.hsize - 1 /\ None \notin DOMAIN t.node
  BY FieldSpec, NodeFacts, ConstantsOK DEF Good
<1>1. ASSUME NEW i \in Indices(t), KeyAt(t, i) = k PROVE KeyKnown(t, k) /\ KeyIndex(t, k) = i
  <2>1. CASE i < Asize(t)
    <3>1. k = i /\ k \in DOMAIN t.arr
      BY <1>0, <1>1, <2>1 DEF Indices, KeyAt
    <3> QED BY <1>0, <3>1 DEF KeyKnown, KeyIndex, InArray
  <2>2. CASE ~(i < Asize(t))
    <3> DEFINE n == i - Asize(t)
    <3>1. n \in DOMAIN t.node /\ t.node[n].key = k /\ Asize(t) + n = i
      BY <1>0, <1>1, <2>2 DEF Indices, KeyAt
    <3> HIDE DEF n
    <3>2. Find(t, k) = n /\ n # None
      BY <1>0, <3>1, FindSpec
    <3>3. k \notin DOMAIN t.arr
      BY <1>0, <3>1 DEF Good, InPlace
    <3> QED BY <1>0, <3>1, <3>2, <3>3 DEF KeyKnown, KeyIndex, InArray
  <2> QED BY <2>1, <2>2
<1>2. ASSUME KeyKnown(t, k) PROVE KeyIndex(t, k) \in Indices(t) /\ KeyAt(t, KeyIndex(t, k)) = k
  <2>1. CASE k \in DOMAIN t.arr
    <3>1. KeyIndex(t, k) = k
      BY <1>0, <2>1 DEF KeyIndex, InArray
    <3> QED BY <1>0, <2>1, <3>1 DEF Indices, KeyAt
  <2>2. CASE k \notin DOMAIN t.arr
    <3>1. PICK n \in DOMAIN t.node : n = Find(t, k) /\ t.node[n].key = k
      BY <1>0, <1>2, <2>2, FindSpec DEF KeyKnown, InArray
    <3> DEFINE i == Asize(t) + n
    <3>2. KeyIndex(t, k) = i
      BY <1>0, <2>2, <3>1 DEF KeyIndex, InArray
    <3>3. i \in Indices(t) /\ ~(i < Asize(t)) /\ i - Asize(t) = n
      BY <1>0 DEF Indices
    <3> HIDE DEF i
    <3> QED BY <3>1, <3>2, <3>3 DEF KeyAt
  <2> QED BY <2>1, <2>2
<1> QED BY <1>1, <1>2

\* An assignment to a field that is present changes no index, and makes nothing
\* else present.
LEMMA PresentSpec ==
  ASSUME NEW t, Good(t), hash \in [Key -> Nat], NEW k \in Key, NEW v \in Key \union {Nil}, Get(t, k) # Nil
  PROVE  LET r == Set(t, k, v)
         IN  /\ Indices(r) = Indices(t)
             /\ \A i \in Indices(t) : KeyAt(r, i) = KeyAt(t, i) /\ (ValAt(r, i) # Nil => ValAt(t, i) # Nil)
<1> DEFINE r == Set(t, k, v)
<1>0. Shape(t) /\ Asize(t) \in Nat /\ t.hsize \in Nat
      /\ DOMAIN t.arr = 0..Asize(t) - 1 /\ DOMAIN t.node = 0..t.hsize - 1 /\ None \notin DOMAIN t.node
  BY FieldSpec, NodeFacts DEF Good
<1>1. CASE k \in DOMAIN t.arr
  <2>1. r = [t EXCEPT !.arr[k] = v]
    BY <1>1 DEF Set, SetInPlace, InArray
  <2> HIDE DEF r
  <2>2. /\ DOMAIN r.arr = DOMAIN t.arr /\ r.hsize = t.hsize /\ r.node = t.node
        /\ \A i \in DOMAIN t.arr : i # k => r.arr[i] = t.arr[i]
    BY <1>0, <1>1, <2>1, ArrayUpdated
  <2>3. t.arr[k] # Nil
    BY <1>1, GetSpec
  <2>4. Asize(r) = Asize(t)
    BY <2>2 DEF Asize
  <2>5. \A i \in Indices(t) : i < Asize(t) => i \in DOMAIN t.arr
    BY <1>0 DEF Indices
  <2> QED BY <2>2, <2>3, <2>4, <2>5 DEF Indices, KeyAt, ValAt, r
<1>2. CASE k \notin DOMAIN t.arr
  <2>1. PICK n \in DOMAIN t.node : t.node[n].key = k
    BY <1>2, GetSpec
  <2>2. Find(t, k) = n /\ n # None /\ t.node[n].val # Nil
    BY <1>0, <2>1, FindSpec, GetSpec
  <2>3. r = [t EXCEPT !.node[n].val = v]
    BY <1>2, <2>2 DEF Set, SetInPlace, InArray
  <2> HIDE DEF r
  <2>4. /\ r.arr = t.arr /\ r.hsize = t.hsize
        /\ \A m \in DOMAIN t.node : r.node[m].key = t.node[m].key /\ (m # n => r.node[m].val = t.node[m].val)
    BY <1>0, <2>3, NodeUpdated
  <2>5. Asize(r) = Asize(t)
    BY <2>4 DEF Asize
  <2>6. \A i \in Indices(t) : ~(i < Asize(t)) => i - Asize(t) \in DOMAIN t.node
    BY <1>0 DEF Indices
  <2> QED BY <2>2, <2>4, <2>5, <2>6 DEF Indices, KeyAt, ValAt, r
<1> QED BY <1>1, <1>2

\* A traversal goes on undisturbed by such an assignment.
LEMMA TraversalKept ==
  ASSUME NEW t, Good(t), NEW r, Good(r), hash \in [Key -> Nat], NEW c, NEW vs, TraversalOf(t, c, vs),
         Indices(r) = Indices(t),
         \A i \in Indices(t) : KeyAt(r, i) = KeyAt(t, i) /\ (ValAt(r, i) # Nil => ValAt(t, i) # Nil)
  PROVE  TraversalOf(r, c, vs)
<1>1. ASSUME NEW k \in Key, KeyKnown(t, k) PROVE KeyKnown(r, k) /\ KeyIndex(r, k) = KeyIndex(t, k)
  BY <1>1, IndexSpec
<1>2. KeyKnown(r, Nil) /\ KeyIndex(r, Nil) = KeyIndex(t, Nil)
  BY DEF KeyKnown, KeyIndex
<1>3. KeyKnown(r, c) /\ KeyIndex(r, c) = KeyIndex(t, c)
  BY <1>1, <1>2 DEF TraversalOf
<1>4. ToSet(vs) \subseteq Key
  BY DEF TraversalOf, ToSet
<1> QED BY <1>1, <1>3, <1>4 DEF TraversalOf

\* next() goes to a field that was not visited, or all that are present were.
LEMMA AdvanceSpec ==
  ASSUME NEW t, Good(t), hash \in [Key -> Nat], NEW c, NEW vs, TraversalOf(t, c, vs)
  PROVE  /\ Later(t, c) = {} => \A k \in Key : Get(t, k) # Nil => k \in ToSet(vs)
         /\ Later(t, c) # {} =>
              LET k == KeyAt(t, Min(Later(t, c)))
              IN  /\ k \in Key /\ Get(t, k) # Nil /\ k \notin ToSet(vs)
                  /\ TraversalOf(t, k, Append(vs, k))
<1> DEFINE later == Later(t, c)
           p == KeyIndex(t, c)
<1>0. vs \in Seq(Key) /\ KeyKnown(t, c) /\ c \in Key \union {Nil} /\ ToSet(vs) \subseteq Key
  BY DEF TraversalOf, ToSet
<1>i. Indices(t) \subseteq Nat
  BY FieldSpec DEF Indices
<1>p. p \in Int
  <2>1. c = Nil => p = -1
    BY DEF KeyIndex
  <2>2. c \in Key => p \in Nat
    BY <1>0, <1>i, IndexSpec
  <2> QED BY <1>0, <2>1, <2>2
<1> HIDE DEF p
<1>1. ASSUME later = {}, NEW k \in Key, Get(t, k) # Nil PROVE k \in ToSet(vs)
  <2>1. PICK i \in Indices(t) : KeyAt(t, i) = k /\ ValAt(t, i) # Nil
    BY <1>1, FieldSpec
  <2>2. ~(i > p)
    BY <1>1, <2>1 DEF Later, p
  <2>3. i <= p
    BY <1>i, <1>p, <2>2
  <2> QED BY <2>1, <2>3 DEF TraversalOf, p
<1>2. ASSUME later # {}
      PROVE  LET k == KeyAt(t, Min(later))
             IN  /\ k \in Key /\ Get(t, k) # Nil /\ k \notin ToSet(vs)
                 /\ TraversalOf(t, k, Append(vs, k))
  <2> DEFINE j == Min(later)
             k == KeyAt(t, j)
  <2>1. later \subseteq Indices(t) /\ later \in SUBSET Nat
    BY <1>i DEF Later
  <2>2. j \in later /\ \A i \in later : j <= i
    <3> HIDE DEF later
    <3> QED BY <1>2, <2>1, MinSpec
  <2>3. j \in Indices(t) /\ j > p /\ ValAt(t, j) # Nil
    BY <2>2 DEF Later, p
  <2> HIDE DEF j
  <2>4. k \in Key /\ Get(t, k) # Nil
    BY <2>3, FieldSpec
  <2>5. KeyKnown(t, k) /\ KeyIndex(t, k) = j
    BY <2>3, <2>4, IndexSpec
  <2> HIDE DEF k
  <2>6. \A x \in ToSet(vs) : KeyKnown(t, x) /\ KeyIndex(t, x) <= p /\ KeyIndex(t, x) \in Nat
    BY <1>0, <1>i, IndexSpec DEF TraversalOf, p
  <2>7. k \notin ToSet(vs)
    BY <1>i, <1>p, <2>3, <2>5, <2>6
  <2>8. Append(vs, k) \in Seq(Key) /\ ToSet(Append(vs, k)) = ToSet(vs) \union {k}
    <3>1. DOMAIN Append(vs, k) = 1..Len(vs) + 1 /\ DOMAIN vs = 1..Len(vs) /\ Len(vs) \in Nat
      BY <1>0
    <3>2. \A i \in 1..Len(vs) + 1 : Append(vs, k)[i] = IF i = Len(vs) + 1 THEN k ELSE vs[i]
      BY <1>0
    <3>3. \A i : i \in 1..Len(vs) + 1 <=> i \in 1..Len(vs) \/ i = Len(vs) + 1
      BY <3>1
    <3>4. Len(vs) + 1 \notin 1..Len(vs)
      BY <3>1
    <3> DEFINE ap == Append(vs, k)
               n == Len(vs) + 1
    <3>5. ap \in Seq(Key)
      BY <1>0, <2>4
    <3> HIDE DEF ap
    <3>6. ToSet(ap) = ToSet(vs) \union {k}
      BY <3>1, <3>2, <3>3, <3>4 DEF ToSet, ap
    <3> QED BY <3>5, <3>6 DEF ap
  <2>9. ASSUME NEW i \in Indices(t), ValAt(t, i) # Nil, i <= j PROVE KeyAt(t, i) \in ToSet(vs) \union {k}
    <3>1. CASE i <= p
      BY <2>9, <3>1 DEF TraversalOf, p
    <3>2. CASE i > p
      <4>1. i \in later
        BY <2>9, <3>2 DEF Later, p
      <4>2. i = j
        BY <1>i, <2>2, <2>3, <2>9, <4>1
      <4> QED BY <4>2 DEF k
    <3> QED BY <1>i, <1>p, <3>1, <3>2
  <2>10. \A x \in ToSet(vs) \union {k} : KeyKnown(t, x) /\ KeyIndex(t, x) <= j
    BY <1>i, <1>p, <2>3, <2>5, <2>6
  <2>11. k # Nil
    BY <2>4, ConstantsOK
  <2>12. TraversalOf(t, k, Append(vs, k))
    BY <2>4, <2>5, <2>8, <2>9, <2>10, <2>11 DEF TraversalOf
  <2> QED BY <2>4, <2>7, <2>12 DEF k, j
<1> QED BY <1>1, <1>2

(***************************************************************************)
(* The length.                                                             *)
(***************************************************************************)

\* The middle of two numbers that are not next to each other.
LEMMA Middle ==
  ASSUME NEW a \in Nat, NEW b \in Nat, b - a > 1
  PROVE  (a + b) \div 2 \in Nat /\ a < (a + b) \div 2 /\ (a + b) \div 2 < b
OBVIOUS

\* Halving between an index that is present, or the first, and one that is absent
\* ends at a border.
LEMMA BorderSpec ==
  ASSUME NEW t, NEW i0 \in Nat, NEW j0 \in Nat, NEW shift \in Nat, i0 < j0, GetInt(t, j0 - shift) = Nil
  PROVE  LET b == Border(t, i0, j0, shift)
         IN  /\ b \in Nat /\ b >= i0
             /\ b = i0 \/ GetInt(t, b - shift) # Nil
             /\ GetInt(t, b + 1 - shift) = Nil
<1> DEFINE A == Nat \X Nat
           mid(p) == (p[1] + p[2]) \div 2
           step(p) == IF p[2] - p[1] <= 1 THEN p
                      ELSE IF GetInt(t, mid(p) - shift) = Nil THEN <<p[1], mid(p)>> ELSE <<mid(p), p[2]>>
           G == [n \in Nat |-> [p \in A |-> step(p)]]
           turn[n \in Nat] ==
             IF n = 0 THEN <<i0, j0>>
             ELSE LET p == turn[n - 1]
                      m == (p[1] + p[2]) \div 2
                  IN  IF p[2] - p[1] <= 1 THEN p
                      ELSE IF GetInt(t, m - shift) = Nil THEN <<p[1], m>> ELSE <<m, p[2]>>
<1>1. \A p \in A : step(p) \in A
  <2> SUFFICES ASSUME NEW p \in A PROVE step(p) \in A
    OBVIOUS
  <2>1. p[1] \in Nat /\ p[2] \in Nat
    OBVIOUS
  <2>2. mid(p) \in Nat
    BY <2>1
  <2> HIDE DEF mid
  <2> QED BY <2>1, <2>2
<1> HIDE DEF step
<1>2. PICK f : Recurs(f, A, <<i0, j0>>, G)
  <2>1. <<i0, j0>> \in A /\ G \in [Nat -> [A -> A]]
    BY <1>1
  <2> HIDE DEF G, A
  <2> QED BY <2>1, Recursion
<1>3. /\ f \in [Nat -> A] /\ f[0] = <<i0, j0>>
      /\ \A n \in Nat : f[n] \in A /\ f[n + 1] = step(f[n])
  BY <1>2 DEF Recurs
<1>4. turn = [n \in Nat |-> IF n = 0 THEN <<i0, j0>> ELSE step(turn[n - 1])]
  <2>1. ASSUME NEW n \in Nat, n # 0 PROVE f[n] = step(f[n - 1])
    <3>1. n - 1 \in Nat /\ n - 1 + 1 = n
      BY <2>1
    <3> QED BY <1>3, <3>1
  <2>2. f = [n \in Nat |-> IF n = 0 THEN <<i0, j0>> ELSE step(f[n - 1])]
    BY <1>3, <2>1
  <2> QED BY <2>2 DEF step
<1> HIDE DEF turn
<1>5. turn[0] = <<i0, j0>> /\ \A n \in Nat : turn[n + 1] = step(turn[n])
  <2>1. turn[0] = <<i0, j0>>
    BY <1>4
  <2>2. ASSUME NEW n \in Nat PROVE turn[n + 1] = step(turn[n])
    <3> DEFINE m == n + 1
    <3>1. m \in Nat /\ m # 0 /\ m - 1 = n
      OBVIOUS
    <3> HIDE DEF m
    <3>2. turn[m] = step(turn[m - 1])
      BY <1>4, <3>1
    <3> QED BY <3>1, <3>2 DEF m
  <2> QED BY <2>1, <2>2
<1> DEFINE Ok(n, p) == /\ p \in A /\ i0 <= p[1] /\ p[1] < p[2]
                       /\ p[1] = i0 \/ GetInt(t, p[1] - shift) # Nil
                       /\ GetInt(t, p[2] - shift) = Nil
                       /\ p[2] - p[1] <= 1 \/ p[2] - p[1] <= j0 - i0 - n
           N == j0 - i0
           T == {n \in 0..N : Ok(n, turn[n])}
<1>6. 0..N \subseteq T
  <2>0. N \in Nat
    OBVIOUS
  <2>1. 0 \in T
    <3> DEFINE p == turn[0]
    <3>1. p = <<i0, j0>>
      BY <1>5
    <3> HIDE DEF p
    <3>2. p \in A /\ p[1] = i0 /\ p[2] = j0
      BY <3>1
    <3> HIDE DEF A
    <3>3. Ok(0, p)
      BY <3>2
    <3> HIDE DEF Ok, N
    <3> QED BY <2>0, <3>3 DEF p
  <2>2. ASSUME NEW n \in 0..N - 1, n \in T PROVE n + 1 \in T
    <3> DEFINE p == turn[n]
    <3>1. Ok(n, p) /\ n \in Nat /\ n + 1 \in 0..N /\ turn[n + 1] = step(p)
      BY <1>5, <2>2
    <3> HIDE DEF p
    <3>2. p[1] \in Nat /\ p[2] \in Nat /\ p = <<p[1], p[2]>>
      BY <3>1
    <3>3. Ok(n + 1, step(p))
      <4>1. CASE p[2] - p[1] <= 1
        BY <3>1, <4>1 DEF step
      <4>2. CASE ~(p[2] - p[1] <= 1)
        <5> DEFINE m == mid(p)
        <5>1. m \in Nat /\ p[1] < m /\ m < p[2]
          <6>1. p[2] - p[1] > 1
            BY <3>2, <4>2
          <6> QED BY <3>2, <6>1, Middle
        <5>2. step(p) = IF GetInt(t, m - shift) = Nil THEN <<p[1], m>> ELSE <<m, p[2]>>
          BY <4>2 DEF step
        <5> HIDE DEF m
        <5>3. CASE GetInt(t, m - shift) = Nil
          <6>1. step(p) = <<p[1], m>>
            BY <5>2, <5>3
          <6>2. step(p) \in A /\ step(p)[1] = p[1] /\ step(p)[2] = m
            BY <3>2, <5>1, <6>1
          <6> HIDE DEF A
          <6> QED BY <3>1, <3>2, <4>2, <5>1, <5>3, <6>2
        <5>4. CASE GetInt(t, m - shift) # Nil
          <6>1. step(p) = <<m, p[2]>>
            BY <5>2, <5>4
          <6>2. step(p) \in A /\ step(p)[1] = m /\ step(p)[2] = p[2]
            BY <3>2, <5>1, <6>1
          <6> HIDE DEF A
          <6> QED BY <3>1, <3>2, <4>2, <5>1, <5>4, <6>2
        <5> QED BY <5>3, <5>4
      <4> QED BY <4>1, <4>2
    <3> HIDE DEF Ok, N
    <3> QED BY <3>1, <3>3
  <2> HIDE DEF T, N
  <2> QED BY <2>0, <2>1, <2>2, Upto
<1>7. Ok(N, turn[N])
  <2>1. N \in 0..N
    OBVIOUS
  <2> HIDE DEF N, Ok
  <2> QED BY <1>6, <2>1
<1> DEFINE p == turn[N]
<1>8. Border(t, i0, j0, shift) = p[1]
  BY DEF Border, turn
<1> HIDE DEF p
<1>9. Ok(N, p)
  BY <1>7 DEF p
<1>10. p[1] \in Nat /\ p[2] \in Nat /\ p[2] = p[1] + 1
  BY <1>9
<1> QED BY <1>8, <1>9, <1>10

\* Doubling from an index finds one that is absent, in as many turns as there are
\* pairs, and then a border.
LEMMA UnboundSpec ==
  ASSUME NEW t, Good(t), hash \in [Key -> Nat], NEW i0 \in Nat
  PROVE  LET b == Unbound(t, i0)
         IN  b \in Nat /\ (b = i0 \/ GetInt(t, b) # Nil) /\ GetInt(t, b + 1) = Nil
<1> DEFINE A == Nat \X Nat
           step(p) == IF GetInt(t, p[2]) = Nil THEN p ELSE <<p[2], 2 * p[2]>>
           G == [n \in Nat |-> [p \in A |-> step(p)]]
           turn[n \in Nat] ==
             IF n = 0 THEN <<i0, i0 + 1>>
             ELSE LET p == turn[n - 1]
                  IN  IF GetInt(t, p[2]) = Nil THEN p ELSE <<p[2], 2 * p[2]>>
<1>1. \A p \in A : step(p) \in A
  OBVIOUS
<1> HIDE DEF step
<1>2. PICK f : Recurs(f, A, <<i0, i0 + 1>>, G)
  <2>1. <<i0, i0 + 1>> \in A /\ G \in [Nat -> [A -> A]]
    BY <1>1
  <2> HIDE DEF G, A
  <2> QED BY <2>1, Recursion
<1>3. /\ f \in [Nat -> A] /\ f[0] = <<i0, i0 + 1>>
      /\ \A n \in Nat : f[n] \in A /\ f[n + 1] = step(f[n])
  BY <1>2 DEF Recurs
<1>4. turn = [n \in Nat |-> IF n = 0 THEN <<i0, i0 + 1>> ELSE step(turn[n - 1])]
  <2>1. ASSUME NEW n \in Nat, n # 0 PROVE f[n] = step(f[n - 1])
    <3>1. n - 1 \in Nat /\ n - 1 + 1 = n
      BY <2>1
    <3> QED BY <1>3, <3>1
  <2>2. f = [n \in Nat |-> IF n = 0 THEN <<i0, i0 + 1>> ELSE step(f[n - 1])]
    BY <1>3, <2>1
  <2> QED BY <2>2 DEF step
<1> HIDE DEF turn
<1>5. turn[0] = <<i0, i0 + 1>> /\ \A n \in Nat : turn[n + 1] = step(turn[n])
  <2>1. turn[0] = <<i0, i0 + 1>>
    BY <1>4
  <2>2. ASSUME NEW n \in Nat PROVE turn[n + 1] = step(turn[n])
    <3> DEFINE m == n + 1
    <3>1. m \in Nat /\ m # 0 /\ m - 1 = n
      OBVIOUS
    <3> HIDE DEF m
    <3>2. turn[m] = step(turn[m - 1])
      BY <1>4, <3>1
    <3> QED BY <3>1, <3>2 DEF m
  <2> QED BY <2>1, <2>2
<1>t. \A n \in Nat : turn[n] \in A /\ turn[n][1] \in Nat /\ turn[n][2] \in Nat
  <2> DEFINE X == {n \in Nat : turn[n] \in A}
  <2>0. <<i0, i0 + 1>> \in A
    OBVIOUS
  <2> HIDE DEF A
  <2>1. 0 \in X /\ \A n \in Nat : n \in X => n + 1 \in X
    BY <1>1, <1>5, <2>0
  <2> HIDE DEF X
  <2>2. Nat \subseteq X
    BY <2>1, AllNat
  <2>3. \A n \in Nat : turn[n] \in A
    BY <2>2 DEF X
  <2> QED BY <2>3 DEF A
<1> DEFINE Here(n) == GetInt(t, turn[n][2]) # Nil
           Ok(n) == /\ turn[n] \in A /\ turn[n][1] < turn[n][2]
                    /\ turn[n][1] = i0 \/ GetInt(t, turn[n][1]) # Nil
                    /\ Here(n) => \A m \in 0..n : Here(m) /\ (m < n => turn[m][2] < turn[n][2])
           T == {n \in Nat : Ok(n)}
<1>6. Nat \subseteq T
  <2>1. 0 \in T
    <3>1. turn[0] \in A /\ turn[0][1] = i0 /\ turn[0][2] = i0 + 1
      BY <1>5
    <3>2. \A m \in 0..0 : m = 0
      OBVIOUS
    <3> HIDE DEF A
    <3> QED BY <3>1, <3>2
  <2>2. ASSUME NEW n \in Nat, n \in T PROVE n + 1 \in T
    <3> DEFINE p == turn[n]
               r == turn[n + 1]
    <3>1. p \in A /\ p[1] \in Nat /\ p[2] \in Nat /\ r = step(p) /\ p[1] < p[2]
      BY <1>5, <2>2
    <3>0. /\ p[1] = i0 \/ GetInt(t, p[1]) # Nil
          /\ Here(n) => \A m \in 0..n : Here(m) /\ (m < n => turn[m][2] < p[2])
      BY <2>2
    <3>2. CASE GetInt(t, p[2]) = Nil
      <4>1. r = p
        BY <3>1, <3>2 DEF step
      <4>2. ~Here(n + 1)
        BY <3>2, <4>1
      <4>3. r \in A /\ r[1] < r[2] /\ (r[1] = i0 \/ GetInt(t, r[1]) # Nil)
        BY <3>0, <3>1, <4>1
      <4> HIDE DEF p
      <4> QED BY <4>2, <4>3
    <3>3. CASE GetInt(t, p[2]) # Nil
      <4>1. r = <<p[2], 2 * p[2]>>
        BY <3>1, <3>3 DEF step
      <4>2. r \in A /\ r[1] = p[2] /\ r[2] = 2 * p[2] /\ r[2] > p[2] /\ r[2] \in Nat
        BY <3>1, <4>1
      <4>3. ASSUME Here(n + 1), NEW m \in 0..n + 1 PROVE Here(m) /\ (m < n + 1 => turn[m][2] < r[2])
        <5>1. CASE m = n + 1
          BY <4>3, <5>1
        <5>2. CASE m = n
          BY <3>3, <4>2, <5>2
        <5>3. CASE m \in 0..n /\ m < n
          <6>1. Here(m) /\ turn[m][2] < p[2]
            BY <3>0, <3>3, <5>3
          <6>2. turn[m][2] \in Nat
            BY <1>t, <5>3
          <6> QED BY <6>1, <6>2, <3>1, <4>2, <5>3
        <5> QED BY <5>1, <5>2, <5>3
      <4> HIDE DEF p
      <4> QED BY <3>3, <4>2, <4>3
    <3> QED BY <3>2, <3>3
  <2> HIDE DEF T
  <2> QED BY <2>1, <2>2, AllNat
<1> DEFINE N == LivePairs(t)
           L == {k \in Key : Get(t, k) # Nil}
<1>7. N \in Nat /\ IsFiniteSet(L) /\ Cardinality(L) <= N /\ Cardinality(L) \in Nat
  <2>1. N \in Nat /\ IsFiniteSet(L) /\ Cardinality(L) <= N
    BY LiveSpec
  <2> HIDE DEF L
  <2> QED BY <2>1, FS_CardinalityType
<1>8. \A n \in Nat : Ok(n)
  BY <1>6
<1> HIDE DEF Ok
<1> HIDE DEF N
<1>9. ~Here(N)
  <2> SUFFICES ASSUME Here(N) PROVE FALSE
    OBVIOUS
  <2> DEFINE g == [m \in 0..N |-> turn[m][2]]
  <2>1. \A m \in 0..N : turn[m][2] \in L
    <3> SUFFICES ASSUME NEW m \in 0..N PROVE turn[m][2] \in L
      OBVIOUS
    <3>1. Here(m)
      BY <1>7, <1>8 DEF Ok
    <3> QED BY <3>1 DEF GetInt
  <2>2. \A a, b \in 0..N : a < b => turn[a][2] < turn[b][2] /\ turn[a][2] \in Nat /\ turn[b][2] \in Nat
    <3> SUFFICES ASSUME NEW a \in 0..N, NEW b \in 0..N, a < b
                 PROVE  turn[a][2] < turn[b][2] /\ turn[a][2] \in Nat /\ turn[b][2] \in Nat
      OBVIOUS
    <3>1. a \in Nat /\ b \in Nat /\ a \in 0..b
      BY <1>7
    <3>2. Here(b)
      BY <1>7, <1>8 DEF Ok
    <3>3. turn[a] \in A /\ turn[b] \in A /\ turn[a][2] < turn[b][2]
      BY <1>8, <3>1, <3>2 DEF Ok
    <3> QED BY <3>3
  <2> HIDE DEF L, A
  <2>3. g \in [0..N -> L]
    BY <2>1
  <2>4. \A a, b \in 0..N : g[a] = g[b] => a = b
    <3> SUFFICES ASSUME NEW a \in 0..N, NEW b \in 0..N, turn[a][2] = turn[b][2] PROVE a = b
      OBVIOUS
    <3>1. a \in Nat /\ b \in Nat /\ ~(a < b) /\ ~(b < a)
      BY <1>7, <2>2
    <3> QED BY <3>1
  <2> HIDE DEF g
  <2>5. Cardinality(0..N) <= Cardinality(L)
    BY <1>7, <2>3, <2>4, OneToOne
  <2>6. Cardinality(0..N) = N + 1
    BY <1>7, FS_Interval
  <2> QED BY <1>7, <2>5, <2>6
<1> DEFINE p == turn[N]
<1>10. Unbound(t, i0) = Border(t, p[1], p[2], 0)
  BY DEF Unbound, turn, N
<1>11. p \in A /\ p[1] < p[2] /\ (p[1] = i0 \/ GetInt(t, p[1]) # Nil) /\ GetInt(t, p[2]) = Nil
  BY <1>7, <1>8, <1>9 DEF Ok
<1> HIDE DEF p
<1>12. p[1] \in Nat /\ p[2] \in Nat /\ \A i \in Nat : i - 0 = i /\ i + 1 - 0 = i + 1
  BY <1>11
<1> DEFINE b == Unbound(t, i0)
<1>13. b \in Nat /\ (b = p[1] \/ GetInt(t, b - 0) # Nil) /\ GetInt(t, b + 1 - 0) = Nil
  BY <1>10, <1>11, <1>12, BorderSpec
<1> HIDE DEF b
<1> QED BY <1>11, <1>12, <1>13 DEF b

\* The length of a table is a border.
LEMMA LengthSpec ==
  ASSUME NEW t, Good(t), hash \in [Key -> Nat]
  PROVE  LET n == Length(t) IN (n = 0 \/ GetInt(t, n) # Nil) /\ GetInt(t, n + 1) = Nil
<1> DEFINE n == Asize(t)
           b == Length(t)
<1>0. n \in Nat /\ t.hsize \in Nat /\ DOMAIN t.arr = 0..n - 1 /\ DOMAIN t.node = 0..t.hsize - 1
  BY FieldSpec, NodeFacts DEF Good
<1>a. \A i \in DOMAIN t.arr : GetInt(t, i) = t.arr[i]
  <2> SUFFICES ASSUME NEW i \in DOMAIN t.arr PROVE GetInt(t, i) = t.arr[i]
    OBVIOUS
  <2>1. t.arr[i] # Nil => i \in Key
    BY DEF Good, InPlace
  <2> QED BY <2>1, GetSpec DEF GetInt
<1> HIDE DEF n
<1>1. CASE n > 1 /\ t.arr[n - 1] = Nil
  <2> DEFINE c == Border(t, 1, n, 1)
  <2>1. b = c - 1
    BY <1>1 DEF Length, n
  <2>2. GetInt(t, n - 1) = Nil
    BY <1>0, <1>1, <1>a
  <2>3. c \in Nat /\ c >= 1 /\ (c = 1 \/ GetInt(t, c - 1) # Nil) /\ GetInt(t, c + 1 - 1) = Nil
    BY <1>0, <1>1, <2>2, BorderSpec
  <2> HIDE DEF c, b
  <2>4. c - 1 + 1 = c + 1 - 1
    BY <2>3
  <2> QED BY <2>1, <2>3, <2>4 DEF b
<1>2. CASE ~(n > 1 /\ t.arr[n - 1] = Nil)
  <2> DEFINE j == IF n > 0 THEN n - 1 ELSE 0
  <2>1. b = IF t.hsize = 0 THEN j ELSE Unbound(t, j)
    BY <1>2 DEF Length, n
  <2>2. j \in Nat /\ (j = 0 \/ GetInt(t, j) # Nil) /\ j + 1 \notin DOMAIN t.arr
    BY <1>0, <1>2, <1>a
  <2> HIDE DEF j
  <2>3. CASE t.hsize = 0
    <3>1. DOMAIN t.node = {}
      BY <1>0, <2>3
    <3>2. GetInt(t, j + 1) = Nil
      BY <2>2, <3>1, GetSpec DEF GetInt
    <3> HIDE DEF b
    <3> QED BY <2>1, <2>2, <2>3, <3>2 DEF b
  <2>4. CASE t.hsize # 0
    <3>1. b = Unbound(t, j)
      BY <2>1, <2>4
    <3> HIDE DEF b
    <3>2. (b = j \/ GetInt(t, b) # Nil) /\ GetInt(t, b + 1) = Nil
      BY <2>2, <3>1, UnboundSpec
    <3>3. b = 0 \/ GetInt(t, b) # Nil
      BY <2>2, <3>2
    <3> QED BY <3>2, <3>3 DEF b
  <2> QED BY <2>3, <2>4
<1> QED BY <1>1, <1>2

(***************************************************************************)
(* The specification.                                                      *)
(***************************************************************************)

\* While the hashes of keys stay, a table is read after a step as before it.
LEMMA Frame ==
  ASSUME hash' = hash
  PROVE  /\ \A k : Get(tab, k)' = Get(tab', k)
         /\ Good(tab)' <=> Good(tab')
         /\ TraversalOf(tab, cursor, visits)' <=> TraversalOf(tab', cursor', visits')
<1>1. \A k : Get(tab, k)' = Get(tab', k)
  BY DEF Get, InArray, Find, Main
<1>2. Good(tab)' <=> Good(tab')
  BY DEF Good, Shape, InPlace, Separate, Anchored, TopUsed, Main
<1>3. \A k : KeyKnown(tab, k)' <=> KeyKnown(tab', k)
  BY DEF KeyKnown, InArray, Find, Main
<1>4. \A k : KeyIndex(tab, k)' = KeyIndex(tab', k)
  BY DEF KeyIndex, InArray, Find, Main
<1>5. TraversalOf(tab, cursor, visits)' <=> TraversalOf(tab', cursor', visits')
  BY <1>3, <1>4 DEF TraversalOf
<1> QED BY <1>1, <1>2, <1>5

\* A table that is not traversed has no cursor.
LEMMA OffTraversal ==
  ASSUME NEW t, Good(t), hash \in [Key -> Nat]
  PROVE  TraversalOf(t, Nil, <<>>)
<1>1. KeyKnown(t, Nil) /\ KeyIndex(t, Nil) = -1
  BY DEF KeyKnown, KeyIndex
<1>2. Indices(t) \subseteq Nat
  BY FieldSpec DEF Indices
<1>3. <<>> \in Seq(Key) /\ ToSet(<<>>) = {}
  BY DEF ToSet
<1> QED BY <1>1, <1>2, <1>3 DEF TraversalOf

\* Initially the table is empty.
LEMMA InitIInv ==
  ASSUME Init, setup.recycled = 0
  PROVE  IInv /\ Content = [k \in Key |-> Nil]
<1>1. Params /\ setup.asize \in Nat /\ setup.hsize \in Nat
      /\ (setup.hsize = 0 \/ \E b \in 1..setup.hsize : setup.hsize = Pow2[b])
  BY ConstantsOK DEF Init, Params
<1>2. /\ Good(tab) /\ tab.hsize = setup.hsize /\ \A k \in Key : Get(tab, k) = Nil
  BY <1>1, NewSpec DEF Init, Params
<1>3. SizeOK(tab)
  BY <1>1, <1>2 DEF SizeOK
<1>4. WalkOK
  BY DEF Init, WalkOK
<1> QED BY <1>1, <1>2, <1>3, <1>4 DEF IInv, Content

\* An assignment changes one field and disturbs no traversal that it does not end.
LEMMA AssignStep ==
  ASSUME IInv, NEW k \in Key, NEW v \in {k, Nil}, Assign(k, v)
  PROVE  IInv' /\ Map!Assign
<1>0. /\ hash' = hash /\ Params /\ hash \in [Key -> Nat] /\ Good(tab) /\ SizeOK(tab) /\ v \in Key \union {Nil}
      /\ tab' = Set(tab, k, v)
  BY DEF Assign, IInv, Params
<1>1. /\ Good(tab') /\ SizeOK(tab')
      /\ \A j \in Key : Get(tab', j) = IF j = k THEN v ELSE Get(tab, j)
  BY <1>0, AssignSpec
<1>2. Params' /\ Good(tab)' /\ SizeOK(tab)'
  BY <1>0, <1>1, Frame DEF Assign, Params, SizeOK
<1>3. WalkOK'
  <2>1. CASE walk = "on" /\ Get(tab, k) = Nil
    BY <2>1 DEF Assign, Stop, WalkOK
  <2>2. CASE walk = "on" /\ Get(tab, k) # Nil
    <3>1. UNCHANGED walking /\ TraversalOf(tab, cursor, visits)
      BY <2>2 DEF Assign, IInv, WalkOK
    <3>2. /\ Indices(tab') = Indices(tab)
          /\ \A i \in Indices(tab) : KeyAt(tab', i) = KeyAt(tab, i) /\ (ValAt(tab', i) # Nil => ValAt(tab, i) # Nil)
      BY <1>0, <2>2, PresentSpec
    <3>3. TraversalOf(tab', cursor, visits)
      BY <1>0, <1>1, <3>1, <3>2, TraversalKept
    <3>4. TraversalOf(tab, cursor, visits)'
      BY <1>0, <3>1, <3>3, Frame DEF walking
    <3> QED BY <2>2, <3>1, <3>4 DEF WalkOK, walking
  <2>3. CASE walk # "on"
    BY <2>3 DEF Assign, WalkOK, IInv, walking
  <2> QED BY <2>1, <2>2, <2>3
<1>4. Map!Assign
  <2>1. Content' = [j \in Key |-> IF j = k THEN v ELSE Get(tab, j)]
    BY <1>0, <1>1, Frame DEF Content
  <2>2. Content'[k] = v /\ Content' = [Content EXCEPT ![k] = v] /\ Content[k] = Get(tab, k)
    BY <2>1 DEF Content
  <2>3. IF walk = "on" /\ Content[k] = Nil THEN Map!Stop("undefined") ELSE UNCHANGED <<walk, cursor, visits>>
    BY <2>2 DEF Assign, Map!Stop, Stop, walking
  <2> HIDE DEF Content
  <2> QED BY <1>0, <2>2, <2>3 DEF Map!Assign
<1> QED BY <1>2, <1>3, <1>4 DEF IInv

\* Growing the array part changes no field.
LEMMA ReasizeStep ==
  ASSUME IInv, NEW n \in Reasizes, Reasize(n)
  PROVE  IInv' /\ UNCHANGED Map!vars
<1>0. /\ hash' = hash /\ Params /\ hash \in [Key -> Nat] /\ Good(tab) /\ SizeOK(tab)
      /\ tab' = Resized(tab, n + 1, tab.hsize) /\ n + 1 > Asize(tab) /\ n + 1 \in Nat
  BY ConstantsOK DEF Reasize, IInv, Params
<1>1. Good(tab') /\ tab'.hsize = tab.hsize /\ \A k \in Key : Get(tab', k) = Get(tab, k)
  <2>1. Asize(tab) \in Nat
    BY <1>0, FieldSpec
  <2>2. n + 1 >= Asize(tab)
    BY <1>0, <2>1
  <2> QED BY <1>0, <2>2, ReasizeSpec
<1>2. Params' /\ Good(tab)' /\ SizeOK(tab)'
  BY <1>0, <1>1, Frame DEF Reasize, Params, SizeOK
<1>3. WalkOK'
  BY DEF Reasize, IInv, WalkOK, walking
<1>4. Content' = Content
  BY <1>0, <1>1, Frame DEF Content
<1> QED BY <1>2, <1>3, <1>4 DEF IInv, Map!vars, Reasize, walking

\* Steps that leave the table alone.
LEMMA SameTable ==
  ASSUME IInv, UNCHANGED <<tab, hash, recycled, setup>>
  PROVE  Params' /\ Good(tab)' /\ SizeOK(tab)' /\ Content' = Content
<1>1. hash' = hash /\ tab' = tab /\ Good(tab') /\ Params /\ SizeOK(tab)
  BY DEF IInv
<1>2. Content' = Content
  BY <1>1, Frame DEF Content
<1> QED BY <1>1, <1>2, Frame DEF Params, SizeOK

\* A traversal begins.
LEMMA BeginStep ==
  ASSUME IInv, Begin
  PROVE  IInv' /\ Map!Begin
<1>1. Params' /\ Good(tab)' /\ SizeOK(tab)' /\ Content' = Content
  BY SameTable DEF Begin
<1>2. TraversalOf(tab, Nil, <<>>) /\ cursor = Nil /\ visits = <<>>
  BY OffTraversal DEF IInv, Params, Begin, WalkOK
<1>3. TraversalOf(tab, cursor, visits)'
  <2>1. hash' = hash /\ tab' = tab /\ cursor' = cursor /\ visits' = visits
    BY DEF Begin
  <2> QED BY <1>2, <2>1, Frame
<1>4. WalkOK'
  BY <1>3 DEF WalkOK, Begin
<1> QED BY <1>1, <1>4 DEF IInv, Map!Begin, Begin

\* next() visits a field or finishes, and raises no error.
LEMMA AdvanceStep ==
  ASSUME IInv, Advance
  PROVE  IInv' /\ (Map!Finish \/ \E k \in Key : Map!Visit(k))
<1>0. /\ walk = "on" /\ TraversalOf(tab, cursor, visits) /\ Good(tab) /\ hash \in [Key -> Nat]
      /\ hash' = hash /\ tab' = tab
  BY DEF IInv, Params, Advance, WalkOK
<1>1. Params' /\ Good(tab)' /\ SizeOK(tab)' /\ Content' = Content
  BY SameTable DEF Advance
<1>2. KeyKnown(tab, cursor)
  BY <1>0 DEF TraversalOf
<1>3. CASE Later(tab, cursor) = {}
  <2>1. Stop("off")
    BY <1>2, <1>3 DEF Advance
  <2>2. Map!Present \subseteq ToSet(visits)
    BY <1>0, <1>3, AdvanceSpec DEF Map!Present, Content
  <2>3. Map!Finish
    <3>1. Map!Present \subseteq Map!ToSet(visits)
      BY <2>2 DEF ToSet, Map!ToSet
    <3> QED BY <1>0, <1>1, <2>1, <3>1 DEF Map!Finish, Map!Stop, Stop
  <2>4. WalkOK'
    BY <2>1 DEF WalkOK, Stop
  <2> QED BY <1>1, <2>3, <2>4 DEF IInv
<1>4. CASE Later(tab, cursor) # {}
  <2> DEFINE k == KeyAt(tab, Min(Later(tab, cursor)))
  <2>1. cursor' = k /\ visits' = Append(visits, k) /\ walk' = walk
    BY <1>2, <1>4 DEF Advance
  <2>2. k \in Key /\ Get(tab, k) # Nil /\ k \notin ToSet(visits) /\ TraversalOf(tab, k, Append(visits, k))
    BY <1>0, <1>4, AdvanceSpec
  <2> HIDE DEF k
  <2>3. TraversalOf(tab, cursor, visits)'
    BY <1>0, <2>1, <2>2, Frame
  <2>4. WalkOK'
    BY <1>0, <2>1, <2>3 DEF WalkOK
  <2>5. Map!Visit(k)
    <3>1. k \in Map!Present
      BY <2>2 DEF Map!Present, Content
    <3>2. k \notin Map!ToSet(visits)
      BY <2>2 DEF ToSet, Map!ToSet
    <3> QED BY <1>0, <1>1, <2>1, <3>1, <3>2 DEF Map!Visit
  <2> QED BY <1>1, <2>2, <2>4, <2>5 DEF IInv
<1> QED BY <1>3, <1>4

\* Every step keeps the invariant, and is a step of LuaTable or none.
LEMMA Inductive ==
  ASSUME IInv, [Next]_vars
  PROVE  IInv' /\ [Map!Next]_(Map!vars)
<1>1. CASE \E k \in Key : Assign(k, k) \/ Assign(k, Nil)
  <2>1. PICK k \in Key : Assign(k, k) \/ Assign(k, Nil)
    BY <1>1
  <2>2. PICK v \in {k, Nil} : Assign(k, v)
    BY <2>1
  <2> QED BY <2>2, AssignStep DEF Map!Next
<1>2. CASE \E n \in Reasizes : Reasize(n)
  BY <1>2, ReasizeStep
<1>3. CASE \E k \in StrKey, h \in StrHashes : StringRecycled(k, h)
  <2>1. recycled = setup.recycled /\ recycled = 0 /\ recycled < setup.recycled
    BY <1>3 DEF IInv, Params, StringRecycled
  <2> QED BY <2>1
<1>4. CASE Begin
  BY <1>4, BeginStep DEF Map!Next
<1>5. CASE Advance
  BY <1>5, AdvanceStep DEF Map!Next
<1>6. CASE UNCHANGED vars
  <2>1. UNCHANGED <<tab, hash, recycled, setup>> /\ UNCHANGED walking
    BY <1>6 DEF vars
  <2>2. Params' /\ Good(tab)' /\ SizeOK(tab)' /\ Content' = Content
    BY <2>1, SameTable
  <2>3. WalkOK'
    <3>1. hash' = hash /\ tab' = tab /\ cursor' = cursor /\ visits' = visits /\ walk' = walk /\ WalkOK
      BY <2>1 DEF walking, IInv
    <3> QED BY <3>1, Frame DEF WalkOK
  <2> QED BY <2>1, <2>2, <2>3 DEF IInv, Map!vars, walking
<1> QED BY <1>1, <1>2, <1>3, <1>4, <1>5, <1>6 DEF Next

\* The invariant holds throughout a behaviour in which no string is recycled.
THEOREM Invariance == Spec /\ setup.recycled = 0 => []IInv
<1>1. Init /\ setup.recycled = 0 => IInv
  BY InitIInv
<1>2. IInv /\ [Next]_vars => IInv'
  BY Inductive
<1> QED BY <1>1, <1>2, PTL DEF Spec

\* Type correctness of the table, its hash part and the traversal.
THEOREM TypeCorrect == Spec /\ setup.recycled = 0 => []TypeOK
<1>1. IInv => TypeOK
  <2> SUFFICES ASSUME IInv PROVE TypeOK
    OBVIOUS
  <2>1. DOMAIN tab.arr = 0..Asize(tab) - 1 /\ \A i \in DOMAIN tab.arr : tab.arr[i] \in Key \union {Nil}
    BY DEF IInv, Good, Shape
  <2>2. tab.node \in [0..tab.hsize - 1 ->
          [key : Key \union {Nil}, val : Key \union {Nil}, next : -1..tab.hsize - 1]]
        /\ tab.free \in 0..tab.hsize
    BY DEF IInv, Good, Shape, Nodes, Record
  <2>3. walk \in {"on", "off", "undefined", "error"} /\ cursor \in Key \union {Nil} /\ visits \in Seq(Key)
    <3>1. CASE walk = "on" /\ TraversalOf(tab, cursor, visits)
      BY <3>1 DEF TraversalOf
    <3>2. CASE walk \in {"off", "undefined"} /\ cursor = Nil /\ visits = <<>>
      BY <3>2
    <3> QED BY <3>1, <3>2 DEF IInv, WalkOK
  <2>4. recycled \in 0..setup.recycled /\ setup \in Setups /\ hash \in [Key -> Nat]
    BY DEF IInv, Params
  <2> QED BY <2>1, <2>2, <2>3, <2>4 DEF TypeOK, IInv, SizeOK
<1> QED BY <1>1, Invariance, PTL

\* The length of a table is a border of what a program reads from it: lj_tab_len
\* returns 0 or an index that is present, and the next one is absent, however the
\* fields are spread over the two parts.
THEOREM LengthCorrect == Spec /\ setup.recycled = 0 => []LengthIsBorder
<1>1. IInv => LengthIsBorder
  BY LengthSpec DEF IInv, Params, LengthIsBorder
<1> QED BY <1>1, Invariance, PTL

\* The table implements LuaTable: an assignment changes the field it names and no
\* other one, whether it finds its key, takes a free node, displaces a colliding
\* node or has the table rehashed; and a traversal visits every field once.
THEOREM Refinement == Spec /\ setup.recycled = 0 => Implements
<1>1. Init /\ setup.recycled = 0 => Map!Init
  <2> SUFFICES ASSUME Init, setup.recycled = 0 PROVE Map!Init
    OBVIOUS
  <2>1. Content = [k \in Key |-> Nil]
    BY InitIInv
  <2> QED BY <2>1 DEF Init, Map!Init
<1>2. IInv /\ [Next]_vars => [Map!Next]_(Map!vars)
  BY Inductive
<1> QED BY <1>1, <1>2, Invariance, PTL DEF Spec, Implements, Map!Spec

=============================================================================
