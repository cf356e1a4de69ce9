------------------------------- MODULE HashTab --------------------------------
(***************************************************************************)
(* Tables of the Lua runtime, src/luajit/lj_tab.c: an array part and a     *)
(* hash part of chained nodes (Brent's variation), which share one pool of *)
(* free nodes and are sized anew when it is exhausted.  It implements      *)
(* LuaTable.                                                               *)
(*                                                                         *)
(* Integer keys stand for numbers, the keys of StrKey for strings.  A hash *)
(* is taken modulo the size of the hash part, as hash & hmask does.  The   *)
(* address of a string is its identity: when the collector has freed a     *)
(* string, a new one with another hash can get its address, while nodes    *)
(* with a nil value may still hold the old key (StringRecycled).  The      *)
(* value stored under a key is the key itself, so that a mix-up shows.     *)
(***************************************************************************)
EXTENDS Integers, FiniteSets, SequencesExt

CONSTANTS
  IntKey, StrKey,   \* the keys of the model
  StrHashes,        \* the hashes a new string can have
  Reasizes,         \* bound: the sizes passed to lj_tab_reasize
  Setups,           \* bound: the keys one behaviour uses with their first
                    \* hashes, the sizes passed to lj_tab_new, and how many
                    \* strings get the address of an older one
  Nil

Key  == IntKey \union StrKey
None == -1          \* a null link

\* 1 << b.
Pow2[b \in Nat] == IF b = 0 THEN 1 ELSE 2 * Pow2[b - 1]

ASSUME ConstantsOK ==
  /\ IntKey \subseteq Nat /\ Nil \notin Key /\ StrKey \intersect Nat = {}
  /\ StrHashes \subseteq Nat
  /\ \A u \in Setups :
       /\ u.keys \subseteq Key /\ u.hash \in [Key -> Nat]
       /\ u.asize \in Nat /\ u.hsize \in Nat
       /\ u.hsize = 0 \/ \E b \in 1..u.hsize : u.hsize = Pow2[b]
       /\ u.recycled \in Nat
  /\ Reasizes \subseteq Nat

VARIABLES
  tab,       \* the table: arr, hsize (hmask + 1, or 0 without a hash part),
             \* node and free (node->freetop)
  hash,      \* hash of a key
  recycled,  \* how many strings have been recycled, for the bound
  setup,
  walk, cursor, visits      \* a traversal, as in LuaTable

walking == <<walk, cursor, visits>>
vars == <<tab, hash, recycled, setup, walking>>

Asize(t) == Cardinality(DOMAIN t.arr)
EmptyNode == [key |-> Nil, val |-> Nil, next |-> None]

\* lj_tab_new, newhpart, clearhpart and clearapart.
NewTab(asize, hsize) ==
  [arr |-> [i \in 0..asize - 1 |-> Nil], hsize |-> hsize,
   node |-> [n \in 0..hsize - 1 |-> EmptyNode], free |-> hsize]

(***************************************************************************)
(* Lookup                                                                  *)
(***************************************************************************)
InArray(t, k) == k \in DOMAIN t.arr
Main(t, k)    == hash[k] % t.hsize

\* The node of the hash part that holds key k, or None: the chain is walked
\* from the main position of k.
Find(t, k) ==
  LET from[n \in {None} \union DOMAIN t.node] ==
        IF n = None THEN None ELSE IF t.node[n].key = k THEN n ELSE from[t.node[n].next]
  IN  IF t.hsize = 0 THEN None ELSE from[Main(t, k)]

Get(t, k) ==
  IF InArray(t, k) THEN t.arr[k]
  ELSE LET n == Find(t, k) IN IF n = None THEN Nil ELSE t.node[n].val

Content == [k \in Key |-> Get(tab, k)]

(***************************************************************************)
(* Insertion: lj_tab_newkey                                                *)
(***************************************************************************)
FreeNode(t) == LET unused == {f \in 0..t.free - 1 : t.node[f].key = Nil}
               IN  IF unused = {} THEN None ELSE Max(unused)

HasRoom(t, k) ==
  t.hsize > 0 /\ (t.node[Main(t, k)].val = Nil \/ FreeNode(t) # None)

\* The nodes behind n on its chain.
Behind(t, n) ==
  LET after[m \in {None} \union DOMAIN t.node] ==
        IF m = None THEN <<>> ELSE <<m>> \o after[t.node[m].next]
  IN  after[t.node[n].next]

\* Links the nodes of the sequence into one chain.
Linked(node, chain) ==
  [n \in DOMAIN node |->
     IF Contains(chain, n)
     THEN LET i == CHOOSE j \in DOMAIN chain : chain[j] = n
          IN  [node[n] EXCEPT !.next = IF i = Len(chain) THEN None ELSE chain[i + 1]]
     ELSE node[n]]

\* Nodes that a chain walk from n must still find once the node that holds
\* them is moved: strings that were resurrected on the chain behind n.
ResurrectedNone(t, m, n) == FALSE   \* mutant: no rechaining
Resurrected(t, m, n) ==
  LET x == t.node[m] IN x.key \in StrKey /\ x.val # Nil /\ Main(t, x.key) = n

\* The node n, which is not the main position of its key, is moved to the
\* free node f, and key k takes its place with a chain of its own.
Displaced(t, k, v, n, f) ==
  LET pred[p \in {None} \union DOMAIN t.node] ==
        IF p = None \/ t.node[p].next = n THEN p ELSE pred[t.node[p].next]
      back(m) == Resurrected(t, m, n)
      stay(m) == ~Resurrected(t, m, n)
      moved   == [t.node EXCEPT ![pred[Main(t, t.node[n].key)]].next = f,
                                ![f] = t.node[n],
                                ![n] = [key |-> k, val |-> v, next |-> None]]
      behind  == Behind(t, n)
  IN  [t EXCEPT !.free = f,
                !.node = IF \E m \in DOMAIN t.node : Resurrected(t, m, n)
                         THEN Linked(Linked(moved, <<f>> \o SelectSeq(behind, stay)),
                                     <<n>> \o Reverse(SelectSeq(behind, back)))
                         ELSE moved]

\* Key k goes to the free node f, behind its main position n.
ChainedCut(t, k, v, n, f) ==        \* mutant: the rest of the chain is lost
  [t EXCEPT !.free = f,
            !.node = [@ EXCEPT ![f] = [key |-> k, val |-> v, next |-> None],
                               ![n].next = f]]
Chained(t, k, v, n, f) ==
  [t EXCEPT !.free = f,
            !.node = [@ EXCEPT ![f] = [key |-> k, val |-> v, next |-> t.node[n].next],
                               ![n].next = f]]

NewKey(t, k, v) ==
  LET n == Main(t, k)
      f == FreeNode(t)
  IN  IF t.node[n].val = Nil
      THEN [t EXCEPT !.node[n].key = k, !.node[n].val = v]
      ELSE IF Main(t, t.node[n].key) = n THEN Chained(t, k, v, n, f)
                                         ELSE Displaced(t, k, v, n, f)

\* lj_tab_set with the store of the value.  Without room the pair is lost
\* here, where the code would start another rehash.
SetInPlace(t, k, v) ==
  IF InArray(t, k) THEN [t EXCEPT !.arr[k] = v]
  ELSE LET n == Find(t, k)
       IN  IF n # None THEN [t EXCEPT !.node[n].val = v]
           ELSE IF HasRoom(t, k) THEN NewKey(t, k, v) ELSE t

(***************************************************************************)
(* Sizing                                                                  *)
(***************************************************************************)
\* The fields by their index in a traversal: integer keys of the array part
\* are indexed by themselves, nodes follow.
Indices(t)  == 0..Asize(t) + t.hsize - 1
ValAt(t, i) == IF i < Asize(t) THEN t.arr[i] ELSE t.node[i - Asize(t)].val
KeyAt(t, i) == IF i < Asize(t) THEN i ELSE t.node[i - Asize(t)].key

\* resizetab: the fields go to parts of other sizes.  What the array part
\* loses is reinserted first, then the pairs of the old hash part.
Resized(t, asize, hsize) ==
  LET upto[i \in 0..Asize(t) + t.hsize] ==
        IF i = 0 THEN NewTab(asize, hsize)
        ELSE LET r == upto[i - 1]
             IN  IF ValAt(t, i - 1) = Nil THEN r
                 ELSE SetInPlace(r, KeyAt(t, i - 1), ValAt(t, i - 1))
  IN  upto[Asize(t) + t.hsize]

\* countarray, counthash and countint: the integer keys present, and ek.
IntsPresent(t, ek) ==
  {i \in DOMAIN t.arr : t.arr[i] # Nil}
  \union (IntKey \intersect
            ({ek} \union {t.node[n].key : n \in {m \in DOMAIN t.node : t.node[m].val # Nil}}))

LivePairs(t) == Cardinality({i \in DOMAIN t.arr : t.arr[i] # Nil})
                + Cardinality({n \in DOMAIN t.node : t.node[n].val # Nil})

\* Bin b counts the keys above 2^b up to 2^(b + 1), bin 0 those up to 2.
UpTo(ints, b) == {i \in ints : i <= Pow2[b + 1]}
InBin(ints, b) == {i \in UpTo(ints, b) : b = 0 \/ i > Pow2[b]}

\* bestasize: the largest power of two that more than half of the keys fill.
BestBins(ints) ==
  {b \in 0..Cardinality(ints) : InBin(ints, b) # {} /\ 2 * Cardinality(UpTo(ints, b)) > Pow2[b]}

\* hsize2hbits, as the size it stands for.
HashSize(pairs) == IF pairs = 0 THEN 0
                   ELSE Min({s \in {Pow2[b] : b \in 1..pairs} : s >= pairs})

\* rehashtab, to make room for the key ek.
Needed(t, ek, b) ==
  1 + LivePairs(t) - IF b = None THEN 0 ELSE Cardinality(UpTo(IntsPresent(t, ek), b))

Rehashed(t, ek) ==
  LET bins == BestBins(IntsPresent(t, ek))
      b    == IF bins = {} THEN None ELSE Max(bins)
  IN  Resized(t, IF b = None THEN 0 ELSE Pow2[b + 1] + 1, HashSize(Needed(t, ek, b)))

Set(t, k, v) ==
  IF InArray(t, k) \/ Find(t, k) # None \/ HasRoom(t, k)
  THEN SetInPlace(t, k, v)
  ELSE SetInPlace(Rehashed(t, k), k, v)

(***************************************************************************)
(* Traversal: keyindex and lj_tab_next                                     *)
(***************************************************************************)
KeyKnown(t, k) == k = Nil \/ InArray(t, k) \/ Find(t, k) # None
KeyIndex(t, k) == IF k = Nil THEN -1 ELSE IF InArray(t, k) THEN k ELSE Asize(t) + Find(t, k)

LaterFrom(t, k) ==                  \* mutant: the key itself is visited again
  {i \in Indices(t) : i >= KeyIndex(t, k) /\ ValAt(t, i) # Nil}
Later(t, k) ==
  {i \in Indices(t) : i > KeyIndex(t, k) /\ ValAt(t, i) # Nil}

(***************************************************************************)
(* lj_tab_len                                                              *)
(***************************************************************************)
GetInt(t, i) == IF i \in Key THEN Get(t, i) ELSE Nil

\* Halves i..j, where i is present (or 0) and j is not; j0 - i0 turns are
\* always enough.
Border(t, i0, j0, shift) ==
  LET turn[n \in Nat] ==
        IF n = 0 THEN <<i0, j0>>
        ELSE LET p == turn[n - 1]
                 m == (p[1] + p[2]) \div 2
             IN  IF p[2] - p[1] <= 1 THEN p
                 ELSE IF GetInt(t, m - shift) = Nil THEN <<p[1], m>> ELSE <<m, p[2]>>
  IN  turn[j0 - i0][1]

\* Doubles j until it is absent, which takes no more turns than there are
\* fields.
Unbound(t, i0) ==
  LET turn[n \in Nat] ==
        IF n = 0 THEN <<i0, i0 + 1>>
        ELSE LET p == turn[n - 1]
             IN  IF GetInt(t, p[2]) = Nil THEN p ELSE <<p[2], 2 * p[2]>>
      last == turn[LivePairs(t)]
  IN  Border(t, last[1], last[2], 0)

LengthArray(t) ==                   \* mutant: only the array part is looked at
  LET n == Asize(t)
  IN  IF n > 1 /\ t.arr[n - 1] = Nil THEN Border(t, 1, n, 1) - 1
      ELSE IF n > 0 THEN n - 1 ELSE 0

Length(t) ==
  LET n == Asize(t)
  IN  IF n > 1 /\ t.arr[n - 1] = Nil THEN Border(t, 1, n, 1) - 1
      ELSE LET j == IF n > 0 THEN n - 1 ELSE 0
           IN  IF t.hsize = 0 THEN j ELSE Unbound(t, j)

(***************************************************************************)
(* Behaviours                                                              *)
(***************************************************************************)
Init ==
  /\ setup \in Setups
  /\ tab = NewTab(setup.asize, setup.hsize)
  /\ hash = setup.hash
  /\ recycled = 0
  /\ walk = "off" /\ cursor = Nil /\ visits = <<>>

Stop(w) == walk' = w /\ cursor' = Nil /\ visits' = <<>>

\* t[k] = v.  Assigning nil to an absent field creates its node as well
\* (lj_meta_tset).
Assign(k, v) ==
  /\ k \in setup.keys
  /\ tab' = Set(tab, k, v)
  /\ IF walk = "on" /\ Get(tab, k) = Nil THEN Stop("undefined") ELSE UNCHANGED walking
  /\ UNCHANGED <<hash, recycled, setup>>

\* lj_tab_reasize, which table constructors and multiple results call to grow
\* the array part of a table that is not being traversed.
Reasize(nasize) ==
  /\ nasize + 1 > Asize(tab) /\ walk # "on"
  /\ tab' = Resized(tab, nasize + 1, tab.hsize)
  /\ UNCHANGED <<hash, recycled, setup, walking>>

\* The collector has freed the string k, and a new string has its address.
StringRecycled(k, h) ==
  /\ recycled < setup.recycled
  /\ k \in StrKey \intersect setup.keys /\ Get(tab, k) = Nil /\ k # cursor
  /\ hash' = [hash EXCEPT ![k] = h]
  /\ recycled' = recycled + 1
  /\ UNCHANGED <<tab, setup, walking>>

Begin ==
  /\ walk # "on" /\ walk' = "on"
  /\ UNCHANGED <<tab, hash, recycled, setup, cursor, visits>>

Advance ==
  /\ walk = "on"
  /\ IF ~KeyKnown(tab, cursor)
     THEN walk' = "error" /\ UNCHANGED <<cursor, visits>>     \* LJ_ERR_NEXTIDX
     ELSE LET later == Later(tab, cursor)
          IN  IF later = {} THEN Stop("off")
              ELSE /\ cursor' = KeyAt(tab, Min(later))
                   /\ visits' = Append(visits, cursor')
                   /\ walk' = walk
  /\ UNCHANGED <<tab, hash, recycled, setup>>

Next ==
  \/ \E k \in Key : Assign(k, k) \/ Assign(k, Nil)
  \/ \E n \in Reasizes : Reasize(n)
  \/ \E k \in StrKey, h \in StrHashes : StringRecycled(k, h)
  \/ Begin \/ Advance

Spec == Init /\ [][Next]_vars

(***************************************************************************)
(* Properties                                                              *)
(***************************************************************************)
TypeOK ==
  /\ DOMAIN tab.arr = 0..Asize(tab) - 1
  /\ \A i \in DOMAIN tab.arr : tab.arr[i] \in Key \union {Nil}
  /\ tab.hsize = 0 \/ \E b \in 1..tab.hsize : tab.hsize = Pow2[b]
  /\ tab.node \in [0..tab.hsize - 1 ->
       [key : Key \union {Nil}, val : Key \union {Nil}, next : -1..tab.hsize - 1]]
  /\ tab.free \in 0..tab.hsize
  /\ hash \in [Key -> Nat] /\ recycled \in 0..setup.recycled /\ setup \in Setups
  /\ walk \in {"on", "off", "undefined", "error"} /\ cursor \in Key \union {Nil} /\ visits \in Seq(Key)

\* The table keeps what LuaTable promises: an assignment changes one field, a
\* rehash none, and a traversal visits every field exactly once, without an
\* error, although nodes are moved, reused and resurrected (lj_tab_set,
\* lj_tab_newkey, rehashtab and lj_tab_next together).
Map == INSTANCE LuaTable WITH Key <- Key, Value <- Key, Nil <- Nil, content <- Content,
                              walk <- walk, cursor <- cursor, visits <- visits
Implements == Map!Spec

\* lj_tab_len returns a border of the fields as a program reads them, whichever
\* part they are in: 0 or a present index, and the next one is absent.
LengthIsBorder ==
  LET n == Length(tab)
  IN  (n = 0 \/ GetInt(tab, n) # Nil) /\ GetInt(tab, n + 1) = Nil
=============================================================================
