---------------------------- MODULE HeapInvariant ----------------------------
(***************************************************************************)
(* The inductive invariant of the allocator, the kinds of change that its  *)
(* operations make, and proofs that those within one segment keep it.      *)
(*                                                                         *)
(* A heap h is Good for a set B of blocks when its chunks tile its         *)
(* segments, the tags of the chunks are true, every free chunk is filed,   *)
(* and what is in use is B and the chunks of the allocator.  B is a        *)
(* parameter because operations pass through heaps with other blocks: a    *)
(* chunk that is merged with the free one before it, and new memory before *)
(* a segment, are blocks of good heaps.                                    *)
(*                                                                         *)
(* Most operations rewrite one or two neighbouring chunks: LocalChange and *)
(* SpanChange show what they must establish, RetailedFacts what a segment  *)
(* with another tail must.                                                 *)
(***************************************************************************)
EXTENDS Heap, FiniteSetTheorems, TLAPS

\* The parts of malloc_state.
Fields == {"chunk", "dv", "dvsize", "top", "topsize", "bins", "seg", "linked", "sys",
           "trim", "checks"}

\* The chunks inside segments, where a chunk and a segment end.
Regular(C) == {p \in DOMAIN C : C[p].foot # Direct}
End(C, p)  == p + C[p].size
Limit(g)   == g.base + g.size

Header == [size : 1..Space, cinuse : BOOLEAN, pinuse : BOOLEAN, foot : -1..Space]

IsMap(C) == C \in [DOMAIN C -> Header] /\ DOMAIN C \subseteq 0..Space - 1

\* The headers have their types; a directly mapped chunk is in use.
Headers(C) ==
  /\ IsMap(C)
  /\ \A p \in DOMAIN C \ Regular(C) : C[p].cinuse /\ ~C[p].pinuse

\* The segments of Z lie apart and are tiled by the chunks of C; so do the
\* directly mapped chunks.
Geometry(C, Z) ==
  /\ \A g \in Z : /\ g \in [base : Nat, size : Nat \ {0}] /\ Limit(g) <= Space
                  /\ g.base \in Regular(C)
  /\ \A f, g \in Z : f = g \/ Limit(f) <= g.base \/ Limit(g) <= f.base
  /\ \A p \in Regular(C) : \E g \in Z :
       Holds(g, p) /\ (End(C, p) = Limit(g) \/ (Holds(g, End(C, p)) /\ End(C, p) \in Regular(C)))
  /\ \A p, q \in Regular(C) : p < q => End(C, p) <= q
  /\ \A p \in DOMAIN C \ Regular(C) :
       /\ End(C, p) + FootPad <= Space
       /\ \A g \in Z : End(C, p) + FootPad <= g.base \/ Limit(g) <= p
       /\ \A q \in DOMAIN C \ Regular(C) : p < q => End(C, p) + FootPad <= q

\* The top and the fake chunk behind it end m->seg.
TopLast(h) ==
  LET foot == h.top + h.topsize
  IN  /\ h.top \in Regular(h.chunk) /\ Holds(h.seg, h.top)
      /\ ~h.chunk[h.top].cinuse /\ h.chunk[h.top].size = h.topsize
      /\ foot \in Regular(h.chunk) /\ Holds(h.seg, foot)
      /\ ~h.chunk[foot].cinuse /\ h.chunk[foot].size = TopFoot
      /\ foot + TopFoot = Limit(h.seg)

\* Every other segment ends with the record of a segment and fenceposts.
Recorded(h) ==
  /\ IsFiniteSet(h.linked) /\ h.seg \notin h.linked
  /\ \A g \in h.linked : \E sp, fence \in h.sys :
       /\ Holds(g, sp) /\ fence = End(h.chunk, sp)
       /\ End(h.chunk, fence) = Limit(g) /\ sp + TopFoot <= Limit(g)

\* The free chunks.
Vacant(h) ==
  {p \in Regular(h.chunk) : ~h.chunk[p].cinuse /\ p \notin {h.top, h.top + h.topsize}}

\* What a chunk says of the one before it is true: the chunk behind a free one
\* has its size, and who says that the one before is free finds it there.
Tags(h) ==
  LET C == h.chunk
  IN  /\ \A p \in Vacant(h) : ~C[End(C, p)].pinuse /\ C[End(C, p)].foot = C[p].size
      /\ \A p \in Regular(C) \ {h.top + h.topsize} : ~C[p].pinuse =>
           LET q == p - C[p].foot
           IN  q \in Vacant(h) /\ C[q].size = C[p].foot /\ \A g \in Segments(h) : Holds(g, p) => Holds(g, q)

\* The bins and the designated victim of h have the chunks of S, which are of
\* the sizes that C tells.
FiledIn(C, S, h) ==
  /\ \A p \in S : p = h.dv \/ <<p, C[p].size>> \in h.bins
  /\ \A y \in h.bins : y[1] \in S /\ y[1] # h.dv /\ y = <<y[1], C[y[1]].size>>
  /\ h.dv = None => h.dvsize = 0
  /\ h.dv # None => h.dv \in S /\ h.dvsize = C[h.dv].size

\* Behind a free chunk is one in use, and it can be found.
Found(h) ==
  /\ \A p \in Vacant(h) : h.chunk[End(h.chunk, p)].cinuse /\ MinChunk <= h.chunk[p].size
  /\ FiledIn(h.chunk, Vacant(h), h)

\* In use are the blocks B of the program and what the allocator needs itself;
\* nothing else but the fake chunk ends a segment.
Kept(h, B) ==
  /\ \A p \in DOMAIN h.chunk : h.chunk[p].cinuse <=> p \in B \union h.sys
  /\ B \subseteq DOMAIN h.chunk /\ h.sys \subseteq Regular(h.chunk) /\ B \intersect h.sys = {}
  /\ \A p \in B \intersect Regular(h.chunk) : MinChunk <= h.chunk[p].size
  /\ \A p \in Regular(h.chunk) : \A g \in Segments(h) :
       Holds(g, p) /\ End(h.chunk, p) = Limit(g) => p \in h.sys \/ p = h.top + h.topsize

\* trim_check and release_checks.
Counters(h) ==
  h.checks \in Nat \ {0} /\ h.trim \in {TrimThreshold, Never}

\* A heap in which the program holds the blocks B.
Good(h, B) ==
  /\ DOMAIN h = Fields
  /\ Headers(h.chunk) /\ Geometry(h.chunk, Segments(h)) /\ Tags(h)
  /\ TopLast(h) /\ Recorded(h) /\ Found(h) /\ Kept(h, B) /\ Counters(h)

\* The blocks of L are as large as asked for.
Sized(h, L) ==
  \A p \in DOMAIN L :
    /\ L[p] \in Nat
    /\ L[p] + (IF h.chunk[p].foot = Direct THEN 2 ELSE 1) <= h.chunk[p].size

IInv == Good(heap, DOMAIN live) /\ Sized(heap, live)

(***************************************************************************)
(* The bounds of addresses and sizes, and what the operators on headers do *)
(* to a map C: the result is D.                                            *)
(***************************************************************************)

Addresses == 0..Space - 1
Sizes     == 1..Space

\* The header behind p says the same of itself.
SameChunk(c, d) == d.size = c.size /\ (d.cinuse <=> c.cinuse)

SpecUsed(C, p, s, D) ==
  /\ IsMap(D) /\ DOMAIN D = DOMAIN C \union {p} /\ D[p] = Used(s)
  /\ \A x \in DOMAIN C : x # p => D[x] = C[x]

SpecUsedAll(C, p, s, e, D) ==
  /\ IsMap(D) /\ DOMAIN D = DOMAIN C \union {p} /\ D[p] = Used(s)
  /\ SameChunk(C[e], D[e]) /\ D[e].pinuse /\ D[e].foot = 0
  /\ \A x \in DOMAIN C : x # p /\ x # e => D[x] = C[x]

SpecUnused(C, p, s, e, D) ==
  /\ IsMap(D) /\ DOMAIN D = DOMAIN C \union {p} /\ D[p] = Unused(s)
  /\ SameChunk(C[e], D[e]) /\ (D[e].pinuse <=> C[e].pinuse) /\ D[e].foot = s
  /\ \A x \in DOMAIN C : x # p /\ x # e => D[x] = C[x]

SpecFree(C, p, s, e, D) ==
  /\ IsMap(D) /\ DOMAIN D = DOMAIN C \union {p} /\ D[p] = Unused(s)
  /\ SameChunk(C[e], D[e]) /\ ~D[e].pinuse /\ D[e].foot = s
  /\ \A x \in DOMAIN C : x # p /\ x # e => D[x] = C[x]

SpecWithout(C, S, D) ==
  IsMap(D) /\ DOMAIN D = DOMAIN C \ S /\ \A x \in DOMAIN C \ S : D[x] = C[x]

SpecPut(C, p, v, D) ==
  IsMap(D) /\ DOMAIN D = DOMAIN C \union {p} /\ D[p] = v /\ \A x \in DOMAIN C : x # p => D[x] = C[x]

(***************************************************************************)
(* A change within a segment.  Between a and b, two boundaries of chunks,  *)
(* the chunks of h are replaced by one, if m = a, or by two, which meet in *)
(* m; the chunk at b keeps its size and whether it is used.                *)
(***************************************************************************)

Rewritten(C, D, a, m, b) ==
  /\ DOMAIN D = {a, m} \union {x \in DOMAIN C : x < a \/ b <= x}
  /\ \A x \in DOMAIN C : x < a \/ b < x => D[x] = C[x]
  /\ D[b].size = C[b].size /\ (D[b].cinuse <=> C[b].cinuse) /\ D[b].foot # Direct
  /\ D[m].size = b - m /\ D[m].foot # Direct
  /\ a < m => D[a].size = m - a /\ D[a].foot # Direct

Within(C, Z, a, m, b) ==
  /\ a \in Regular(C) /\ b \in Regular(C) /\ m \in Int /\ a <= m /\ m < b
  /\ \E g \in Z : Holds(g, a) /\ Holds(g, b)

\* The segments stay, and the top either does or is the last new chunk.
Local(h, h2, a, m, b) ==
  /\ DOMAIN h2 = Fields /\ Headers(h2.chunk) /\ Counters(h2)
  /\ h2.seg = h.seg /\ h2.linked = h.linked /\ h2.sys = h.sys
  /\ Within(h.chunk, Segments(h), a, m, b)
  /\ Rewritten(h.chunk, h2.chunk, a, m, b)
  /\ \/ h2.top = h.top /\ h2.topsize = h.topsize /\ (h.top < a \/ b <= h.top)
     \/ /\ a <= h.top /\ h.top < b /\ b = h.top + h.topsize
        /\ h2.top = m /\ h2.topsize = b - m /\ ~h2.chunk[m].cinuse

\* What the new chunks may be, given that the chunk before a does not change:
\* the tags of a stay, and no two free chunks meet.
Tagged(h, h2, a, m, b) ==
  LET C == h.chunk  D == h2.chunk
  IN  /\ D[a].pinuse <=> C[a].pinuse
      /\ C[a].pinuse \/ (D[a].foot = C[a].foot /\ D[a].cinuse)
      /\ a < m => \/ D[m].pinuse /\ D[a].cinuse
                  \/ ~D[m].pinuse /\ D[m].foot = m - a /\ ~D[a].cinuse /\ D[m].cinuse
      /\ m = h2.top \/ (D[b].pinuse <=> D[m].cinuse)
      /\ m = h2.top \/ D[m].cinuse \/ (D[b].foot = b - m /\ D[b].cinuse)
      /\ MinChunk <= D[m].size \/ m = h2.top
      /\ MinChunk <= D[a].size \/ a = h2.top

\* Among the free chunks are a and m if they are.
Between(h2, a, m) == {x \in {a, m} : ~h2.chunk[x].cinuse /\ x # h2.top}
Outside(h, a, b)  == {x \in Vacant(h) : x < a \/ b <= x}

\* The bins and the designated victim have the free chunks.
Refiled(h, h2, a, m, b) ==
  FiledIn(h2.chunk, Outside(h, a, b) \union Between(h2, a, m), h2)

\* No chunk between a and b is the allocator's own, before or after; the
\* blocks of the program are those in use.
Reowned(h, h2, a, m, b, B, B2) ==
  /\ \A x \in h.sys : x < a \/ b <= x
  /\ \A x \in B2 : x \in {a, m} \/ (x \in B /\ (x < a \/ b <= x))
  /\ \A x \in B : (a <= x /\ x < b) \/ x \in B2
  /\ \A x \in {a, m} : x \in B2 <=> h2.chunk[x].cinuse

(***************************************************************************)
(* The same for the chunks S of one segment from a to b.                   *)
(***************************************************************************)

\* The chunks from a to b are those of S, in one segment.
Span(h, a, b, S) ==
  /\ a \in Regular(h.chunk) /\ b \in Regular(h.chunk) /\ a < b
  /\ \E g \in Segments(h) : Holds(g, a) /\ Holds(g, b)
  /\ S = {x \in DOMAIN h.chunk : a <= x /\ x < b}

\* D is C but for the chunks of S, which become one or two.
Swapped(C, D, S, a, m, b) ==
  /\ IsMap(D) /\ DOMAIN D = (DOMAIN C \ S) \union {a, m}
  /\ \A x \in DOMAIN C \ S : x # b => D[x] = C[x]
  /\ SameChunk(C[b], D[b]) /\ D[b].foot # Direct
  /\ D[m].size = b - m /\ D[m].foot # Direct
  /\ a < m => D[a].size = m - a /\ D[a].foot # Direct

SameSegments(h, h2) == h2.seg = h.seg /\ h2.linked = h.linked /\ h2.sys = h.sys

\* h2 is h but for the bins and the designated victim.
SameMemory(h, h2) ==
  /\ DOMAIN h2 = Fields
  /\ h2.chunk = h.chunk /\ h2.top = h.top /\ h2.topsize = h.topsize /\ h2.seg = h.seg
  /\ h2.linked = h.linked /\ h2.sys = h.sys /\ h2.trim = h.trim /\ h2.checks = h.checks

\* The blocks of S keep their sizes and are mapped as before.
Frame(h, h2, S) ==
  \A x \in S : /\ h2.chunk[x].size = h.chunk[x].size
               /\ h2.chunk[x].foot = Direct <=> h.chunk[x].foot = Direct

\* The change of one or two chunks as a whole.
TopMoved(h, h2, S, m, b) ==
  \/ h2.top = h.top /\ h2.topsize = h.topsize /\ h.top \notin S
  \/ /\ h.top \in S /\ b = h.top + h.topsize
     /\ h2.top = m /\ h2.topsize = b - m /\ ~h2.chunk[m].cinuse

Change(h, h2, S, a, m, b) ==
  /\ m \in Int /\ a <= m /\ m < b
  /\ DOMAIN h2 = Fields /\ Counters(h2) /\ SameSegments(h, h2)
  /\ Swapped(h.chunk, h2.chunk, S, a, m, b) /\ TopMoved(h, h2, S, m, b)
  /\ Tagged(h, h2, a, m, b)
  /\ FiledIn(h2.chunk, (Vacant(h) \ S) \union Between(h2, a, m), h2)

\* The blocks of the program behind it.
Owner(h2, B, S, a, m, B2) == B2 = (B \ S) \union {x \in {a, m} : h2.chunk[x].cinuse}

(***************************************************************************)
(* What an operation promises: the heap is good with the blocks that the   *)
(* program has then, and the others keep their sizes.                      *)
(***************************************************************************)

\* The result of an allocation of nb words in a segment.
Served(h, B, r, nb) ==
  /\ r.at \notin B /\ Good(r.heap, B \union {r.at}) /\ Frame(h, r.heap, B)
  /\ r.at \in Regular(r.heap.chunk) /\ nb <= r.heap.chunk[r.at].size

Serves(h, B, g, p, n) ==
  /\ p \notin B /\ Good(g, B \union {p}) /\ Frame(h, g, B)
  /\ p \in Regular(g.chunk) /\ g.chunk[p].size = n

\* A block of at least nb words was allocated, in a segment or apart from all.
Granted(h, B, r, nb) ==
  /\ r.at \notin B /\ Good(r.heap, B \union {r.at}) /\ Frame(h, r.heap, B)
  /\ r.at \in DOMAIN r.heap.chunk
  /\ nb + (IF r.heap.chunk[r.at].foot = Direct THEN 1 ELSE 0) <= r.heap.chunk[r.at].size

\* Whether there was memory or not.
Allocated(h, B, r, nb) == (r.at = None /\ r.heap = h) \/ (r.at # None /\ Granted(h, B, r, nb))

Freed(h, B, p, g) == Good(g, B \ {p}) /\ Frame(h, g, B \ {p})

\* The block p was resized where it is.
Resizes(h, B, p, r, nb) ==
  /\ r.at = p /\ Good(r.heap, B) /\ Frame(h, r.heap, B \ {p}) /\ p \in DOMAIN r.heap.chunk
  /\ nb + (IF r.heap.chunk[p].foot = Direct THEN 1 ELSE 0) <= r.heap.chunk[p].size

\* The heap r is as good as h, and the blocks are where they were.
Keeps(h, B, r) == Good(r, B) /\ Frame(h, r, B)

\* The block p is moved to memory that does not overlap it.
Moves(h, B, p, r, nb) ==
  /\ r.at \notin B /\ Good(r.heap, (B \ {p}) \union {r.at}) /\ Frame(h, r.heap, B \ {p})
  /\ r.at \in DOMAIN r.heap.chunk
  /\ nb + (IF r.heap.chunk[r.at].foot = Direct THEN 1 ELSE 0) <= r.heap.chunk[r.at].size
  /\ Words(h, p) \intersect Words(r.heap, r.at) = {}

Reallocated(h, B, p, r, nb) ==
  \/ r.at = None /\ r.heap = h
  \/ r.at # None /\ (Resizes(h, B, p, r, nb) \/ Moves(h, B, p, r, nb))

(***************************************************************************)
(* Free chunks, the top and blocks of a good heap, and a free chunk that   *)
(* was taken out of its bin.                                               *)
(***************************************************************************)

\* Of the free chunks of h all but p are filed in h1.
Taken(h, p, h1) ==
  p \in Vacant(h) /\ SameMemory(h, h1) /\ FiledIn(h.chunk, Vacant(h) \ {p}, h1)

SpecVacant(h, B, p, b) ==
  LET C == h.chunk
      s == C[p].size
  IN  /\ p \in Vacant(h) /\ p \in Regular(C) /\ p \notin h.sys /\ p \notin B /\ h.top # p
      /\ p \in Int /\ p \in Addresses /\ s \in Nat \ {0} /\ s \in Sizes
      /\ p < b /\ b \in Int /\ b \in Addresses /\ b \in DOMAIN C /\ b \in Regular(C)
      /\ b = p + s /\ C[b].cinuse /\ C[b].foot # Direct /\ ~C[b].pinuse /\ C[b].foot = s
      /\ IsMap(C) /\ p \in DOMAIN C /\ p # None /\ p # b
      /\ ~C[p].cinuse /\ C[p].pinuse /\ MinChunk <= s
      /\ Span(h, p, b, {p}) /\ {p} \intersect h.sys = {}
      /\ DOMAIN h = Fields /\ Counters(h)

SpecTaken(h, B, p, h1, b) ==
  /\ SpecVacant(h, B, p, b)
  /\ h1.chunk = h.chunk /\ DOMAIN h1 = Fields /\ SameSegments(h, h1) /\ Counters(h1)
  /\ h1.top = h.top /\ h1.topsize = h.topsize

\* A used chunk of nb words at p and a free one at q behind it, up to e.
Halved(C, p, nb) == SetUnused(SetUsed(C, p, nb), p + nb, C[p].size - nb)

SpecHalved(C, p, q, e, D) ==
  /\ IsMap(D) /\ DOMAIN D = DOMAIN C \union {q}
  /\ D[p].size = q - p /\ D[p].cinuse /\ D[p].pinuse /\ D[p].foot = 0
  /\ D[q].size = e - q /\ ~D[q].cinuse /\ D[q].pinuse /\ D[q].foot = 0
  /\ SameChunk(C[e], D[e]) /\ (D[e].pinuse <=> C[e].pinuse) /\ D[e].foot = e - q
  /\ \A x \in DOMAIN C : x # p /\ x # e => D[x] = C[x]

\* r takes nb words from p, which h1 does not file.
Takes(h, p, h1, nb, victim, r) ==
  /\ Taken(h, p, h1) /\ nb \in Nat /\ MinChunk <= nb /\ nb <= h.chunk[p].size
  /\ r = Take(h1, p, h.chunk[p].size, nb, victim)

SpecTop(h, B, foot) ==
  LET C == h.chunk
      p == h.top
  IN  /\ foot = p + h.topsize /\ foot = End(C, p) /\ C[p].size = h.topsize
      /\ p \in Int /\ p \in Addresses /\ h.topsize \in Nat \ {0} /\ h.topsize \in Sizes
      /\ p < foot /\ foot \in Int /\ foot \in Addresses
      /\ p \in DOMAIN C /\ foot \in DOMAIN C /\ p \in Regular(C) /\ foot \in Regular(C)
      /\ C[p].foot # Direct /\ C[foot].foot # Direct
      /\ ~C[p].cinuse /\ C[p].pinuse /\ ~C[foot].cinuse /\ p # None
      /\ p \notin B /\ foot \notin B /\ p \notin h.sys /\ foot \notin h.sys
      /\ p \notin Vacant(h) /\ foot \notin Vacant(h)
      /\ Span(h, p, foot, {p}) /\ {p} \intersect h.sys = {}
      /\ IsMap(C) /\ DOMAIN h = Fields /\ Counters(h) /\ h.trim \in {TrimThreshold, Never}
      /\ h.checks \in Nat \ {0} /\ B \subseteq DOMAIN C /\ h.sys \subseteq DOMAIN C

SpecBlock(h, B, p, b) ==
  LET C == h.chunk
      s == C[p].size
  IN  /\ p \in B /\ p \in Regular(C) /\ p \notin h.sys /\ h.top # p /\ p \notin Vacant(h)
      /\ p \in Int /\ p \in Addresses /\ s \in Nat \ {0} /\ s \in Sizes
      /\ p < b /\ b \in Int /\ b \in Addresses /\ b \in DOMAIN C /\ b \in Regular(C)
      /\ b = p + s /\ C[b].foot # Direct /\ C[b].pinuse
      /\ IsMap(C) /\ p \in DOMAIN C /\ p # None /\ p # b
      /\ C[p].cinuse /\ C[p].foot # Direct /\ MinChunk <= s
      /\ Span(h, p, b, {p}) /\ {p} \intersect h.sys = {}
      /\ DOMAIN h = Fields /\ Counters(h)

(***************************************************************************)
(* A block is released: merged with the chunk before it, then with the one *)
(* behind it.                                                              *)
(***************************************************************************)

\* h is the good heap hp but for the header of the used chunk p, which may be
\* the designated victim of h before the next chunk is merged.
Pending(h, hp, p, next) ==
  /\ DOMAIN h = Fields /\ SameSegments(hp, h) /\ h.top = hp.top /\ h.topsize = hp.topsize
  /\ h.trim = hp.trim /\ h.checks = hp.checks /\ h.bins = hp.bins
  /\ IsMap(h.chunk) /\ DOMAIN h.chunk = DOMAIN hp.chunk
  /\ \A x \in DOMAIN hp.chunk : x # p => h.chunk[x] = hp.chunk[x]
  /\ \/ h.dv = hp.dv /\ h.dvsize = hp.dvsize
     \/ h.dv = p /\ hp.dv = None /\ ~hp.chunk[next].cinuse

Freeing(h, hp, B, p, s, next) ==
  /\ Good(hp, B) /\ p \in B /\ p \in Regular(hp.chunk) /\ hp.chunk[p].pinuse
  /\ next = End(hp.chunk, p) /\ s = hp.chunk[p].size /\ Pending(h, hp, p, next)

SpecFreeing(h, hp, B, p, s, next) ==
  LET C == h.chunk
  IN  /\ p \in B /\ p \in Regular(hp.chunk) /\ p \notin hp.sys /\ hp.top # p /\ p \notin Vacant(hp)
      /\ p \in Int /\ p \in Addresses /\ s \in Nat \ {0} /\ s \in Sizes
      /\ p < next /\ next \in Int /\ next \in Addresses /\ next \in DOMAIN C
      /\ next \in Regular(hp.chunk)
      /\ next = p + s /\ C[next] = hp.chunk[next] /\ C[next].foot # Direct /\ C[next].pinuse
      /\ IsMap(C) /\ p \in DOMAIN C /\ p # None /\ p # next /\ MinChunk <= s
      /\ hp.chunk[p].pinuse /\ DOMAIN C = DOMAIN hp.chunk
      /\ \A x \in DOMAIN C : x # p => C[x] = hp.chunk[x]
      /\ Span(hp, p, next, {p}) /\ {p} \intersect hp.sys = {}
      /\ DOMAIN h = Fields /\ Counters(h) /\ SameSegments(hp, h)
      /\ h.top = hp.top /\ h.topsize = hp.topsize /\ h.bins = hp.bins
      /\ Good(hp, B)
      /\ \/ h.dv = hp.dv /\ h.dvsize = hp.dvsize
         \/ h.dv = p /\ hp.dv = None /\ ~hp.chunk[next].cinuse

\* The chunk behind p is the top.
ToTop(hp, s, next, total) == next = hp.top /\ total = s + hp.topsize

\* The free chunk before p is merged with it and used.
Merging(h, hp, B, p, prev, total) ==
  /\ Good(h, B) /\ p \in B /\ p \in Regular(h.chunk) /\ ~h.chunk[p].pinuse
  /\ prev = p - h.chunk[p].foot /\ total = h.chunk[p].size + h.chunk[p].foot
  /\ DOMAIN hp = Fields /\ Counters(hp) /\ SameSegments(h, hp)
  /\ hp.chunk = Put(Without(h.chunk, {p}), prev, Used(total))
  /\ hp.top = h.top /\ hp.topsize = h.topsize
  /\ FiledIn(h.chunk, Vacant(h) \ {prev}, hp)

SpecMerging(h, hp, B, p, prev, total, b) ==
  LET C == h.chunk
  IN  /\ p \in B /\ h.top # p /\ p \in Int /\ p \notin Vacant(h) /\ b \in DOMAIN C /\ b \in Int
      /\ C[b].foot # Direct /\ C[b].pinuse /\ IsMap(C) /\ p \in DOMAIN C /\ p # b
      /\ prev \in Vacant(h) /\ prev \notin B /\ h.top # prev /\ prev \in Int /\ prev \in Addresses
      /\ prev \in DOMAIN C /\ prev # p /\ prev # b /\ C[prev].pinuse
      /\ total \in Nat \ {0} /\ total \in Sizes /\ total = b - prev /\ MinChunk <= total
      /\ prev < b /\ b = End(C, p) /\ b = prev + total
      /\ Span(h, prev, b, {prev, p}) /\ {prev, p} \intersect h.sys = {}

Merged(h, hp, B, p, prev, total) ==
  /\ prev \in Vacant(h) /\ prev \notin B
  /\ Good(hp, (B \ {p}) \union {prev}) /\ Frame(h, hp, B \ {p})
  /\ prev \in Regular(hp.chunk) /\ hp.chunk[prev].pinuse /\ hp.chunk[prev].size = total
  /\ End(hp.chunk, prev) = End(h.chunk, p)

Backward(h, B, p, prev, total) ==
  /\ Good(h, B) /\ p \in B /\ p \in Regular(h.chunk) /\ ~h.chunk[p].pinuse
  /\ prev = p - h.chunk[p].foot /\ total = h.chunk[p].size + h.chunk[p].foot

SpecBackward(h, hp, f, B, p, prev, total, B2, next) ==
  /\ Merged(h, hp, B, p, prev, total) /\ B2 = (B \ {p}) \union {prev} /\ B2 \ {prev} = B \ {p}
  /\ next = End(hp.chunk, prev) /\ hp.chunk[prev].size = total
  /\ prev \in Int /\ p \in DOMAIN h.chunk /\ next # p /\ next # prev
  /\ Good(hp, B2) /\ prev \in B2 /\ prev \in Regular(hp.chunk) /\ hp.chunk[prev].pinuse
  /\ DOMAIN f = Fields /\ SameSegments(hp, f) /\ f.top = hp.top /\ f.topsize = hp.topsize
  /\ f.trim = hp.trim /\ f.checks = hp.checks /\ f.bins = hp.bins
  /\ IsMap(f.chunk) /\ DOMAIN f.chunk = DOMAIN hp.chunk
  /\ \A x \in DOMAIN hp.chunk : x # prev => f.chunk[x] = hp.chunk[x]
  /\ next \in DOMAIN hp.chunk /\ h.chunk[next] = hp.chunk[next]

\* p becomes the designated victim, there is none and the chunk behind p is in use.
VictimNow(h, hp, r, p, s) ==
  /\ DOMAIN r = Fields /\ r.chunk = SetFree(h.chunk, p, s) /\ r.top = h.top /\ r.topsize = h.topsize
  /\ r.seg = h.seg /\ r.linked = h.linked /\ r.sys = h.sys /\ r.trim = h.trim
  /\ r.checks = h.checks /\ r.bins = hp.bins /\ r.dv = p /\ r.dvsize = s /\ hp.dv = None

(***************************************************************************)
(* A block is split, or grows into the top.                                *)
(***************************************************************************)

\* Of the chunks of S, which start with the block p, the front up to q stays
\* what it was, and q is the chunk behind it, up to b.
SplitInto(C, D, S, p, q, b) ==
  /\ IsMap(D) /\ DOMAIN D = (DOMAIN C \ S) \union {p, q}
  /\ \A x \in DOMAIN C \ S : x # b => D[x] = C[x]
  /\ SameChunk(C[b], D[b]) /\ D[b].foot # Direct
  /\ D[p].size = q - p /\ D[p].cinuse /\ (D[p].pinuse <=> C[p].pinuse) /\ D[p].foot = C[p].foot
  /\ D[q].size = b - q /\ D[q].pinuse /\ D[q].foot = 0

SplitChange(h, g, B, S, p, q, b) ==
  /\ Good(h, B) /\ p \in B /\ p \in Regular(h.chunk) /\ Span(h, p, b, S) /\ S \intersect h.sys = {}
  /\ q \in Int /\ p < q /\ q < b /\ p + MinChunk <= q
  /\ DOMAIN g = Fields /\ Counters(g) /\ SameSegments(h, g)
  /\ SplitInto(h.chunk, g.chunk, S, p, q, b) /\ TopMoved(h, g, S, q, b)
  /\ q # g.top => /\ q + MinChunk <= b
                  /\ g.chunk[b].pinuse <=> g.chunk[q].cinuse
                  /\ g.chunk[q].cinuse \/ (g.chunk[b].foot = b - q /\ h.chunk[b].cinuse)
  /\ FiledIn(g.chunk, (Vacant(h) \ S) \union Between(g, p, q), g)

\* The block p ends at q now, the others are as they were.
Cut(h, g, B, p, q) ==
  /\ Good(g, B) /\ Frame(h, g, B \ {p})
  /\ p \in Regular(g.chunk) /\ g.chunk[p].size = q - p

\* realloc leaves the front of the block p, of nb words, and frees the rest.
Shrinking(h, B, p, nb, g) ==
  /\ Good(h, B) /\ p \in B /\ p \in Regular(h.chunk)
  /\ nb \in Nat /\ MinChunk <= nb /\ nb + MinChunk <= h.chunk[p].size
  /\ g = [h EXCEPT !.chunk = SetUsedAll(Put(@, p, [h.chunk[p] EXCEPT !.size = nb]), p + nb,
                                        h.chunk[p].size - nb)]

Shrunk(h, g, B, p, q, nb) ==
  /\ Good(g, B \union {q}) /\ Frame(h, g, B \ {p}) /\ q \notin B
  /\ q \in Regular(g.chunk) /\ g.chunk[q].pinuse
  /\ p \in Regular(g.chunk) /\ g.chunk[p].size = nb

\* What is behind the front of the block p becomes part of the top behind it.
IntoTop(h, g, B, p, q, foot) ==
  /\ Good(h, B) /\ p \in B /\ p \in Regular(h.chunk) /\ End(h.chunk, p) = h.top
  /\ foot = h.top + h.topsize /\ q \in Int /\ p + MinChunk <= q /\ q < foot
  /\ DOMAIN g = Fields /\ Counters(g) /\ SameSegments(h, g) /\ g.top = q /\ g.topsize = foot - q
  /\ g.bins = h.bins /\ g.dv = h.dv /\ g.dvsize = h.dvsize
  /\ LET C == h.chunk  D == g.chunk
     IN  /\ IsMap(D) /\ DOMAIN D = (DOMAIN C \ {h.top}) \union {q}
         /\ D[p].size = q - p /\ D[p].cinuse /\ (D[p].pinuse <=> C[p].pinuse) /\ D[p].foot = C[p].foot
         /\ D[q] = Unused(foot - q)
         /\ \A x \in DOMAIN C : x # h.top /\ x # q /\ x # p => D[x] = C[x]

\* realloc extends the block p into the top behind it.
Growing(h, B, p, nb, g) ==
  /\ Good(h, B) /\ p \in B /\ p \in Regular(h.chunk) /\ End(h.chunk, p) = h.top
  /\ nb \in Nat /\ MinChunk <= nb /\ h.chunk[p].size < nb /\ nb < h.chunk[p].size + h.topsize
  /\ g = [h EXCEPT !.top = p + nb, !.topsize = h.chunk[p].size + @ - nb,
                   !.chunk = Put(Put(Without(@, {h.top}), p + nb,
                                     Unused(h.chunk[p].size + h.topsize - nb)),
                                 p, [h.chunk[p] EXCEPT !.size = nb])]

\* What is behind the front of the block p is one free chunk q up to b.
SplitOff(h, g, B, S, p, q, b) ==
  /\ Good(h, B) /\ p \in B /\ p \in Regular(h.chunk) /\ Span(h, p, b, S) /\ S \intersect h.sys = {}
  /\ B \intersect S = {p} /\ h.top \notin S /\ h.chunk[b].cinuse
  /\ q \in Int /\ p + MinChunk <= q /\ q + MinChunk <= b
  /\ DOMAIN g = Fields /\ Counters(g) /\ SameSegments(h, g) /\ g.top = h.top /\ g.topsize = h.topsize
  /\ LET C == h.chunk  D == g.chunk
     IN  /\ IsMap(D) /\ DOMAIN D = (DOMAIN C \ S) \union {p, q}
         /\ D[p].size = q - p /\ D[p].cinuse /\ (D[p].pinuse <=> C[p].pinuse) /\ D[p].foot = C[p].foot
         /\ D[q] = Unused(b - q)
         /\ SameChunk(C[b], D[b]) /\ ~D[b].pinuse /\ D[b].foot = b - q
         /\ \A x \in DOMAIN C \ S : x # b => D[x] = C[x]
  /\ FiledIn(g.chunk, (Vacant(h) \ S) \union {q}, g)

(***************************************************************************)
(* New memory.  It extends a segment downwards, as one chunk.              *)
(***************************************************************************)

\* The size words at a are not mapped.
Clear(h, a, size) ==
  /\ a \in Nat /\ size \in Nat \ {0} /\ a + size <= Space
  /\ \A g \in Segments(h) : a + size <= g.base \/ Limit(g) <= a
  /\ \A p \in DOMAIN h.chunk \ Regular(h.chunk) :
       a + size <= p \/ End(h.chunk, p) + FootPad <= a

\* The record of the segment seg becomes new.
Relinked(h, g, seg, new) ==
  \/ seg = h.seg /\ g.seg = new /\ g.linked = h.linked
  \/ seg \in h.linked /\ g.seg = h.seg /\ g.linked = (h.linked \ {seg}) \union {new}

Extending(h, g, B, seg, base, size, new) ==
  /\ Good(h, B) /\ Clear(h, base, size) /\ seg.base = base + size /\ MinChunk <= size
  /\ new = [base |-> base, size |-> seg.size + size] /\ Relinked(h, g, seg, new)
  /\ DOMAIN g = Fields /\ g.chunk = Put(h.chunk, base, Used(size))
  /\ g.top = h.top /\ g.topsize = h.topsize /\ g.dv = h.dv /\ g.dvsize = h.dvsize
  /\ g.bins = h.bins /\ g.sys = h.sys /\ Counters(g)

SpecExtending(h, g, B, seg, base, size, new, e) ==
  LET C == h.chunk  D == g.chunk
  IN  /\ seg \in Segments(h) /\ Segments(g) = (Segments(h) \ {seg}) \union {new}
      /\ base \in Nat /\ size \in Nat \ {0} /\ size \in Sizes /\ e \in Nat /\ base < e /\ e = base + size
      /\ seg.base = e /\ e \in Regular(C) /\ Limit(new) = Limit(seg) /\ new.base = base
      /\ seg.size \in Nat \ {0} /\ new.size = seg.size + size
      /\ Limit(seg) = e + seg.size /\ Limit(seg) \in Nat /\ e < Limit(seg)
      /\ base \notin DOMAIN C /\ IsMap(C)
      /\ IsMap(D) /\ DOMAIN D = DOMAIN C \union {base}
      /\ D[base].size = size /\ D[base].cinuse /\ D[base].pinuse /\ D[base].foot = 0
      /\ \A x \in DOMAIN C : D[x] = C[x]
      /\ Regular(D) = Regular(C) \union {base} /\ DOMAIN D \ Regular(D) = DOMAIN C \ Regular(C)
      /\ \A x \in DOMAIN C : End(D, x) = End(C, x) /\ x \in Int /\ End(C, x) \in Int /\ x < End(C, x)
      /\ End(D, base) = e
      /\ \A x \in DOMAIN C : x < base \/ e <= x
      /\ \A x \in Regular(C) : x < base => End(C, x) <= base
      /\ \A f \in Segments(h) : /\ f.base \in Nat /\ f.size \in Nat \ {0} /\ Limit(f) = f.base + f.size
                                /\ e <= f.base \/ Limit(f) <= base

Prepending(h, B, seg, base, size, nb) ==
  /\ Good(h, B) /\ Clear(h, base, size) /\ seg \in Segments(h) /\ seg.base = base + size
  /\ nb \in Nat /\ MinChunk <= nb /\ nb + MinChunk <= size

\* The heap with the new memory as one chunk.
Grown(h, seg, base, size) ==
  [Resized(h, seg, ExtendedDown(seg, base, size)) EXCEPT !.chunk = Put(@, base, Used(size))]

SpecPrepending(h, B, seg, base, size, nb, k, e, q) ==
  LET C == k.chunk
  IN  /\ Good(k, B \union {base}) /\ Frame(h, k, B) /\ base \notin B
      /\ DOMAIN k = Fields /\ Counters(k) /\ C = Put(h.chunk, base, Used(size))
      /\ k.top = h.top /\ k.topsize = h.topsize /\ k.dv = h.dv /\ k.dvsize = h.dvsize
      /\ k.bins = h.bins
      /\ base \in Regular(C) /\ base \in DOMAIN C /\ base \notin DOMAIN h.chunk
      /\ C[base].pinuse /\ C[base].cinuse /\ C[base].foot = 0
      /\ base \in Int /\ base \in Addresses /\ e \in Int /\ e \in Addresses /\ e = End(C, base) /\ base < e
      /\ base # e /\ e \in DOMAIN C /\ e \in Regular(C) /\ e \in DOMAIN h.chunk
      /\ C[e] = h.chunk[e] /\ C[e].foot # Direct
      /\ q \in Int /\ q \in Addresses /\ nb \in Sizes /\ nb = q - base /\ size - nb = e - q
      /\ q = base + nb /\ e - q \in Sizes
      /\ base + MinChunk <= q /\ q + MinChunk <= e /\ base < q /\ q < e
      /\ base # q /\ q # e /\ q \notin DOMAIN C /\ q \notin DOMAIN h.chunk
      /\ Span(k, base, e, {base}) /\ {base} \intersect k.sys = {}
      /\ IsMap(C) /\ IsMap(h.chunk) /\ base \notin Vacant(k) /\ base # h.top

Front(h, seg, base, size, nb) ==
  [Resized(h, seg, ExtendedDown(seg, base, size)) EXCEPT !.chunk = SetUsed(@, base, nb)]

\* The same with the front of the new chunk only.
SpecFront(k, g, base, q) ==
  LET C == k.chunk  G == g.chunk
  IN  /\ DOMAIN g = Fields /\ Counters(g) /\ SameSegments(k, g) /\ g.top = k.top
      /\ g.topsize = k.topsize /\ g.dv = k.dv /\ g.dvsize = k.dvsize /\ g.bins = k.bins
      /\ IsMap(G) /\ DOMAIN G = DOMAIN C
      /\ G[base].size = q - base /\ G[base].cinuse /\ G[base].pinuse /\ G[base].foot = 0
      /\ \A x \in DOMAIN C : x # base => G[x] = C[x]

\* The rest of the new chunk is merged with the free chunk e behind it.
Joined(k, g, r, e, q, b) ==
  LET G == g.chunk  D == r.chunk
  IN  /\ DOMAIN r = Fields /\ Counters(r) /\ SameSegments(k, r) /\ r.top = k.top /\ r.topsize = k.topsize
      /\ IsMap(D) /\ DOMAIN D = (DOMAIN G \ {e}) \union {q} /\ D[q] = Unused(b - q)
      /\ SameChunk(G[b], D[b]) /\ ~D[b].pinuse /\ D[b].foot = b - q
      /\ \A x \in DOMAIN G \ {e} : x # q /\ x # b => D[x] = G[x]
      /\ FiledIn(D, (Vacant(k) \ {e}) \union {q}, r)

(***************************************************************************)
(* A segment gets another tail, or is new.                                 *)
(***************************************************************************)

\* The chunks of T lie end to end from a to lim.
Tiles(D, T, a, lim) ==
  /\ IsMap(D) /\ a \in T /\ T \subseteq Regular(D) /\ lim \in Int
  /\ \A x \in T : a <= x /\ x < lim /\ (End(D, x) = lim \/ End(D, x) \in T)
  /\ \A x, y \in T : x < y => End(D, x) <= y

\* Between the start of seg and lim is only seg.
Room(C, Z, seg, lim) ==
  /\ lim \in Nat /\ lim <= Space
  /\ \A f \in Z : f = seg \/ Limit(f) <= seg.base \/ lim <= f.base
  /\ \A p \in DOMAIN C \ Regular(C) : End(C, p) + FootPad <= seg.base \/ lim <= p

\* The chunks of C behind a in seg are those of T now, which end at lim.
Retiled(C, D, Z, Y, seg, a, lim, T) ==
  /\ IsMap(C) /\ Geometry(C, Z) /\ seg \in Z /\ a \in Regular(C) /\ Holds(seg, a)
  /\ Room(C, Z, seg, lim) /\ Tiles(D, T, a, lim)
  /\ Y = (Z \ {seg}) \union {[base |-> seg.base, size |-> lim - seg.base]}
  /\ DOMAIN D = {x \in DOMAIN C : x < a \/ Limit(seg) <= x} \union T
  /\ \A x \in DOMAIN C : x < a \/ Limit(seg) <= x => D[x] = C[x]

SpecRetiled(C, D, seg, a, lim, T) ==
  /\ Regular(D) = {x \in Regular(C) : x < a \/ Limit(seg) <= x} \union T
  /\ DOMAIN D \ Regular(D) = DOMAIN C \ Regular(C)
  /\ \A x \in DOMAIN C \ Regular(C) : End(D, x) = End(C, x)
  /\ \A x \in Regular(C) : x < a \/ Limit(seg) <= x => End(D, x) = End(C, x)
  /\ \A x \in Regular(C) : x < a => End(C, x) <= a
  /\ \A x \in DOMAIN C : Limit(seg) <= x => lim <= x
  /\ \A x \in DOMAIN C : x \in Int /\ C[x].size \in Nat \ {0}
  /\ \A x \in DOMAIN D : x \in Int /\ D[x].size \in Nat \ {0}
  /\ a \in Int /\ lim \in Int /\ a < lim /\ seg.base \in Int /\ Limit(seg) \in Int
  /\ seg.base <= a /\ a < Limit(seg)

\* The chunks of T are those of a segment of its own.
Added(C, D, Z, Y, base, lim, T) ==
  /\ IsMap(C) /\ Geometry(C, Z) /\ Tiles(D, T, base, lim) /\ base \in Nat /\ lim \in Nat /\ lim <= Space
  /\ Y = Z \union {[base |-> base, size |-> lim - base]}
  /\ \A f \in Z : lim <= f.base \/ Limit(f) <= base
  /\ \A p \in DOMAIN C \ Regular(C) : End(C, p) + FootPad <= base \/ lim <= p
  /\ DOMAIN D = DOMAIN C \union T
  /\ \A x \in DOMAIN C : D[x] = C[x]

SpecAdded(C, D, base, lim, T) ==
  /\ Regular(D) = Regular(C) \union T
  /\ DOMAIN D \ Regular(D) = DOMAIN C \ Regular(C)
  /\ \A x \in DOMAIN C : End(D, x) = End(C, x)
  /\ \A x \in Regular(C) : x < base => End(C, x) <= base
  /\ \A x \in DOMAIN C : x < base \/ lim <= x
  /\ \A x \in DOMAIN C : x \in Int /\ C[x].size \in Nat \ {0}
  /\ \A x \in DOMAIN D : x \in Int /\ D[x].size \in Nat \ {0}
  /\ base < lim

\* The top of h and the fake chunk behind it become the chunks of T: the top of
\* g with its fake chunk, the free chunks V and those of the allocator W.
NewTail(h, g, T, V, W) ==
  LET D == g.chunk
      foot == g.top + g.topsize
  IN  /\ T \subseteq Regular(D) /\ V \subseteq T /\ W \subseteq T /\ g.top \in T /\ foot \in T
      /\ \A x \in T : D[x].cinuse <=> x \in W
      /\ \A x \in T : x \in V <=> ~D[x].cinuse /\ x \notin {g.top, foot}
      /\ \A x \in V : /\ ~D[End(D, x)].pinuse /\ D[End(D, x)].foot = D[x].size
                      /\ D[End(D, x)].cinuse /\ MinChunk <= D[x].size
      /\ \A p \in T \ {foot} : ~D[p].pinuse =>
           LET q == p - D[p].foot
           IN  q \in V /\ D[q].size = D[p].foot /\ \A k \in Segments(g) : Holds(k, p) => Holds(k, q)
      /\ \A p \in T, k \in Segments(g) : Holds(k, p) /\ End(D, p) = Limit(k) => p \in W \/ p = foot

\* The other chunks are as they were, and those of a segment stay together.
OldChunks(h) == DOMAIN h.chunk \ {h.top, h.top + h.topsize}

SegmentsStay(h, Y) ==
  /\ \A k \in Y, p \in OldChunks(h) : Holds(k, p) =>
       \E f \in Segments(h) : Holds(f, p) /\ \A q \in OldChunks(h) : Holds(f, q) => Holds(k, q)
  /\ \A k \in Y, p \in OldChunks(h) :
       Holds(k, p) /\ p \in Regular(h.chunk) /\ End(h.chunk, p) = Limit(k) => p \in h.sys

SameOld(h, g, T) ==
  LET C == h.chunk  D == g.chunk
  IN  /\ DOMAIN D = OldChunks(h) \union T
      /\ \A x \in OldChunks(h) : x \notin T /\ D[x] = C[x]
      /\ SegmentsStay(h, Segments(g))

Retailed(h, g, B, T, V, W) ==
  /\ Good(h, B) /\ DOMAIN g = Fields /\ Counters(g)
  /\ Headers(g.chunk) /\ Geometry(g.chunk, Segments(g)) /\ TopLast(g) /\ Recorded(g)
  /\ FiledIn(g.chunk, Vacant(h) \union V, g) /\ g.sys = h.sys \union W
  /\ SameOld(h, g, T) /\ NewTail(h, g, T, V, W)

FakeFoot == [Unused(TopFoot) EXCEPT !.pinuse = FALSE]

\* The top of g has n words, up to the fake chunk, which ends m->seg at lim.
Retopped(h, B, n, lim, g) ==
  /\ Good(h, B) /\ n \in Nat \ {0} /\ lim = h.top + n + TopFoot
  /\ Room(h.chunk, Segments(h), h.seg, lim)
  /\ DOMAIN g = Fields /\ Counters(g) /\ g.top = h.top /\ g.topsize = n
  /\ g.seg = [base |-> h.seg.base, size |-> lim - h.seg.base]
  /\ g.linked = h.linked /\ g.sys = h.sys /\ g.bins = h.bins /\ g.dv = h.dv /\ g.dvsize = h.dvsize
  /\ g.chunk = Put(Put(Without(h.chunk, {h.top + h.topsize}), h.top + n, FakeFoot), h.top, Unused(n))

\* What is said of m->seg and the top behind Retop.
SpecSeg(h, foot) ==
  /\ h.seg.base \in Nat /\ h.seg.size \in Nat \ {0} /\ Limit(h.seg) = h.seg.base + h.seg.size
  /\ h.seg = [base |-> h.seg.base, size |-> h.seg.size]
  /\ foot + TopFoot = Limit(h.seg) /\ h.seg.base <= h.top /\ Limit(h.seg) <= Space
  /\ h.top \in Int /\ h.topsize \in Nat \ {0} /\ foot = h.top + h.topsize
  /\ TopFoot \in Nat \ {0} /\ Space \in Nat

(***************************************************************************)
(* A new segment: m->seg is linked behind it, with its record at sp and    *)
(* the fenceposts behind it, and the top is the new memory.                *)
(***************************************************************************)

Linking(h, B, base, size, r, sp, fence, T1, T2, V) ==
  LET C == h.chunk  D == r.chunk
      foot == h.top + h.topsize
      last == base + (size - TopFoot)
  IN  /\ Good(h, B) /\ Clear(h, base, size) /\ TopFoot < size /\ fence = sp + SegChunk
      /\ IsMap(D) /\ DOMAIN D = OldChunks(h) \union (T1 \union T2) /\ \A x \in OldChunks(h) : D[x] = C[x]
      /\ T2 = {base, last}
      /\ D[base].size = size - TopFoot /\ ~D[base].cinuse /\ D[base].pinuse /\ D[base].foot = 0
      /\ D[last].size = TopFoot /\ ~D[last].cinuse /\ D[last].foot = 0
      /\ D[sp].size = SegChunk /\ D[sp].cinuse
      /\ D[fence].size = foot + TopFoot - fence /\ D[fence].cinuse /\ D[fence].pinuse /\ D[fence].foot = 0
      /\ \/ /\ sp = h.top /\ h.topsize < MinChunk /\ T1 = {sp, fence} /\ V = {}
            /\ D[sp].pinuse /\ D[sp].foot = 0
         \/ /\ sp = foot /\ MinChunk <= h.topsize /\ T1 = {h.top, sp, fence} /\ V = {h.top}
            /\ ~D[sp].pinuse /\ D[sp].foot = h.topsize
            /\ D[h.top].size = h.topsize /\ ~D[h.top].cinuse /\ D[h.top].pinuse /\ D[h.top].foot = 0

SpecLinking(h, B, base, size, r, sp, fence, T1, T2, V, a, end, last) ==
  LET C == h.chunk  D == r.chunk
  IN  /\ Tiles(D, T1, a, end) /\ Tiles(D, T2, base, base + size)
      /\ a \in Int /\ end \in Int /\ sp \in Int /\ fence \in Int /\ last \in Int /\ base \in Int
      /\ a <= sp /\ sp < fence /\ fence < end /\ base < last /\ last < base + size
      /\ sp + TopFoot <= end /\ last + TopFoot = base + size /\ last = base + (size - TopFoot)
      /\ End(D, sp) = fence /\ End(D, fence) = end /\ End(D, base) = last /\ End(D, last) = base + size
      /\ V # {} => a < sp /\ End(D, a) = sp
      /\ a = h.top /\ end = Limit(h.seg) /\ end <= Space
      /\ sp \in T1 /\ fence \in T1 /\ T1 = V \union {sp, fence} /\ V \subseteq {a}

Linked(h, B, base, size, r, sp, fence, T1, T2, V) ==
  /\ Linking(h, B, base, size, r, sp, fence, T1, T2, V)
  /\ DOMAIN r = Fields /\ Counters(r)
  /\ r.top = base /\ r.topsize = size - TopFoot /\ r.seg = [base |-> base, size |-> size]
  /\ r.linked = h.linked \union {h.seg} /\ r.sys = h.sys \union {sp, fence}
  /\ FiledIn(r.chunk, Vacant(h) \union V, r)

\* add_segment when the memory at base was mapped.
Adding(h, B, base, size, sp, fence) ==
  /\ Good(h, B) /\ Clear(h, base, size) /\ TopFoot < size /\ fence = sp + SegChunk
  /\ \/ sp = h.top /\ h.topsize < MinChunk
     \/ sp = h.top + h.topsize /\ MinChunk <= h.topsize

SpecAdding(h, base, n, last, sp, fence, end) ==
  /\ {base, last, sp, fence, h.top} \subseteq Addresses /\ {base, last, sp, fence, end} \subseteq Int
  /\ {n, TopFoot, SegChunk, end - fence} \subseteq Sizes /\ FakeFoot \in Header
  /\ base # last /\ sp # fence /\ base # h.top /\ last # h.top /\ fence # h.top
  /\ base # sp /\ base # fence /\ last # sp /\ last # fence
  /\ \A x \in OldChunks(h) : x \notin {base, last, sp, fence, h.top}
  /\ IsMap(h.chunk) /\ DOMAIN h = Fields

(***************************************************************************)
(* Directly mapped chunks.  Only they change.                              *)
(***************************************************************************)

Irregular(C) == DOMAIN C \ Regular(C)

\* The directly mapped chunk p lies apart from the segments and the others.
ApartFrom(C, Z, p) ==
  /\ End(C, p) + FootPad <= Space
  /\ \A g \in Z : End(C, p) + FootPad <= g.base \/ Limit(g) <= p
  /\ \A q \in Irregular(C) : (p < q => End(C, p) + FootPad <= q) /\ (q < p => End(C, q) + FootPad <= p)

Remaps(h, g, B, D, B2) ==
  /\ Good(h, B) /\ g = [h EXCEPT !.chunk = D]
  /\ IsMap(D) /\ Regular(D) = Regular(h.chunk)
  /\ \A x \in Regular(h.chunk) : D[x] = h.chunk[x]
  /\ \A x \in Irregular(D) : D[x].cinuse /\ ~D[x].pinuse /\ ApartFrom(D, Segments(h), x)
  /\ \A x \in Regular(h.chunk) : x \in B2 <=> x \in B
  /\ B2 \subseteq DOMAIN D /\ Irregular(D) \subseteq B2

\* The header of a directly mapped chunk.
Apiece(s) == [Used(s) EXCEPT !.pinuse = FALSE, !.foot = Direct]

MappedAlone(h, B, a, size, D) ==
  /\ Good(h, B) /\ Clear(h, a, size) /\ FootPad < size
  /\ D = Put(h.chunk, a, Apiece(size - FootPad))

(***************************************************************************)
(* Segments are released.                                                  *)
(***************************************************************************)

Gone(h, S) == {q \in DOMAIN h.chunk : \E seg \in S : Holds(seg, q)}

Releasing(h, B, S) ==
  Good(h, B) /\ S \subseteq h.linked /\ \A seg \in S : Releasable(h, seg)

SpecGone(h, B, S, G) ==
  LET C == h.chunk
  IN  /\ \A x \in G : /\ x \in Regular(C) /\ x \notin B /\ x # h.top /\ x # h.top + h.topsize
                      /\ x \in Vacant(h) => \E seg \in S : x = seg.base
      /\ \A k \in Segments(h) \ S, x \in Regular(C) : Holds(k, x) => x \notin G
      /\ \A k \in S, x \in DOMAIN C : Holds(k, x) => x \in G
      /\ \A x \in Regular(C) \ G : \E k \in Segments(h) \ S : Holds(k, x)
      /\ \A x \in Vacant(h) \ G : End(C, x) \notin G
      /\ h.seg \in Segments(h) \ S

\* The heap g without the chunks of G, which those of the segments S are.
Unlinked(h, g, S, G, F, checks, r) ==
  /\ DOMAIN r = Fields /\ r.chunk = Without(h.chunk, G) /\ r.top = h.top /\ r.topsize = h.topsize
  /\ r.seg = h.seg /\ r.linked = h.linked \ S /\ r.sys = h.sys \ G /\ r.trim = h.trim
  /\ r.checks = checks /\ r.bins = g.bins \ F /\ r.dv = g.dv /\ r.dvsize = g.dvsize

(***************************************************************************)
(* lj_alloc_create.                                                        *)
(***************************************************************************)

Created(h, t, f) ==
  LET C == h.chunk
  IN  /\ DOMAIN h = Fields /\ h.top = MState /\ h.topsize = t /\ f = MState + t /\ f \in Int
      /\ f + TopFoot = Granularity /\ t \in Nat \ {0} /\ TopFoot \in Nat \ {0} /\ MState \in Nat \ {0}
      /\ Granularity \in Nat \ {0} /\ Space \in Nat /\ Granularity <= Space
      /\ h.dv = None /\ h.dvsize = 0 /\ h.bins = {} /\ h.linked = {} /\ h.sys = {0}
      /\ h.seg.base = 0 /\ h.seg.size = Granularity /\ h.seg \in [base : Nat, size : Nat \ {0}]
      /\ Segments(h) = {h.seg} /\ Limit(h.seg) = Granularity
      /\ IsMap(C) /\ DOMAIN C = {0, MState, f}
      /\ C[0] = Used(MState) /\ C[MState] = Unused(t)
      /\ C[f].size = TopFoot /\ ~C[f].cinuse /\ C[f].foot = 0
      /\ Regular(C) = DOMAIN C
      /\ End(C, 0) = MState /\ End(C, MState) = f /\ End(C, f) = Granularity
      /\ h.checks \in Nat \ {0} /\ h.trim = TrimThreshold

(***************************************************************************)
(* Operators.                                                              *)
(***************************************************************************)

\* Put changes one entry.
LEMMA PutFacts ==
  ASSUME NEW C, NEW p, NEW v
  PROVE  /\ DOMAIN Put(C, p, v) = DOMAIN C \union {p}
         /\ Put(C, p, v)[p] = v
         /\ \A x \in DOMAIN C : x # p => Put(C, p, v)[x] = C[x]
  BY DEF Put

\* Without removes entries and changes none.
LEMMA WithoutFacts ==
  ASSUME NEW C, NEW S
  PROVE  /\ DOMAIN Without(C, S) = DOMAIN C \ S
         /\ \A x \in DOMAIN C \ S : Without(C, S)[x] = C[x]
  BY DEF Without, Restrict

\* Pages rounds up to a multiple of Granularity.
LEMMA PagesFacts ==
  ASSUME NEW n \in Nat
  PROVE  Pages(n) \in Nat /\ n <= Pages(n) /\ Pages(n) < n + Granularity
<1> DEFINE k == (n + Granularity - 1) \div Granularity
<1>0. Granularity \in Nat \ {0}
  BY ConstantsOK
<1>1. k \in Nat
  BY <1>0
<1>2. k * Granularity <= n + Granularity - 1 /\ n + Granularity - 1 < (k + 1) * Granularity
  BY <1>0
<1> HIDE DEF k
<1>3. (k + 1) * Granularity = k * Granularity + Granularity /\ k * Granularity \in Nat
  BY <1>0, <1>1
<1> QED BY <1>0, <1>1, <1>2, <1>3 DEF Pages, k

\* The larger of two numbers.
LEMMA MaxFacts ==
  ASSUME NEW a \in Int, NEW b \in Int
  PROVE  Max({a, b}) \in {a, b} /\ a <= Max({a, b}) /\ b <= Max({a, b})
<1>1. \E x \in {a, b} : \A y \in {a, b} : x >= y
  OBVIOUS
<1> QED BY <1>1 DEF Max

(***************************************************************************)
(* A change within a segment.                                              *)
(***************************************************************************)

\* A rewriting between two boundaries leaves the segments tiled.
LEMMA RewrittenGeometry ==
  ASSUME NEW C, NEW D, NEW Z, NEW a, NEW m, NEW b,
         Headers(C), Headers(D), Geometry(C, Z), Within(C, Z, a, m, b), Rewritten(C, D, a, m, b)
  PROVE  /\ Geometry(D, Z)
         /\ Regular(D) = {a, m} \union {x \in Regular(C) : x < a \/ b <= x}
         /\ \A x \in Regular(C) : x < a \/ b <= x => End(D, x) = End(C, x)
         /\ \A x \in Regular(C) : x < a => End(C, x) <= a
         /\ End(D, m) = b /\ (a < m => End(D, a) = m)
<1>0. /\ \A x \in DOMAIN C : x \in Int /\ C[x].size \in Nat \ {0} /\ C[x].size \in Int
      /\ \A x \in DOMAIN D : x \in Int /\ D[x].size \in Nat \ {0}
      /\ a \in Int /\ b \in Int /\ m \in Int /\ a <= m /\ m < b
      /\ a \in Regular(C) /\ b \in Regular(C)
  BY ConstantsOK DEF Headers, IsMap, Header, Within, Regular
<1>1. PICK g \in Z : Holds(g, a) /\ Holds(g, b)
  BY DEF Within
<1>2. \A f \in Z : f.base \in Int /\ f.size \in Nat \ {0} /\ Limit(f) \in Int
  BY DEF Geometry, Limit
<1>3. \A x \in DOMAIN C \ Regular(C) : x < a \/ b < x
  <2> SUFFICES ASSUME NEW x \in DOMAIN C \ Regular(C), a <= x, x <= b PROVE FALSE
    BY <1>0
  <2>1. End(C, x) + FootPad <= g.base \/ Limit(g) <= x
    BY DEF Geometry
  <2> QED BY <1>0, <1>1, <1>2, <2>1 DEF Holds, Limit, End, FootPad
<1>4. Regular(D) = {a, m} \union {x \in Regular(C) : x < a \/ b <= x}
  BY <1>0, <1>3 DEF Regular, Rewritten
<1>5. DOMAIN D \ Regular(D) = DOMAIN C \ Regular(C)
  BY <1>0, <1>3, <1>4 DEF Regular, Rewritten
<1>6. \A x \in Regular(C) : x < a \/ b <= x => End(D, x) = End(C, x)
  BY <1>0 DEF Regular, Rewritten, End
<1>7. \A x \in Regular(C) : x < a => End(C, x) <= a
  BY <1>0 DEF Geometry
<1>8. End(D, m) = b /\ (a < m => End(D, a) = m)
  BY <1>0 DEF Rewritten, End
<1>9. \A f \in Z : f.base \in Regular(D)
  <2> SUFFICES ASSUME NEW f \in Z, ~(f.base < a \/ b <= f.base) PROVE f.base = a
    BY <1>4 DEF Geometry
  <2>1. f = g
    BY <1>0, <1>1, <1>2 DEF Geometry, Holds, Limit
  <2> QED BY <1>0, <1>1, <1>2, <2>1 DEF Holds
<1>10. ASSUME NEW p \in Regular(D)
       PROVE  \E f \in Z : /\ Holds(f, p)
                           /\ End(D, p) = Limit(f) \/ (Holds(f, End(D, p)) /\ End(D, p) \in Regular(D))
  <2>1. CASE p = m
    <3>1. Holds(g, m)  BY <1>0, <1>1, <1>2 DEF Holds
    <3> QED BY <1>0, <1>1, <1>4, <1>8, <2>1, <3>1
  <2>2. CASE p = a /\ a < m
    <3>1. Holds(g, m)  BY <1>0, <1>1, <1>2 DEF Holds
    <3> QED BY <1>0, <1>1, <1>4, <1>8, <2>2, <3>1
  <2>3. CASE p \in Regular(C) /\ (p < a \/ b <= p)
    <3>1. PICK f \in Z : /\ Holds(f, p)
                         /\ End(C, p) = Limit(f) \/ (Holds(f, End(C, p)) /\ End(C, p) \in Regular(C))
      BY <2>3 DEF Geometry
    <3>2. End(C, p) \in Int /\ (End(C, p) <= a \/ b < End(C, p))
      BY <1>0, <1>7, <2>3 DEF End, Regular
    <3>3. End(C, p) \in Regular(C) => End(C, p) \in Regular(D)
      BY <1>0, <1>4, <3>2
    <3> QED BY <1>6, <2>3, <3>1, <3>3
  <2> QED BY <1>0, <1>4, <2>1, <2>2, <2>3
<1>11. ASSUME NEW p \in Regular(D), NEW q \in Regular(D), p < q
       PROVE  End(D, p) <= q
  <2>0. p \in Int /\ q \in Int
    BY <1>0 DEF Regular
  <2>1. CASE p = m
    BY <1>0, <1>4, <1>8, <1>11, <2>0, <2>1
  <2>2. CASE p = a /\ a < m
    BY <1>0, <1>4, <1>8, <1>11, <2>0, <2>2
  <2>3. CASE p \in Regular(C) /\ (p < a \/ b <= p)
    <3>1. CASE q \in Regular(C)
      BY <1>6, <1>11, <2>3, <3>1 DEF Geometry
    <3>2. CASE q = m
      <4>1. End(C, p) <= a  BY <1>0, <1>7, <1>11, <2>3, <3>2
      <4> QED BY <1>0, <1>6, <2>3, <3>2, <4>1 DEF End, Regular
    <3> QED BY <1>0, <1>4, <3>1, <3>2
  <2> QED BY <1>0, <1>4, <2>1, <2>2, <2>3
<1>12. ASSUME NEW p \in DOMAIN D \ Regular(D)
       PROVE  /\ p \in DOMAIN C \ Regular(C)
              /\ End(D, p) = End(C, p)
  <2>1. p \in DOMAIN C \ Regular(C)
    BY <1>5
  <2> QED BY <1>0, <1>3, <2>1 DEF Rewritten, End
<1>13. Geometry(D, Z)
  BY <1>5, <1>9, <1>10, <1>11, <1>12 DEF Geometry
<1> QED BY <1>4, <1>6, <1>7, <1>8, <1>13

(***************************************************************************)
(* Chunks of a good heap.                                                  *)
(***************************************************************************)
\* A chunk that is not the allocator's own does not end its segment.
LEMMA InnerFacts ==
  ASSUME NEW h, NEW B, Good(h, B), NEW p \in Regular(h.chunk),
         p \notin h.sys, p # h.top + h.topsize
  PROVE  /\ p \in Int /\ h.chunk[p].size \in Nat \ {0} /\ p < End(h.chunk, p)
         /\ End(h.chunk, p) \in Int
         /\ End(h.chunk, p) \in Regular(h.chunk)
         /\ \E g \in Segments(h) : Holds(g, p) /\ Holds(g, End(h.chunk, p))
<1>1. p \in Int /\ h.chunk[p].size \in Nat \ {0}
  BY ConstantsOK DEF Good, Headers, IsMap, Header, Regular
<1>2. PICK g \in Segments(h) :
        Holds(g, p) /\ (End(h.chunk, p) = Limit(g)
                          \/ (Holds(g, End(h.chunk, p)) /\ End(h.chunk, p) \in Regular(h.chunk)))
  BY DEF Good, Geometry
<1>3. End(h.chunk, p) # Limit(g)
  BY <1>2 DEF Good, Kept
<1> QED BY <1>1, <1>2, <1>3 DEF End

\* A free chunk lies inside a segment, and the chunk behind it is in use.
LEMMA VacantFacts ==
  ASSUME NEW h, NEW B, Good(h, B), NEW p \in Vacant(h)
  PROVE  /\ p \in Regular(h.chunk) /\ p \notin h.sys /\ p # h.top + h.topsize /\ p # h.top
         /\ p \in Int /\ h.chunk[p].size \in Nat \ {0} /\ p < End(h.chunk, p)
         /\ End(h.chunk, p) \in Int
         /\ End(h.chunk, p) \in Regular(h.chunk) /\ h.chunk[End(h.chunk, p)].cinuse
         /\ \E g \in Segments(h) : Holds(g, p) /\ Holds(g, End(h.chunk, p))
<1>1. /\ p \in Regular(h.chunk) /\ p \notin h.sys /\ p # h.top + h.topsize /\ p # h.top
      /\ h.chunk[End(h.chunk, p)].cinuse
  BY DEF Vacant, Good, Kept, Found, Regular
<1> QED BY <1>1, InnerFacts

\* The facts about a local change that the next lemmas use, in one place.
LEMMA LocalFacts ==
  ASSUME NEW h, NEW B, Good(h, B), NEW h2, NEW a, NEW m, NEW b, Local(h, h2, a, m, b)
  PROVE  LET C == h.chunk  D == h2.chunk
         IN  /\ \A x \in DOMAIN C : x \in Int /\ C[x].size \in Nat \ {0}
             /\ \A x \in DOMAIN D : x \in Int /\ D[x].size \in Nat \ {0}
             /\ a \in Regular(C) /\ b \in Regular(C) /\ a \in Int /\ b \in Int /\ m \in Int
             /\ a <= m /\ m < b
             /\ Segments(h2) = Segments(h)
             /\ Geometry(D, Segments(h2))
             /\ Regular(D) = {a, m} \union {x \in Regular(C) : x < a \/ b <= x}
             /\ \A x \in Regular(C) : x < a \/ b <= x =>
                  End(D, x) = End(C, x) /\ D[x].size = C[x].size /\ (D[x].cinuse <=> C[x].cinuse)
             /\ \A x \in Regular(C) : x < a \/ b < x => D[x] = C[x]
             /\ \A x \in Regular(C) : x < a => End(C, x) <= a
             /\ End(D, m) = b /\ (a < m => End(D, a) = m)
<1> DEFINE C == h.chunk
           D == h2.chunk
<1>1. /\ Headers(C) /\ Headers(D) /\ Geometry(C, Segments(h))
      /\ Within(C, Segments(h), a, m, b) /\ Rewritten(C, D, a, m, b) /\ Segments(h2) = Segments(h)
  BY DEF Good, Local, Segments
<1>2. /\ \A x \in DOMAIN C : x \in Int /\ C[x].size \in Nat \ {0}
      /\ \A x \in DOMAIN D : x \in Int /\ D[x].size \in Nat \ {0}
  BY <1>1, ConstantsOK DEF Headers, IsMap, Header
<1>3. /\ a \in Regular(C) /\ b \in Regular(C) /\ a \in Int /\ b \in Int /\ m \in Int
      /\ a <= m /\ m < b
  BY <1>1, <1>2 DEF Within, Regular
<1>4. /\ \A x \in Regular(C) : x < a \/ b <= x =>
           D[x].size = C[x].size /\ (D[x].cinuse <=> C[x].cinuse)
      /\ \A x \in Regular(C) : x < a \/ b < x => D[x] = C[x]
  BY <1>1, <1>2, <1>3 DEF Rewritten, Regular
<1> HIDE DEF C, D
<1>5. /\ Geometry(D, Segments(h))
      /\ Regular(D) = {a, m} \union {x \in Regular(C) : x < a \/ b <= x}
      /\ \A x \in Regular(C) : x < a \/ b <= x => End(D, x) = End(C, x)
      /\ \A x \in Regular(C) : x < a => End(C, x) <= a
      /\ End(D, m) = b /\ (a < m => End(D, a) = m)
  BY <1>1, RewrittenGeometry
<1> QED BY <1>1, <1>2, <1>3, <1>4, <1>5 DEF C, D

\* The fake chunk behind the top is not between a and b, and the free chunks
\* that are not stay.
LEMMA LocalVacant ==
  ASSUME NEW h, NEW B, Good(h, B), NEW h2, NEW a, NEW m, NEW b, Local(h, h2, a, m, b)
  PROVE  /\ h2.top + h2.topsize = h.top + h.topsize
         /\ LET foot == h.top + h.topsize
            IN  foot \in Int /\ (foot < a \/ b <= foot)
         /\ Vacant(h2) = Outside(h, a, b) \union Between(h2, a, m)
         /\ TopLast(h2)
<1> DEFINE C == h.chunk
           D == h2.chunk
           foot == h.top + h.topsize
<1>1. /\ \A x \in DOMAIN C : x \in Int /\ C[x].size \in Nat \ {0}
      /\ a \in Regular(C) /\ b \in Regular(C) /\ a \in Int /\ b \in Int /\ m \in Int
      /\ a <= m /\ m < b
      /\ Regular(D) = {a, m} \union {x \in Regular(C) : x < a \/ b <= x}
      /\ \A x \in Regular(C) : x < a \/ b <= x =>
           End(D, x) = End(C, x) /\ D[x].size = C[x].size /\ (D[x].cinuse <=> C[x].cinuse)
      /\ \A x \in Regular(C) : x < a => End(C, x) <= a
      /\ End(D, m) = b /\ (a < m => End(D, a) = m)
  BY LocalFacts
<1>2. /\ h.top \in Regular(C) /\ Holds(h.seg, h.top) /\ ~C[h.top].cinuse /\ C[h.top].size = h.topsize
      /\ foot \in Regular(C) /\ Holds(h.seg, foot) /\ ~C[foot].cinuse /\ C[foot].size = TopFoot
      /\ foot + TopFoot = Limit(h.seg)
  BY DEF Good, TopLast
<1>3. h.top \in Int /\ h.topsize \in Nat \ {0} /\ foot \in Int /\ foot = End(C, h.top)
  BY <1>1, <1>2 DEF Regular, End
<1>4. \A f \in Segments(h) : f.base \in Int /\ f.size \in Nat \ {0} /\ Limit(f) = f.base + f.size
  BY DEF Good, Geometry, Limit
<1>5. PICK g \in Segments(h) : Holds(g, a) /\ Holds(g, b)
  BY DEF Local, Within
<1>6. h2.top + h2.topsize = foot
  BY <1>1, <1>3 DEF Local
<1>7. foot < a \/ b <= foot
  <2>1. CASE a <= h.top /\ h.top < b /\ b = h.top + h.topsize
    BY <1>1, <2>1
  <2>2. CASE b <= h.top
    BY <1>1, <1>3, <2>2
  <2>3. CASE h.top < a
    <3>1. foot <= a
      BY <1>1, <1>2, <1>3, <2>3
    <3>2. foot # a
      <4> SUFFICES ASSUME foot = a PROVE FALSE
        OBVIOUS
      <4>1. g = h.seg
        BY <1>1, <1>2, <1>4, <1>5 DEF Good, Geometry, Holds, Segments, Limit
      <4>2. End(C, a) <= b
        BY <1>1 DEF Good, Geometry
      <4> QED BY <1>1, <1>2, <1>4, <1>5, <4>1, <4>2 DEF Holds, Limit, End
    <3> QED BY <1>1, <1>3, <3>1, <3>2
  <2> QED BY <2>1, <2>2, <2>3 DEF Local
<1>8. /\ Vacant(h2) = {p \in Regular(D) : ~D[p].cinuse /\ p \notin {h2.top, foot}}
      /\ Vacant(h)  = {p \in Regular(C) : ~C[p].cinuse /\ p \notin {h.top, foot}}
  BY <1>6 DEF Vacant
<1>9. \/ h2.top = h.top /\ (h.top < a \/ b <= h.top)
      \/ a <= h.top /\ h.top < b /\ b = foot /\ h2.top = m /\ h2.topsize = b - m /\ ~D[m].cinuse
  BY DEF Local
<1>10. Vacant(h2) = Outside(h, a, b) \union Between(h2, a, m)
  <2>1. \A p \in Vacant(h2) : p \in Outside(h, a, b) \union Between(h2, a, m)
    <3> SUFFICES ASSUME NEW p \in Regular(D), ~D[p].cinuse, p # h2.top, p # foot, p \notin {a, m}
                 PROVE  p \in Outside(h, a, b)
      BY <1>8 DEF Between
    <3>1. p \in Regular(C) /\ (p < a \/ b <= p) /\ ~C[p].cinuse
      BY <1>1
    <3>2. p # h.top
      BY <1>1, <1>3, <1>9, <3>1
    <3> QED BY <1>8, <3>1, <3>2 DEF Outside
  <2>2. \A p \in Outside(h, a, b) : p \in Vacant(h2)
    <3> SUFFICES ASSUME NEW p \in Regular(C), p < a \/ b <= p, ~C[p].cinuse, p # h.top, p # foot
                 PROVE  p \in Vacant(h2)
      BY <1>8 DEF Outside
    <3>1. p \in Int /\ p \in Regular(D) /\ ~D[p].cinuse
      BY <1>1 DEF Regular
    <3>2. p # h2.top
      BY <1>1, <1>9, <3>1
    <3> QED BY <1>8, <3>1, <3>2
  <2>3. \A p \in Between(h2, a, m) : p \in Vacant(h2)
    BY <1>1, <1>3, <1>7, <1>8, <1>9 DEF Between
  <2> QED BY <2>1, <2>2, <2>3
<1>11. foot \in Regular(D) /\ ~D[foot].cinuse /\ D[foot].size = TopFoot
  BY <1>1, <1>2, <1>7
<1>12. h2.top \in Regular(D) /\ Holds(h.seg, h2.top) /\ ~D[h2.top].cinuse /\ D[h2.top].size = h2.topsize
  <2>1. CASE h2.top = h.top /\ h2.topsize = h.topsize /\ (h.top < a \/ b <= h.top)
    BY <1>1, <1>2, <2>1
  <2>2. CASE a <= h.top /\ h.top < b /\ b = foot /\ h2.top = m /\ h2.topsize = b - m /\ ~D[m].cinuse
    <3>1. D[m].size = b - m
      BY DEF Local, Rewritten
    <3>2. g = h.seg
      BY <1>1, <1>2, <1>4, <1>5, <2>2 DEF Good, Geometry, Holds, Segments, Limit
    <3>3. Holds(g, m)
      BY <1>1, <1>4, <1>5 DEF Holds
    <3> QED BY <1>1, <2>2, <3>1, <3>2, <3>3
  <2> QED BY <2>1, <2>2 DEF Local
<1>13. h2.seg = h.seg
  BY DEF Local
<1>14. TopLast(h2)
  BY <1>2, <1>6, <1>11, <1>12, <1>13 DEF TopLast
<1> QED BY <1>3, <1>6, <1>7, <1>10, <1>14

\* What chunks say of the one before them stays true.
LEMMA LocalTags ==
  ASSUME NEW h, NEW B, Good(h, B), NEW h2, NEW a, NEW m, NEW b, Local(h, h2, a, m, b),
         Tagged(h, h2, a, m, b)
  PROVE  Tags(h2)
<1> DEFINE C == h.chunk
           D == h2.chunk
           foot == h.top + h.topsize
<1>1. /\ \A x \in DOMAIN C : x \in Int /\ C[x].size \in Nat \ {0}
      /\ a \in Regular(C) /\ b \in Regular(C) /\ a \in Int /\ b \in Int /\ m \in Int
      /\ a <= m /\ m < b /\ Segments(h2) = Segments(h)
      /\ Regular(D) = {a, m} \union {x \in Regular(C) : x < a \/ b <= x}
      /\ \A x \in Regular(C) : x < a \/ b <= x =>
           End(D, x) = End(C, x) /\ D[x].size = C[x].size /\ (D[x].cinuse <=> C[x].cinuse)
      /\ \A x \in Regular(C) : x < a \/ b < x => D[x] = C[x]
      /\ \A x \in Regular(C) : x < a => End(C, x) <= a
      /\ End(D, m) = b /\ (a < m => End(D, a) = m)
  BY LocalFacts
<1>2. /\ h2.top + h2.topsize = foot /\ foot \in Int /\ (foot < a \/ b <= foot)
      /\ Vacant(h2) = Outside(h, a, b) \union Between(h2, a, m)
  BY LocalVacant
<1>3. /\ \A p \in Vacant(h) : ~C[End(C, p)].pinuse /\ C[End(C, p)].foot = C[p].size
      /\ \A p \in Regular(C) \ {foot} : ~C[p].pinuse =>
           /\ p - C[p].foot \in Vacant(h) /\ C[p - C[p].foot].size = C[p].foot
           /\ \A g \in Segments(h) : Holds(g, p) => Holds(g, p - C[p].foot)
  BY DEF Good, Tags
<1>4. \A p \in Vacant(h) : p \in Regular(C) /\ End(C, p) \in Regular(C) /\ C[End(C, p)].cinuse
  BY VacantFacts
<1>5. \A p \in Regular(C) : p \in Int /\ End(C, p) \in Int /\ p < End(C, p)
  BY <1>1 DEF Regular, End
<1>6. /\ D[a].pinuse <=> C[a].pinuse
      /\ C[a].pinuse \/ (D[a].foot = C[a].foot /\ D[a].cinuse)
      /\ a < m => \/ D[m].pinuse /\ D[a].cinuse
                  \/ ~D[m].pinuse /\ D[m].foot = m - a /\ ~D[a].cinuse /\ D[m].cinuse
      /\ m = h2.top \/ (D[b].pinuse <=> D[m].cinuse)
      /\ m = h2.top \/ D[m].cinuse \/ (D[b].foot = b - m /\ D[b].cinuse)
      /\ D[m].size = b - m /\ (a < m => D[a].size = m - a)
      /\ m = h2.top => b = foot
  BY <1>1, <1>2 DEF Tagged, Local, Rewritten
<1>7. ASSUME NEW p \in Vacant(h2)
      PROVE  ~D[End(D, p)].pinuse /\ D[End(D, p)].foot = D[p].size
  <2>1. CASE p \in Outside(h, a, b)
    <3>1. p \in Vacant(h) /\ p \in Regular(C) /\ (p < a \/ b <= p)
      BY <1>4, <2>1 DEF Outside
    <3>2. PICK e \in Regular(C) : e = End(C, p) /\ e \in Int
      BY <1>4, <1>5, <3>1
    <3>5. e <= a \/ b < e
      <4>1. CASE p < a
        BY <1>1, <3>1, <3>2, <4>1
      <4>2. CASE b <= p
        <5>1. p < e /\ p \in Int
          BY <1>5, <3>1, <3>2
        <5> QED BY <1>1, <3>2, <4>2, <5>1
      <4> QED BY <3>1, <4>1, <4>2
    <3>3. CASE End(C, p) = a
      BY <1>1, <1>3, <1>6, <3>1, <3>3, ZenonT(40)
    <3>4. CASE End(C, p) # a
      <4>1. e < a \/ b < e
        BY <1>1, <3>2, <3>4, <3>5
      <4>2. D[End(C, p)] = C[End(C, p)]
        BY <1>1, <3>2, <4>1
      <4>3. D[p].size = C[p].size /\ End(D, p) = End(C, p)
        BY <1>1, <3>1
      <4> QED BY <1>3, <3>1, <4>2, <4>3
    <3> QED BY <3>3, <3>4
  <2>2. CASE p \in Between(h2, a, m)
    BY <1>1, <1>6, <2>2 DEF Between
  <2> QED BY <1>2, <2>1, <2>2
<1>8. ASSUME NEW p \in Regular(D) \ {foot}, ~D[p].pinuse
      PROVE  LET q == p - D[p].foot
             IN  q \in Vacant(h2) /\ D[q].size = D[p].foot
                 /\ \A g \in Segments(h) : Holds(g, p) => Holds(g, q)
  <2>0. \A g \in Segments(h) : g.base \in Int /\ g.size \in Int /\ Limit(g) = g.base + g.size
    BY DEF Good, Geometry, Limit
  <2>a. PICK f \in Segments(h) : Holds(f, a) /\ Holds(f, b)
    BY DEF Local, Within
  <2>b. \A g \in Segments(h) : \A x \in Int : Holds(g, x) /\ Holds(f, x) => g = f
    BY <2>0 DEF Good, Geometry, Holds
  <2>c. Holds(f, m)
    BY <1>1, <2>0, <2>a DEF Holds
  <2>1. CASE p \in Regular(C) /\ (p < a \/ b < p)
    <3> DEFINE q == p - C[p].foot
    <3>1. D[p] = C[p]
      BY <1>1, <2>1
    <3>2. q \in Vacant(h) /\ C[q].size = C[p].foot /\ \A g \in Segments(h) : Holds(g, p) => Holds(g, q)
      BY <1>3, <1>8, <2>1, <3>1
    <3>3. q \in Regular(C) /\ End(C, q) = p
      BY <1>1, <1>4, <3>2 DEF End, Regular
    <3> HIDE DEF q
    <3>4. q < a \/ b <= q
      <4> SUFFICES ASSUME a <= q, q < b PROVE FALSE
        BY <1>1, <1>5, <3>3
      <4>1. End(C, q) <= b
        BY <1>1, <3>3 DEF Good, Geometry
      <4> QED BY <1>1, <1>5, <2>1, <3>3, <4>1
    <3>5. q \in Vacant(h2) /\ D[q].size = C[q].size
      BY <1>1, <1>2, <3>2, <3>3, <3>4 DEF Outside
    <3> QED BY <3>1, <3>2, <3>5 DEF q
  <2>2. CASE p = a
    <3> DEFINE q == a - C[a].foot
    <3>1. D[a].foot = C[a].foot /\ ~C[a].pinuse
      BY <1>6, <1>8, <2>2
    <3>2. q \in Vacant(h) /\ C[q].size = C[a].foot /\ \A g \in Segments(h) : Holds(g, a) => Holds(g, q)
      BY <1>1, <1>3, <1>8, <2>2, <3>1
    <3>3. q \in Regular(C) /\ End(C, q) = a
      BY <1>1, <1>4, <3>2 DEF End, Regular
    <3>4. q < a
      BY <1>1, <1>5, <3>3
    <3> HIDE DEF q
    <3>5. q \in Vacant(h2) /\ D[q].size = C[q].size
      BY <1>1, <1>2, <3>2, <3>3, <3>4 DEF Outside
    <3> QED BY <2>2, <3>1, <3>2, <3>5 DEF q
  <2>3. CASE p = m /\ a < m
    <3>1. ~D[a].cinuse /\ D[m].foot = m - a /\ a # h2.top
      <4>1. ~D[a].cinuse /\ D[m].foot = m - a /\ D[m].cinuse
        BY <1>6, <1>8, <2>3
      <4>2. a # h2.top
        BY <1>1, <2>3, <4>1 DEF Local
      <4> QED BY <4>1, <4>2
    <3>2. a \in Vacant(h2)
      BY <1>2, <3>1 DEF Between
    <3>3. m - D[m].foot = a
      BY <1>1, <3>1
    <3>4. \A g \in Segments(h) : Holds(g, m) => Holds(g, a)
      BY <1>1, <2>a, <2>b, <2>c
    <3> QED BY <1>6, <2>3, <3>1, <3>2, <3>3, <3>4
  <2>4. CASE p = b
    <3>1. m # h2.top
      BY <1>6, <1>8, <2>4
    <3>2. ~D[m].cinuse /\ D[b].foot = b - m
      BY <1>6, <1>8, <2>4, <3>1
    <3>3. m \in Vacant(h2)
      BY <1>2, <3>1, <3>2 DEF Between
    <3>4. b - D[b].foot = m
      BY <1>1, <3>2
    <3>5. \A g \in Segments(h) : Holds(g, b) => Holds(g, m)
      BY <1>1, <2>a, <2>b, <2>c
    <3>6. D[m].size = D[b].foot
      BY <1>6, <3>2
    <3> QED BY <2>4, <3>3, <3>4, <3>5, <3>6
  <2>5. p = a \/ (p = m /\ a < m) \/ p = b \/ (p \in Regular(C) /\ (p < a \/ b < p))
    <3>1. p \in {a, m} \/ (p \in Regular(C) /\ (p < a \/ b <= p))
      BY <1>1
    <3>2. a = m \/ a < m
      BY <1>1
    <3>3. \A x \in Int : b <= x => x = b \/ b < x
      BY <1>1
    <3> QED BY <1>5, <3>1, <3>2, <3>3
  <2> QED BY <2>1, <2>2, <2>3, <2>4, <2>5
<1> QED BY <1>1, <1>2, <1>7, <1>8 DEF Tags

\* The free chunks stay apart and are found.
LEMMA LocalFound ==
  ASSUME NEW h, NEW B, Good(h, B), NEW h2, NEW a, NEW m, NEW b, Local(h, h2, a, m, b),
         Tagged(h, h2, a, m, b), Refiled(h, h2, a, m, b)
  PROVE  Found(h2)
<1> DEFINE C == h.chunk
           D == h2.chunk
           free == Outside(h, a, b) \union Between(h2, a, m)
<1>1. /\ a \in Regular(C) /\ b \in Regular(C) /\ a \in Int /\ b \in Int /\ m \in Int
      /\ a <= m /\ m < b
      /\ \A x \in Regular(C) : x < a \/ b <= x =>
           End(D, x) = End(C, x) /\ D[x].size = C[x].size /\ (D[x].cinuse <=> C[x].cinuse)
      /\ \A x \in Regular(C) : x < a => End(C, x) <= a
      /\ End(D, m) = b /\ (a < m => End(D, a) = m)
  BY LocalFacts
<1>2. Vacant(h2) = free
  BY LocalVacant
<1>3. ASSUME NEW p \in free
      PROVE  D[End(D, p)].cinuse /\ MinChunk <= D[p].size
  <2>1. CASE p \in Outside(h, a, b)
    <3>1. p \in Vacant(h) /\ (p < a \/ b <= p)
      BY <2>1 DEF Outside
    <3>2. p \in Regular(C) /\ p \in Int
      BY <3>1, VacantFacts
    <3>3. PICK e \in Regular(C) : e = End(C, p) /\ e \in Int /\ C[e].cinuse /\ p < e
      BY <3>1, VacantFacts
    <3>4. e <= a \/ b <= e
      BY <1>1, <3>1, <3>2, <3>3
    <3>5. e = a => D[a].cinuse
      BY <3>1, <3>3 DEF Tagged, Good, Tags
    <3>6. D[e].cinuse
      BY <1>1, <3>3, <3>4, <3>5
    <3>7. MinChunk <= C[p].size
      BY <3>1 DEF Good, Found
    <3> QED BY <1>1, <3>1, <3>2, <3>3, <3>6, <3>7
  <2>2. CASE p \in Between(h2, a, m)
    <3>1. p # h2.top /\ ~D[p].cinuse
      BY <2>2 DEF Between
    <3>2. MinChunk <= D[p].size
      BY <2>2, <3>1 DEF Between, Tagged
    <3>3. CASE p = m
      BY <1>1, <3>1, <3>3 DEF Tagged
    <3>4. CASE p = a /\ a < m
      BY <1>1, <3>1, <3>4 DEF Tagged
    <3> QED BY <1>1, <2>2, <3>2, <3>3, <3>4 DEF Between
  <2> QED BY <2>1, <2>2
<1> HIDE DEF free
<1>4. FiledIn(D, free, h2)
  BY DEF Refiled, free
<1> QED BY <1>2, <1>3, <1>4 DEF Found

\* What is in use stays so, and so do the records of the segments.
LEMMA LocalKept ==
  ASSUME NEW h, NEW B, Good(h, B), NEW h2, NEW a, NEW m, NEW b, Local(h, h2, a, m, b),
         Tagged(h, h2, a, m, b), NEW B2, Reowned(h, h2, a, m, b, B, B2)
  PROVE  Kept(h2, B2) /\ Recorded(h2)
<1> DEFINE C == h.chunk
           D == h2.chunk
           foot == h.top + h.topsize
<1>1. /\ \A x \in DOMAIN C : x \in Int
      /\ a \in Regular(C) /\ b \in Regular(C) /\ a \in Int /\ b \in Int /\ m \in Int
      /\ a <= m /\ m < b
      /\ Segments(h2) = Segments(h)
      /\ Regular(D) = {a, m} \union {x \in Regular(C) : x < a \/ b <= x}
      /\ \A x \in Regular(C) : x < a \/ b <= x =>
           End(D, x) = End(C, x) /\ D[x].size = C[x].size /\ (D[x].cinuse <=> C[x].cinuse)
      /\ End(D, m) = b /\ (a < m => End(D, a) = m)
  BY LocalFacts
<1>2. /\ DOMAIN D = {a, m} \union {x \in DOMAIN C : x < a \/ b <= x}
      /\ \A x \in DOMAIN C : x < a \/ b < x => D[x] = C[x]
      /\ D[b].cinuse <=> C[b].cinuse
      /\ h2.sys = h.sys /\ h2.seg = h.seg /\ h2.linked = h.linked
  BY DEF Local, Rewritten
<1>3. /\ \A p \in DOMAIN C : C[p].cinuse <=> p \in B \union h.sys
      /\ B \subseteq DOMAIN C /\ h.sys \subseteq Regular(C) /\ B \intersect h.sys = {}
      /\ \A p \in B \intersect Regular(C) : MinChunk <= C[p].size
      /\ \A p \in Regular(C) : \A g \in Segments(h) :
           Holds(g, p) /\ End(C, p) = Limit(g) => p \in h.sys \/ p = foot
  BY DEF Good, Kept
<1>4. /\ \A x \in h.sys : x < a \/ b <= x
      /\ \A x \in B2 : x \in {a, m} \/ (x \in B /\ (x < a \/ b <= x))
      /\ \A x \in B : (a <= x /\ x < b) \/ x \in B2
      /\ \A x \in {a, m} : x \in B2 <=> D[x].cinuse
  BY DEF Reowned
<1>5. \A x \in DOMAIN C : x < a \/ b <= x => (x \in B <=> x \in B2)
  BY <1>1, <1>4
<1>6. \A p \in DOMAIN D : D[p].cinuse <=> p \in B2 \union h.sys
  <2>1. ASSUME NEW p \in {a, m} PROVE D[p].cinuse <=> p \in B2 \union h.sys
    <3>1. p \notin h.sys
      BY <1>1, <1>4
    <3> QED BY <1>4, <3>1
  <2>2. ASSUME NEW p \in DOMAIN C, p < a \/ b <= p PROVE D[p].cinuse <=> p \in B2 \union h.sys
    <3>1. D[p].cinuse <=> C[p].cinuse
      BY <1>1, <1>2, <2>2
    <3> QED BY <1>3, <1>5, <2>2, <3>1
  <2> QED BY <1>2, <2>1, <2>2
<1>7. /\ B2 \subseteq DOMAIN D /\ h.sys \subseteq Regular(D) /\ B2 \intersect h.sys = {}
  BY <1>1, <1>2, <1>3, <1>4
<1>8. \A p \in B2 \intersect Regular(D) : MinChunk <= D[p].size
  <2>1. ASSUME NEW p \in B2, p \in {a, m} PROVE MinChunk <= D[p].size
    <3>1. D[p].cinuse
      BY <1>4, <2>1
    <3>2. p # h2.top
      BY <3>1, LocalVacant DEF TopLast
    <3> QED BY <2>1, <3>2 DEF Tagged
  <2> QED BY <1>1, <1>3, <1>4, <2>1
<1>9. ASSUME NEW p \in Regular(D), NEW g \in Segments(h), Holds(g, p), End(D, p) = Limit(g)
      PROVE  p \in h.sys \/ p = foot
  <2>0. /\ \A f \in Segments(h) : f.base \in Int /\ f.size \in Int /\ Limit(f) = f.base + f.size
        /\ \A e, f \in Segments(h) : e = f \/ Limit(e) <= f.base \/ Limit(f) <= e.base
    BY DEF Good, Geometry, Limit
  <2>1. PICK f \in Segments(h) : Holds(f, a) /\ Holds(f, b)
    BY DEF Local, Within
  <2>2. CASE p \in {a, m}
    <3>1. Holds(f, p) /\ p \in Int
      BY <1>1, <2>0, <2>1, <2>2 DEF Holds
    <3>2. f = g
      BY <1>9, <2>0, <3>1 DEF Holds
    <3>3. End(D, p) \in {m, b}
      BY <1>1, <2>2
    <3> QED BY <1>1, <1>9, <2>0, <2>1, <3>2, <3>3 DEF Holds
  <2>3. CASE p \in Regular(C) /\ (p < a \/ b <= p)
    BY <1>1, <1>3, <1>9, <2>3
  <2> QED BY <1>1, <2>2, <2>3
<1>10. Kept(h2, B2)
  BY <1>1, <1>2, <1>6, <1>7, <1>8, <1>9, LocalVacant DEF Kept
<1>11. Recorded(h2)
  <2>1. \A x \in h.sys : End(D, x) = End(C, x)
    BY <1>1, <1>3, <1>4
  <2> QED BY <1>2, <2>1 DEF Good, Recorded
<1> QED BY <1>10, <1>11

\* The heap is good behind the change.
LEMMA LocalChange ==
  ASSUME NEW h, NEW B, Good(h, B), NEW h2, NEW a, NEW m, NEW b, Local(h, h2, a, m, b),
         Tagged(h, h2, a, m, b), Refiled(h, h2, a, m, b),
         NEW B2, Reowned(h, h2, a, m, b, B, B2)
  PROVE  Good(h2, B2)
<1>1. DOMAIN h2 = Fields /\ Headers(h2.chunk) /\ Counters(h2)
  BY DEF Local
<1>2. Geometry(h2.chunk, Segments(h2)) /\ TopLast(h2)
  BY LocalFacts, LocalVacant
<1> QED BY <1>1, <1>2, LocalTags, LocalFound, LocalKept DEF Good

(***************************************************************************)
(* What the operators on headers and bins do.                              *)
(***************************************************************************)

\* Put keeps the headers typed.
LEMMA PutMap ==
  ASSUME NEW C, IsMap(C), NEW p \in Addresses, NEW v \in Header
  PROVE  IsMap(Put(C, p, v))
  BY DEF IsMap, Put, Addresses

\* Without keeps the headers typed.
LEMMA WithoutMap ==
  ASSUME NEW C, IsMap(C), NEW S
  PROVE  IsMap(Without(C, S))
  BY DEF IsMap, Without, Restrict

\* The header of a used chunk and of an unused one.
LEMMA HeaderFacts ==
  ASSUME NEW s \in Sizes
  PROVE  /\ Used(s) \in Header /\ Unused(s) \in Header
         /\ Used(s).size = s /\ Used(s).cinuse /\ Used(s).pinuse /\ Used(s).foot = 0
         /\ Unused(s).size = s /\ ~Unused(s).cinuse /\ Unused(s).pinuse /\ Unused(s).foot = 0
  BY ConstantsOK DEF Header, Used, Unused, Sizes

\* Without meets its description.
LEMMA WithoutSpec ==
  ASSUME NEW C, IsMap(C), NEW S
  PROVE  SpecWithout(C, S, Without(C, S))
  BY WithoutMap, WithoutFacts DEF SpecWithout

\* Put meets its description.
LEMMA PutSpec ==
  ASSUME NEW C, IsMap(C), NEW p \in Addresses, NEW v \in Header
  PROVE  SpecPut(C, p, v, Put(C, p, v))
<1>1. IsMap(Put(C, p, v))
  BY PutMap
<1> QED BY <1>1 DEF SpecPut, Put

\* One header is written.
LEMMA ExceptFacts ==
  ASSUME NEW C, IsMap(C), NEW p \in DOMAIN C, NEW v \in Header
  PROVE  LET D == [C EXCEPT ![p] = v]
         IN  /\ IsMap(D) /\ DOMAIN D = DOMAIN C /\ D[p] = v
             /\ \A x \in DOMAIN C : x # p => D[x] = C[x]
  BY DEF IsMap

\* set_size_and_pinuse_of_inuse_chunk meets its description.
LEMMA SetUsedFacts ==
  ASSUME NEW C, IsMap(C), NEW p \in Addresses, NEW s \in Sizes
  PROVE  SpecUsed(C, p, s, SetUsed(C, p, s))
<1>1. Used(s) \in Header
  BY HeaderFacts
<1>2. IsMap(Put(C, p, Used(s)))
  BY <1>1, PutMap
<1> QED BY <1>2 DEF SetUsed, Put, SpecUsed

\* set_inuse_and_pinuse also tells the chunk behind.
LEMMA SetUsedAllFacts ==
  ASSUME NEW C, IsMap(C), NEW p \in Addresses, NEW s \in Sizes,
         NEW e \in DOMAIN C, e = p + s
  PROVE  SpecUsedAll(C, p, s, e, SetUsedAll(C, p, s))
<1> DEFINE v == [C[e] EXCEPT !.pinuse = TRUE, !.foot = 0]
<1>0. Space \in Nat \ {0} /\ p \in Int /\ s \in Int /\ e # p
  BY ConstantsOK DEF Addresses, Sizes
<1>e. PICK E : E = SetUsed(C, p, s)
  OBVIOUS
<1>s. SpecUsed(C, p, s, E)
  BY <1>e, SetUsedFacts
<1>1. /\ IsMap(E) /\ DOMAIN E = DOMAIN C \union {p} /\ E[p] = Used(s)
      /\ \A x \in DOMAIN C : x # p => E[x] = C[x]
  BY <1>s DEF SpecUsed
<1>2. v \in Header /\ SameChunk(C[e], v) /\ v.pinuse /\ v.foot = 0
  <2>1. C[e] \in Header /\ 0 \in -1..Space /\ TRUE \in BOOLEAN
    BY <1>0 DEF IsMap
  <2> QED BY <1>0, <2>1 DEF Header, SameChunk, Sizes
<1>3. SetUsedAll(C, p, s) = [E EXCEPT ![e] = v]
  BY <1>0, <1>e, <1>1 DEF SetUsedAll
<1> HIDE DEF v
<1>4. e \in DOMAIN E
  BY <1>1
<1>5. PICK D : D = [E EXCEPT ![e] = v]
  OBVIOUS
<1>6. IsMap(D) /\ DOMAIN D = DOMAIN E /\ D[e] = v /\ \A x \in DOMAIN E : x # e => D[x] = E[x]
  BY <1>1, <1>2, <1>4, <1>5, ExceptFacts
<1> QED BY <1>0, <1>1, <1>2, <1>3, <1>5, <1>6 DEF SpecUsedAll

\* set_size_and_pinuse_of_free_chunk leaves PINUSE of the chunk behind alone.
LEMMA SetUnusedFacts ==
  ASSUME NEW C, IsMap(C), NEW p \in Addresses, NEW s \in Sizes,
         NEW e \in DOMAIN C, e = p + s
  PROVE  SpecUnused(C, p, s, e, SetUnused(C, p, s))
<1> DEFINE E == Put(C, p, Unused(s))
           v == [C[e] EXCEPT !.foot = s]
<1>0. Space \in Nat \ {0} /\ p \in Int /\ s \in Int /\ e # p
  BY ConstantsOK DEF Addresses, Sizes
<1>a. Unused(s) \in Header
  BY HeaderFacts
<1>b. IsMap(E)
  BY <1>a, PutMap
<1>1. /\ IsMap(E) /\ DOMAIN E = DOMAIN C \union {p} /\ E[p] = Unused(s)
      /\ \A x \in DOMAIN C : x # p => E[x] = C[x]
  BY <1>b DEF Put
<1>2. v \in Header /\ SameChunk(C[e], v) /\ (v.pinuse <=> C[e].pinuse) /\ v.foot = s
  <2>1. C[e] \in Header
    BY DEF IsMap
  <2> QED BY <1>0, <2>1 DEF Header, SameChunk, Sizes
<1>3. SetUnused(C, p, s) = [E EXCEPT ![e] = v]
  BY <1>0, <1>1 DEF SetUnused
<1> HIDE DEF E, v
<1>4. e \in DOMAIN E
  BY <1>1
<1>5. PICK D : D = [E EXCEPT ![e] = v]
  OBVIOUS
<1>6. IsMap(D) /\ DOMAIN D = DOMAIN E /\ D[e] = v /\ \A x \in DOMAIN E : x # e => D[x] = E[x]
  BY <1>1, <1>2, <1>4, <1>5, ExceptFacts
<1> QED BY <1>0, <1>1, <1>2, <1>3, <1>5, <1>6 DEF SpecUnused

\* set_free_with_pinuse also clears PINUSE of the chunk behind.
LEMMA SetFreeFacts ==
  ASSUME NEW C, IsMap(C), NEW p \in Addresses, NEW s \in Sizes,
         NEW e \in DOMAIN C, e = p + s
  PROVE  SpecFree(C, p, s, e, SetFree(C, p, s))
<1>0. Space \in Nat \ {0} /\ p \in Int /\ s \in Int /\ e # p
  BY ConstantsOK DEF Addresses, Sizes
<1>e. PICK E : E = SetUnused(C, p, s)
  OBVIOUS
<1> DEFINE v == [E[e] EXCEPT !.pinuse = FALSE]
<1>s. SpecUnused(C, p, s, e, E)
  BY <1>e, SetUnusedFacts
<1>1. /\ IsMap(E) /\ DOMAIN E = DOMAIN C \union {p} /\ E[p] = Unused(s)
      /\ SameChunk(C[e], E[e]) /\ E[e].foot = s
      /\ \A x \in DOMAIN C : x # p /\ x # e => E[x] = C[x]
  BY <1>s DEF SpecUnused
<1>2. v \in Header /\ SameChunk(C[e], v) /\ ~v.pinuse /\ v.foot = s
  <2>1. E[e] \in Header
    BY <1>1 DEF IsMap
  <2> QED BY <1>0, <1>1, <2>1 DEF Header, SameChunk, Sizes
<1>3. SetFree(C, p, s) = [E EXCEPT ![e] = v]
  BY <1>e DEF SetFree
<1> HIDE DEF v
<1>4. e \in DOMAIN E
  BY <1>1
<1>5. PICK D : D = [E EXCEPT ![e] = v]
  OBVIOUS
<1>6. IsMap(D) /\ DOMAIN D = DOMAIN E /\ D[e] = v /\ \A x \in DOMAIN E : x # e => D[x] = E[x]
  BY <1>1, <1>2, <1>4, <1>5, ExceptFacts
<1> QED BY <1>0, <1>1, <1>2, <1>3, <1>5, <1>6 DEF SpecFree

\* A chunk that is filed nowhere is put in a bin.
LEMMA BinFacts ==
  ASSUME NEW h, DOMAIN h = Fields, NEW C, NEW S, FiledIn(C, S, h), NEW p, p \notin S, p # None,
         NEW s, s = C[p].size, NEW T, T = S \union {p}, NEW g, g = Bin(h, p, s)
  PROVE  SameMemory(h, g) /\ g.dv = h.dv /\ FiledIn(C, T, g)
<1>1. /\ \A x \in S : x = h.dv \/ <<x, C[x].size>> \in h.bins
      /\ \A y \in h.bins : y[1] \in S /\ y[1] # h.dv /\ y = <<y[1], C[y[1]].size>>
      /\ h.dv = None => h.dvsize = 0
      /\ h.dv # None => h.dv \in S /\ h.dvsize = C[h.dv].size
  BY DEF FiledIn
<1>2. SameMemory(h, g) /\ g.dv = h.dv /\ g.dvsize = h.dvsize /\ g.bins = h.bins \union {<<p, s>>}
  BY DEF Bin, SameMemory, Fields
<1>3. <<p, s>>[1] = p
  OBVIOUS
<1>4. p # h.dv
  BY <1>1
<1> QED BY <1>1, <1>2, <1>3, <1>4 DEF FiledIn

\* A chunk other than the designated victim is taken from its bin.
LEMMA UnbinFacts ==
  ASSUME NEW h, DOMAIN h = Fields, NEW C, NEW S, FiledIn(C, S, h), NEW p \in S, p # h.dv,
         NEW s, s = C[p].size, NEW T, T = S \ {p}, NEW g, g = Unbin(h, p, s)
  PROVE  SameMemory(h, g) /\ g.dv = h.dv /\ FiledIn(C, T, g)
  BY DEF Unbin, FiledIn, SameMemory, Fields

\* The designated victim is given up.
LEMMA NoDvFacts ==
  ASSUME NEW h, DOMAIN h = Fields, NEW C, NEW S, FiledIn(C, S, h), None \notin S,
         NEW T, T = S \ {h.dv}, NEW g, g = NoDv(h)
  PROVE  SameMemory(h, g) /\ g.dv = None /\ FiledIn(C, T, g)
  BY DEF NoDv, FiledIn, SameMemory, Fields

\* The old designated victim goes to a bin, and p takes its place.
LEMMA ReplaceDvFacts ==
  ASSUME NEW h, DOMAIN h = Fields, NEW C, NEW S, FiledIn(C, S, h), NEW p, p \notin S, p # None,
         None \notin S, \A x \in S : C[x].size # 0,
         NEW s, s = C[p].size, NEW T, T = S \union {p}, NEW g, g = ReplaceDv(h, p, s)
  PROVE  SameMemory(h, g) /\ FiledIn(C, T, g)
  BY DEF ReplaceDv, Bin, FiledIn, SameMemory, Fields

\* The free chunk p becomes the designated victim.
LEMMA SetDvFacts ==
  ASSUME NEW h, DOMAIN h = Fields, NEW C, NEW S, FiledIn(C, S, h), h.dv = None, None \notin S,
         NEW p, p \notin S, p # None, NEW T, T = S \union {p},
         NEW g, g.bins = h.bins, g.dv = p, g.dvsize = C[p].size
  PROVE  FiledIn(C, T, g)
  BY DEF FiledIn

\* Filing depends on the sizes of the filed chunks alone.
LEMMA FiledSame ==
  ASSUME NEW C, NEW D, NEW S, NEW h, NEW g, FiledIn(C, S, h),
         g.bins = h.bins, g.dv = h.dv, g.dvsize = h.dvsize, \A x \in S : D[x].size = C[x].size
  PROVE  FiledIn(D, S, g)
  BY DEF FiledIn

(***************************************************************************)
(* One or two neighbouring chunks as the place of a change.                *)
(***************************************************************************)

\* No chunk starts inside another one.
LEMMA GapFacts ==
  ASSUME NEW h, NEW B, Good(h, B), NEW p \in Regular(h.chunk), NEW g \in Segments(h),
         Holds(g, p), End(h.chunk, p) <= Limit(g), NEW x \in DOMAIN h.chunk, p < x
  PROVE  End(h.chunk, p) <= x
<1> DEFINE C == h.chunk
<1>0. /\ \A y \in DOMAIN C : y \in Int /\ C[y].size \in Nat \ {0}
      /\ p \in DOMAIN C /\ End(C, p) \in Int /\ End(C, x) \in Int
  BY ConstantsOK DEF Good, Headers, IsMap, Header, Regular, End
<1>1. CASE x \in Regular(C)
  BY <1>1 DEF Good, Geometry
<1>2. CASE x \notin Regular(C)
  <2>1. End(C, x) + FootPad <= g.base \/ Limit(g) <= x
    BY <1>2 DEF Good, Geometry
  <2>2. g.base \in Int /\ Limit(g) \in Int
    BY DEF Good, Geometry, Limit
  <2> QED BY <1>0, <2>1, <2>2 DEF Holds, End, FootPad
<1> QED BY <1>1, <1>2

\* A chunk that does not end its segment is a span.
LEMMA SpanOne ==
  ASSUME NEW h, NEW B, Good(h, B), NEW p \in Regular(h.chunk),
         p \notin h.sys, p # h.top + h.topsize
  PROVE  Span(h, p, End(h.chunk, p), {p})
<1> DEFINE C == h.chunk
<1>1. /\ p \in Int /\ p < End(C, p) /\ End(C, p) \in Int /\ End(C, p) \in Regular(C)
  BY InnerFacts
<1>2. PICK g \in Segments(h) : Holds(g, p) /\ Holds(g, End(C, p))
  BY InnerFacts
<1>3. End(C, p) <= Limit(g)
  BY <1>1, <1>2 DEF Good, Geometry, Holds, Limit
<1>4. \A x \in DOMAIN C : p < x => End(C, p) <= x
  BY <1>2, <1>3, GapFacts
<1>5. \A x \in DOMAIN C : x \in Int
  BY ConstantsOK DEF Good, Headers, IsMap
<1>6. p \in DOMAIN C
  BY DEF Regular
<1>7. {p} = {x \in DOMAIN C : p <= x /\ x < End(C, p)}
  BY <1>1, <1>4, <1>5, <1>6
<1> QED BY <1>1, <1>2, <1>7 DEF Span

\* Two neighbouring spans are one.
LEMMA SpanTwo ==
  ASSUME NEW h, NEW B, Good(h, B), NEW a, NEW c, NEW b, NEW S, NEW T,
         Span(h, a, c, S), Span(h, c, b, T)
  PROVE  Span(h, a, b, S \union T)
<1> DEFINE C == h.chunk
<1>1. /\ \A x \in DOMAIN C : x \in Int
      /\ a \in DOMAIN C /\ b \in DOMAIN C /\ c \in DOMAIN C
  BY ConstantsOK DEF Good, Headers, IsMap, Span, Regular
<1>2. PICK f \in Segments(h) : Holds(f, a) /\ Holds(f, c)
  BY DEF Span
<1>3. PICK g \in Segments(h) : Holds(g, c) /\ Holds(g, b)
  BY DEF Span
<1>4. f = g
  BY <1>1, <1>2, <1>3 DEF Good, Geometry, Holds, Limit
<1> QED BY <1>1, <1>2, <1>3, <1>4 DEF Span

\* A free chunk and the top say that the chunk before is in use.
LEMMA PinuseFacts ==
  ASSUME NEW h, NEW B, Good(h, B), NEW p \in Regular(h.chunk), ~h.chunk[p].cinuse,
         p # h.top + h.topsize
  PROVE  h.chunk[p].pinuse
<1> DEFINE C == h.chunk
           q == p - C[p].foot
<1> SUFFICES ASSUME ~C[p].pinuse PROVE FALSE
  OBVIOUS
<1>1. q \in Vacant(h) /\ C[q].size = C[p].foot
  BY DEF Good, Tags
<1>2. q \in Regular(C)
  BY <1>1, VacantFacts
<1>3. p \in Int /\ q \in Int /\ C[p].foot \in Int
  BY <1>1, <1>2, ConstantsOK DEF Good, Headers, IsMap, Header, Regular
<1>4. End(C, q) = p
  BY <1>1, <1>3 DEF End
<1> QED BY <1>1, <1>4 DEF Good, Found

\* A span that is swapped for one or two chunks is a local change.
LEMMA LocalSpan ==
  ASSUME NEW h, NEW B, Good(h, B), NEW a, NEW b, NEW S, Span(h, a, b, S),
         NEW m \in Int, a <= m, m < b,
         NEW h2, DOMAIN h2 = Fields, Counters(h2), SameSegments(h, h2),
         Swapped(h.chunk, h2.chunk, S, a, m, b),
         \/ h2.top = h.top /\ h2.topsize = h.topsize /\ h.top \notin S
         \/ /\ h.top \in S /\ b = h.top + h.topsize
            /\ h2.top = m /\ h2.topsize = b - m /\ ~h2.chunk[m].cinuse
  PROVE  Local(h, h2, a, m, b) /\ Outside(h, a, b) = Vacant(h) \ S
<1> DEFINE C == h.chunk
           D == h2.chunk
<1>1. /\ \A x \in DOMAIN C : x \in Int /\ C[x].size \in Int
      /\ a \in DOMAIN C /\ b \in DOMAIN C /\ h.top \in DOMAIN C
      /\ a \in Regular(C) /\ b \in Regular(C)
      /\ S = {x \in DOMAIN C : a <= x /\ x < b}
  BY ConstantsOK DEF Good, Headers, IsMap, Header, Span, Regular, TopLast
<1>2. PICK g \in Segments(h) : Holds(g, a) /\ Holds(g, b)
  BY DEF Span
<1>3. Within(C, Segments(h), a, m, b)
  BY <1>1, <1>2 DEF Within
<1>4. DOMAIN C \ S = {x \in DOMAIN C : x < a \/ b <= x}
  BY <1>1
<1>5. Rewritten(C, D, a, m, b)
  BY <1>1, <1>4 DEF Swapped, Rewritten, SameChunk
<1>6. Headers(D)
  <2>1. \A x \in DOMAIN C \ Regular(C) : x < a \/ b < x
    <3> SUFFICES ASSUME NEW x \in DOMAIN C \ Regular(C), a <= x, x <= b PROVE FALSE
      BY <1>1
    <3>1. End(C, x) + FootPad <= g.base \/ Limit(g) <= x
      BY DEF Good, Geometry
    <3>2. g.base \in Int /\ Limit(g) \in Int /\ C[x].size \in Nat
      BY ConstantsOK DEF Good, Geometry, Limit, Headers, IsMap, Header
    <3>3. Limit(g) = g.base + g.size
      BY DEF Limit
    <3> QED BY <1>1, <1>2, <3>1, <3>2, <3>3 DEF Holds, End, FootPad
  <2>2. ASSUME NEW x \in DOMAIN D \ Regular(D) PROVE D[x].cinuse /\ ~D[x].pinuse
    <3>1. x \in DOMAIN C \ S /\ x # b
      BY <1>1 DEF Swapped, Regular
    <3>2. D[x] = C[x]
      BY <3>1 DEF Swapped
    <3>3. x \in DOMAIN C \ Regular(C)
      BY <3>1, <3>2 DEF Regular
    <3> QED BY <3>2, <3>3 DEF Good, Headers
  <2> QED BY <2>2 DEF Headers, Swapped
<1>7. \/ h2.top = h.top /\ h2.topsize = h.topsize /\ (h.top < a \/ b <= h.top)
      \/ /\ a <= h.top /\ h.top < b /\ b = h.top + h.topsize
         /\ h2.top = m /\ h2.topsize = b - m /\ ~h2.chunk[m].cinuse
  BY <1>1
<1>8. Outside(h, a, b) = Vacant(h) \ S
  BY <1>1 DEF Outside, Vacant, Regular
<1> QED BY <1>3, <1>5, <1>6, <1>7, <1>8 DEF Local, SameSegments

\* The chunks outside the span keep their size.
LEMMA LocalFrame ==
  ASSUME NEW h, NEW B, Good(h, B), NEW a, NEW b, NEW S, Span(h, a, b, S), NEW m, NEW h2,
         Swapped(h.chunk, h2.chunk, S, a, m, b), NEW T, T \subseteq DOMAIN h.chunk \ S
  PROVE  Frame(h, h2, T)
<1>1. h.chunk[b].foot # Direct
  BY DEF Span, Regular
<1> QED BY <1>1 DEF Swapped, SameChunk, Frame

\* What is known of any chunk of a good heap.
LEMMA BlockFacts ==
  ASSUME NEW h, NEW B, Good(h, B), NEW p \in DOMAIN h.chunk
  PROVE  /\ p \in Addresses /\ h.chunk[p].size \in Sizes /\ p \in Int /\ h.chunk[p].size \in Nat \ {0}
         /\ h.chunk[p].foot \in Int /\ IsMap(h.chunk)
         /\ h.chunk[p].cinuse <=> p \in B \union h.sys
         /\ B \subseteq DOMAIN h.chunk /\ DOMAIN h = Fields /\ Counters(h)
         /\ None \notin DOMAIN h.chunk
  BY ConstantsOK DEF Good, Headers, IsMap, Header, Addresses, Sizes, Kept

\* A good heap stays good when a span becomes one or two chunks whose tags and
\* filing are right, and the blocks outside it keep their size.
LEMMA SpanChange ==
  ASSUME NEW h, NEW B, Good(h, B), NEW a, NEW b, NEW S, Span(h, a, b, S), S \intersect h.sys = {},
         NEW m, NEW h2, Change(h, h2, S, a, m, b), NEW B2, Owner(h2, B, S, a, m, B2)
  PROVE  Good(h2, B2) /\ Frame(h, h2, B \ S)
<1> DEFINE C == h.chunk
<1>1. Local(h, h2, a, m, b) /\ Outside(h, a, b) = Vacant(h) \ S
  BY LocalSpan DEF TopMoved, Change
<1>2. Refiled(h, h2, a, m, b)
  BY <1>1 DEF Refiled, Change
<1>0. /\ B2 = (B \ S) \union {x \in {a, m} : h2.chunk[x].cinuse}
      /\ m \in Int /\ a <= m /\ m < b /\ Tagged(h, h2, a, m, b)
      /\ Swapped(h.chunk, h2.chunk, S, a, m, b)
  BY DEF Owner, Change
<1>3. /\ \A x \in DOMAIN C : x \in Int
      /\ B \subseteq DOMAIN C /\ h.sys \subseteq DOMAIN C
      /\ a \in Int /\ b \in Int
  BY BlockFacts DEF Good, Kept, Regular, Span
<1>4. \A x \in DOMAIN C : x \in S <=> a <= x /\ x < b
  BY DEF Span
<1>5. \A x \in {a, m} : x \in DOMAIN C => x \in S
  BY <1>0, <1>3, <1>4
<1>6. Reowned(h, h2, a, m, b, B, B2)
  <2>1. \A x \in h.sys : x < a \/ b <= x
    BY <1>0, <1>3, <1>4
  <2>2. \A x \in B2 : x \in {a, m} \/ (x \in B /\ (x < a \/ b <= x))
    BY <1>0, <1>3, <1>4
  <2>3. \A x \in B : (a <= x /\ x < b) \/ x \in B2
    BY <1>0, <1>3, <1>4
  <2>4. \A x \in {a, m} : x \in B2 <=> h2.chunk[x].cinuse
    BY <1>0, <1>3, <1>5
  <2> QED BY <2>1, <2>2, <2>3, <2>4 DEF Reowned
<1>7. Good(h2, B2)
  BY <1>0, <1>1, <1>2, <1>6, LocalChange
<1>8. B \ S \subseteq DOMAIN C \ S
  BY <1>3
<1>9. Frame(h, h2, B \ S)
  BY <1>0, <1>8, LocalFrame
<1> QED BY <1>7, <1>9

(***************************************************************************)
(* Allocation from a free chunk and from the top.                          *)
(***************************************************************************)

\* A free chunk of a good heap.
LEMMA VacantSpec ==
  ASSUME NEW h, NEW B, Good(h, B), NEW p \in Vacant(h), NEW b, b = End(h.chunk, p)
  PROVE  SpecVacant(h, B, p, b)
<1> DEFINE C == h.chunk
           s == C[p].size
<1>1. /\ p \in Vacant(h) /\ p \in Regular(C) /\ p \notin h.sys /\ p # h.top + h.topsize /\ p # h.top
      /\ p \in Int /\ s \in Nat \ {0} /\ p < b /\ b \in Int /\ b \in Regular(C) /\ C[b].cinuse
  BY VacantFacts
<1>2. p \in DOMAIN C /\ b \in DOMAIN C /\ C[b].foot # Direct /\ ~C[p].cinuse
  BY <1>1 DEF Regular, Vacant
<1>3. /\ p \in Addresses /\ s \in Sizes /\ IsMap(C) /\ p \notin B /\ b \in Addresses /\ p # None
      /\ DOMAIN h = Fields /\ Counters(h)
  BY <1>1, <1>2, BlockFacts
<1>4. b = p + s /\ p # b
  BY <1>1 DEF End
<1>5. Span(h, p, b, {p})
  BY <1>1, SpanOne
<1>6. C[p].pinuse
  BY <1>1, <1>2, PinuseFacts
<1>7. ~C[b].pinuse /\ C[b].foot = s /\ MinChunk <= s
  BY <1>1 DEF Good, Tags, Found
<1> QED BY <1>1, <1>2, <1>3, <1>4, <1>5, <1>6, <1>7 DEF SpecVacant

\* A free chunk that has been taken out of its bin.
LEMMA TakenFacts ==
  ASSUME NEW h, NEW B, Good(h, B), NEW p, NEW h1, Taken(h, p, h1), NEW b, b = End(h.chunk, p)
  PROVE  SpecTaken(h, B, p, h1, b)
<1>1. SpecVacant(h, B, p, b)
  BY VacantSpec DEF Taken
<1>2. /\ h1.chunk = h.chunk /\ DOMAIN h1 = Fields /\ SameSegments(h, h1) /\ Counters(h1)
      /\ h1.top = h.top /\ h1.topsize = h.topsize
  BY DEF Taken, SameMemory, SameSegments, Counters, Good
<1> QED BY <1>1, <1>2 DEF SpecTaken

\* The whole of a taken chunk is handed out.
LEMMA UseWhole ==
  ASSUME NEW h, NEW B, Good(h, B), NEW p, NEW h1, Taken(h, p, h1),
         NEW g, g = [h1 EXCEPT !.chunk = SetUsedAll(@, p, h.chunk[p].size)]
  PROVE  Serves(h, B, g, p, h.chunk[p].size)
<1> DEFINE C == h.chunk
           s == C[p].size
<1>1. PICK b : b = End(C, p)
  OBVIOUS
<1>a. SpecTaken(h, B, p, h1, b)
  BY <1>1, TakenFacts
<1>2. /\ p \in Vacant(h) /\ p \in Regular(C) /\ p \notin h.sys /\ p \notin B /\ h.top # p
      /\ p \in Int /\ p \in Addresses /\ s \in Nat \ {0} /\ s \in Sizes
      /\ p < b /\ b \in Int /\ b \in DOMAIN C
      /\ b = p + s /\ C[b].cinuse
      /\ IsMap(C) /\ p \in DOMAIN C /\ p # b
      /\ C[p].pinuse /\ MinChunk <= s
      /\ Span(h, p, b, {p}) /\ {p} \intersect h.sys = {}
      /\ h1.chunk = C /\ DOMAIN h1 = Fields /\ SameSegments(h, h1) /\ Counters(h1)
      /\ h1.top = h.top /\ h1.topsize = h.topsize
  BY <1>a DEF SpecTaken, SpecVacant
<1>3. PICK D : D = SetUsedAll(C, p, s)
  OBVIOUS
<1>4. SpecUsedAll(C, p, s, b, D)
  BY <1>2, <1>3, SetUsedAllFacts
<1>5. /\ IsMap(D) /\ DOMAIN D = DOMAIN C /\ D[p] = Used(s)
      /\ SameChunk(C[b], D[b]) /\ D[b].pinuse /\ D[b].foot = 0
      /\ \A x \in DOMAIN C : x # p /\ x # b => D[x] = C[x]
  BY <1>2, <1>4 DEF SpecUsedAll
<1>6. D[p].size = s /\ D[p].cinuse /\ D[p].pinuse /\ D[p].foot = 0
  BY <1>2, <1>5, HeaderFacts
<1>7. Swapped(C, D, {p}, p, p, b)
  <2>1. DOMAIN D = (DOMAIN C \ {p}) \union {p, p}
    BY <1>2, <1>5
  <2>2. D[p].size = b - p /\ ~(p < p)
    BY <1>2, <1>6
  <2>3. D[b].foot # Direct /\ D[p].foot # Direct
    BY <1>5, <1>6 DEF Direct
  <2>4. \A x \in DOMAIN C \ {p} : x # b => D[x] = C[x]
    BY <1>5
  <2> QED BY <1>5, <2>1, <2>2, <2>3, <2>4, Zenon DEF Swapped
<1>8. /\ DOMAIN g = Fields /\ Counters(g) /\ SameSegments(h, g) /\ g.chunk = D
      /\ g.top = h.top /\ g.topsize = h.topsize
      /\ g.bins = h1.bins /\ g.dv = h1.dv /\ g.dvsize = h1.dvsize
  BY <1>2, <1>3 DEF Fields, Counters, SameSegments
<1>9. Tagged(h, g, p, p, b)
  BY <1>2, <1>5, <1>6, <1>8 DEF Tagged
<1>10. FiledIn(g.chunk, (Vacant(h) \ {p}) \union Between(g, p, p), g)
  <2>1. Between(g, p, p) = {}
    BY <1>6, <1>8 DEF Between
  <2>2. \A x \in Vacant(h) \ {p} : D[x].size = C[x].size
    <3>1. Vacant(h) \subseteq DOMAIN C
      BY DEF Vacant, Regular
    <3> QED BY <1>5, <3>1 DEF SameChunk
  <2>3. FiledIn(D, Vacant(h) \ {p}, g)
    <3>1. FiledIn(C, Vacant(h) \ {p}, h1)
      BY DEF Taken
    <3>2. PICK S : S = Vacant(h) \ {p}
      OBVIOUS
    <3>3. FiledIn(D, S, g)
      <4>1. FiledIn(C, S, h1) /\ \A x \in S : D[x].size = C[x].size
        BY <2>2, <3>1, <3>2
      <4>2. g.bins = h1.bins /\ g.dv = h1.dv /\ g.dvsize = h1.dvsize
        BY <1>8
      <4> QED BY <4>1, <4>2, FiledSame, ZenonT(40)
    <3> QED BY <3>2, <3>3
  <2> QED BY <1>8, <2>1, <2>3
<1>11. Owner(g, B, {p}, p, p, B \union {p})
  BY <1>2, <1>6, <1>8 DEF Owner
<1>12. TopMoved(h, g, {p}, p, b)
  BY <1>2, <1>8 DEF TopMoved
<1>13. Swapped(C, g.chunk, {p}, p, p, b)
  BY <1>7, <1>8
<1>14. Good(g, B \union {p}) /\ Frame(h, g, B \ {p})
  <2>1. Change(h, g, {p}, p, p, b)
    BY <1>2, <1>8, <1>9, <1>10, <1>12, <1>13 DEF Change
  <2> QED BY <1>2, <1>11, <2>1, SpanChange
<1>15. B \ {p} = B
  BY <1>2
<1>16. p \in Regular(g.chunk) /\ g.chunk[p].size = s
  BY <1>2, <1>5, <1>6, <1>8 DEF Regular, Direct
<1> QED BY <1>2, <1>14, <1>15, <1>16 DEF Serves

\* The headers after a chunk was cut in a used and an unused part.
LEMMA HalvedFacts ==
  ASSUME NEW C, IsMap(C), NEW p \in Addresses, p \in DOMAIN C, C[p].size \in Sizes,
         NEW e \in DOMAIN C, e = End(C, p), NEW nb \in Sizes, nb < C[p].size,
         NEW q \in Addresses, q = p + nb, q \notin DOMAIN C
  PROVE  SpecHalved(C, p, q, e, Halved(C, p, nb))
<1>1. PICK E : E = SetUsed(C, p, nb)
  OBVIOUS
<1>2. SpecUsed(C, p, nb, E)
  BY <1>1, SetUsedFacts
<1>3. PICK t : t = C[p].size - nb
  OBVIOUS
<1>4. t \in Sizes /\ e = q + t /\ p # e /\ p # q /\ t = e - q /\ nb = q - p
  BY <1>3, ConstantsOK DEF Sizes, Addresses, End
<1>5. /\ IsMap(E) /\ DOMAIN E = DOMAIN C /\ E[p] = Used(nb)
      /\ \A x \in DOMAIN C : x # p => E[x] = C[x]
  BY <1>2 DEF SpecUsed
<1>6. PICK D : D = SetUnused(E, q, t)
  OBVIOUS
<1>7. SpecUnused(E, q, t, e, D)
  BY <1>4, <1>5, <1>6, SetUnusedFacts
<1>8. /\ IsMap(D) /\ DOMAIN D = DOMAIN E \union {q} /\ D[q] = Unused(t)
      /\ SameChunk(E[e], D[e]) /\ (D[e].pinuse <=> E[e].pinuse) /\ D[e].foot = t
      /\ \A x \in DOMAIN E : x # q /\ x # e => D[x] = E[x]
  BY <1>7 DEF SpecUnused
<1>9. E[e] = C[e] /\ D[p] = Used(nb)
  BY <1>4, <1>5, <1>8
<1>10. /\ D[p].size = nb /\ D[p].cinuse /\ D[p].pinuse /\ D[p].foot = 0
       /\ D[q].size = t /\ ~D[q].cinuse /\ D[q].pinuse /\ D[q].foot = 0
  BY <1>8, <1>9 DEF Used, Unused
<1>11. \A x \in DOMAIN C : x # p /\ x # e => D[x] = C[x]
  BY <1>5, <1>8
<1>12. D = Halved(C, p, nb)
  BY <1>1, <1>3, <1>6 DEF Halved
<1> HIDE DEF Halved
<1> QED BY <1>4, <1>5, <1>8, <1>9, <1>10, <1>11, <1>12 DEF SpecHalved

\* The front of a taken chunk is handed out, and the rest is filed.
LEMMA UseFront ==
  ASSUME NEW h, NEW B, Good(h, B), NEW p, NEW h1, Taken(h, p, h1),
         NEW b, b = End(h.chunk, p), NEW q \in Int, p < q, p + MinChunk <= q, q + MinChunk <= b,
         q \notin DOMAIN h.chunk,
         NEW D, SpecHalved(h.chunk, p, q, b, D),
         NEW g, SameMemory([h1 EXCEPT !.chunk = D], g), FiledIn(D, (Vacant(h) \ {p}) \union {q}, g)
  PROVE  Serves(h, B, g, p, q - p)
<1> DEFINE C == h.chunk
<1>m. MinChunk \in Nat \ {0}
  BY ConstantsOK
<1>a. SpecTaken(h, B, p, h1, b)
  BY TakenFacts
<1>2. /\ p \in Vacant(h) /\ p \in Regular(C) /\ p \notin h.sys /\ p \notin B /\ h.top # p
      /\ p \in Int /\ p < b /\ b \in Int /\ b \in DOMAIN C
      /\ C[b].cinuse /\ C[b].foot # Direct /\ ~C[b].pinuse
      /\ IsMap(C) /\ p \in DOMAIN C /\ p # b /\ C[p].pinuse
      /\ Span(h, p, b, {p}) /\ {p} \intersect h.sys = {}
      /\ h1.chunk = C /\ DOMAIN h1 = Fields /\ SameSegments(h, h1) /\ Counters(h1)
      /\ h1.top = h.top /\ h1.topsize = h.topsize
  BY <1>a DEF SpecTaken, SpecVacant
<1>3. p < q /\ q < b
  BY <1>2, <1>m
<1>4. /\ IsMap(D) /\ DOMAIN D = DOMAIN C \union {q}
      /\ D[p].size = q - p /\ D[p].cinuse /\ D[p].pinuse /\ D[p].foot = 0
      /\ D[q].size = b - q /\ ~D[q].cinuse /\ D[q].pinuse /\ D[q].foot = 0
      /\ SameChunk(C[b], D[b]) /\ (D[b].pinuse <=> C[b].pinuse) /\ D[b].foot = b - q
      /\ \A x \in DOMAIN C : x # p /\ x # b => D[x] = C[x]
  BY DEF SpecHalved
<1>5. Swapped(C, D, {p}, p, q, b)
  <2>1. b - q # Direct
    BY <1>2, <1>3 DEF Direct
  <2>2. DOMAIN D = (DOMAIN C \ {p}) \union {p, q}
    BY <1>2, <1>4
  <2> QED BY <1>4, <2>1, <2>2 DEF Swapped, Direct
<1>6. /\ DOMAIN g = Fields /\ Counters(g) /\ SameSegments(h, g) /\ g.chunk = D
      /\ g.top = h.top /\ g.topsize = h.topsize
  BY <1>2 DEF SameMemory, Fields, Counters, SameSegments
<1>7. q # h.top
  BY DEF Good, TopLast, Regular
<1>8. Tagged(h, g, p, q, b)
  <2>1. MinChunk <= q - p /\ MinChunk <= b - q
    BY <1>2, <1>m
  <2> QED BY <1>2, <1>4, <1>6, <1>7, <2>1 DEF Tagged, SameChunk
<1>9. FiledIn(g.chunk, (Vacant(h) \ {p}) \union Between(g, p, q), g)
  <2>1. Between(g, p, q) = {q}
    BY <1>4, <1>6, <1>7 DEF Between
  <2> QED BY <1>6, <2>1
<1>10. Owner(g, B, {p}, p, q, B \union {p})
  BY <1>2, <1>4, <1>6 DEF Owner
<1>11. TopMoved(h, g, {p}, q, b)
  BY <1>2, <1>6 DEF TopMoved
<1>12. Swapped(C, g.chunk, {p}, p, q, b)
  BY <1>5, <1>6
<1>13. Good(g, B \union {p}) /\ Frame(h, g, B \ {p})
  <2>1. Change(h, g, {p}, p, q, b)
    BY <1>2, <1>3, <1>6, <1>8, <1>9, <1>11, <1>12 DEF Change
  <2> QED BY <1>2, <1>10, <2>1, SpanChange
<1>14. B \ {p} = B
  BY <1>2
<1>15. p \in Regular(g.chunk) /\ g.chunk[p].size = q - p
  BY <1>2, <1>4, <1>6 DEF Regular, Direct
<1> QED BY <1>2, <1>13, <1>14, <1>15 DEF Serves

\* Take hands out a free chunk, with the rest split off when it is large enough.
LEMMA TakeFacts ==
  ASSUME NEW h, NEW B, Good(h, B), NEW p, NEW h1, NEW nb, NEW victim, NEW r,
         Takes(h, p, h1, nb, victim, r)
  PROVE  r.at = p /\ Served(h, B, r, nb)
<1>0. PICK s : s = h.chunk[p].size
  OBVIOUS
<1>z. Taken(h, p, h1) /\ nb \in Nat /\ MinChunk <= nb /\ nb <= s /\ r = Take(h1, p, s, nb, victim)
  BY <1>0 DEF Takes
<1> DEFINE C == h.chunk
<1>1. PICK b : b = End(C, p)
  OBVIOUS
<1>a. SpecTaken(h, B, p, h1, b)
  BY <1>1, <1>z, TakenFacts
<1>2. /\ p \in Vacant(h) /\ p \in Regular(C)
      /\ p \in Int /\ p \in Addresses /\ s \in Nat \ {0} /\ s \in Sizes
      /\ p < b /\ b \in Int /\ b \in Addresses /\ b \in DOMAIN C
      /\ b = p + s /\ IsMap(C) /\ p \in DOMAIN C
      /\ Span(h, p, b, {p}) /\ h1.chunk = C /\ DOMAIN h1 = Fields
  BY <1>0, <1>a DEF SpecTaken, SpecVacant
<1>m. MinChunk \in Nat \ {0} /\ Space \in Nat /\ None \notin Int
  BY ConstantsOK
<1>3. CASE NoRest(s, nb)
  <2>1. PICK g : g = [h1 EXCEPT !.chunk = SetUsedAll(@, p, s)]
    OBVIOUS
  <2>2. r = [heap |-> g, at |-> p]
    BY <1>3, <1>z, <2>1 DEF Take, Result
  <2>3. Serves(h, B, g, p, s)
    BY <1>0, <1>z, <2>1, UseWhole
  <2> QED BY <1>z, <2>2, <2>3 DEF Served, Serves
<1>4. CASE ~NoRest(s, nb)
  <2>1. PICK D : D = Halved(C, p, nb)
    OBVIOUS
  <2>2. PICK q : q = p + nb
    OBVIOUS
  <2>3. PICK t : t = s - nb
    OBVIOUS
  <2>4. /\ q \in Int /\ q \in Addresses /\ p < q /\ q < b /\ nb \in Sizes /\ nb < s /\ q # None
        /\ p + MinChunk <= q /\ q + MinChunk <= b /\ t = b - q /\ nb = q - p
    BY <1>2, <1>4, <1>m, <1>z, <2>2, <2>3 DEF NoRest, Addresses, Sizes
  <2>5. q \notin DOMAIN C
    <3>1. q \in DOMAIN C => q \in {p}
      BY <1>2, <2>4 DEF Span
    <3> QED BY <1>2, <2>4, <3>1
  <2>6. SpecHalved(C, p, q, b, D)
    BY <1>0, <1>1, <1>2, <2>1, <2>2, <2>4, <2>5, HalvedFacts
  <2>7. PICK k : k = [h1 EXCEPT !.chunk = D]
    OBVIOUS
  <2>8. PICK g : g = IF victim THEN ReplaceDv(k, q, t) ELSE Bin(k, q, t)
    OBVIOUS
  <2>9. r = [heap |-> g, at |-> p]
    BY <1>0, <1>2, <1>4, <1>z, <2>1, <2>2, <2>3, <2>7, <2>8 DEF Take, Result, Halved
  <2>10. DOMAIN k = Fields /\ k.chunk = D /\ k.bins = h1.bins /\ k.dv = h1.dv /\ k.dvsize = h1.dvsize
    BY <1>2, <2>7 DEF Fields
  <2>11. D[q].size = t /\ \A x \in Vacant(h) \ {p} : D[x].size = C[x].size
    <3>1. Vacant(h) \subseteq DOMAIN C
      BY DEF Vacant, Regular
    <3> QED BY <2>4, <2>6, <3>1 DEF SpecHalved, SameChunk
  <2>12. FiledIn(D, Vacant(h) \ {p}, k)
    BY <1>z, <2>10, <2>11, FiledSame DEF Taken
  <2>13. /\ q \notin Vacant(h) \ {p} /\ None \notin Vacant(h) \ {p}
         /\ \A x \in Vacant(h) \ {p} : D[x].size # 0
    <3>1. Vacant(h) \subseteq DOMAIN C
      BY DEF Vacant, Regular
    <3>2. \A x \in Vacant(h) : C[x].size # 0 /\ x # None
      BY <3>1, BlockFacts
    <3> QED BY <2>5, <2>11, <3>1, <3>2
  <2> DEFINE S == Vacant(h) \ {p}
             T == S \union {q}
  <2>14. SameMemory(k, g) /\ FiledIn(D, T, g)
    <3> HIDE DEF S
    <3> HIDE DEF T
    <3>0. /\ q \notin S /\ None \notin S /\ \A x \in S : D[x].size # 0
          /\ FiledIn(D, S, k)
      BY <2>12, <2>13 DEF S
    <3>1. CASE victim
      <4>1. g = ReplaceDv(k, q, t) /\ t = D[q].size /\ T = S \union {q}
        BY <2>8, <2>11, <3>1 DEF T
      <4> QED BY <2>4, <2>10, <3>0, <4>1, ReplaceDvFacts
    <3>2. CASE ~victim
      <4>1. g = Bin(k, q, t) /\ t = D[q].size /\ T = S \union {q}
        BY <2>8, <2>11, <3>2 DEF T
      <4> QED BY <2>4, <2>10, <3>0, <4>1, BinFacts
    <3> QED BY <3>1, <3>2
  <2>15. SameMemory([h1 EXCEPT !.chunk = D], g)
    BY <2>7, <2>14
  <2>16. Serves(h, B, g, p, q - p)
    BY <1>1, <1>z, <2>4, <2>5, <2>6, <2>14, <2>15, UseFront
  <2>17. nb <= q - p
    BY <2>4
  <2> QED BY <2>9, <2>16, <2>17 DEF Served, Serves
<1> QED BY <1>3, <1>4

\* The designated victim serves a request.
LEMMA FromDvFacts ==
  ASSUME NEW h, NEW B, Good(h, B), NEW nb \in Nat, MinChunk <= nb, nb <= h.dvsize
  PROVE  FromDv(h, nb).at # None /\ Served(h, B, FromDv(h, nb), nb)
<1>m. MinChunk \in Nat \ {0}
  BY ConstantsOK
<1>1. FiledIn(h.chunk, Vacant(h), h) /\ DOMAIN h = Fields
  BY DEF Good, Found
<1>2. h.dv \in Vacant(h) /\ h.dvsize = h.chunk[h.dv].size
  BY <1>1, <1>m DEF FiledIn
<1>3. None \notin Vacant(h)
  BY BlockFacts DEF Vacant, Regular
<1>4. Taken(h, h.dv, NoDv(h))
  <2>1. PICK g : g = NoDv(h)
    OBVIOUS
  <2>2. SameMemory(h, g) /\ FiledIn(h.chunk, Vacant(h) \ {h.dv}, g)
    BY <1>1, <1>3, <2>1, NoDvFacts
  <2> QED BY <1>2, <2>1, <2>2 DEF Taken
<1>5. PICK r : r = Take(NoDv(h), h.dv, h.dvsize, nb, TRUE)
  OBVIOUS
<1>6. Takes(h, h.dv, NoDv(h), nb, TRUE, r)
  BY <1>2, <1>4, <1>5 DEF Takes
<1>7. r.at = h.dv /\ Served(h, B, r, nb)
  BY <1>6, TakeFacts
<1> QED BY <1>2, <1>3, <1>5, <1>7 DEF FromDv

\* The top of a good heap.
LEMMA TopFacts ==
  ASSUME NEW h, NEW B, Good(h, B), NEW foot, foot = h.top + h.topsize
  PROVE  SpecTop(h, B, foot)
<1> DEFINE C == h.chunk
           p == h.top
<1>1. /\ p \in Regular(C) /\ foot \in Regular(C) /\ ~C[p].cinuse /\ ~C[foot].cinuse
      /\ C[p].size = h.topsize
  BY DEF Good, TopLast
<1>2. p \in DOMAIN C /\ foot \in DOMAIN C /\ C[p].foot # Direct /\ C[foot].foot # Direct
  BY <1>1 DEF Regular
<1>3. /\ p \in Int /\ p \in Addresses /\ h.topsize \in Nat \ {0} /\ h.topsize \in Sizes
      /\ IsMap(C) /\ DOMAIN h = Fields /\ Counters(h) /\ B \subseteq DOMAIN C
      /\ p # None /\ p \notin B /\ p \notin h.sys
  BY <1>1, <1>2, BlockFacts
<1>4. foot \in Int /\ foot \in Addresses /\ foot \notin B /\ foot \notin h.sys
  BY <1>1, <1>2, BlockFacts
<1>5. foot = End(C, p) /\ p # foot /\ p < foot
  BY <1>1, <1>3 DEF End
<1>6. C[p].pinuse
  BY <1>1, <1>5, PinuseFacts
<1>7. Span(h, p, foot, {p})
  BY <1>1, <1>3, <1>5, SpanOne
<1>8. p \notin Vacant(h) /\ foot \notin Vacant(h)
  BY DEF Vacant
<1>9. h.sys \subseteq DOMAIN C
  BY DEF Good, Kept, Regular
<1>10. {p} \intersect h.sys = {}
  BY <1>3
<1> QED BY <1>1, <1>2, <1>3, <1>4, <1>5, <1>6, <1>7, <1>8, <1>9, <1>10 DEF SpecTop, Counters

\* The top serves a request and keeps a part.
LEMMA FromTopFacts ==
  ASSUME NEW h, NEW B, Good(h, B), NEW nb, nb \in Nat, MinChunk <= nb, nb < h.topsize,
         NEW r, r = FromTop(h, nb)
  PROVE  r.at # None /\ Served(h, B, r, nb)
<1> DEFINE C == h.chunk
           p == h.top
<1>m. MinChunk \in Nat \ {0} /\ Space \in Nat
  BY ConstantsOK
<1>1. PICK foot : foot = h.top + h.topsize
  OBVIOUS
<1>a. SpecTop(h, B, foot)
  BY <1>1, TopFacts
<1>2. /\ C[p].size = h.topsize
      /\ p \in Int /\ p \in Addresses /\ h.topsize \in Nat \ {0} /\ h.topsize \in Sizes
      /\ p < foot /\ foot \in Int /\ foot \in Addresses
      /\ p \in DOMAIN C /\ foot \in DOMAIN C
      /\ C[foot].foot # Direct /\ C[p].pinuse /\ p # None
      /\ p \notin B /\ p \notin Vacant(h)
      /\ Span(h, p, foot, {p}) /\ {p} \intersect h.sys = {}
      /\ IsMap(C) /\ DOMAIN h = Fields /\ Counters(h)
  BY <1>a DEF SpecTop
<1>q. PICK q : q = p + nb
  OBVIOUS
<1>t. PICK t : t = h.topsize - nb
  OBVIOUS
<1>3. /\ q \in Int /\ q \in Addresses /\ p < q /\ q < foot /\ t \in Sizes /\ t = foot - q /\ nb = q - p
      /\ nb \in Sizes
  BY <1>1, <1>2, <1>m, <1>q, <1>t DEF Addresses, Sizes
<1>4. q \notin DOMAIN C
  <2>1. q \in DOMAIN C => q \in {p}
    BY <1>2, <1>3 DEF Span
  <2> QED BY <1>2, <1>3, <2>1
<1>5. PICK E : E = SetUsed(C, p, nb)
  OBVIOUS
<1>6. SpecUsed(C, p, nb, E)
  BY <1>2, <1>3, <1>5, SetUsedFacts
<1>7. /\ IsMap(E) /\ DOMAIN E = DOMAIN C /\ E[p] = Used(nb)
      /\ \A x \in DOMAIN C : x # p => E[x] = C[x]
  BY <1>2, <1>6 DEF SpecUsed
<1>8. PICK D : D = Put(E, q, Unused(t))
  OBVIOUS
<1>9. IsMap(D)
  <2>1. Unused(t) \in Header
    BY <1>3, HeaderFacts
  <2> QED BY <1>3, <1>7, <1>8, <2>1, PutMap
<1>10. /\ DOMAIN D = DOMAIN C \union {q} /\ D[q] = Unused(t) /\ D[p] = Used(nb)
       /\ \A x \in DOMAIN C : x # p => D[x] = C[x]
  BY <1>2, <1>4, <1>7, <1>8 DEF Put
<1>11. /\ D[p].size = nb /\ D[p].cinuse /\ D[p].pinuse /\ D[p].foot = 0
       /\ D[q].size = t /\ ~D[q].cinuse /\ D[q].pinuse /\ D[q].foot = 0
  BY <1>10 DEF Used, Unused
<1>12. Swapped(C, D, {p}, p, q, foot)
  <2>1. DOMAIN D = (DOMAIN C \ {p}) \union {p, q}
    BY <1>2, <1>10
  <2>2. D[foot] = C[foot]
    BY <1>2, <1>10
  <2> QED BY <1>2, <1>3, <1>9, <1>10, <1>11, <2>1, <2>2 DEF Swapped, Direct, SameChunk
<1>13. PICK g : g = [h EXCEPT !.top = q, !.topsize = t, !.chunk = D]
  OBVIOUS
<1>14. r = [heap |-> g, at |-> p]
  BY <1>2, <1>5, <1>8, <1>13, <1>q, <1>t DEF FromTop, Result
<1>15. /\ DOMAIN g = Fields /\ Counters(g) /\ SameSegments(h, g) /\ g.chunk = D
       /\ g.top = q /\ g.topsize = t
       /\ g.bins = h.bins /\ g.dv = h.dv /\ g.dvsize = h.dvsize
  BY <1>2, <1>13 DEF Fields, Counters, SameSegments
<1>16. Tagged(h, g, p, q, foot)
  <2>1. MinChunk <= D[p].size
    BY <1>11
  <2> QED BY <1>2, <1>11, <1>15, <2>1 DEF Tagged
<1>17. FiledIn(g.chunk, (Vacant(h) \ {p}) \union Between(g, p, q), g)
  <2>1. Between(g, p, q) = {}
    BY <1>11, <1>15 DEF Between
  <2>2. PICK S : S = Vacant(h)
    OBVIOUS
  <2>3. S = (Vacant(h) \ {p}) \union Between(g, p, q)
    BY <1>2, <2>1, <2>2
  <2>4. FiledIn(C, S, h)
    BY <2>2 DEF Good, Found
  <2>5. \A x \in S : D[x].size = C[x].size
    BY <1>2, <1>10, <2>2 DEF Vacant, Regular
  <2>6. FiledIn(D, S, g)
    BY <1>15, <2>4, <2>5, FiledSame
  <2> QED BY <1>15, <2>3, <2>6
<1>18. Owner(g, B, {p}, p, q, B \union {p})
  BY <1>2, <1>11, <1>15 DEF Owner
<1>19. TopMoved(h, g, {p}, q, foot)
  BY <1>1, <1>3, <1>11, <1>15 DEF TopMoved
<1>20. Swapped(C, g.chunk, {p}, p, q, foot)
  BY <1>12, <1>15
<1>21. Good(g, B \union {p}) /\ Frame(h, g, B \ {p})
  <2>1. Change(h, g, {p}, p, q, foot)
    BY <1>2, <1>3, <1>15, <1>16, <1>17, <1>19, <1>20 DEF Change
  <2> QED BY <1>2, <1>18, <2>1, SpanChange
<1>22. B \ {p} = B
  BY <1>2
<1>23. p \in Regular(g.chunk) /\ g.chunk[p].size = nb
  BY <1>2, <1>10, <1>11, <1>15 DEF Regular, Direct
<1>24. nb <= g.chunk[p].size
  BY <1>23
<1>25. r.heap = g /\ r.at = p
  BY <1>14
<1> QED BY <1>2, <1>21, <1>22, <1>23, <1>24, <1>25 DEF Served

(***************************************************************************)
(* Release of a block in a segment.                                        *)
(***************************************************************************)

\* No two chunks end at the same place.
LEMMA EndInjective ==
  ASSUME NEW h, NEW B, Good(h, B), NEW p \in Regular(h.chunk), NEW q \in Regular(h.chunk),
         End(h.chunk, p) = End(h.chunk, q)
  PROVE  p = q
<1> DEFINE C == h.chunk
<1>1. \A x \in Regular(C) : x \in Int /\ C[x].size \in Nat \ {0} /\ x < End(C, x)
  BY ConstantsOK DEF Good, Headers, IsMap, Header, Regular, End
<1>2. \A x, y \in Regular(C) : x < y => End(C, x) <= y
  BY DEF Good, Geometry
<1>3. PICK e : e = End(C, p) /\ e = End(C, q)
  OBVIOUS
<1>4. p \in Int /\ q \in Int /\ p < e /\ q < e /\ e \in Int
  BY <1>1, <1>3 DEF End
<1>5. (p < q => e <= q) /\ (q < p => e <= p)
  BY <1>2, <1>3
<1> QED BY <1>4, <1>5

\* The chunk behind a used one says that it is used.
LEMMA NextPinuse ==
  ASSUME NEW h, NEW B, Good(h, B), NEW p \in Regular(h.chunk), h.chunk[p].cinuse,
         NEW b \in Regular(h.chunk), b = End(h.chunk, p)
  PROVE  h.chunk[b].pinuse
<1> DEFINE C == h.chunk
           q == b - C[b].foot
<1> SUFFICES ASSUME ~C[b].pinuse PROVE FALSE
  OBVIOUS
<1>1. b # h.top + h.topsize
  <2>1. SpecTop(h, B, h.top + h.topsize)
    BY TopFacts
  <2>2. h.top \in Regular(C) /\ ~C[h.top].cinuse /\ h.top + h.topsize = End(C, h.top)
    BY <2>1 DEF SpecTop
  <2> QED BY <2>2, EndInjective
<1>2. q \in Vacant(h) /\ C[q].size = C[b].foot
  BY <1>1 DEF Good, Tags
<1>3. q \in Regular(C) /\ ~C[q].cinuse
  BY <1>2, VacantFacts DEF Vacant
<1>4. b \in Int /\ C[b].foot \in Int
  BY BlockFacts DEF Regular
<1>5. End(C, q) = b
  BY <1>2, <1>3, <1>4 DEF End
<1> QED BY <1>3, <1>5, EndInjective

\* A block of the program in a good heap.
LEMMA BlockSpec ==
  ASSUME NEW h, NEW B, Good(h, B), NEW p \in B, p \in Regular(h.chunk), NEW b, b = End(h.chunk, p)
  PROVE  SpecBlock(h, B, p, b)
<1> DEFINE C == h.chunk
           s == C[p].size
<1>1. p \in DOMAIN C /\ C[p].foot # Direct
  BY DEF Regular
<1>2. p \notin h.sys /\ MinChunk <= s
  BY DEF Good, Kept
<1>3. /\ p \in Addresses /\ s \in Sizes /\ p \in Int /\ s \in Nat \ {0} /\ IsMap(C) /\ p # None
      /\ C[p].cinuse /\ DOMAIN h = Fields /\ Counters(h)
  BY <1>1, BlockFacts
<1>4. p # h.top /\ p # h.top + h.topsize
  BY <1>3 DEF Good, TopLast
<1>5. p < b /\ b \in Int /\ b \in Regular(C)
  BY <1>2, <1>4, InnerFacts
<1>6. b \in DOMAIN C /\ C[b].foot # Direct
  BY <1>5 DEF Regular
<1>7. b \in Addresses /\ p # b /\ b = p + s
  BY <1>5, <1>6, BlockFacts DEF End
<1>8. Span(h, p, b, {p})
  BY <1>2, <1>4, SpanOne
<1>9. C[b].pinuse
  BY <1>3, <1>5, NextPinuse
<1>10. p \notin Vacant(h)
  BY <1>3 DEF Vacant
<1>11. {p} \intersect h.sys = {}
  BY <1>2
<1> QED BY <1>1, <1>2, <1>3, <1>4, <1>5, <1>6, <1>7, <1>8, <1>9, <1>10, <1>11 DEF SpecBlock

\* A block that is about to be released.
LEMMA FreeingFacts ==
  ASSUME NEW h, NEW hp, NEW B, NEW p, NEW s, NEW next, Freeing(h, hp, B, p, s, next)
  PROVE  SpecFreeing(h, hp, B, p, s, next)
<1>1. /\ Good(hp, B) /\ p \in B /\ p \in Regular(hp.chunk) /\ hp.chunk[p].pinuse
      /\ next = End(hp.chunk, p) /\ s = hp.chunk[p].size /\ Pending(h, hp, p, next)
  BY DEF Freeing
<1>2. SpecBlock(hp, B, p, next)
  BY <1>1, BlockSpec
<1>3. /\ p \notin hp.sys /\ hp.top # p /\ p \notin Vacant(hp)
      /\ p \in Int /\ p \in Addresses /\ s \in Nat \ {0} /\ s \in Sizes
      /\ p < next /\ next \in Int /\ next \in Addresses /\ next \in DOMAIN hp.chunk
      /\ next \in Regular(hp.chunk)
      /\ next = p + s /\ hp.chunk[next].foot # Direct /\ hp.chunk[next].pinuse
      /\ p \in DOMAIN hp.chunk /\ p # None /\ p # next /\ MinChunk <= s
      /\ Span(hp, p, next, {p}) /\ {p} \intersect hp.sys = {} /\ Counters(hp)
  BY <1>1, <1>2 DEF SpecBlock
<1>4. /\ DOMAIN h = Fields /\ SameSegments(hp, h) /\ h.top = hp.top /\ h.topsize = hp.topsize
      /\ h.trim = hp.trim /\ h.checks = hp.checks /\ h.bins = hp.bins
      /\ IsMap(h.chunk) /\ DOMAIN h.chunk = DOMAIN hp.chunk
      /\ \A x \in DOMAIN hp.chunk : x # p => h.chunk[x] = hp.chunk[x]
      /\ \/ h.dv = hp.dv /\ h.dvsize = hp.dvsize
         \/ h.dv = p /\ hp.dv = None /\ ~hp.chunk[next].cinuse
  BY <1>1 DEF Pending
<1>5. Counters(h) /\ h.chunk[next] = hp.chunk[next]
  BY <1>3, <1>4 DEF Counters
<1> QED BY <1>1, <1>3, <1>4, <1>5 DEF SpecFreeing

\* The chunk behind p is in use.
LEMMA FreeBesideUsed ==
  ASSUME NEW h, NEW hp, NEW B, NEW p, NEW s, NEW next, Freeing(h, hp, B, p, s, next),
         hp.chunk[next].cinuse,
         NEW g, DOMAIN g = Fields, Counters(g), SameSegments(hp, g), g.chunk = SetFree(h.chunk, p, s),
         g.top = h.top, g.topsize = h.topsize,
         FiledIn(g.chunk, Vacant(hp) \union {p}, g)
  PROVE  Good(g, B \ {p}) /\ Frame(hp, g, B \ {p})
<1> DEFINE C == h.chunk
           D == g.chunk
<1>a. SpecFreeing(h, hp, B, p, s, next)
  BY FreeingFacts
<1>1. /\ p \in B /\ hp.top # p /\ p \notin Vacant(hp)
      /\ p \in Int /\ p \in Addresses /\ s \in Nat \ {0} /\ s \in Sizes
      /\ p < next /\ next \in DOMAIN C /\ next \in Int
      /\ next = p + s /\ C[next] = hp.chunk[next] /\ C[next].foot # Direct
      /\ IsMap(C) /\ p \in DOMAIN C /\ p # next /\ MinChunk <= s
      /\ hp.chunk[p].pinuse /\ DOMAIN C = DOMAIN hp.chunk
      /\ \A x \in DOMAIN C : x # p => C[x] = hp.chunk[x]
      /\ Span(hp, p, next, {p}) /\ {p} \intersect hp.sys = {}
      /\ h.top = hp.top /\ h.topsize = hp.topsize /\ Good(hp, B)
  BY <1>a DEF SpecFreeing
<1>2. SpecFree(C, p, s, next, D)
  BY <1>1, SetFreeFacts
<1>3. /\ IsMap(D) /\ DOMAIN D = DOMAIN C /\ D[p] = Unused(s)
      /\ SameChunk(C[next], D[next]) /\ ~D[next].pinuse /\ D[next].foot = s
      /\ \A x \in DOMAIN C : x # p /\ x # next => D[x] = C[x]
  BY <1>1, <1>2 DEF SpecFree
<1>4. D[p].size = s /\ ~D[p].cinuse /\ D[p].pinuse /\ D[p].foot = 0
  BY <1>3 DEF Unused
<1>5. Swapped(hp.chunk, D, {p}, p, p, next)
  <2>1. DOMAIN D = (DOMAIN hp.chunk \ {p}) \union {p, p}
    BY <1>1, <1>3
  <2>2. s = next - p /\ s # Direct
    BY <1>1 DEF Direct
  <2> QED BY <1>1, <1>3, <1>4, <2>1, <2>2 DEF Swapped, Direct
<1>6. Tagged(hp, g, p, p, next)
  <2>1. s = next - p
    BY <1>1
  <2> QED BY <1>1, <1>3, <1>4, <2>1 DEF Tagged, SameChunk
<1>7. FiledIn(D, (Vacant(hp) \ {p}) \union Between(g, p, p), g)
  <2>1. Between(g, p, p) = {p}
    BY <1>1, <1>4 DEF Between
  <2>2. (Vacant(hp) \ {p}) \union Between(g, p, p) = Vacant(hp) \union {p}
    BY <2>1
  <2> QED BY <2>2
<1>8. TopMoved(hp, g, {p}, p, next)
  BY <1>1 DEF TopMoved
<1>9. Change(hp, g, {p}, p, p, next)
  BY <1>1, <1>5, <1>6, <1>7, <1>8 DEF Change
<1>10. Owner(g, B, {p}, p, p, B \ {p})
  BY <1>4 DEF Owner
<1> QED BY <1>1, <1>9, <1>10, SpanChange

\* The chunk behind p is the top.
LEMMA FreeBesideTop ==
  ASSUME NEW h, NEW hp, NEW B, NEW p, NEW s, NEW next, Freeing(h, hp, B, p, s, next),
         NEW total, ToTop(hp, s, next, total),
         NEW g, DOMAIN g = Fields, Counters(g), SameSegments(hp, g),
         g.chunk = Put(Without(h.chunk, {next}), p, Unused(total)),
         g.top = p, g.topsize = total, FiledIn(hp.chunk, Vacant(hp), g)
  PROVE  Good(g, B \ {p}) /\ Frame(hp, g, B \ {p})
<1> DEFINE C == h.chunk
           D == g.chunk
<1>g. next = hp.top /\ total = s + hp.topsize
  BY DEF ToTop
<1>a. SpecFreeing(h, hp, B, p, s, next)
  BY FreeingFacts
<1>1. /\ p \in B /\ hp.top # p /\ p \notin Vacant(hp)
      /\ p \in Int /\ p \in Addresses /\ s \in Nat \ {0}
      /\ p < next /\ next \in DOMAIN C /\ next \in Int
      /\ next = p + s
      /\ IsMap(C) /\ p \in DOMAIN C /\ p # next /\ MinChunk <= s
      /\ hp.chunk[p].pinuse /\ DOMAIN C = DOMAIN hp.chunk
      /\ \A x \in DOMAIN C : x # p => C[x] = hp.chunk[x]
      /\ Span(hp, p, next, {p}) /\ {p} \intersect hp.sys = {}
      /\ Good(hp, B)
  BY <1>a DEF SpecFreeing
<1>2. PICK foot : foot = hp.top + hp.topsize
  OBVIOUS
<1>b. SpecTop(hp, B, foot)
  BY <1>1, <1>2, TopFacts
<1>3. /\ hp.topsize \in Nat \ {0} /\ next < foot /\ foot \in Int /\ foot \in Addresses
      /\ foot \in DOMAIN C /\ hp.chunk[foot].foot # Direct
      /\ next \notin B /\ next \notin Vacant(hp)
      /\ Span(hp, next, foot, {next}) /\ {next} \intersect hp.sys = {}
  BY <1>1, <1>b, <1>g DEF SpecTop
<1>4. /\ total \in Nat \ {0} /\ total \in Sizes /\ total = foot - p /\ p < foot /\ p # foot /\ next # foot
  <2>0. PICK u \in Nat \ {0} : u = hp.topsize
    BY <1>3
  <2>a. foot = next + u /\ next = p + s /\ total = s + u /\ s \in Nat \ {0} /\ p \in Int
    BY <1>1, <1>2, <1>g, <2>0
  <2>1. total = foot - p /\ p < foot /\ total \in Nat \ {0}
    BY <2>a
  <2>2. Space \in Nat /\ total <= Space
    BY <1>1, <1>3, <2>1, ConstantsOK DEF Addresses
  <2> QED BY <1>1, <1>3, <2>1, <2>2 DEF Sizes
<1>5. Span(hp, p, foot, {p} \union {next})
  BY <1>1, <1>3, SpanTwo
<1>6. PICK S : S = {p} \union {next}
  OBVIOUS
<1>7. S \intersect hp.sys = {} /\ Span(hp, p, foot, S)
  BY <1>1, <1>3, <1>5, <1>6
<1>e. PICK E : E = Without(C, {next})
  OBVIOUS
<1>8. SpecWithout(C, {next}, E)
  BY <1>1, <1>e, WithoutSpec
<1>c. IsMap(E) /\ DOMAIN E = DOMAIN C \ {next} /\ \A x \in DOMAIN C \ {next} : E[x] = C[x]
  BY <1>8 DEF SpecWithout
<1>d. Unused(total) \in Header /\ D = Put(E, p, Unused(total))
  BY <1>4, <1>e, HeaderFacts
<1>f. SpecPut(E, p, Unused(total), D)
  BY <1>1, <1>c, <1>d, PutSpec
<1>9. /\ IsMap(D) /\ DOMAIN D = (DOMAIN C \ {next}) \union {p} /\ D[p] = Unused(total)
      /\ \A x \in DOMAIN C \ {next} : x # p => D[x] = C[x]
  BY <1>c, <1>f DEF SpecPut
<1>10. D[p].size = total /\ ~D[p].cinuse /\ D[p].pinuse /\ D[p].foot = 0
  BY <1>9 DEF Unused
<1>11. D[foot] = hp.chunk[foot]
  BY <1>1, <1>3, <1>4, <1>9
<1>12. Swapped(hp.chunk, D, S, p, p, foot)
  <2>1. DOMAIN D = (DOMAIN hp.chunk \ S) \union {p, p}
    BY <1>1, <1>6, <1>9
  <2>2. \A x \in DOMAIN hp.chunk \ S : D[x] = hp.chunk[x]
    BY <1>1, <1>6, <1>9
  <2>3. SameChunk(hp.chunk[foot], D[foot]) /\ D[foot].foot # Direct
    BY <1>3, <1>11 DEF SameChunk
  <2>4. D[p].size = foot - p /\ D[p].foot # Direct /\ ~(p < p)
    BY <1>1, <1>4, <1>10 DEF Direct
  <2> QED BY <1>9, <2>1, <2>2, <2>3, <2>4 DEF Swapped
<1>13. Tagged(hp, g, p, p, foot)
  BY <1>1, <1>10 DEF Tagged
<1>14. FiledIn(D, (Vacant(hp) \ S) \union Between(g, p, p), g)
  <2>1. Between(g, p, p) = {}
    BY DEF Between
  <2>2. PICK V : V = Vacant(hp)
    OBVIOUS
  <2>3. (Vacant(hp) \ S) \union Between(g, p, p) = V
    BY <1>1, <1>3, <1>6, <2>1, <2>2
  <2>4. \A x \in V : D[x].size = hp.chunk[x].size
    <3>1. V \subseteq DOMAIN hp.chunk /\ p \notin V /\ next \notin V
      BY <1>1, <1>3, <2>2 DEF Vacant, Regular
    <3> QED BY <1>1, <1>9, <3>1
  <2>5. FiledIn(D, V, g)
    BY <2>2, <2>4, FiledSame
  <2> QED BY <2>3, <2>5
<1>15. TopMoved(hp, g, S, p, foot)
  BY <1>2, <1>4, <1>6, <1>10, <1>g DEF TopMoved
<1>16. Change(hp, g, S, p, p, foot)
  BY <1>1, <1>4, <1>12, <1>13, <1>14, <1>15 DEF Change
<1>17. Owner(g, B, S, p, p, B \ {p})
  BY <1>1, <1>3, <1>6, <1>10 DEF Owner
<1>18. B \ S = B \ {p}
  BY <1>3, <1>6
<1> QED BY <1>1, <1>7, <1>16, <1>17, <1>18, SpanChange

\* The chunk behind p is free.
LEMMA FreeBesideFree ==
  ASSUME NEW h, NEW hp, NEW B, NEW p, NEW s, NEW next, Freeing(h, hp, B, p, s, next),
         next \in Vacant(hp), NEW total, total = s + hp.chunk[next].size,
         NEW g, DOMAIN g = Fields, Counters(g), SameSegments(hp, g),
         g.chunk = SetUnused(Without(h.chunk, {next}), p, total),
         g.top = h.top, g.topsize = h.topsize,
         FiledIn(g.chunk, (Vacant(hp) \ {next}) \union {p}, g)
  PROVE  Good(g, B \ {p}) /\ Frame(hp, g, B \ {p})
<1> DEFINE C == h.chunk
           D == g.chunk
<1>a. SpecFreeing(h, hp, B, p, s, next)
  BY FreeingFacts
<1>1. /\ p \in B /\ hp.top # p /\ p \notin Vacant(hp)
      /\ p \in Int /\ p \in Addresses /\ s \in Nat \ {0}
      /\ p < next /\ next \in DOMAIN C /\ next \in Int
      /\ next = p + s
      /\ IsMap(C) /\ p \in DOMAIN C /\ p # next /\ MinChunk <= s
      /\ hp.chunk[p].pinuse /\ DOMAIN C = DOMAIN hp.chunk
      /\ \A x \in DOMAIN C : x # p => C[x] = hp.chunk[x]
      /\ Span(hp, p, next, {p}) /\ {p} \intersect hp.sys = {}
      /\ h.top = hp.top /\ h.topsize = hp.topsize /\ Good(hp, B)
  BY <1>a DEF SpecFreeing
<1>2. PICK b : b = End(hp.chunk, next)
  OBVIOUS
<1>b. SpecVacant(hp, B, next, b)
  BY <1>1, <1>2, VacantSpec
<1>3. /\ next \notin B /\ hp.top # next
      /\ hp.chunk[next].size \in Nat \ {0} /\ b = next + hp.chunk[next].size
      /\ next < b /\ b \in Int /\ b \in Addresses /\ b \in DOMAIN C
      /\ hp.chunk[b].cinuse /\ hp.chunk[b].foot # Direct /\ ~hp.chunk[b].pinuse
      /\ Span(hp, next, b, {next}) /\ {next} \intersect hp.sys = {}
  BY <1>1, <1>b DEF SpecVacant
<1>4. /\ total \in Nat \ {0} /\ total \in Sizes /\ b = p + total /\ total = b - p /\ p < b /\ p # b
      /\ next # b /\ MinChunk <= total
  BY <1>1, <1>3, ConstantsOK DEF Addresses, Sizes
<1>5. Span(hp, p, b, {p} \union {next})
  BY <1>1, <1>3, SpanTwo
<1>6. PICK S : S = {p} \union {next}
  OBVIOUS
<1>7. S \intersect hp.sys = {} /\ Span(hp, p, b, S)
  BY <1>1, <1>3, <1>5, <1>6
<1>8. PICK E : E = Without(C, {next})
  OBVIOUS
<1>c. SpecWithout(C, {next}, E)
  BY <1>1, <1>8, WithoutSpec
<1>9. IsMap(E) /\ DOMAIN E = DOMAIN C \ {next} /\ \A x \in DOMAIN C \ {next} : E[x] = C[x]
  BY <1>c DEF SpecWithout
<1>10. SpecUnused(E, p, total, b, D)
  <2>1. b \in DOMAIN E
    BY <1>3, <1>4, <1>9
  <2> QED BY <1>1, <1>4, <1>8, <1>9, <2>1, SetUnusedFacts
<1>11. /\ IsMap(D) /\ DOMAIN D = DOMAIN E /\ D[p] = Unused(total)
       /\ SameChunk(C[b], D[b]) /\ (D[b].pinuse <=> C[b].pinuse) /\ D[b].foot = total
       /\ \A x \in DOMAIN E : x # p /\ x # b => D[x] = C[x]
  <2>1. DOMAIN E \union {p} = DOMAIN E /\ E[b] = C[b]
    BY <1>1, <1>3, <1>4, <1>9
  <2>2. \A x \in DOMAIN E : E[x] = C[x]
    BY <1>9
  <2> QED BY <1>10, <2>1, <2>2, Zenon DEF SpecUnused
<1>12. D[p].size = total /\ ~D[p].cinuse /\ D[p].pinuse /\ D[p].foot = 0
  BY <1>11 DEF Unused
<1>13. C[b] = hp.chunk[b]
  BY <1>1, <1>3, <1>4, Zenon
<1>14. Swapped(hp.chunk, D, S, p, p, b)
  <2>1. DOMAIN D = (DOMAIN hp.chunk \ S) \union {p, p}
    BY <1>1, <1>6, <1>9, <1>11, Zenon
  <2>2. \A x \in DOMAIN hp.chunk \ S : x # b => D[x] = hp.chunk[x]
    BY <1>1, <1>6, <1>9, <1>11
  <2>3. total # Direct
    BY <1>4 DEF Direct
  <2>4. SameChunk(hp.chunk[b], D[b]) /\ D[b].foot # Direct
    BY <1>11, <1>13, <2>3
  <2>5. D[p].size = b - p /\ D[p].foot # Direct /\ ~(p < p)
    BY <1>1, <1>4, <1>12 DEF Direct
  <2> QED BY <1>11, <2>1, <2>2, <2>4, <2>5, Zenon DEF Swapped
<1>15. Tagged(hp, g, p, p, b)
  <2>1. D[b].cinuse /\ ~D[b].pinuse /\ D[b].foot = b - p /\ ~(p < p)
    <3>1. D[b].cinuse
      BY <1>3, <1>11, <1>13 DEF SameChunk
    <3>2. ~D[b].pinuse
      BY <1>3, <1>11, <1>13
    <3>3. D[b].foot = b - p
      BY <1>4, <1>11, Zenon
    <3>4. ~(p < p)
      BY <1>1
    <3> QED BY <3>1, <3>2, <3>3, <3>4
  <2>2. D[p].pinuse /\ ~D[p].cinuse /\ MinChunk <= D[p].size
    BY <1>4, <1>12
  <2> QED BY <1>1, <2>1, <2>2, Zenon DEF Tagged
<1>16. FiledIn(D, (Vacant(hp) \ S) \union Between(g, p, p), g)
  <2>1. Between(g, p, p) = {p}
    BY <1>1, <1>12 DEF Between
  <2>2. (Vacant(hp) \ S) \union Between(g, p, p) = (Vacant(hp) \ {next}) \union {p}
    BY <1>1, <1>6, <2>1
  <2> QED BY <2>2
<1>17. TopMoved(hp, g, S, p, b)
  BY <1>1, <1>3, <1>6 DEF TopMoved
<1>18. Change(hp, g, S, p, p, b)
  BY <1>1, <1>4, <1>14, <1>15, <1>16, <1>17 DEF Change
<1>19. Owner(g, B, S, p, p, B \ {p})
  BY <1>1, <1>3, <1>6, <1>12 DEF Owner
<1>20. B \ S = B \ {p}
  BY <1>3, <1>6
<1> QED BY <1>1, <1>7, <1>18, <1>19, <1>20, SpanChange

\* The chunk before p is free, and the two are neighbours in one segment.
LEMMA MergingFacts ==
  ASSUME NEW h, NEW hp, NEW B, NEW p, NEW prev, NEW total, Merging(h, hp, B, p, prev, total)
  PROVE  SpecMerging(h, hp, B, p, prev, total, End(h.chunk, p))
<1> DEFINE C == h.chunk
<1>b. PICK b : b = End(C, p)
  OBVIOUS
<1>0. Good(h, B) /\ p \in B /\ p \in Regular(C) /\ ~C[p].pinuse
  BY DEF Merging
<1>a. SpecBlock(h, B, p, b)
  BY <1>0, <1>b, BlockSpec
<1>u. PICK u : u = C[p].size
  OBVIOUS
<1>v. PICK v : v = C[p].foot
  OBVIOUS
<1>1. /\ h.top # p
      /\ p \in Int /\ u \in Nat \ {0}
      /\ p < b /\ b \in Int /\ b \in Addresses /\ b \in DOMAIN C
      /\ b = p + u /\ C[b].foot # Direct /\ C[b].pinuse
      /\ IsMap(C) /\ p \in DOMAIN C /\ p # b /\ MinChunk <= u
      /\ p \notin Vacant(h)
      /\ Span(h, p, b, {p}) /\ {p} \intersect h.sys = {}
  BY <1>a, <1>u DEF SpecBlock
<1>e. prev = p - v /\ total = u + v
  BY <1>u, <1>v DEF Merging
<1>2. prev \in Vacant(h) /\ C[prev].size = v
  <2>1. p # h.top + h.topsize
    BY <1>0, <1>a DEF Good, TopLast, SpecBlock
  <2> QED BY <1>0, <1>e, <1>v, <2>1 DEF Good, Tags
<1>q. PICK e : e = End(C, prev)
  OBVIOUS
<1>c. SpecVacant(h, B, prev, e)
  BY <1>0, <1>2, <1>q, VacantSpec
<1>4. /\ prev \notin h.sys /\ prev \notin B /\ h.top # prev
      /\ prev \in Int /\ prev \in Addresses /\ v \in Nat \ {0}
      /\ e = prev + v /\ prev \in DOMAIN C /\ C[prev].pinuse
      /\ Span(h, prev, e, {prev})
  BY <1>2, <1>c DEF SpecVacant
<1>3. e = p /\ prev < p /\ p = prev + v
  BY <1>1, <1>4, <1>e
<1>5. /\ total \in Nat \ {0} /\ b = prev + total /\ total = b - prev /\ prev < b /\ prev # b /\ prev # p
      /\ MinChunk <= total
  BY <1>1, <1>3, <1>4, <1>e, ConstantsOK
<1>6. total \in Sizes
  BY <1>1, <1>4, <1>5, ConstantsOK DEF Addresses, Sizes
<1>7. Span(h, prev, b, {prev, p}) /\ {prev, p} \intersect h.sys = {}
  <2>1. Span(h, prev, b, {prev} \union {p})
    BY <1>0, <1>1, <1>3, <1>4, SpanTwo
  <2>2. {prev} \union {p} = {prev, p}
    OBVIOUS
  <2> QED BY <1>1, <1>4, <2>1, <2>2
<1> QED BY <1>0, <1>1, <1>2, <1>4, <1>5, <1>6, <1>7, <1>b DEF SpecMerging

\* With the free chunk before it merged into it the block is a longer block of a
\* good heap.
LEMMA MergeBack ==
  ASSUME NEW h, NEW hp, NEW B, NEW p, NEW prev, NEW total, Merging(h, hp, B, p, prev, total)
  PROVE  Merged(h, hp, B, p, prev, total)
<1> DEFINE C == h.chunk
           D == hp.chunk
<1>b. PICK b : b = End(C, p)
  OBVIOUS
<1>a. SpecMerging(h, hp, B, p, prev, total, b)
  BY <1>b, MergingFacts
<1>1. /\ p \in B /\ h.top # p /\ p \notin Vacant(h) /\ b \in DOMAIN C /\ b \in Int
      /\ C[b].foot # Direct /\ C[b].pinuse /\ IsMap(C) /\ p \in DOMAIN C /\ p # b
      /\ prev \in Vacant(h) /\ prev \notin B /\ h.top # prev /\ prev \in Int /\ prev \in Addresses
      /\ prev \in DOMAIN C /\ prev # p /\ prev # b /\ C[prev].pinuse
      /\ Span(h, prev, b, {prev, p}) /\ {prev, p} \intersect h.sys = {}
  BY <1>a DEF SpecMerging
<1>3. /\ total \in Nat \ {0} /\ total \in Sizes /\ total = b - prev /\ MinChunk <= total /\ prev < b
      /\ b = prev + total /\ prev \in Int /\ b \in Int
  BY <1>a DEF SpecMerging
<1>2. /\ Good(h, B)
      /\ DOMAIN hp = Fields /\ Counters(hp) /\ SameSegments(h, hp)
      /\ D = Put(Without(C, {p}), prev, Used(total))
      /\ hp.top = h.top /\ hp.topsize = h.topsize
      /\ FiledIn(C, Vacant(h) \ {prev}, hp)
  BY DEF Merging
<1>6. PICK S : S = {prev, p}
  OBVIOUS
<1>8. PICK E : E = Without(C, {p})
  OBVIOUS
<1>9. SpecWithout(C, {p}, E)
  BY <1>1, <1>8, WithoutSpec
<1>10. IsMap(E) /\ DOMAIN E = DOMAIN C \ {p} /\ \A x \in DOMAIN C \ {p} : E[x] = C[x]
  BY <1>9 DEF SpecWithout
<1>11. SpecPut(E, prev, Used(total), D)
  <2>1. Used(total) \in Header /\ D = Put(E, prev, Used(total))
    BY <1>2, <1>3, <1>8, HeaderFacts
  <2> QED BY <1>1, <1>10, <2>1, PutSpec
<1>12. /\ IsMap(D) /\ DOMAIN D = DOMAIN C \ {p} /\ D[prev] = Used(total)
       /\ \A x \in DOMAIN C \ {p} : x # prev => D[x] = C[x]
  <2>1. DOMAIN E \union {prev} = DOMAIN C \ {p}
    BY <1>1, <1>10
  <2> QED BY <1>10, <1>11, <2>1 DEF SpecPut
<1>13. D[prev].size = total /\ D[prev].cinuse /\ D[prev].pinuse /\ D[prev].foot = 0
  BY <1>12 DEF Used
<1>14. D[b] = C[b]
  BY <1>1, <1>12
<1>15. Swapped(C, D, S, prev, prev, b)
  <2>1. DOMAIN D = (DOMAIN C \ S) \union {prev, prev}
    BY <1>1, <1>6, <1>12
  <2>2. \A x \in DOMAIN C \ S : D[x] = C[x]
    BY <1>6, <1>12
  <2>3. SameChunk(C[b], D[b]) /\ D[b].foot # Direct
    BY <1>1, <1>14 DEF SameChunk
  <2>4. D[prev].size = b - prev /\ D[prev].foot # Direct /\ ~(prev < prev)
    BY <1>3, <1>13 DEF Direct
  <2> QED BY <1>12, <2>1, <2>2, <2>3, <2>4 DEF Swapped
<1>16. Tagged(h, hp, prev, prev, b)
  <2>1. D[b].pinuse /\ MinChunk <= D[prev].size
    BY <1>1, <1>3, <1>13, <1>14
  <2>2. ~(prev < prev)
    BY <1>3
  <2> QED BY <1>1, <1>13, <2>1, <2>2 DEF Tagged
<1>17. FiledIn(D, (Vacant(h) \ S) \union Between(hp, prev, prev), hp)
  <2>1. Between(hp, prev, prev) = {}
    BY <1>13 DEF Between
  <2>2. PICK V : V = Vacant(h) \ {prev}
    OBVIOUS
  <2>3. (Vacant(h) \ S) \union Between(hp, prev, prev) = V
    BY <1>1, <1>6, <2>1, <2>2
  <2>4. \A x \in V : D[x].size = C[x].size
    <3>1. V \subseteq DOMAIN C \ {p} /\ prev \notin V
      BY <1>1, <2>2 DEF Vacant, Regular
    <3> QED BY <1>12, <3>1
  <2>5. FiledIn(D, V, hp)
    BY <1>2, <2>2, <2>4, FiledSame
  <2> QED BY <2>3, <2>5
<1>18. TopMoved(h, hp, S, prev, b)
  BY <1>1, <1>2, <1>6 DEF TopMoved
<1>19. Change(h, hp, S, prev, prev, b)
  <2>1. prev <= prev
    BY <1>1
  <2> QED BY <1>2, <1>3, <1>15, <1>16, <1>17, <1>18, <2>1 DEF Change
<1>20. Owner(hp, B, S, prev, prev, (B \ {p}) \union {prev})
  BY <1>1, <1>6, <1>13 DEF Owner
<1>21. B \ S = B \ {p}
  BY <1>1, <1>6
<1>22. Good(hp, (B \ {p}) \union {prev}) /\ Frame(h, hp, B \ {p})
  BY <1>1, <1>2, <1>6, <1>19, <1>20, <1>21, SpanChange
<1>23. prev \in Regular(D) /\ End(D, prev) = b
  <2>1. prev \in Regular(D)
    BY <1>1, <1>12, <1>13 DEF Regular, Direct
  <2>2. End(D, prev) = prev + total
    BY <1>13 DEF End
  <2> QED BY <1>3, <2>1, <2>2
<1> QED BY <1>1, <1>13, <1>22, <1>23, <1>b DEF Merged

(***************************************************************************)
(* A block is split.                                                       *)
(***************************************************************************)

\* A block is cut in two, at q.
LEMMA SplitFacts ==
  ASSUME NEW h, NEW g, NEW B, NEW S, NEW p, NEW q, NEW b, SplitChange(h, g, B, S, p, q, b),
         NEW B2, Owner(g, B, S, p, q, B2)
  PROVE  /\ Good(g, B2) /\ Frame(h, g, B \ S)
         /\ p \in Regular(g.chunk) /\ g.chunk[p].size = q - p
<1> DEFINE C == h.chunk
           D == g.chunk
<1>1. /\ Good(h, B) /\ p \in B /\ p \in Regular(C) /\ Span(h, p, b, S) /\ S \intersect h.sys = {}
      /\ q \in Int /\ p < q /\ q < b /\ p + MinChunk <= q
      /\ DOMAIN g = Fields /\ Counters(g) /\ SameSegments(h, g)
      /\ SplitInto(C, D, S, p, q, b) /\ TopMoved(h, g, S, q, b)
      /\ FiledIn(D, (Vacant(h) \ S) \union Between(g, p, q), g)
  BY DEF SplitChange
<1>2. /\ q # g.top => /\ q + MinChunk <= b
                      /\ D[b].pinuse <=> D[q].cinuse
                      /\ D[q].cinuse \/ (D[b].foot = b - q /\ C[b].cinuse)
  BY DEF SplitChange
<1>3. /\ IsMap(D) /\ DOMAIN D = (DOMAIN C \ S) \union {p, q}
      /\ \A x \in DOMAIN C \ S : x # b => D[x] = C[x]
      /\ SameChunk(C[b], D[b]) /\ D[b].foot # Direct
      /\ D[p].size = q - p /\ D[p].cinuse /\ (D[p].pinuse <=> C[p].pinuse) /\ D[p].foot = C[p].foot
      /\ D[q].size = b - q /\ D[q].pinuse /\ D[q].foot = 0
  BY <1>1 DEF SplitInto
<1>4. p \in DOMAIN C /\ C[p].foot # Direct /\ b \in DOMAIN C
  BY <1>1 DEF Regular, Span
<1>5. p \in Int /\ b \in Int /\ MinChunk \in Nat \ {0} /\ p \in DOMAIN D
  BY <1>1, <1>3, <1>4, BlockFacts, ConstantsOK
<1>6. Swapped(C, D, S, p, q, b)
  BY <1>3, <1>4 DEF Swapped, Direct
<1>7. Tagged(h, g, p, q, b)
  <2>1. D[p].size = q - p /\ MinChunk <= D[p].size
    BY <1>1, <1>3, <1>5
  <2>2. q = g.top \/ MinChunk <= D[q].size
    BY <1>1, <1>2, <1>3, <1>5
  <2>3. q = g.top \/ (D[b].pinuse <=> D[q].cinuse)
    BY <1>2
  <2>4. q = g.top \/ D[q].cinuse \/ (D[b].foot = b - q /\ D[b].cinuse)
    BY <1>2, <1>3 DEF SameChunk
  <2>5. C[p].pinuse \/ (D[p].foot = C[p].foot /\ D[p].cinuse)
    BY <1>3
  <2>6. p < q => D[q].pinuse /\ D[p].cinuse
    BY <1>3
  <2> QED BY <1>3, <2>1, <2>2, <2>3, <2>4, <2>5, <2>6 DEF Tagged
<1>8. Change(h, g, S, p, q, b)
  <2>1. p <= q
    BY <1>1, <1>5
  <2> QED BY <1>1, <1>6, <1>7, <2>1 DEF Change
<1>9. Good(g, B2) /\ Frame(h, g, B \ S)
  BY <1>1, <1>8, SpanChange
<1>10. p \in Regular(D)
  BY <1>3, <1>4, <1>5 DEF Regular
<1> QED BY <1>3, <1>9, <1>10

\* lj_alloc_realloc cuts a rest off a block: it is a block itself, still to be
\* released.
LEMMA ShrinkFacts ==
  ASSUME NEW h, NEW B, NEW p, NEW nb, NEW g, Shrinking(h, B, p, nb, g)
  PROVE  Shrunk(h, g, B, p, p + nb, nb)
<1> DEFINE C == h.chunk
           D == g.chunk
<1>m. MinChunk \in Nat \ {0} /\ Space \in Nat
  BY ConstantsOK
<1>b. PICK b : b = End(C, p)
  OBVIOUS
<1>s. PICK s : s = C[p].size
  OBVIOUS
<1>q. PICK q : q = p + nb
  OBVIOUS
<1>t. PICK t : t = s - nb
  OBVIOUS
<1>1. /\ Good(h, B) /\ p \in B /\ p \in Regular(C)
      /\ nb \in Nat /\ MinChunk <= nb /\ nb + MinChunk <= s
  BY <1>s DEF Shrinking
<1>a. SpecBlock(h, B, p, b)
  BY <1>1, <1>b, BlockSpec
<1>2. /\ h.top # p /\ p \notin Vacant(h)
      /\ p \in Int /\ p \in Addresses /\ s \in Nat \ {0}
      /\ p < b /\ b \in Int /\ b \in Addresses /\ b \in DOMAIN C
      /\ b = p + s /\ C[b].foot # Direct /\ C[b].pinuse
      /\ IsMap(C) /\ p \in DOMAIN C /\ p # b /\ C[p].cinuse /\ s \in Sizes
      /\ Span(h, p, b, {p}) /\ {p} \intersect h.sys = {}
      /\ DOMAIN h = Fields /\ Counters(h)
  BY <1>a, <1>s DEF SpecBlock
<1>3. /\ q \in Int /\ p < q /\ q < b /\ p + MinChunk <= q /\ q + MinChunk <= b /\ b = q + t /\ t = b - q
      /\ nb = q - p /\ nb \in Sizes /\ t \in Sizes /\ q \in Addresses /\ q # b /\ p # q
  BY <1>1, <1>2, <1>m, <1>q, <1>t DEF Addresses, Sizes
<1>4. q \notin DOMAIN C
  <2>1. q \in DOMAIN C => q \in {p}
    BY <1>2, <1>3 DEF Span
  <2> QED BY <1>3, <2>1
<1>v. PICK v : v = [C[p] EXCEPT !.size = nb]
  OBVIOUS
<1>5. v \in Header /\ v.size = nb /\ v.cinuse /\ (v.pinuse <=> C[p].pinuse) /\ v.foot = C[p].foot
  <2>1. C[p] \in Header
    BY <1>2 DEF IsMap
  <2> QED BY <1>2, <1>3, <1>v, <2>1 DEF Header, Sizes
<1>e. PICK E : E = Put(C, p, v)
  OBVIOUS
<1>6. IsMap(E) /\ DOMAIN E = DOMAIN C /\ E[p] = v /\ \A x \in DOMAIN C : x # p => E[x] = C[x]
  <2>1. SpecPut(C, p, v, E)
    BY <1>2, <1>5, <1>e, PutSpec
  <2> QED BY <1>2, <2>1 DEF SpecPut
<1>7. D = SetUsedAll(E, q, t) /\ g = [h EXCEPT !.chunk = D]
  <2>1. g = [h EXCEPT !.chunk = SetUsedAll(E, q, t)]
    BY <1>e, <1>q, <1>s, <1>t, <1>v DEF Shrinking
  <2> QED BY <1>2, <2>1 DEF Fields
<1>8. SpecUsedAll(E, q, t, b, D)
  BY <1>2, <1>3, <1>6, <1>7, SetUsedAllFacts
<1>9. /\ IsMap(D) /\ DOMAIN D = DOMAIN C \union {q} /\ D[q] = Used(t)
      /\ SameChunk(C[b], D[b]) /\ D[b].pinuse /\ D[b].foot = 0 /\ D[p] = v
      /\ \A x \in DOMAIN C : x # p /\ x # b => D[x] = C[x]
  <2>1. E[b] = C[b] /\ q # p /\ p # b
    BY <1>2, <1>3, <1>6
  <2>2. /\ IsMap(D) /\ DOMAIN D = DOMAIN E \union {q} /\ D[q] = Used(t)
        /\ SameChunk(E[b], D[b]) /\ D[b].pinuse /\ D[b].foot = 0
        /\ \A x \in DOMAIN E : x # q /\ x # b => D[x] = E[x]
    BY <1>8 DEF SpecUsedAll
  <2>3. D[p] = v
    BY <1>2, <1>6, <2>1, <2>2
  <2>4. \A x \in DOMAIN C : x # p /\ x # b => D[x] = C[x]
    BY <1>4, <1>6, <2>2
  <2> QED BY <1>6, <2>1, <2>2, <2>3, <2>4
<1>10. D[q].size = t /\ D[q].cinuse /\ D[q].pinuse /\ D[q].foot = 0
  BY <1>9 DEF Used
<1>11. SplitInto(C, D, {p}, p, q, b)
  <2>1. DOMAIN D = (DOMAIN C \ {p}) \union {p, q}
    BY <1>2, <1>9
  <2>2. D[p].size = q - p /\ D[q].size = b - q
    BY <1>3, <1>5, <1>9, <1>10
  <2> QED BY <1>5, <1>9, <1>10, <2>1, <2>2 DEF SplitInto, Direct
<1>12. /\ DOMAIN g = Fields /\ Counters(g) /\ SameSegments(h, g) /\ g.top = h.top /\ g.topsize = h.topsize
       /\ g.bins = h.bins /\ g.dv = h.dv /\ g.dvsize = h.dvsize
  BY <1>2, <1>7 DEF Fields, Counters, SameSegments
<1>13. TopMoved(h, g, {p}, q, b)
  BY <1>2, <1>12 DEF TopMoved
<1>14. FiledIn(D, (Vacant(h) \ {p}) \union Between(g, p, q), g)
  <2>1. Between(g, p, q) = {}
    BY <1>5, <1>9, <1>10 DEF Between
  <2>2. PICK S : S = Vacant(h)
    OBVIOUS
  <2>3. S = (Vacant(h) \ {p}) \union Between(g, p, q)
    BY <1>2, <2>1, <2>2
  <2>4. FiledIn(C, S, h)
    BY <1>1, <2>2 DEF Good, Found
  <2>5. \A x \in S : D[x].size = C[x].size
    BY <1>2, <1>9, <2>2 DEF Vacant, Regular, SameChunk
  <2>6. FiledIn(D, S, g)
    BY <1>12, <2>4, <2>5, FiledSame
  <2> QED BY <2>3, <2>6
<1>15. SplitChange(h, g, B, {p}, p, q, b)
  BY <1>1, <1>2, <1>3, <1>9, <1>10, <1>11, <1>12, <1>13, <1>14 DEF SplitChange
<1>16. Owner(g, B, {p}, p, q, B \union {q})
  BY <1>1, <1>5, <1>9, <1>10 DEF Owner
<1>17. /\ Good(g, B \union {q}) /\ Frame(h, g, B \ {p})
       /\ p \in Regular(D) /\ D[p].size = q - p
  BY <1>15, <1>16, SplitFacts
<1>18. q \notin B
  BY <1>1, <1>2, <1>4, BlockFacts
<1>19. q \in Regular(D)
  BY <1>9, <1>10 DEF Regular, Direct
<1>20. Shrunk(h, g, B, p, q, nb)
  BY <1>3, <1>10, <1>17, <1>18, <1>19 DEF Shrunk
<1> QED BY <1>20, <1>q

\* What is behind q becomes part of the top.
LEMMA IntoTopFacts ==
  ASSUME NEW h, NEW g, NEW B, NEW p, NEW q, NEW foot, IntoTop(h, g, B, p, q, foot)
  PROVE  Cut(h, g, B, p, q)
<1> DEFINE C == h.chunk
           D == g.chunk
<1>m. MinChunk \in Nat \ {0}
  BY ConstantsOK
<1>n. PICK n : n = h.top
  OBVIOUS
<1>0. /\ Good(h, B) /\ p \in B /\ p \in Regular(C) /\ n = End(C, p)
      /\ foot = h.top + h.topsize /\ q \in Int /\ p + MinChunk <= q /\ q < foot
      /\ DOMAIN g = Fields /\ Counters(g) /\ SameSegments(h, g) /\ g.top = q /\ g.topsize = foot - q
      /\ g.bins = h.bins /\ g.dv = h.dv /\ g.dvsize = h.dvsize
  BY <1>n DEF IntoTop
<1>1. /\ IsMap(D) /\ DOMAIN D = (DOMAIN C \ {n}) \union {q}
      /\ D[p].size = q - p /\ D[p].cinuse /\ (D[p].pinuse <=> C[p].pinuse) /\ D[p].foot = C[p].foot
      /\ D[q] = Unused(foot - q)
      /\ \A x \in DOMAIN C : x # n /\ x # q /\ x # p => D[x] = C[x]
  BY <1>n DEF IntoTop
<1>a. SpecBlock(h, B, p, n)
  BY <1>0, BlockSpec
<1>c. SpecTop(h, B, foot)
  BY <1>0, TopFacts
<1>2. /\ p \in Int /\ p < n /\ n \in Int /\ p \in DOMAIN C /\ p # n /\ C[p].cinuse /\ p \notin Vacant(h)
      /\ Span(h, p, n, {p}) /\ {p} \intersect h.sys = {}
  BY <1>a DEF SpecBlock
<1>3. /\ n < foot /\ foot \in Int /\ foot \in DOMAIN C /\ C[foot].foot # Direct
      /\ n \notin B /\ n \notin Vacant(h)
      /\ Span(h, n, foot, {n}) /\ {n} \intersect h.sys = {}
  BY <1>c, <1>n DEF SpecTop
<1>4. PICK S : S = {p} \union {n}
  OBVIOUS
<1>5. Span(h, p, foot, S) /\ S \intersect h.sys = {}
  <2>1. Span(h, p, foot, {p} \union {n})
    BY <1>0, <1>2, <1>3, SpanTwo
  <2> QED BY <1>2, <1>3, <1>4, <2>1
<1>6. /\ p < q /\ p # q /\ q # foot /\ foot # n /\ foot # p
  BY <1>0, <1>2, <1>3, <1>m
<1>7. q \in DOMAIN C => q \in S
  BY <1>0, <1>2, <1>3, <1>5, <1>6 DEF Span
<1>8. D[q].size = foot - q /\ ~D[q].cinuse /\ D[q].pinuse /\ D[q].foot = 0
  BY <1>1 DEF Unused
<1>9. SplitInto(C, D, S, p, q, foot)
  <2>1. DOMAIN D = (DOMAIN C \ S) \union {p, q}
    BY <1>1, <1>2, <1>4
  <2>2. \A x \in DOMAIN C \ S : D[x] = C[x]
    BY <1>1, <1>4, <1>7
  <2>3. foot \in DOMAIN C \ S
    BY <1>3, <1>4, <1>6
  <2>4. SameChunk(C[foot], D[foot]) /\ D[foot].foot # Direct
    BY <1>3, <2>2, <2>3 DEF SameChunk
  <2> QED BY <1>1, <1>8, <2>1, <2>2, <2>4 DEF SplitInto
<1>10. TopMoved(h, g, S, q, foot)
  BY <1>0, <1>4, <1>8, <1>n DEF TopMoved
<1>11. FiledIn(D, (Vacant(h) \ S) \union Between(g, p, q), g)
  <2>1. Between(g, p, q) = {}
    BY <1>0, <1>1 DEF Between
  <2>2. PICK V : V = Vacant(h)
    OBVIOUS
  <2>3. V = (Vacant(h) \ S) \union Between(g, p, q)
    BY <1>2, <1>3, <1>4, <2>1, <2>2
  <2>4. FiledIn(C, V, h)
    BY <1>0, <2>2 DEF Good, Found
  <2>5. \A x \in V : D[x].size = C[x].size
    <3>1. V \subseteq DOMAIN C /\ p \notin V /\ n \notin V
      BY <1>2, <1>3, <2>2 DEF Vacant, Regular
    <3>2. q \notin V
      BY <1>4, <1>7, <3>1
    <3> QED BY <1>1, <3>1, <3>2
  <2>6. FiledIn(D, V, g)
    BY <1>0, <2>4, <2>5, FiledSame
  <2> QED BY <2>3, <2>6
<1>12. SplitChange(h, g, B, S, p, q, foot)
  BY <1>0, <1>5, <1>6, <1>9, <1>10, <1>11 DEF SplitChange
<1>13. Owner(g, B, S, p, q, B)
  BY <1>0, <1>1, <1>3, <1>4, <1>8 DEF Owner
<1>14. /\ Good(g, B) /\ Frame(h, g, B \ S)
       /\ p \in Regular(D) /\ D[p].size = q - p
  BY <1>12, <1>13, SplitFacts
<1>15. B \ S = B \ {p}
  BY <1>3, <1>4
<1> QED BY <1>14, <1>15 DEF Cut

\* lj_alloc_realloc lets a block grow into the top.
LEMMA GrowFacts ==
  ASSUME NEW h, NEW B, NEW p, NEW nb, NEW g, Growing(h, B, p, nb, g)
  PROVE  Cut(h, g, B, p, p + nb)
<1> DEFINE C == h.chunk
           D == g.chunk
<1>m. MinChunk \in Nat \ {0} /\ Space \in Nat
  BY ConstantsOK
<1>n. PICK n : n = h.top
  OBVIOUS
<1>s. PICK s : s = C[p].size
  OBVIOUS
<1>q. PICK q : q = p + nb
  OBVIOUS
<1>f. PICK foot : foot = h.top + h.topsize
  OBVIOUS
<1>u. PICK u : u = h.topsize
  OBVIOUS
<1>t. PICK t : t = s + u - nb
  OBVIOUS
<1>0. /\ Good(h, B) /\ p \in B /\ p \in Regular(C) /\ n = End(C, p)
      /\ nb \in Nat /\ MinChunk <= nb /\ s < nb /\ nb < s + u
  BY <1>n, <1>s, <1>u DEF Growing
<1>a. SpecBlock(h, B, p, n)
  BY <1>0, BlockSpec
<1>c. SpecTop(h, B, foot)
  BY <1>0, <1>f, TopFacts
<1>1. /\ p \in Int /\ p \in Addresses /\ n \in Int /\ n = p + s /\ s \in Nat \ {0} /\ p \in DOMAIN C /\ p # n /\ C[p].cinuse
      /\ IsMap(C) /\ DOMAIN h = Fields /\ Counters(h)
  BY <1>a, <1>s DEF SpecBlock
<1>2. /\ n < foot /\ foot \in Int /\ foot \in Addresses /\ foot \in DOMAIN C /\ u \in Nat \ {0}
      /\ foot = n + u /\ Span(h, n, foot, {n})
  BY <1>c, <1>f, <1>n, <1>u DEF SpecTop
<1>3. /\ q \in Int /\ p + MinChunk <= q /\ q < foot /\ t = foot - q /\ nb = q - p /\ n < q /\ p < q
      /\ nb \in Sizes /\ t \in Sizes /\ q \in Addresses /\ q # n /\ p # q
  BY <1>0, <1>1, <1>2, <1>m, <1>q, <1>t DEF Addresses, Sizes
<1>v. PICK v : v = [C[p] EXCEPT !.size = nb]
  OBVIOUS
<1>5. v \in Header /\ v.size = nb /\ v.cinuse /\ (v.pinuse <=> C[p].pinuse) /\ v.foot = C[p].foot
  <2>1. C[p] \in Header
    BY <1>1 DEF IsMap
  <2> QED BY <1>1, <1>3, <1>v, <2>1 DEF Header, Sizes
<1>e. PICK E : E = Without(C, {n})
  OBVIOUS
<1>g. PICK G : G = Put(E, q, Unused(t))
  OBVIOUS
<1>6. IsMap(E) /\ DOMAIN E = DOMAIN C \ {n} /\ \A x \in DOMAIN C \ {n} : E[x] = C[x]
  <2>1. SpecWithout(C, {n}, E)
    BY <1>1, <1>e, WithoutSpec
  <2> QED BY <2>1 DEF SpecWithout
<1>7. IsMap(G) /\ DOMAIN G = DOMAIN E \union {q} /\ G[q] = Unused(t) /\ \A x \in DOMAIN E : x # q => G[x] = E[x]
  <2>0. Unused(t) \in Header
    BY <1>3, HeaderFacts
  <2>1. SpecPut(E, q, Unused(t), G)
    BY <1>3, <1>6, <1>g, <2>0, PutSpec
  <2> QED BY <2>1 DEF SpecPut
<1>8. /\ D = Put(G, p, v) /\ DOMAIN g = Fields /\ g.top = q /\ g.topsize = t
      /\ g.bins = h.bins /\ g.dv = h.dv /\ g.dvsize = h.dvsize
      /\ Counters(g) /\ SameSegments(h, g)
  <2>1. g = [h EXCEPT !.top = q, !.topsize = t, !.chunk = Put(G, p, v)]
    BY <1>1, <1>e, <1>g, <1>n, <1>q, <1>s, <1>t, <1>u, <1>v DEF Growing, Fields
  <2> QED BY <1>1, <2>1 DEF Fields, Counters, SameSegments
<1>9. IsMap(D) /\ DOMAIN D = DOMAIN G \union {p} /\ D[p] = v /\ \A x \in DOMAIN G : x # p => D[x] = G[x]
  <2>1. SpecPut(G, p, v, D)
    BY <1>1, <1>5, <1>7, <1>8, PutSpec
  <2> QED BY <2>1 DEF SpecPut
<1>10. IntoTop(h, g, B, p, q, foot)
  <2>1. DOMAIN D = (DOMAIN C \ {n}) \union {q}
    BY <1>1, <1>6, <1>7, <1>9
  <2>2. D[q] = Unused(t) /\ \A x \in DOMAIN C : x # n /\ x # q /\ x # p => D[x] = C[x]
    BY <1>3, <1>6, <1>7, <1>9
  <2>3. D[p].size = q - p /\ D[p].cinuse /\ (D[p].pinuse <=> C[p].pinuse) /\ D[p].foot = C[p].foot
    BY <1>3, <1>5, <1>9
  <2> QED BY <1>0, <1>3, <1>8, <1>9, <1>f, <1>n, <2>1, <2>2, <2>3 DEF IntoTop
<1>11. Cut(h, g, B, p, q)
  BY <1>10, IntoTopFacts
<1> QED BY <1>11, <1>q

(***************************************************************************)
(* New memory.                                                             *)
(***************************************************************************)

\* The operating system maps memory where nothing is.
LEMMA RegionsFacts ==
  ASSUME NEW h, NEW B, Good(h, B), NEW size \in Nat \ {0}, NEW a \in Regions(h, size)
  PROVE  Clear(h, a, size)
<1>1. PICK k \in 0..(Space \div Granularity) : a = k * Granularity
  BY DEF Regions
<1>2. Granularity \in Nat \ {0} /\ Space \in Nat
  BY ConstantsOK
<1>3. k \in Nat
  BY <1>1, <1>2
<1>4. a \in Nat
  BY <1>1, <1>2, <1>3
<1>5. a + size <= Space /\ \A m \in Mapped(h) : a + size <= m.base \/ m.base + m.size <= a
  BY DEF Regions
<1>6. ASSUME NEW p \in DOMAIN h.chunk \ Regular(h.chunk)
      PROVE  a + size <= p \/ End(h.chunk, p) + FootPad <= a
  <2>1. PICK m : m = [base |-> p, size |-> h.chunk[p].size + FootPad]
    OBVIOUS
  <2>2. m \in Mapped(h)
    BY <1>6, <2>1 DEF Mapped, Regular
  <2>3. a + size <= m.base \/ m.base + m.size <= a
    BY <1>5, <2>2
  <2>4. m.base = p /\ m.size = h.chunk[p].size + FootPad
    BY <2>1
  <2>5. p \in Int /\ h.chunk[p].size \in Nat
    BY <1>6, BlockFacts
  <2> QED BY <2>3, <2>4, <2>5 DEF End, FootPad
<1>7. \A g \in Segments(h) : a + size <= g.base \/ Limit(g) <= a
  BY <1>5 DEF Mapped, Limit
<1> QED BY <1>4, <1>5, <1>6, <1>7 DEF Clear

\* Chunks and segments lie before or behind it.
LEMMA ClearFacts ==
  ASSUME NEW h, NEW B, Good(h, B), NEW a, NEW size, Clear(h, a, size)
  PROVE  /\ \A x \in DOMAIN h.chunk : x < a \/ a + size <= x
         /\ \A x \in Regular(h.chunk) : x < a => End(h.chunk, x) <= a
         /\ \A g \in Segments(h), x \in Int : a <= x /\ x < a + size => ~Holds(g, x)
<1> DEFINE C == h.chunk
<1>1. /\ a \in Nat /\ size \in Nat \ {0}
      /\ \A g \in Segments(h) : a + size <= g.base \/ Limit(g) <= a
      /\ \A p \in DOMAIN C \ Regular(C) : a + size <= p \/ End(C, p) + FootPad <= a
  BY DEF Clear
<1>2. /\ \A x \in DOMAIN C : x \in Int /\ C[x].size \in Nat \ {0}
      /\ \A g \in Segments(h) : g.base \in Nat /\ g.size \in Nat \ {0} /\ Limit(g) \in Nat
  BY ConstantsOK DEF Good, Headers, IsMap, Header, Geometry, Limit
<1>e. PICK e \in Nat : e = a + size
  BY <1>1
<1>3. ASSUME NEW x \in Regular(C)
      PROVE  (x < a \/ e <= x) /\ (x < a => End(C, x) <= a)
  <2>1. PICK g \in Segments(h) :
          Holds(g, x) /\ (End(C, x) = Limit(g) \/ (Holds(g, End(C, x)) /\ End(C, x) \in Regular(C)))
    BY DEF Good, Geometry
  <2>2. x \in Int /\ End(C, x) \in Int /\ g.base \in Nat /\ g.size \in Nat /\ Limit(g) = g.base + g.size
    BY <1>2 DEF Regular, End, Limit
  <2>3. g.base <= x /\ x < Limit(g) /\ End(C, x) <= Limit(g)
    BY <2>1, <2>2 DEF Holds
  <2>4. e <= g.base \/ Limit(g) <= a
    BY <1>1, <1>e
  <2> QED BY <1>1, <1>e, <2>2, <2>3, <2>4
<1>4. ASSUME NEW x \in DOMAIN C \ Regular(C)
      PROVE  x < a \/ e <= x
  <2>1. e <= x \/ End(C, x) + FootPad <= a
    BY <1>1, <1>e
  <2>2. x \in Int /\ C[x].size \in Nat \ {0}
    BY <1>2
  <2> QED BY <1>1, <2>1, <2>2 DEF End, FootPad
<1>5. ASSUME NEW g \in Segments(h), NEW x \in Int, a <= x, x < e
      PROVE  ~Holds(g, x)
  <2>1. e <= g.base \/ Limit(g) <= a
    BY <1>1, <1>e
  <2> QED BY <1>1, <1>2, <1>5, <2>1 DEF Holds, Limit
<1> QED BY <1>3, <1>4, <1>5, <1>e

\* Resized changes one record of a segment.
LEMMA ResizedFacts ==
  ASSUME NEW h, DOMAIN h = Fields, NEW seg \in Segments(h), NEW new, NEW g, g = Resized(h, seg, new)
  PROVE  /\ DOMAIN g = Fields /\ Relinked(h, g, seg, new)
         /\ g.chunk = h.chunk /\ g.top = h.top /\ g.topsize = h.topsize /\ g.dv = h.dv
         /\ g.dvsize = h.dvsize /\ g.bins = h.bins /\ g.sys = h.sys /\ g.trim = h.trim
         /\ g.checks = h.checks
<1>1. CASE seg = h.seg
  BY <1>1 DEF Resized, Relinked, Fields
<1>2. CASE seg # h.seg
  BY <1>2 DEF Resized, Relinked, Fields, Segments
<1> QED BY <1>1, <1>2

\* The segments after one record was changed.
LEMMA RelinkedFacts ==
  ASSUME NEW h, NEW B, Good(h, B), NEW g, NEW seg, NEW new, Relinked(h, g, seg, new)
  PROVE  seg \in Segments(h) /\ Segments(g) = (Segments(h) \ {seg}) \union {new}
<1>1. h.seg \notin h.linked
  BY DEF Good, Recorded
<1> QED BY <1>1 DEF Relinked, Segments

(***************************************************************************)
(* A segment is extended downwards, by one chunk.                          *)
(***************************************************************************)

\* The new memory is a used chunk right before the segment.
LEMMA ExtendingFacts ==
  ASSUME NEW h, NEW g, NEW B, NEW seg, NEW base, NEW size, NEW new,
         Extending(h, g, B, seg, base, size, new), NEW e, e = base + size
  PROVE  SpecExtending(h, g, B, seg, base, size, new, e)
<1> DEFINE C == h.chunk
           D == g.chunk
<1>1. /\ Good(h, B) /\ Clear(h, base, size) /\ seg.base = e /\ MinChunk <= size
      /\ new = [base |-> base, size |-> seg.size + size] /\ Relinked(h, g, seg, new)
      /\ D = Put(C, base, Used(size))
  BY DEF Extending
<1>2. seg \in Segments(h) /\ Segments(g) = (Segments(h) \ {seg}) \union {new}
  BY <1>1, RelinkedFacts
<1>3. base \in Nat /\ size \in Nat \ {0} /\ base + size <= Space /\ Space \in Nat
  BY <1>1, ConstantsOK DEF Clear
<1>4. /\ e \in Nat /\ base < e /\ base \in Addresses /\ size \in Sizes
  BY <1>3 DEF Addresses, Sizes
<1>5. /\ \A x \in DOMAIN C : x < base \/ e <= x
      /\ \A x \in Regular(C) : x < base => End(C, x) <= base
  BY <1>1, ClearFacts
<1>6. base \notin DOMAIN C
  BY <1>3, <1>4, <1>5
<1>7. \A f \in Segments(h) : /\ f.base \in Nat /\ f.size \in Nat \ {0} /\ Limit(f) = f.base + f.size
                             /\ f.base \in Regular(C)
  BY <1>1 DEF Good, Geometry, Limit
<1>8. /\ seg.size \in Nat \ {0} /\ new.size = seg.size + size /\ new.base = base /\ e \in Regular(C)
      /\ Limit(seg) = e + seg.size
  BY <1>1, <1>2, <1>7
<1>9. Limit(new) = Limit(seg) /\ Limit(seg) \in Nat /\ e < Limit(seg)
  <2>1. Limit(new) = base + (seg.size + size)
    BY <1>8 DEF Limit
  <2> QED BY <1>3, <1>4, <1>8, <2>1
<1>10. IsMap(C) /\ \A x \in DOMAIN C : x \in Int /\ C[x].size \in Nat \ {0}
  BY <1>1, ConstantsOK DEF Good, Headers, IsMap, Header
<1>11. SpecPut(C, base, Used(size), D)
  <2>1. Used(size) \in Header
    BY <1>4, HeaderFacts
  <2> QED BY <1>1, <1>4, <1>10, <2>1, PutSpec
<1>12. /\ IsMap(D) /\ DOMAIN D = DOMAIN C \union {base} /\ D[base] = Used(size)
       /\ \A x \in DOMAIN C : D[x] = C[x]
  BY <1>6, <1>11 DEF SpecPut
<1>13. D[base].size = size /\ D[base].cinuse /\ D[base].pinuse /\ D[base].foot = 0
  BY <1>12 DEF Used
<1>14. Regular(D) = Regular(C) \union {base} /\ DOMAIN D \ Regular(D) = DOMAIN C \ Regular(C)
  BY <1>6, <1>12, <1>13 DEF Regular, Direct
<1>15. \A x \in DOMAIN C : End(D, x) = End(C, x) /\ x \in Int /\ End(C, x) \in Int /\ x < End(C, x)
  BY <1>10, <1>12 DEF End
<1>16. End(D, base) = e
  BY <1>13 DEF End
<1>17. e = base + size
  OBVIOUS
<1>18. \A f \in Segments(h) : /\ f.base \in Nat /\ f.size \in Nat \ {0} /\ Limit(f) = f.base + f.size
                              /\ e <= f.base \/ Limit(f) <= base
  BY <1>1 DEF Good, Geometry, Limit, Clear
<1>19. seg.base = e
  BY <1>1
<1> QED BY <1>2, <1>3, <1>4, <1>5, <1>6, <1>8, <1>9, <1>10, <1>12, <1>13, <1>14, <1>15, <1>16, <1>17,
           <1>18, <1>19 DEF SpecExtending

\* The extended segment is tiled.
LEMMA ExtendingGeometry ==
  ASSUME NEW h, NEW g, NEW B, NEW seg, NEW base, NEW size, NEW new,
         Extending(h, g, B, seg, base, size, new)
  PROVE  Geometry(g.chunk, Segments(g))
<1> DEFINE C == h.chunk
           D == g.chunk
<1>e. PICK e : e = base + size
  OBVIOUS
<1>a. SpecExtending(h, g, B, seg, base, size, new, e)
  BY <1>e, ExtendingFacts
<1>b. PICK Z : Z = Segments(h)
  OBVIOUS
<1>c. PICK Y : Y = Segments(g)
  OBVIOUS
<1>0. Geometry(C, Z)
  BY <1>b DEF Extending, Good
<1>1. /\ seg \in Z /\ Y = (Z \ {seg}) \union {new}
      /\ base \in Nat /\ size \in Nat \ {0} /\ e \in Nat /\ base < e /\ e = base + size
      /\ seg.base = e /\ e \in Regular(C) /\ Limit(new) = Limit(seg) /\ new.base = base
      /\ seg.size \in Nat \ {0} /\ new.size = seg.size + size
      /\ Limit(seg) = e + seg.size /\ Limit(seg) \in Nat /\ e < Limit(seg)
  BY <1>a, <1>b, <1>c DEF SpecExtending
<1>2. /\ Regular(D) = Regular(C) \union {base} /\ DOMAIN D \ Regular(D) = DOMAIN C \ Regular(C)
      /\ \A x \in DOMAIN C : End(D, x) = End(C, x) /\ x \in Int /\ End(C, x) \in Int /\ x < End(C, x)
      /\ End(D, base) = e
      /\ \A x \in DOMAIN C : x < base \/ e <= x
      /\ \A x \in Regular(C) : x < base => End(C, x) <= base
  BY <1>a DEF SpecExtending
<1>3. \A f \in Z : /\ f.base \in Nat /\ f.size \in Nat \ {0} /\ Limit(f) = f.base + f.size
                   /\ e <= f.base \/ Limit(f) <= base
  BY <1>a, <1>b DEF SpecExtending
<1>4. new \in [base : Nat, size : Nat \ {0}]
  <2>1. new = [base |-> base, size |-> seg.size + size]
    BY DEF Extending
  <2> QED BY <1>1, <2>1
<1>5. \A f \in Y : f \in [base : Nat, size : Nat \ {0}] /\ Limit(f) <= Space /\ f.base \in Regular(D)
  <2>1. \A f \in Z : f \in [base : Nat, size : Nat \ {0}] /\ Limit(f) <= Space /\ f.base \in Regular(C)
    BY <1>0 DEF Geometry
  <2> QED BY <1>1, <1>2, <1>4, <2>1
<1>6. \A f \in Z \ {seg} : Limit(f) <= base \/ Limit(seg) <= f.base
  <2> SUFFICES ASSUME NEW f \in Z \ {seg} PROVE Limit(f) <= base \/ Limit(seg) <= f.base
    OBVIOUS
  <2>1. Limit(f) <= seg.base \/ Limit(seg) <= f.base
    BY <1>0, <1>1 DEF Geometry
  <2>2. e <= f.base \/ Limit(f) <= base
    BY <1>3
  <2>3. f.base \in Nat /\ f.size \in Nat \ {0} /\ Limit(f) = f.base + f.size
    BY <1>3
  <2> QED BY <1>1, <2>1, <2>2, <2>3
<1>7. \A f, k \in Y : f = k \/ Limit(f) <= k.base \/ Limit(k) <= f.base
  <2>1. \A f, k \in Z : f = k \/ Limit(f) <= k.base \/ Limit(k) <= f.base
    BY <1>0 DEF Geometry
  <2> QED BY <1>1, <1>6, <2>1
<1>8. \A x \in Int : Holds(seg, x) => Holds(new, x)
  BY <1>1 DEF Holds
<1>9. ASSUME NEW p \in Regular(D)
      PROVE  \E f \in Y :
               Holds(f, p) /\ (End(D, p) = Limit(f) \/ (Holds(f, End(D, p)) /\ End(D, p) \in Regular(D)))
  <2>1. CASE p = base
    <3>1. Holds(new, base) /\ Holds(new, e)
      BY <1>1 DEF Holds
    <3> QED BY <1>1, <1>2, <2>1, <3>1
  <2>2. CASE p \in Regular(C)
    <3>1. PICK f \in Z : /\ Holds(f, p)
                         /\ End(C, p) = Limit(f) \/ (Holds(f, End(C, p)) /\ End(C, p) \in Regular(C))
      BY <1>0, <2>2 DEF Geometry
    <3>2. End(D, p) = End(C, p) /\ p \in Int /\ End(C, p) \in Int
      BY <1>2, <2>2 DEF Regular
    <3>3. CASE f = seg
      BY <1>1, <1>2, <1>8, <3>1, <3>2, <3>3
    <3>4. CASE f # seg
      BY <1>1, <1>2, <3>1, <3>2, <3>4
    <3> QED BY <3>3, <3>4
  <2> QED BY <1>2, <2>1, <2>2
<1>10. ASSUME NEW p \in Regular(D), NEW q \in Regular(D), p < q
       PROVE  End(D, p) <= q
  <2>1. CASE p = base
    <3>1. q \in DOMAIN C
      BY <1>1, <1>2, <1>10, <2>1 DEF Regular
    <3> QED BY <1>1, <1>2, <1>10, <2>1, <3>1
  <2>2. CASE p \in Regular(C) /\ q = base
    <3>1. End(D, p) = End(C, p)
      BY <1>2, <2>2 DEF Regular
    <3> QED BY <1>2, <1>10, <2>2, <3>1
  <2>3. CASE p \in Regular(C) /\ q \in Regular(C)
    <3>1. End(D, p) = End(C, p)
      BY <1>2, <2>3 DEF Regular
    <3> QED BY <1>0, <1>10, <2>3, <3>1 DEF Geometry
  <2> QED BY <1>2, <2>1, <2>2, <2>3
<1>11. ASSUME NEW p \in DOMAIN D \ Regular(D)
       PROVE  /\ End(D, p) + FootPad <= Space
              /\ \A f \in Y : End(D, p) + FootPad <= f.base \/ Limit(f) <= p
              /\ \A q \in DOMAIN D \ Regular(D) : p < q => End(D, p) + FootPad <= q
  <2>1. p \in DOMAIN C \ Regular(C) /\ End(D, p) = End(C, p) /\ p \in Int /\ End(C, p) \in Int /\ p < End(C, p)
    BY <1>2
  <2>2. /\ End(C, p) + FootPad <= Space
        /\ \A f \in Z : End(C, p) + FootPad <= f.base \/ Limit(f) <= p
        /\ \A q \in DOMAIN C \ Regular(C) : p < q => End(C, p) + FootPad <= q
    BY <1>0, <2>1 DEF Geometry
  <2>3. End(C, p) + FootPad <= base \/ Limit(seg) <= p
    <3>1. End(C, p) + FootPad <= e \/ Limit(seg) <= p
      BY <1>1, <2>2
    <3>2. base + size <= p \/ End(C, p) + FootPad <= base
      BY <2>1 DEF Extending, Clear
    <3> QED BY <1>1, <2>1, <3>1, <3>2 DEF FootPad
  <2>4. \A f \in Y : End(C, p) + FootPad <= f.base \/ Limit(f) <= p
    BY <1>1, <2>2, <2>3
  <2> QED BY <1>2, <2>1, <2>2, <2>4
<1>12. Geometry(D, Y)
  BY <1>5, <1>7, <1>9, <1>10, <1>11 DEF Geometry
<1> QED BY <1>12, <1>c

\* A segment that is extended downwards by a used chunk leaves a good heap, with
\* that chunk as one more block.
LEMMA ExtendDown ==
  ASSUME NEW h, NEW g, NEW B, NEW seg, NEW base, NEW size, NEW new,
         Extending(h, g, B, seg, base, size, new)
  PROVE  /\ Good(g, B \union {base}) /\ Frame(h, g, B) /\ base \notin B
         /\ base \in Regular(g.chunk) /\ g.chunk[base].pinuse /\ g.chunk[base].size = size
         /\ End(g.chunk, base) = base + size
<1> DEFINE C == h.chunk
           D == g.chunk
<1>e. PICK e : e = base + size
  OBVIOUS
<1>a. SpecExtending(h, g, B, seg, base, size, new, e)
  BY <1>e, ExtendingFacts
<1>b. PICK Z : Z = Segments(h)
  OBVIOUS
<1>c. PICK Y : Y = Segments(g)
  OBVIOUS
<1>0. /\ Good(h, B) /\ Relinked(h, g, seg, new) /\ MinChunk <= size
      /\ DOMAIN g = Fields
      /\ g.top = h.top /\ g.topsize = h.topsize /\ g.dv = h.dv /\ g.dvsize = h.dvsize
      /\ g.bins = h.bins /\ g.sys = h.sys /\ Counters(g)
  BY DEF Extending
<1>1. /\ seg \in Z /\ Y = (Z \ {seg}) \union {new}
      /\ base \in Nat /\ size \in Nat \ {0} /\ e \in Nat /\ base < e
      /\ seg.base = e /\ Limit(new) = Limit(seg) /\ new.base = base
      /\ seg.size \in Nat \ {0} /\ new.size = seg.size + size
      /\ Limit(seg) = e + seg.size /\ Limit(seg) \in Nat /\ e < Limit(seg) /\ e = base + size
  BY <1>a, <1>b, <1>c DEF SpecExtending
<1>2. /\ base \notin DOMAIN C /\ IsMap(C)
      /\ IsMap(D) /\ DOMAIN D = DOMAIN C \union {base}
      /\ D[base].size = size /\ D[base].cinuse /\ D[base].pinuse /\ D[base].foot = 0
      /\ \A x \in DOMAIN C : D[x] = C[x]
      /\ Regular(D) = Regular(C) \union {base} /\ DOMAIN D \ Regular(D) = DOMAIN C \ Regular(C)
      /\ \A x \in DOMAIN C : End(D, x) = End(C, x) /\ x \in Int /\ End(C, x) \in Int /\ x < End(C, x)
      /\ End(D, base) = e
      /\ \A x \in DOMAIN C : x < base \/ e <= x
  BY <1>a DEF SpecExtending
<1>3. Regular(C) \subseteq DOMAIN C /\ Vacant(h) \subseteq Regular(C)
  BY DEF Regular, Vacant
<1>4. \A x \in Int : (Holds(new, x) <=> base <= x /\ x < Limit(seg)) /\ (Holds(seg, x) <=> e <= x /\ x < Limit(seg))
  BY <1>1 DEF Holds
<1>5. \A x \in DOMAIN C : Holds(new, x) <=> Holds(seg, x)
  BY <1>1, <1>2, <1>4
<1>6. Headers(D)
  <2>1. \A p \in DOMAIN C \ Regular(C) : C[p].cinuse /\ ~C[p].pinuse
    BY <1>0 DEF Good, Headers
  <2> QED BY <1>2, <2>1 DEF Headers
<1>7. Geometry(D, Y)
  BY <1>c, ExtendingGeometry
<1>8. Vacant(g) = Vacant(h)
  BY <1>0, <1>2, <1>3 DEF Vacant
<1>9. \A p \in Vacant(h) : End(C, p) \in DOMAIN C
  BY <1>0, VacantFacts DEF Regular
<1>10. Tags(g)
  <2>1. \A p \in Vacant(g) : ~D[End(D, p)].pinuse /\ D[End(D, p)].foot = D[p].size
    <3>1. \A p \in Vacant(h) : ~C[End(C, p)].pinuse /\ C[End(C, p)].foot = C[p].size
      BY <1>0 DEF Good, Tags
    <3> QED BY <1>2, <1>3, <1>8, <1>9, <3>1
  <2>2. ASSUME NEW p \in Regular(D) \ {g.top + g.topsize}, ~D[p].pinuse
        PROVE  LET q == p - D[p].foot
               IN  q \in Vacant(g) /\ D[q].size = D[p].foot /\ \A k \in Y : Holds(k, p) => Holds(k, q)
    <3>1. p \in Regular(C) /\ D[p] = C[p] /\ p \in DOMAIN C /\ p # h.top + h.topsize
      BY <1>0, <1>2, <1>3, <2>2
    <3>2. PICK q : q = p - C[p].foot
      OBVIOUS
    <3>3. q \in Vacant(h) /\ C[q].size = C[p].foot /\ \A k \in Z : Holds(k, p) => Holds(k, q)
      BY <1>0, <1>b, <2>2, <3>1, <3>2 DEF Good, Tags
    <3>4. q \in DOMAIN C
      BY <1>3, <3>3
    <3>5. \A k \in Y : Holds(k, p) => Holds(k, q)
      BY <1>1, <1>5, <3>1, <3>3, <3>4
    <3> QED BY <1>2, <1>8, <3>1, <3>2, <3>3, <3>4, <3>5
  <2> QED BY <1>c, <2>1, <2>2 DEF Tags
<1>11. TopLast(g)
  <2>1. PICK foot : foot = h.top + h.topsize
    OBVIOUS
  <2>2. /\ h.top \in Regular(C) /\ Holds(h.seg, h.top)
        /\ ~C[h.top].cinuse /\ C[h.top].size = h.topsize
        /\ foot \in Regular(C) /\ Holds(h.seg, foot)
        /\ ~C[foot].cinuse /\ C[foot].size = TopFoot
        /\ foot + TopFoot = Limit(h.seg)
    BY <1>0, <2>1 DEF Good, TopLast
  <2>3. D[h.top] = C[h.top] /\ D[foot] = C[foot] /\ h.top \in Regular(D) /\ foot \in Regular(D)
    BY <1>2, <1>3, <2>2
  <2>4. Holds(g.seg, h.top) /\ Holds(g.seg, foot) /\ Limit(g.seg) = Limit(h.seg)
    BY <1>0, <1>1, <1>3, <1>5, <2>2 DEF Relinked
  <2> QED BY <1>0, <2>1, <2>2, <2>3, <2>4 DEF TopLast
<1>12. \A k \in Z : ~Holds(k, base)
  <2>1. Clear(h, base, size)
    BY DEF Extending
  <2>2. base \in Int /\ base <= base /\ base < base + size
    BY <1>1
  <2> QED BY <1>0, <1>b, <2>1, <2>2, ClearFacts
<1>13. Holds(new, base)
  BY <1>1, <1>4
<1>14. Recorded(g)
  <2>0. /\ IsFiniteSet(h.linked) /\ h.seg \notin h.linked
        /\ \A k \in h.linked : \E sp, fence \in h.sys :
             /\ Holds(k, sp) /\ fence = End(C, sp)
             /\ End(C, fence) = Limit(k) /\ sp + TopFoot <= Limit(k)
    BY <1>0 DEF Good, Recorded
  <2>s. h.sys \subseteq DOMAIN C
    BY <1>0, <1>3 DEF Good, Kept
  <2>n. new \notin Z
    BY <1>12, <1>13
  <2>1. IsFiniteSet(g.linked)
    <3>1. IsFiniteSet((h.linked \ {seg}) \union {new})
      BY <2>0, FS_AddElement, FS_Subset
    <3> QED BY <1>0, <2>0, <3>1 DEF Relinked
  <2>2. g.seg \notin g.linked
    BY <1>0, <1>b, <2>0, <2>n DEF Relinked, Segments
  <2>3. ASSUME NEW k \in g.linked
        PROVE  \E sp, fence \in g.sys : /\ Holds(k, sp) /\ fence = End(D, sp)
                                        /\ End(D, fence) = Limit(k) /\ sp + TopFoot <= Limit(k)
    <3>1. CASE k \in h.linked
      <4>1. PICK sp \in h.sys, fence \in h.sys :
              /\ Holds(k, sp) /\ fence = End(C, sp)
              /\ End(C, fence) = Limit(k) /\ sp + TopFoot <= Limit(k)
        BY <2>0, <3>1
      <4>2. End(D, sp) = End(C, sp) /\ End(D, fence) = End(C, fence)
        BY <1>2, <2>s
      <4> QED BY <1>0, <4>1, <4>2
    <3>2. CASE k = new /\ seg \in h.linked
      <4>1. PICK sp \in h.sys, fence \in h.sys :
              /\ Holds(seg, sp) /\ fence = End(C, sp)
              /\ End(C, fence) = Limit(seg) /\ sp + TopFoot <= Limit(seg)
        BY <2>0, <3>2
      <4>2. End(D, sp) = End(C, sp) /\ End(D, fence) = End(C, fence)
        BY <1>2, <2>s
      <4>3. Holds(new, sp)
        BY <1>5, <2>s, <4>1
      <4> QED BY <1>0, <1>1, <3>2, <4>1, <4>2, <4>3
    <3> QED BY <1>0, <3>1, <3>2 DEF Relinked
  <2> QED BY <2>1, <2>2, <2>3 DEF Recorded
<1>15. Found(g)
  <2>1. \A p \in Vacant(h) : C[End(C, p)].cinuse /\ MinChunk <= C[p].size
    BY <1>0 DEF Good, Found
  <2>2. \A p \in Vacant(h) : D[End(D, p)] = C[End(C, p)] /\ D[p] = C[p]
    BY <1>2, <1>3, <1>9
  <2>3. PICK V : V = Vacant(h)
    OBVIOUS
  <2>4. FiledIn(C, V, h)
    BY <1>0, <2>3 DEF Good, Found
  <2>5. FiledIn(D, V, g)
    BY <1>0, <2>2, <2>3, <2>4, FiledSame
  <2> QED BY <1>8, <2>1, <2>2, <2>3, <2>5 DEF Found
<1>16. base \notin B
  BY <1>0, <1>2 DEF Good, Kept
<1>17. Kept(g, B \union {base})
  <2>1. /\ \A p \in DOMAIN C : C[p].cinuse <=> p \in B \union h.sys
        /\ B \subseteq DOMAIN C /\ h.sys \subseteq Regular(C) /\ B \intersect h.sys = {}
        /\ \A p \in B \intersect Regular(C) : MinChunk <= C[p].size
        /\ \A p \in Regular(C) : \A k \in Z :
             Holds(k, p) /\ End(C, p) = Limit(k) => p \in h.sys \/ p = h.top + h.topsize
    BY <1>0, <1>b DEF Good, Kept
  <2>2. \A p \in DOMAIN D : D[p].cinuse <=> p \in (B \union {base}) \union g.sys
    BY <1>0, <1>2, <2>1
  <2>3. base \notin g.sys
    BY <1>0, <1>2, <1>3, <2>1
  <2>4. \A p \in (B \union {base}) \intersect Regular(D) : MinChunk <= D[p].size
    BY <1>0, <1>2, <1>3, <2>1
  <2>5. ASSUME NEW p \in Regular(D), NEW k \in Y, Holds(k, p), End(D, p) = Limit(k)
        PROVE  p \in g.sys \/ p = g.top + g.topsize
    <3>1. CASE p = base
      <4>1. k = new
        BY <1>1, <1>12, <2>5, <3>1
      <4>2. e = Limit(seg)
        BY <1>1, <1>2, <2>5, <3>1, <4>1
      <4> QED BY <1>1, <4>2
    <3>2. CASE p \in Regular(C)
      <4>1. p \in DOMAIN C /\ End(D, p) = End(C, p)
        BY <1>2, <1>3, <3>2
      <4>2. CASE k = new
        <5>1. Holds(seg, p) /\ End(C, p) = Limit(seg)
          BY <1>1, <1>5, <2>5, <4>1, <4>2
        <5> QED BY <1>0, <1>1, <2>1, <3>2, <5>1
      <4>3. CASE k \in Z
        BY <1>0, <2>1, <2>5, <3>2, <4>1, <4>3
      <4> QED BY <1>1, <4>2, <4>3
    <3> QED BY <1>2, <3>1, <3>2
  <2>6. B \union {base} \subseteq DOMAIN D /\ g.sys \subseteq Regular(D) /\ (B \union {base}) \intersect g.sys = {}
    BY <1>0, <1>2, <2>1, <2>3
  <2> QED BY <1>c, <2>2, <2>4, <2>5, <2>6 DEF Kept
<1>18. Good(g, B \union {base})
  BY <1>0, <1>6, <1>7, <1>10, <1>11, <1>14, <1>15, <1>17, <1>c DEF Good
<1>19. Frame(h, g, B)
  <2>1. B \subseteq DOMAIN C
    BY <1>0 DEF Good, Kept
  <2> QED BY <1>2, <2>1 DEF Frame
<1> QED BY <1>2, <1>16, <1>18, <1>19, <1>e

\* The tail of a block becomes a free chunk, with the free chunk behind it.
LEMMA SplitOffFacts ==
  ASSUME NEW h, NEW g, NEW B, NEW S, NEW p, NEW q, NEW b, SplitOff(h, g, B, S, p, q, b)
  PROVE  Cut(h, g, B, p, q)
<1> DEFINE C == h.chunk
           D == g.chunk
<1>m. MinChunk \in Nat \ {0}
  BY ConstantsOK
<1>0. /\ Good(h, B) /\ p \in B /\ p \in Regular(C) /\ Span(h, p, b, S) /\ S \intersect h.sys = {}
      /\ B \intersect S = {p} /\ h.top \notin S /\ C[b].cinuse
      /\ q \in Int /\ p + MinChunk <= q /\ q + MinChunk <= b
      /\ DOMAIN g = Fields /\ Counters(g) /\ SameSegments(h, g) /\ g.top = h.top /\ g.topsize = h.topsize
      /\ FiledIn(D, (Vacant(h) \ S) \union {q}, g)
  BY DEF SplitOff
<1>1. /\ IsMap(D) /\ DOMAIN D = (DOMAIN C \ S) \union {p, q}
      /\ D[p].size = q - p /\ D[p].cinuse /\ (D[p].pinuse <=> C[p].pinuse) /\ D[p].foot = C[p].foot
      /\ D[q] = Unused(b - q)
      /\ SameChunk(C[b], D[b]) /\ ~D[b].pinuse /\ D[b].foot = b - q
      /\ \A x \in DOMAIN C \ S : x # b => D[x] = C[x]
  BY DEF SplitOff
<1>2. p \in DOMAIN C /\ b \in DOMAIN C /\ S = {x \in DOMAIN C : p <= x /\ x < b}
  BY <1>0 DEF Regular, Span
<1>3. p \in Int /\ b \in Int
  BY <1>0, <1>2, BlockFacts
<1>4. p < q /\ q < b /\ p # q /\ b - q \in Nat
  BY <1>0, <1>3, <1>m
<1>5. D[q].size = b - q /\ ~D[q].cinuse /\ D[q].pinuse /\ D[q].foot = 0
  BY <1>1 DEF Unused
<1>6. q # h.top
  <2>1. h.top \in DOMAIN C
    BY <1>0 DEF Good, TopLast, Regular
  <2>2. q \in DOMAIN C => q \in S
    BY <1>0, <1>2, <1>3, <1>4
  <2> QED BY <1>0, <2>1, <2>2
<1>7. SplitInto(C, D, S, p, q, b)
  <2>1. D[b].foot # Direct
    BY <1>1, <1>4 DEF Direct
  <2> QED BY <1>1, <1>5, <2>1 DEF SplitInto
<1>8. TopMoved(h, g, S, q, b)
  BY <1>0 DEF TopMoved
<1>9. FiledIn(D, (Vacant(h) \ S) \union Between(g, p, q), g)
  <2>1. Between(g, p, q) = {q}
    BY <1>0, <1>1, <1>5, <1>6 DEF Between
  <2> QED BY <1>0, <2>1
<1>10. SplitChange(h, g, B, S, p, q, b)
  <2>1. q + MinChunk <= b /\ (D[b].pinuse <=> D[q].cinuse) /\ D[b].foot = b - q /\ C[b].cinuse
    BY <1>0, <1>1, <1>5
  <2> QED BY <1>0, <1>4, <1>7, <1>8, <1>9, <2>1 DEF SplitChange
<1>11. Owner(g, B, S, p, q, B)
  BY <1>0, <1>1, <1>5 DEF Owner
<1>12. /\ Good(g, B) /\ Frame(h, g, B \ S)
       /\ p \in Regular(D) /\ D[p].size = q - p
  BY <1>10, <1>11, SplitFacts
<1>13. B \ S = B \ {p}
  BY <1>0
<1> QED BY <1>12, <1>13 DEF Cut

(***************************************************************************)
(* prepend_alloc.                                                          *)
(***************************************************************************)

\* prepend_alloc as the extension by a used chunk, k, that is cut at q.
LEMMA PrependingFacts ==
  ASSUME NEW h, NEW B, NEW seg, NEW base, NEW size, NEW nb,
         Prepending(h, B, seg, base, size, nb),
         NEW k, k = Grown(h, seg, base, size),
         NEW e, e = seg.base, NEW q, q = base + nb
  PROVE  SpecPrepending(h, B, seg, base, size, nb, k, e, q)
<1> DEFINE C == k.chunk
<1>m. MinChunk \in Nat \ {0} /\ Space \in Nat
  BY ConstantsOK
<1>0. /\ Good(h, B) /\ Clear(h, base, size) /\ seg \in Segments(h) /\ e = base + size
      /\ nb \in Nat /\ MinChunk <= nb /\ nb + MinChunk <= size
  BY DEF Prepending
<1>1. base \in Nat /\ size \in Nat \ {0} /\ base + size <= Space
  BY <1>0 DEF Clear
<1>new. PICK new : new = ExtendedDown(seg, base, size)
  OBVIOUS
<1>r. PICK r : r = Resized(h, seg, new)
  OBVIOUS
<1>2. DOMAIN h = Fields /\ Counters(h) /\ IsMap(h.chunk)
  BY <1>0 DEF Good, Headers
<1>3. /\ DOMAIN r = Fields /\ Relinked(h, r, seg, new)
      /\ r.chunk = h.chunk /\ r.top = h.top /\ r.topsize = h.topsize /\ r.dv = h.dv
      /\ r.dvsize = h.dvsize /\ r.bins = h.bins /\ r.sys = h.sys /\ r.trim = h.trim
      /\ r.checks = h.checks
  BY <1>0, <1>2, <1>r, ResizedFacts
<1>4. k = [r EXCEPT !.chunk = Put(@, base, Used(size))]
  BY <1>new, <1>r DEF Grown
<1>5. /\ DOMAIN k = Fields /\ k.seg = r.seg /\ k.linked = r.linked
      /\ C = Put(h.chunk, base, Used(size)) /\ k.top = h.top /\ k.topsize = h.topsize /\ k.dv = h.dv
      /\ k.dvsize = h.dvsize /\ k.bins = h.bins /\ k.sys = h.sys /\ k.trim = h.trim
      /\ k.checks = h.checks
  BY <1>3, <1>4 DEF Fields
<1>6. Extending(h, k, B, seg, base, size, new)
  <2>1. new = [base |-> base, size |-> seg.size + size]
    BY <1>new DEF ExtendedDown
  <2>2. Relinked(h, k, seg, new)
    BY <1>3, <1>5 DEF Relinked
  <2>3. MinChunk <= size /\ seg.base = base + size
    BY <1>0, <1>1, <1>m
  <2>4. Counters(k)
    BY <1>2, <1>5 DEF Counters
  <2> QED BY <1>0, <1>5, <2>1, <2>2, <2>3, <2>4 DEF Extending
<1>7. /\ Good(k, B \union {base}) /\ Frame(h, k, B) /\ base \notin B
      /\ base \in Regular(C) /\ C[base].pinuse /\ C[base].size = size
      /\ End(C, base) = e
  <2>1. /\ Good(k, B \union {base}) /\ Frame(h, k, B) /\ base \notin B
        /\ base \in Regular(C) /\ C[base].pinuse /\ C[base].size = size
        /\ End(C, base) = base + size
    BY <1>6, ExtendDown
  <2> QED BY <1>0, <2>1
<1>8. SpecBlock(k, B \union {base}, base, e)
  BY <1>7, BlockSpec
<1>9. /\ base \notin Vacant(k) /\ e \in Int /\ e \in Addresses /\ e \in DOMAIN C /\ e \in Regular(C)
      /\ C[e].foot # Direct /\ IsMap(C) /\ base \in DOMAIN C /\ C[base].cinuse
      /\ base < e /\ base # e /\ base \in Addresses
      /\ Span(k, base, e, {base}) /\ {base} \intersect k.sys = {} /\ Counters(k) /\ k.top # base
  BY <1>8 DEF SpecBlock
<1>10. /\ q \in Int /\ q \in Addresses /\ nb \in Sizes /\ nb = q - base /\ size - nb = e - q
       /\ q = base + nb /\ e - q \in Sizes /\ base + MinChunk <= q /\ q + MinChunk <= e
       /\ base < q /\ q < e /\ base # q /\ q # e
  BY <1>0, <1>1, <1>m DEF Addresses, Sizes
<1>11. base \notin DOMAIN h.chunk
  <2>1. base < base + size /\ ~(base < base) /\ ~(base + size <= base)
    BY <1>1
  <2> QED BY <1>0, <2>1, ClearFacts
<1>12. q \notin DOMAIN C
  <2>1. q \in DOMAIN C => q \in {base}
    BY <1>1, <1>9, <1>10 DEF Span
  <2> QED BY <1>10, <2>1
<1>13. DOMAIN C = DOMAIN h.chunk \union {base} /\ \A x \in DOMAIN h.chunk : C[x] = h.chunk[x]
  <2>1. C = Put(h.chunk, base, Used(size))
    BY <1>5
  <2> QED BY <1>11, <2>1 DEF Put
<1>14. C[base].foot = 0
  <2>1. C[base] = Used(size)
    <3>1. C = Put(h.chunk, base, Used(size))
      BY <1>5
    <3> QED BY <3>1 DEF Put
  <2> QED BY <2>1 DEF Used
<1>15. e \in DOMAIN h.chunk /\ C[e] = h.chunk[e] /\ q \notin DOMAIN h.chunk /\ base # h.top
  BY <1>5, <1>9, <1>12, <1>13
<1>16. base \in Int /\ e = End(C, base)
  BY <1>1, <1>7
<1> QED BY <1>2, <1>5, <1>7, <1>9, <1>10, <1>11, <1>12, <1>14, <1>15, <1>16 DEF SpecPrepending

\* prepend_alloc writes the header of the front first.
LEMMA FrontFacts ==
  ASSUME NEW h, NEW B, NEW seg, NEW base, NEW size, NEW nb, Prepending(h, B, seg, base, size, nb),
         NEW k, k = Grown(h, seg, base, size), NEW q, q = base + nb,
         NEW g, g = Front(h, seg, base, size, nb)
  PROVE  SpecFront(k, g, base, q)
<1> DEFINE C == k.chunk
           G == g.chunk
<1>e. PICK e : e = seg.base
  OBVIOUS
<1>a. SpecPrepending(h, B, seg, base, size, nb, k, e, q)
  BY <1>e, PrependingFacts
<1>r. PICK r : r = Resized(h, seg, ExtendedDown(seg, base, size))
  OBVIOUS
<1>1. /\ k = [r EXCEPT !.chunk = Put(@, base, Used(size))]
      /\ g = [r EXCEPT !.chunk = SetUsed(@, base, nb)]
  BY <1>r DEF Grown, Front
<1>2. DOMAIN h = Fields /\ seg \in Segments(h)
  BY DEF Prepending, Good
<1>3. DOMAIN r = Fields /\ r.chunk = h.chunk
  BY <1>2, <1>r, ResizedFacts
<1>4. /\ DOMAIN g = Fields /\ g.seg = k.seg /\ g.linked = k.linked /\ g.sys = k.sys /\ g.trim = k.trim
      /\ g.checks = k.checks /\ g.top = k.top
      /\ g.topsize = k.topsize /\ g.dv = k.dv /\ g.dvsize = k.dvsize /\ g.bins = k.bins
      /\ G = SetUsed(h.chunk, base, nb)
  BY <1>1, <1>3 DEF Fields
<1>5. /\ C = Put(h.chunk, base, Used(size)) /\ Counters(k) /\ base \in Addresses
      /\ nb \in Sizes /\ nb = q - base /\ IsMap(h.chunk)
  BY <1>a DEF SpecPrepending
<1>6. SpecUsed(h.chunk, base, nb, G)
  BY <1>4, <1>5, SetUsedFacts
<1>7. /\ IsMap(G) /\ DOMAIN G = DOMAIN h.chunk \union {base} /\ G[base] = Used(nb)
      /\ \A x \in DOMAIN h.chunk : x # base => G[x] = h.chunk[x]
  BY <1>6 DEF SpecUsed
<1>8. G[base].size = q - base /\ G[base].cinuse /\ G[base].pinuse /\ G[base].foot = 0
  BY <1>5, <1>7 DEF Used
<1>9. /\ DOMAIN C = DOMAIN h.chunk \union {base}
      /\ \A x \in DOMAIN h.chunk : x # base => C[x] = h.chunk[x]
  <2>1. C = Put(h.chunk, base, Used(size))
    BY <1>5
  <2> QED BY <2>1 DEF Put
<1>10. Counters(g) /\ SameSegments(k, g)
  BY <1>4, <1>5 DEF Counters, SameSegments
<1> QED BY <1>4, <1>7, <1>8, <1>9, <1>10 DEF SpecFront

\* Blocks that keep their size twice keep their size.
LEMMA FrameTrans ==
  ASSUME NEW h, NEW k, NEW r, NEW S, Frame(h, k, S), Frame(k, r, S)
  PROVE  Frame(h, r, S)
  BY DEF Frame

\* The top is not the designated victim.
LEMMA TopNotDv ==
  ASSUME NEW h, NEW B, Good(h, B)
  PROVE  /\ h.top # h.dv /\ h.top # None
         /\ h.dv = None \/ (h.dv \in Vacant(h) /\ h.dvsize = h.chunk[h.dv].size)
<1>1. h.dv = None \/ (h.dv \in Vacant(h) /\ h.dvsize = h.chunk[h.dv].size)
  BY DEF Good, Found, FiledIn
<1>2. SpecTop(h, B, h.top + h.topsize)
  BY TopFacts
<1> QED BY <1>1, <1>2 DEF SpecTop

PrependedTop(h, g, e, q, qsize) ==
  [g EXCEPT !.top = q, !.topsize = @ + qsize,
            !.chunk = Put(Without(@, {e}), q, Unused(h.topsize + qsize))]
PrependedDv(h, g, e, q, qsize) ==
  [g EXCEPT !.dv = q, !.dvsize = @ + qsize,
            !.chunk = SetUnused(Without(@, {e}), q, h.dvsize + qsize)]
PrependedUsed(g, q, qsize) ==
  Bin([g EXCEPT !.chunk = SetFree(@, q, qsize)], q, qsize)
PrependedFree(g, e, q, qsize, old) ==
  Bin([Unbin(g, e, old) EXCEPT !.chunk = SetFree(Without(@, {e}), q, qsize + old)], q, qsize + old)

PrependAt(h, g, e, q, qsize, old) ==
  CASE e = h.top -> PrependedTop(h, g, e, q, qsize)
    [] e = h.dv -> PrependedDv(h, g, e, q, qsize)
    [] g.chunk[e].cinuse /\ e \notin {h.top, h.dv} -> PrependedUsed(g, q, qsize)
    [] OTHER -> PrependedFree(g, e, q, qsize, old)

\* Prepend with the values of its local definitions.
LEMMA PrependDef ==
  ASSUME NEW h, NEW seg, NEW base, NEW size, NEW nb, NEW e, e = seg.base,
         NEW g, g = Front(h, seg, base, size, nb), NEW q, q = base + nb, NEW qsize, qsize = size - nb,
         NEW old, old = g.chunk[e].size
  PROVE  Prepend(h, seg, base, size, nb) = PrependAt(h, g, e, q, qsize, old)
<1>1. Prepend(h, seg, base, size, nb) =
        PrependAt(h, Front(h, seg, base, size, nb), seg.base, base + nb, size - nb,
                  Front(h, seg, base, size, nb).chunk[seg.base].size)
  BY Zenon DEF Prepend, Front, PrependAt, PrependedTop, PrependedDv, PrependedUsed, PrependedFree
<1> QED BY <1>1

\* The four cases of prepend_alloc.
LEMMA PrependCases ==
  ASSUME NEW h, h.top # h.dv, NEW g, NEW e, NEW q, NEW qsize, NEW old,
         NEW r, r = PrependAt(h, g, e, q, qsize, old)
  PROVE  /\ e = h.top => r = PrependedTop(h, g, e, q, qsize)
         /\ e # h.top /\ e = h.dv => r = PrependedDv(h, g, e, q, qsize)
         /\ e # h.top /\ e # h.dv /\ g.chunk[e].cinuse => r = PrependedUsed(g, q, qsize)
         /\ e # h.top /\ e # h.dv /\ ~g.chunk[e].cinuse => r = PrependedFree(g, e, q, qsize, old)
  BY DEF PrependAt

\* The segment started with the top, which grows downwards.
LEMMA PrependTop ==
  ASSUME NEW h, NEW B, NEW seg, NEW base, NEW size, NEW nb, Prepending(h, B, seg, base, size, nb),
         NEW e, e = seg.base, e = h.top,
         NEW g, g = Front(h, seg, base, size, nb), NEW q, q = base + nb, NEW qsize, qsize = size - nb,
         NEW r, r = PrependedTop(h, g, e, q, qsize)
  PROVE  Serves(h, B, r, base, nb)
<1>k. PICK k : k = Grown(h, seg, base, size)
  OBVIOUS
<1> DEFINE C == k.chunk
           G == g.chunk
           D == r.chunk
<1>a. SpecPrepending(h, B, seg, base, size, nb, k, e, q)
  BY <1>k, PrependingFacts
<1>b. SpecFront(k, g, base, q)
  BY <1>k, FrontFacts
<1>1. /\ Good(k, B \union {base}) /\ Frame(h, k, B) /\ base \notin B
      /\ k.top = h.top /\ k.topsize = h.topsize
      /\ base \in Regular(C) /\ base \in DOMAIN C
      /\ C[base].pinuse /\ C[base].foot = 0
      /\ base \in Int /\ e \in Int /\ e = End(C, base) /\ e \in DOMAIN C /\ base # e
      /\ q \in Int /\ q \in Addresses /\ nb = q - base /\ size - nb = e - q
      /\ base + MinChunk <= q /\ base < q /\ q < e /\ base # q /\ q # e /\ q \notin DOMAIN C
  BY <1>a DEF SpecPrepending
<1>2. /\ DOMAIN g = Fields /\ Counters(g) /\ SameSegments(k, g) /\ g.top = k.top
      /\ g.topsize = k.topsize /\ g.dv = k.dv /\ g.dvsize = k.dvsize /\ g.bins = k.bins
      /\ IsMap(G) /\ DOMAIN G = DOMAIN C
      /\ G[base].size = q - base /\ G[base].cinuse /\ G[base].pinuse /\ G[base].foot = 0
      /\ \A x \in DOMAIN C : x # base => G[x] = C[x]
  BY <1>b DEF SpecFront
<1>u. PICK u : u = h.topsize
  OBVIOUS
<1>f. PICK foot : foot = k.top + k.topsize
  OBVIOUS
<1>c. SpecTop(k, B \union {base}, foot)
  BY <1>1, <1>f, TopFacts
<1>3. /\ u \in Nat \ {0} /\ e = k.top /\ foot = e + u /\ foot \in Int /\ foot \in Addresses
  BY <1>1, <1>c, <1>u DEF SpecTop
<1>t. PICK t : t = foot - q
  OBVIOUS
<1>4. t \in Sizes /\ t = u + (e - q) /\ q < foot
  BY <1>1, <1>3, <1>t, ConstantsOK DEF Addresses, Sizes
<1>5. r = [g EXCEPT !.top = q, !.topsize = t, !.chunk = Put(Without(G, {e}), q, Unused(t))]
  <2>2. r = [g EXCEPT !.top = q, !.topsize = @ + qsize,
                      !.chunk = Put(Without(@, {e}), q, Unused(h.topsize + qsize))]
    BY DEF PrependedTop
  <2>3. h.topsize + qsize = t /\ g.topsize + qsize = t
    BY <1>1, <1>2, <1>4, <1>u
  <2> QED BY <1>2, <2>2, <2>3 DEF Fields
<1>6. /\ DOMAIN r = Fields /\ r.top = q /\ r.topsize = t /\ D = Put(Without(G, {e}), q, Unused(t))
      /\ r.dv = k.dv /\ r.dvsize = k.dvsize /\ r.bins = k.bins /\ SameSegments(k, r) /\ Counters(r)
  BY <1>2, <1>5 DEF Fields, SameSegments, Counters
<1>w. PICK W : W = Without(G, {e})
  OBVIOUS
<1>7. IsMap(W) /\ DOMAIN W = DOMAIN C \ {e} /\ \A x \in DOMAIN C \ {e} : W[x] = G[x]
  <2>1. SpecWithout(G, {e}, W)
    BY <1>2, <1>w, WithoutSpec
  <2> QED BY <1>2, <2>1 DEF SpecWithout
<1>8. IsMap(D) /\ DOMAIN D = DOMAIN W \union {q} /\ D[q] = Unused(t) /\ \A x \in DOMAIN W : x # q => D[x] = W[x]
  <2>1. Unused(t) \in Header
    BY <1>4, HeaderFacts
  <2>2. SpecPut(W, q, Unused(t), D)
    BY <1>1, <1>6, <1>7, <1>w, <2>1, PutSpec
  <2> QED BY <2>2 DEF SpecPut
<1>h. PICK B1 : B1 = B \union {base}
  OBVIOUS
<1>9. IntoTop(k, r, B1, base, q, foot)
  <2>1. DOMAIN D = (DOMAIN C \ {e}) \union {q} /\ D[base] = G[base]
    BY <1>1, <1>7, <1>8
  <2>2. \A x \in DOMAIN C : x # e /\ x # q /\ x # base => D[x] = C[x]
    BY <1>2, <1>7, <1>8
  <2>3. /\ D[base].size = q - base /\ D[base].cinuse /\ (D[base].pinuse <=> C[base].pinuse)
        /\ D[base].foot = C[base].foot
    BY <1>1, <1>2, <2>1
  <2>4. D[q] = Unused(foot - q) /\ r.topsize = foot - q
    BY <1>6, <1>8, <1>t
  <2> QED BY <1>1, <1>3, <1>4, <1>6, <1>8, <1>f, <1>h, <2>1, <2>2, <2>3, <2>4, Zenon DEF IntoTop
<1>c0. Cut(k, r, B1, base, q)
  BY <1>9, IntoTopFacts
<1>10. /\ Good(r, B1) /\ Frame(k, r, B1 \ {base})
       /\ base \in Regular(D) /\ D[base].size = q - base
  BY <1>c0 DEF Cut
<1>11. Frame(h, r, B)
  <2>1. B1 \ {base} = B /\ Frame(h, k, B)
    BY <1>1, <1>h
  <2>2. Frame(k, r, B)
    BY <1>10, <2>1
  <2> QED BY <2>1, <2>2, FrameTrans
<1> QED BY <1>1, <1>10, <1>11, <1>h DEF Serves

\* The segment started with a free chunk, which grows downwards.
LEMMA PrependJoined ==
  ASSUME NEW h, NEW B, NEW seg, NEW base, NEW size, NEW nb, Prepending(h, B, seg, base, size, nb),
         NEW e, e = seg.base, NEW k, k = Grown(h, seg, base, size), e \in Vacant(k),
         NEW g, g = Front(h, seg, base, size, nb), NEW q, q = base + nb,
         NEW b, b = End(k.chunk, e), NEW r, Joined(k, g, r, e, q, b)
  PROVE  Serves(h, B, r, base, nb)
<1> DEFINE C == k.chunk
           G == g.chunk
           D == r.chunk
<1>a. SpecPrepending(h, B, seg, base, size, nb, k, e, q)
  BY PrependingFacts
<1>b. SpecFront(k, g, base, q)
  BY FrontFacts
<1>m. MinChunk \in Nat \ {0}
  BY ConstantsOK
<1>1. /\ Good(k, B \union {base}) /\ Frame(h, k, B) /\ base \notin B
      /\ base \in Regular(C) /\ base \in DOMAIN C /\ base \notin Vacant(k)
      /\ C[base].pinuse /\ C[base].foot = 0
      /\ base \in Int /\ e \in Int /\ e = End(C, base) /\ e \in DOMAIN C /\ base # e
      /\ q \in Int /\ nb = q - base
      /\ base + MinChunk <= q /\ q + MinChunk <= e /\ base < q /\ q < e /\ q \notin DOMAIN C
      /\ Span(k, base, e, {base}) /\ {base} \intersect k.sys = {}
      /\ base # h.top /\ k.top = h.top
  BY <1>a DEF SpecPrepending
<1>2. /\ DOMAIN G = DOMAIN C
      /\ G[base].size = q - base /\ G[base].cinuse /\ G[base].pinuse /\ G[base].foot = 0
      /\ \A x \in DOMAIN C : x # base => G[x] = C[x]
  BY <1>b DEF SpecFront
<1>h. PICK B1 : B1 = B \union {base}
  OBVIOUS
<1>g. Good(k, B1) /\ base \in B1
  BY <1>1, <1>h
<1>c. SpecVacant(k, B1, e, b)
  BY <1>g, VacantSpec
<1>3. /\ e \notin B1 /\ k.top # e /\ e < b /\ b \in Int /\ b \in DOMAIN C /\ C[b].cinuse
      /\ Span(k, e, b, {e}) /\ {e} \intersect k.sys = {} /\ e # b
  BY <1>c, Zenon DEF SpecVacant
<1>4. /\ DOMAIN r = Fields /\ Counters(r) /\ SameSegments(k, r) /\ r.top = k.top /\ r.topsize = k.topsize
      /\ IsMap(D) /\ DOMAIN D = (DOMAIN G \ {e}) \union {q} /\ D[q] = Unused(b - q)
      /\ SameChunk(G[b], D[b]) /\ ~D[b].pinuse /\ D[b].foot = b - q
      /\ \A x \in DOMAIN G \ {e} : x # q /\ x # b => D[x] = G[x]
      /\ FiledIn(D, (Vacant(k) \ {e}) \union {q}, r)
  BY DEF Joined
<1>s. PICK S : S = {base} \union {e}
  OBVIOUS
<1>5. Span(k, base, b, S)
  BY <1>1, <1>3, <1>g, <1>s, SpanTwo
<1>6. b # base /\ base # q /\ q + MinChunk <= b
  BY <1>1, <1>3, <1>m
<1>7. /\ DOMAIN D = (DOMAIN C \ S) \union {base, q} /\ D[base] = G[base]
      /\ G[b] = C[b]
  <2>1. DOMAIN D = (DOMAIN C \ S) \union {base, q}
    BY <1>1, <1>2, <1>4, <1>s
  <2>2. D[base] = G[base]
    BY <1>1, <1>2, <1>4, <1>6
  <2> QED BY <1>2, <1>3, <1>6, <2>1, <2>2
<1>8. \A x \in DOMAIN C \ S : x # b => D[x] = C[x]
  BY <1>1, <1>2, <1>4, <1>s
<1>9. Vacant(k) \ S = Vacant(k) \ {e}
  BY <1>1, <1>s
<1>10. SplitOff(k, r, B1, S, base, q, b)
  <2>1. S \intersect k.sys = {} /\ B1 \intersect S = {base} /\ k.top \notin S
    BY <1>1, <1>3, <1>g, <1>s
  <2>2. /\ D[base].size = q - base /\ D[base].cinuse /\ (D[base].pinuse <=> C[base].pinuse)
        /\ D[base].foot = C[base].foot /\ SameChunk(C[b], D[b])
    BY <1>1, <1>2, <1>4, <1>7
  <2>3. FiledIn(D, (Vacant(k) \ S) \union {q}, r)
    BY <1>4, <1>9
  <2> QED BY <1>1, <1>3, <1>4, <1>5, <1>6, <1>7, <1>8, <1>g, <2>1, <2>2, <2>3 DEF SplitOff
<1>c0. Cut(k, r, B1, base, q)
  BY <1>10, SplitOffFacts
<1>11. Good(r, B1) /\ Frame(k, r, B1 \ {base}) /\ base \in Regular(D) /\ D[base].size = q - base
  BY <1>c0 DEF Cut
<1>12. Frame(h, r, B)
  <2>1. B1 \ {base} = B
    BY <1>1, <1>h
  <2>2. Frame(k, r, B)
    BY <1>11, <2>1
  <2> QED BY <1>1, <2>2, FrameTrans
<1> QED BY <1>1, <1>11, <1>12, <1>h DEF Serves

\* The segment started with the designated victim.
LEMMA PrependDv ==
  ASSUME NEW h, NEW B, NEW seg, NEW base, NEW size, NEW nb, Prepending(h, B, seg, base, size, nb),
         NEW e, e = seg.base, e = h.dv,
         NEW g, g = Front(h, seg, base, size, nb), NEW q, q = base + nb, NEW qsize, qsize = size - nb,
         NEW r, r = PrependedDv(h, g, e, q, qsize)
  PROVE  Serves(h, B, r, base, nb)
<1>k. PICK k : k = Grown(h, seg, base, size)
  OBVIOUS
<1> DEFINE C == k.chunk
           G == g.chunk
           D == r.chunk
<1>a. SpecPrepending(h, B, seg, base, size, nb, k, e, q)
  BY <1>k, PrependingFacts
<1>b. SpecFront(k, g, base, q)
  BY <1>k, FrontFacts
<1>1. /\ Good(k, B \union {base}) /\ base # e /\ base \in DOMAIN C /\ base \notin Vacant(k)
      /\ k.dv = h.dv /\ k.dvsize = h.dvsize /\ e \in DOMAIN C /\ e \in Int
      /\ q \in Int /\ q \in Addresses /\ size - nb = e - q
      /\ q < e /\ base < q /\ q \notin DOMAIN C /\ e \in Addresses
  BY <1>a DEF SpecPrepending
<1>2. /\ DOMAIN g = Fields /\ Counters(g) /\ SameSegments(k, g) /\ g.top = k.top
      /\ g.topsize = k.topsize /\ g.dv = k.dv /\ g.dvsize = k.dvsize /\ g.bins = k.bins
      /\ IsMap(G) /\ DOMAIN G = DOMAIN C
      /\ \A x \in DOMAIN C : x # base => G[x] = C[x]
  BY <1>b DEF SpecFront
<1>h. PICK B1 : B1 = B \union {base}
  OBVIOUS
<1>g. Good(k, B1)
  BY <1>1, <1>h
<1>3. e \in Vacant(k) /\ h.dvsize = C[e].size
  <2>1. None \notin DOMAIN C
    BY <1>1, <1>g, BlockFacts
  <2> QED BY <1>1, <1>g, <2>1, TopNotDv
<1>x. PICK b : b = End(C, e)
  OBVIOUS
<1>c. SpecVacant(k, B1, e, b)
  BY <1>3, <1>g, <1>x, VacantSpec
<1>4. /\ e < b /\ b \in Int /\ b \in Addresses /\ b \in DOMAIN C /\ e # b /\ b # q
      /\ ~C[b].pinuse /\ C[b].cinuse /\ C[e].size = b - e /\ b \notin Vacant(k)
  <2>1. /\ e < b /\ b \in Int /\ b \in Addresses /\ b \in DOMAIN C /\ e # b /\ b = e + C[e].size
        /\ ~C[b].pinuse /\ C[b].cinuse /\ C[e].size \in Nat \ {0}
    BY <1>c DEF SpecVacant
  <2>2. C[e].size = b - e
    BY <1>1, <2>1
  <2> QED BY <1>1, <2>1, <2>2, Zenon DEF Vacant
<1>t. PICK t : t = b - q
  OBVIOUS
<1>5. t \in Sizes /\ t = (b - e) + (e - q) /\ b = q + t
  BY <1>1, <1>4, <1>t, ConstantsOK DEF Addresses, Sizes
<1>w. PICK W : W = Without(G, {e})
  OBVIOUS
<1>6. /\ DOMAIN r = Fields /\ r.top = k.top /\ r.topsize = k.topsize /\ D = SetUnused(W, q, t)
      /\ r.dv = q /\ r.dvsize = t /\ r.bins = k.bins /\ SameSegments(k, r) /\ Counters(r)
  <2>1. r = [g EXCEPT !.dv = q, !.dvsize = @ + qsize,
                      !.chunk = SetUnused(Without(@, {e}), q, h.dvsize + qsize)]
    BY DEF PrependedDv
  <2>2. h.dvsize + qsize = t /\ g.dvsize + qsize = t
    BY <1>1, <1>2, <1>3, <1>4, <1>5
  <2>3. r = [g EXCEPT !.dv = q, !.dvsize = t, !.chunk = SetUnused(W, q, t)]
    BY <1>2, <1>w, <2>1, <2>2 DEF Fields
  <2> QED BY <1>2, <2>3 DEF Fields, SameSegments, Counters
<1>7. IsMap(W) /\ DOMAIN W = DOMAIN C \ {e} /\ \A x \in DOMAIN C \ {e} : W[x] = G[x]
  <2>1. SpecWithout(G, {e}, W)
    BY <1>2, <1>w, WithoutSpec
  <2> QED BY <1>2, <2>1 DEF SpecWithout
<1>8. SpecUnused(W, q, t, b, D)
  BY <1>1, <1>4, <1>5, <1>6, <1>7, SetUnusedFacts
<1>9. /\ IsMap(D) /\ DOMAIN D = DOMAIN W \union {q} /\ D[q] = Unused(t)
      /\ SameChunk(W[b], D[b]) /\ (D[b].pinuse <=> W[b].pinuse) /\ D[b].foot = t
      /\ \A x \in DOMAIN W : x # q /\ x # b => D[x] = W[x]
  BY <1>8 DEF SpecUnused
<1>10. /\ DOMAIN D = (DOMAIN G \ {e}) \union {q} /\ D[q] = Unused(b - q)
       /\ W[b] = G[b] /\ D[b].foot = b - q
  BY <1>2, <1>4, <1>7, <1>9, <1>t
<1>11. ~D[b].pinuse /\ SameChunk(G[b], D[b])
  <2>1. b # base
    BY <1>1, <1>4, <1>a DEF SpecPrepending
  <2> QED BY <1>2, <1>4, <1>9, <1>10, <2>1
<1>12. \A x \in DOMAIN G \ {e} : x # q /\ x # b => D[x] = G[x]
  BY <1>2, <1>7, <1>9
<1>13. FiledIn(D, (Vacant(k) \ {e}) \union {q}, r)
  <2>d. PICK d : d = NoDv(k)
    OBVIOUS
  <2>v. PICK V : V = Vacant(k) \ {e}
    OBVIOUS
  <2>1. None \notin DOMAIN C /\ DOMAIN k = Fields /\ FiledIn(C, Vacant(k), k) /\ Vacant(k) \subseteq DOMAIN C
    BY <1>1, <1>g, BlockFacts DEF Good, Found, Vacant, Regular
  <2>2. FiledIn(C, V, d) /\ d.dv = None /\ DOMAIN d = Fields
    BY <1>1, <2>1, <2>d, <2>v, NoDvFacts DEF SameMemory
  <2>3. \A x \in V : D[x].size = C[x].size
    <3>1. \A x \in V : x \in DOMAIN C /\ x # e /\ x # base /\ x # b
      BY <1>1, <1>4, <2>1, <2>v
    <3>2. \A x \in V : x # q
      BY <1>1, <3>1
    <3> QED BY <1>2, <1>12, <3>1, <3>2
  <2>4. FiledIn(D, V, d)
    BY <2>2, <2>3, FiledSame
  <2>5. d.bins = r.bins
    BY <1>6, <2>1, <2>d DEF NoDv, Fields
  <2>6. q \notin V /\ q # None /\ None \notin V
    BY <1>1, <2>1, <2>v, ConstantsOK
  <2>7. D[q].size = t
    BY <1>9 DEF Unused
  <2>t. PICK T : T = V \union {q}
    OBVIOUS
  <2>8. FiledIn(D, T, r)
    BY <1>1, <1>6, <2>1, <2>2, <2>4, <2>5, <2>6, <2>7, <2>t, SetDvFacts
  <2> QED BY <2>8, <2>t, <2>v
<1>14. Joined(k, g, r, e, q, b)
  BY <1>6, <1>9, <1>10, <1>11, <1>12, <1>13 DEF Joined
<1> QED BY <1>3, <1>14, <1>k, <1>x, PrependJoined

\* The segment started with a chunk in use.
LEMMA PrependUsed ==
  ASSUME NEW h, NEW B, NEW seg, NEW base, NEW size, NEW nb, Prepending(h, B, seg, base, size, nb),
         NEW e, e = seg.base,
         NEW g, g = Front(h, seg, base, size, nb), g.chunk[e].cinuse,
         NEW q, q = base + nb, NEW qsize, qsize = size - nb,
         NEW r, r = PrependedUsed(g, q, qsize)
  PROVE  Serves(h, B, r, base, nb)
<1>k. PICK k : k = Grown(h, seg, base, size)
  OBVIOUS
<1> DEFINE C == k.chunk
           G == g.chunk
           D == r.chunk
<1>a. SpecPrepending(h, B, seg, base, size, nb, k, e, q)
  BY <1>k, PrependingFacts
<1>b. SpecFront(k, g, base, q)
  BY <1>k, FrontFacts
<1>1. /\ Good(k, B \union {base}) /\ Frame(h, k, B) /\ base \notin B
      /\ base \in Regular(C) /\ base # e /\ base \in DOMAIN C /\ base \notin Vacant(k)
      /\ C[base].pinuse /\ C[base].foot = 0 /\ k.top = h.top /\ base # h.top
      /\ e \in DOMAIN C /\ e \in Int /\ base \in Int /\ nb = q - base
      /\ q \in Int /\ q \in Addresses /\ qsize = e - q /\ e - q \in Sizes
      /\ base + MinChunk <= q /\ q + MinChunk <= e /\ q # e /\ base # q
      /\ q < e /\ base < q /\ q \notin DOMAIN C /\ e \in Addresses
      /\ Span(k, base, e, {base}) /\ {base} \intersect k.sys = {}
  BY <1>a DEF SpecPrepending
<1>2. /\ DOMAIN g = Fields /\ Counters(g) /\ SameSegments(k, g) /\ g.top = k.top
      /\ g.topsize = k.topsize /\ g.dv = k.dv /\ g.dvsize = k.dvsize /\ g.bins = k.bins
      /\ IsMap(G) /\ DOMAIN G = DOMAIN C
      /\ G[base].size = q - base /\ G[base].cinuse /\ G[base].pinuse /\ G[base].foot = 0
      /\ \A x \in DOMAIN C : x # base => G[x] = C[x]
  BY <1>b DEF SpecFront
<1>h. PICK B1 : B1 = B \union {base}
  OBVIOUS
<1>g. Good(k, B1) /\ base \in B1
  BY <1>1, <1>h
<1>f. PICK f : f = [g EXCEPT !.chunk = SetFree(@, q, qsize)]
  OBVIOUS
<1>3. /\ DOMAIN f = Fields /\ f.top = k.top /\ f.topsize = k.topsize /\ f.chunk = SetFree(G, q, qsize)
      /\ f.dv = k.dv /\ f.dvsize = k.dvsize /\ f.bins = k.bins /\ SameSegments(k, f) /\ Counters(f)
  BY <1>2, <1>f DEF Fields, SameSegments, Counters
<1>d. PICK E : E = f.chunk
  OBVIOUS
<1>4. SpecFree(G, q, qsize, e, E)
  <2>1. e \in DOMAIN G /\ e = q + qsize /\ qsize \in Sizes
    BY <1>1, <1>2
  <2> QED BY <1>1, <1>2, <1>3, <1>d, <2>1, SetFreeFacts
<1>5. /\ IsMap(E) /\ DOMAIN E = DOMAIN G \union {q} /\ E[q] = Unused(qsize)
      /\ SameChunk(G[e], E[e]) /\ ~E[e].pinuse /\ E[e].foot = qsize
      /\ \A x \in DOMAIN G : x # q /\ x # e => E[x] = G[x]
  BY <1>4 DEF SpecFree
<1>v. PICK V : V = Vacant(k)
  OBVIOUS
<1>6. V \subseteq DOMAIN C /\ None \notin DOMAIN C /\ FiledIn(C, V, k) /\ e \notin V
  <2>1. ~(e \in V)
    BY <1>1, <1>2, <1>v DEF Vacant
  <2> QED BY <1>1, <1>g, <1>v, <2>1, BlockFacts DEF Good, Found, Vacant, Regular
<1>7. FiledIn(E, V, f)
  <2>1. \A x \in V : x \in DOMAIN C /\ x # e /\ x # base /\ x # q
    BY <1>1, <1>6, <1>v
  <2>2. \A x \in V : E[x].size = C[x].size
    BY <1>2, <1>5, <2>1
  <2> QED BY <1>3, <1>6, <2>2, FiledSame
<1>t. PICK T : T = V \union {q}
  OBVIOUS
<1>8. SameMemory(f, r) /\ FiledIn(E, T, r)
  <2>1. r = Bin(f, q, qsize)
    BY <1>f DEF PrependedUsed
  <2>2. q \notin V /\ q # None /\ qsize = E[q].size
    BY <1>1, <1>5, <1>6, ConstantsOK DEF Unused
  <2> QED BY <1>3, <1>7, <1>t, <2>1, <2>2, BinFacts
<1>9. /\ DOMAIN r = Fields /\ r.top = k.top /\ r.topsize = k.topsize /\ D = E
      /\ SameSegments(k, r) /\ Counters(r)
  BY <1>3, <1>8, <1>d DEF SameMemory, SameSegments, Counters
<1>s. PICK S : S = {base}
  OBVIOUS
<1>10. SplitOff(k, r, B1, S, base, q, e)
  <2>1. S \intersect k.sys = {} /\ B1 \intersect S = {base} /\ k.top \notin S /\ Span(k, base, e, S)
    BY <1>1, <1>g, <1>s
  <2>2. DOMAIN D = (DOMAIN C \ S) \union {base, q} /\ D[base] = G[base] /\ G[e] = C[e]
    BY <1>1, <1>2, <1>5, <1>9, <1>s
  <2>3. /\ D[base].size = q - base /\ D[base].cinuse /\ (D[base].pinuse <=> C[base].pinuse)
        /\ D[base].foot = C[base].foot
    BY <1>1, <1>2, <2>2
  <2>4. SameChunk(C[e], D[e]) /\ ~D[e].pinuse /\ D[e].foot = e - q /\ C[e].cinuse /\ D[q] = Unused(e - q)
    BY <1>1, <1>5, <1>9, <2>2
  <2>5. \A x \in DOMAIN C \ S : x # e => D[x] = C[x]
    BY <1>1, <1>2, <1>5, <1>9, <1>s
  <2>6. FiledIn(D, (Vacant(k) \ S) \union {q}, r)
    <3>1. (Vacant(k) \ S) \union {q} = T
      BY <1>1, <1>s, <1>t, <1>v
    <3> QED BY <1>8, <1>9, <3>1
  <2> QED BY <1>1, <1>5, <1>9, <1>g, <2>1, <2>2, <2>3, <2>4, <2>5, <2>6, Zenon DEF SplitOff
<1>c0. Cut(k, r, B1, base, q)
  BY <1>10, SplitOffFacts
<1>11. Good(r, B1) /\ Frame(k, r, B1 \ {base}) /\ base \in Regular(D) /\ D[base].size = q - base
  BY <1>c0 DEF Cut
<1>12. Frame(h, r, B)
  <2>1. B1 \ {base} = B
    BY <1>1, <1>h
  <2>2. Frame(k, r, B)
    BY <1>11, <2>1
  <2> QED BY <1>1, <2>2, FrameTrans
<1> QED BY <1>1, <1>11, <1>12, <1>h DEF Serves

\* No segment starts with the fake chunk behind the top.
LEMMA BaseNotFoot ==
  ASSUME NEW h, NEW B, Good(h, B), NEW seg \in Segments(h)
  PROVE  seg.base # h.top + h.topsize
<1>1. SUFFICES ASSUME seg.base = h.top + h.topsize PROVE FALSE
  OBVIOUS
<1>2. /\ Holds(h.seg, h.top) /\ Holds(h.seg, h.top + h.topsize)
      /\ h.top \in Int /\ h.topsize \in Nat \ {0}
  <2>1. SpecTop(h, B, h.top + h.topsize)
    BY TopFacts
  <2>2. h.top \in Int /\ h.topsize \in Nat \ {0}
    BY <2>1 DEF SpecTop
  <2> QED BY <2>2 DEF Good, TopLast
<1>3. /\ \A f \in Segments(h) : f.base \in Nat /\ f.size \in Nat \ {0}
      /\ \A f, k \in Segments(h) : f = k \/ Limit(f) <= k.base \/ Limit(k) <= f.base
  BY DEF Good, Geometry
<1>4. h.seg \in Segments(h)
  BY DEF Segments
<1>5. seg = h.seg
  BY <1>1, <1>2, <1>3, <1>4 DEF Holds, Limit
<1> QED BY <1>1, <1>2, <1>3, <1>4, <1>5 DEF Holds

\* The segment started with a chunk of a bin.
LEMMA PrependFree ==
  ASSUME NEW h, NEW B, NEW seg, NEW base, NEW size, NEW nb, Prepending(h, B, seg, base, size, nb),
         NEW e, e = seg.base, e # h.top, e # h.dv,
         NEW g, g = Front(h, seg, base, size, nb), ~g.chunk[e].cinuse,
         NEW q, q = base + nb, NEW qsize, qsize = size - nb, NEW old, old = g.chunk[e].size,
         NEW r, r = PrependedFree(g, e, q, qsize, old)
  PROVE  Serves(h, B, r, base, nb)
<1>k. PICK k : k = Grown(h, seg, base, size)
  OBVIOUS
<1> DEFINE C == k.chunk
           G == g.chunk
           D == r.chunk
<1>a. SpecPrepending(h, B, seg, base, size, nb, k, e, q)
  BY <1>k, PrependingFacts
<1>b. SpecFront(k, g, base, q)
  BY <1>k, FrontFacts
<1>1. /\ Good(k, B \union {base}) /\ base # e /\ base \in DOMAIN C /\ base \notin Vacant(k)
      /\ k.dv = h.dv /\ k.dvsize = h.dvsize /\ k.top = h.top /\ k.topsize = h.topsize
      /\ e \in DOMAIN C /\ e \in Int /\ e \in Regular(C)
      /\ q \in Int /\ q \in Addresses /\ qsize = e - q
      /\ q < e /\ base < q /\ q \notin DOMAIN C /\ e \in Addresses
  BY <1>a DEF SpecPrepending
<1>2. /\ DOMAIN g = Fields /\ Counters(g) /\ SameSegments(k, g) /\ g.top = k.top
      /\ g.topsize = k.topsize /\ g.dv = k.dv /\ g.dvsize = k.dvsize /\ g.bins = k.bins
      /\ IsMap(G) /\ DOMAIN G = DOMAIN C
      /\ \A x \in DOMAIN C : x # base => G[x] = C[x]
  BY <1>b DEF SpecFront
<1>h. PICK B1 : B1 = B \union {base}
  OBVIOUS
<1>g. Good(k, B1)
  BY <1>1, <1>h
<1>3. e \in Vacant(k) /\ G[e] = C[e]
  <2>1. e # h.top + h.topsize
    BY BaseNotFoot DEF Prepending
  <2>2. G[e] = C[e]
    BY <1>1, <1>2
  <2> QED BY <1>1, <2>1, <2>2 DEF Vacant
<1>x. PICK b : b = End(C, e)
  OBVIOUS
<1>c. SpecVacant(k, B1, e, b)
  BY <1>3, <1>g, <1>x, VacantSpec
<1>4. /\ e < b /\ b \in Int /\ b \in Addresses /\ b \in DOMAIN C /\ e # b /\ b # q
      /\ ~C[b].pinuse /\ C[b].cinuse /\ old = b - e /\ b \notin Vacant(k)
  <2>1. /\ e < b /\ b \in Int /\ b \in Addresses /\ b \in DOMAIN C /\ e # b /\ b = e + C[e].size
        /\ ~C[b].pinuse /\ C[b].cinuse /\ C[e].size \in Nat \ {0}
    BY <1>c DEF SpecVacant
  <2>2. C[e].size = b - e
    BY <1>1, <2>1
  <2> QED BY <1>1, <1>3, <2>1, <2>2, Zenon DEF Vacant
<1>t. PICK t : t = b - q
  OBVIOUS
<1>5. t \in Sizes /\ t = qsize + old /\ b = q + t
  BY <1>1, <1>4, <1>t, ConstantsOK DEF Addresses, Sizes
<1>w. PICK W : W = Without(G, {e})
  OBVIOUS
<1>u. PICK u : u = Unbin(g, e, old)
  OBVIOUS
<1>f. PICK f : f = [u EXCEPT !.chunk = SetFree(Without(@, {e}), q, t)]
  OBVIOUS
<1>v. PICK V : V = Vacant(k) \ {e}
  OBVIOUS
<1>n. /\ None \notin DOMAIN C /\ DOMAIN k = Fields /\ FiledIn(C, Vacant(k), k)
      /\ Vacant(k) \subseteq DOMAIN C /\ old = C[e].size
  BY <1>1, <1>3, <1>g, BlockFacts DEF Good, Found, Vacant, Regular
<1>6. SameMemory(g, u) /\ u.dv = g.dv /\ FiledIn(C, V, u)
  <2>1. FiledIn(C, Vacant(k), g)
    BY <1>2, <1>n, FiledSame
  <2> QED BY <1>1, <1>2, <1>3, <1>n, <1>u, <1>v, <2>1, UnbinFacts
<1>7. /\ DOMAIN u = Fields /\ u.chunk = G /\ u.top = k.top /\ u.topsize = k.topsize
      /\ SameSegments(k, u) /\ Counters(u)
  BY <1>2, <1>6 DEF SameMemory, SameSegments, Counters
<1>8. /\ DOMAIN f = Fields /\ f.chunk = SetFree(W, q, t) /\ f.top = k.top /\ f.topsize = k.topsize
      /\ SameSegments(k, f) /\ Counters(f) /\ f.bins = u.bins /\ f.dv = u.dv /\ f.dvsize = u.dvsize
  BY <1>7, <1>f, <1>w DEF Fields, SameSegments, Counters
<1>9. r = Bin(f, q, t)
  BY <1>5, <1>f, <1>u DEF PrependedFree
<1>10. IsMap(W) /\ DOMAIN W = DOMAIN C \ {e} /\ \A x \in DOMAIN C \ {e} : W[x] = G[x]
  <2>1. SpecWithout(G, {e}, W)
    BY <1>2, <1>w, WithoutSpec
  <2> QED BY <1>2, <2>1 DEF SpecWithout
<1>d. PICK E : E = f.chunk
  OBVIOUS
<1>11. SpecFree(W, q, t, b, E)
  BY <1>1, <1>4, <1>5, <1>8, <1>10, <1>d, SetFreeFacts
<1>12. /\ IsMap(E) /\ DOMAIN E = DOMAIN W \union {q} /\ E[q] = Unused(t)
       /\ SameChunk(W[b], E[b]) /\ ~E[b].pinuse /\ E[b].foot = t
       /\ \A x \in DOMAIN W : x # q /\ x # b => E[x] = W[x]
  BY <1>11 DEF SpecFree
<1>13. /\ DOMAIN E = (DOMAIN G \ {e}) \union {q} /\ E[q] = Unused(b - q)
       /\ SameChunk(G[b], E[b]) /\ E[b].foot = b - q
  BY <1>2, <1>4, <1>10, <1>12, <1>t
<1>14. \A x \in DOMAIN G \ {e} : x # q /\ x # b => E[x] = G[x]
  BY <1>2, <1>10, <1>12
<1>15. FiledIn(E, V, f)
  <2>1. \A x \in V : x \in DOMAIN C /\ x # e /\ x # base /\ x # b /\ x # q
    BY <1>1, <1>4, <1>n, <1>v
  <2>2. \A x \in V : E[x].size = C[x].size
    BY <1>2, <1>14, <2>1
  <2> QED BY <1>6, <1>8, <2>2, FiledSame
<1>s. PICK T : T = V \union {q}
  OBVIOUS
<1>16. SameMemory(f, r) /\ FiledIn(E, T, r)
  <2>1. q \notin V /\ q # None /\ t = E[q].size
    BY <1>1, <1>12, <1>n, <1>v, ConstantsOK DEF Unused
  <2>2. DOMAIN f = Fields /\ r = Bin(f, q, t) /\ FiledIn(E, V, f) /\ T = V \union {q}
    BY <1>8, <1>9, <1>15, <1>s
  <2> QED BY <2>1, <2>2, BinFacts
<1>17. /\ DOMAIN r = Fields /\ r.top = k.top /\ r.topsize = k.topsize /\ D = E
       /\ SameSegments(k, r) /\ Counters(r)
  BY <1>8, <1>16, <1>d DEF SameMemory, SameSegments, Counters
<1>18. FiledIn(D, (Vacant(k) \ {e}) \union {q}, r)
  BY <1>16, <1>17, <1>s, <1>v
<1>19. Joined(k, g, r, e, q, b)
  BY <1>12, <1>13, <1>14, <1>17, <1>18, Zenon DEF Joined
<1> QED BY <1>3, <1>19, <1>k, <1>x, PrependJoined

\* prepend_alloc serves the request.
LEMMA PrependFacts ==
  ASSUME NEW h, NEW B, NEW seg, NEW base, NEW size, NEW nb, Prepending(h, B, seg, base, size, nb),
         NEW r, r = Prepend(h, seg, base, size, nb)
  PROVE  Serves(h, B, r, base, nb)
<1>g. PICK g : g = Front(h, seg, base, size, nb)
  OBVIOUS
<1>e. PICK e : e = seg.base
  OBVIOUS
<1>q. PICK q : q = base + nb
  OBVIOUS
<1>s. PICK qsize : qsize = size - nb
  OBVIOUS
<1>o. PICK old : old = g.chunk[e].size
  OBVIOUS
<1>1. r = PrependAt(h, g, e, q, qsize, old)
  BY <1>e, <1>g, <1>o, <1>q, <1>s, PrependDef
<1>2. h.top # h.dv
  BY TopNotDv DEF Prepending
<1>3. /\ e = h.top => r = PrependedTop(h, g, e, q, qsize)
      /\ e # h.top /\ e = h.dv => r = PrependedDv(h, g, e, q, qsize)
      /\ e # h.top /\ e # h.dv /\ g.chunk[e].cinuse => r = PrependedUsed(g, q, qsize)
      /\ e # h.top /\ e # h.dv /\ ~g.chunk[e].cinuse => r = PrependedFree(g, e, q, qsize, old)
  BY <1>1, <1>2, PrependCases
<1>4. CASE e = h.top
  BY <1>3, <1>4, <1>e, <1>g, <1>q, <1>s, PrependTop
<1>5. CASE e # h.top /\ e = h.dv
  BY <1>3, <1>5, <1>e, <1>g, <1>q, <1>s, PrependDv
<1>6. CASE e # h.top /\ e # h.dv /\ g.chunk[e].cinuse
  BY <1>3, <1>6, <1>e, <1>g, <1>q, <1>s, PrependUsed
<1>7. CASE e # h.top /\ e # h.dv /\ ~g.chunk[e].cinuse
  BY <1>3, <1>7, <1>e, <1>g, <1>o, <1>q, <1>s, PrependFree
<1> QED BY <1>4, <1>5, <1>6, <1>7

(***************************************************************************)
(* A segment gets another tail, or is new.                                 *)
(***************************************************************************)

\* The chunks of a segment with another tail.
LEMMA RetiledFacts ==
  ASSUME NEW C, NEW D, NEW Z, NEW Y, NEW seg, NEW a, NEW lim, NEW T,
         Retiled(C, D, Z, Y, seg, a, lim, T)
  PROVE  SpecRetiled(C, D, seg, a, lim, T)
<1>0. /\ IsMap(C) /\ Geometry(C, Z) /\ seg \in Z /\ a \in Regular(C) /\ Holds(seg, a)
      /\ Room(C, Z, seg, lim) /\ Tiles(D, T, a, lim)
      /\ DOMAIN D = {x \in DOMAIN C : x < a \/ Limit(seg) <= x} \union T
      /\ \A x \in DOMAIN C : x < a \/ Limit(seg) <= x => D[x] = C[x]
  BY DEF Retiled
<1>1. IsMap(D) /\ a \in T /\ T \subseteq Regular(D) /\ lim \in Int /\ a < lim
  BY <1>0 DEF Tiles
<1>2. /\ \A x \in DOMAIN C : x \in Int /\ C[x].size \in Nat \ {0}
      /\ \A x \in DOMAIN D : x \in Int /\ D[x].size \in Nat \ {0}
  BY <1>0, <1>1, ConstantsOK DEF IsMap, Header
<1>3. seg.base \in Nat /\ seg.size \in Nat \ {0} /\ Limit(seg) \in Int /\ Limit(seg) = seg.base + seg.size
  BY <1>0 DEF Geometry, Limit
<1>4. a \in Int /\ seg.base <= a /\ a < Limit(seg)
  BY <1>0, <1>2, <1>3 DEF Holds, Regular
<1>5. \A x \in DOMAIN C \ Regular(C) : x < a \/ Limit(seg) <= x
  <2> SUFFICES ASSUME NEW x \in DOMAIN C \ Regular(C) PROVE x < a \/ Limit(seg) <= x
    OBVIOUS
  <2>1. End(C, x) + FootPad <= seg.base \/ Limit(seg) <= x
    BY <1>0 DEF Geometry
  <2>2. x \in Int /\ C[x].size \in Nat
    BY <1>2
  <2> QED BY <1>3, <1>4, <2>1, <2>2 DEF End, FootPad
<1>6. Regular(D) = {x \in Regular(C) : x < a \/ Limit(seg) <= x} \union T
  BY <1>0, <1>1 DEF Regular
<1>7. DOMAIN D \ Regular(D) = DOMAIN C \ Regular(C)
  BY <1>0, <1>1, <1>5 DEF Regular
<1>8. /\ \A x \in DOMAIN C \ Regular(C) : End(D, x) = End(C, x)
      /\ \A x \in Regular(C) : x < a \/ Limit(seg) <= x => End(D, x) = End(C, x)
  BY <1>0, <1>5 DEF End, Regular
<1>9. \A x \in Regular(C) : x < a => End(C, x) <= a
  BY <1>0 DEF Geometry
<1>10. ASSUME NEW x \in DOMAIN C, Limit(seg) <= x PROVE lim <= x
  <2>1. x \in Int
    BY <1>2
  <2>2. CASE x \in Regular(C)
    <3>1. PICK f \in Z : Holds(f, x)
      BY <1>0, <2>2 DEF Geometry
    <3>2. f # seg
      BY <1>3, <1>10, <2>1, <3>1 DEF Holds
    <3>3. Limit(f) <= seg.base \/ lim <= f.base
      BY <1>0, <3>2 DEF Room
    <3>4. f.base \in Nat /\ f.size \in Nat \ {0} /\ Limit(f) = f.base + f.size
      BY <1>0 DEF Geometry, Limit
    <3>5. f.base <= x /\ x < Limit(f)
      BY <3>1, <3>4 DEF Holds
    <3> QED BY <1>1, <1>3, <1>4, <1>10, <2>1, <3>3, <3>4, <3>5
  <2>3. CASE x \notin Regular(C)
    <3>1. End(C, x) + FootPad <= seg.base \/ lim <= x
      BY <1>0, <2>3 DEF Room
    <3>2. C[x].size \in Nat
      BY <1>2
    <3> QED BY <1>3, <1>4, <1>10, <2>1, <3>1, <3>2 DEF End, FootPad
  <2> QED BY <2>2, <2>3
<1> QED BY <1>1, <1>2, <1>3, <1>4, <1>6, <1>7, <1>8, <1>9, <1>10 DEF SpecRetiled

\* The segments are tiled when the tail of one is.
LEMMA RetiledGeometry ==
  ASSUME NEW C, NEW D, NEW Z, NEW Y, NEW seg, NEW a, NEW lim, NEW T,
         Retiled(C, D, Z, Y, seg, a, lim, T)
  PROVE  Geometry(D, Y)
<1>0. /\ Geometry(C, Z) /\ seg \in Z /\ a \in Regular(C) /\ Holds(seg, a)
      /\ Room(C, Z, seg, lim) /\ Tiles(D, T, a, lim)
  BY DEF Retiled
<1>new. PICK new : new = [base |-> seg.base, size |-> lim - seg.base]
  OBVIOUS
<1>1. Y = (Z \ {seg}) \union {new}
  BY <1>new DEF Retiled
<1>2. SpecRetiled(C, D, seg, a, lim, T)
  BY RetiledFacts
<1>3. /\ Regular(D) = {x \in Regular(C) : x < a \/ Limit(seg) <= x} \union T
      /\ DOMAIN D \ Regular(D) = DOMAIN C \ Regular(C)
      /\ \A x \in DOMAIN C \ Regular(C) : End(D, x) = End(C, x)
      /\ \A x \in Regular(C) : x < a \/ Limit(seg) <= x => End(D, x) = End(C, x)
      /\ \A x \in Regular(C) : x < a => End(C, x) <= a
      /\ \A x \in DOMAIN C : Limit(seg) <= x => lim <= x
  BY <1>2 DEF SpecRetiled
<1>4. /\ \A x \in DOMAIN C : x \in Int /\ C[x].size \in Nat \ {0}
      /\ \A x \in DOMAIN D : x \in Int /\ D[x].size \in Nat \ {0}
      /\ a \in Int /\ lim \in Int /\ a < lim /\ seg.base \in Int /\ Limit(seg) \in Int
      /\ seg.base <= a /\ a < Limit(seg)
  BY <1>2 DEF SpecRetiled
<1>5. /\ a \in T /\ T \subseteq Regular(D)
      /\ \A x \in T : a <= x /\ x < lim /\ (End(D, x) = lim \/ End(D, x) \in T)
      /\ \A x, y \in T : x < y => End(D, x) <= y
  BY <1>0 DEF Tiles
<1>6. \A f \in Z : f.base \in Nat /\ f.size \in Nat \ {0} /\ Limit(f) = f.base + f.size
  BY <1>0 DEF Geometry, Limit
<1>7. new \in [base : Nat, size : Nat \ {0}] /\ new.base = seg.base /\ Limit(new) = lim /\ lim <= Space
  <2>1. new.base = seg.base /\ new.size = lim - seg.base
    BY <1>new
  <2>2. lim - seg.base \in Nat \ {0} /\ seg.base \in Nat /\ seg.base + (lim - seg.base) = lim
    BY <1>0, <1>4, <1>6
  <2> QED BY <1>0, <1>new, <2>1, <2>2 DEF Limit, Room
<1>8. seg.base \in Regular(D)
  <2>1. seg.base \in Regular(C)
    BY <1>0 DEF Geometry
  <2>2. seg.base = a \/ seg.base < a
    BY <1>4
  <2> QED BY <1>3, <1>5, <2>1, <2>2
<1>9. \A f \in Z \ {seg} : f.base \in Regular(D) /\ f.base \in Int
  <2> SUFFICES ASSUME NEW f \in Z \ {seg} PROVE f.base \in Regular(D) /\ f.base \in Int
    OBVIOUS
  <2>1. f.base \in Regular(C)
    BY <1>0 DEF Geometry
  <2>2. Limit(f) <= seg.base \/ Limit(seg) <= f.base
    BY <1>0 DEF Geometry
  <2>3. f.base \in Nat /\ f.size \in Nat \ {0} /\ Limit(f) = f.base + f.size
    BY <1>6
  <2>4. f.base < a \/ Limit(seg) <= f.base
    BY <1>4, <2>2, <2>3
  <2> QED BY <1>3, <2>1, <2>3, <2>4
<1>10. \A f \in Y : f \in [base : Nat, size : Nat \ {0}] /\ Limit(f) <= Space /\ f.base \in Regular(D)
  <2>1. \A f \in Z : f \in [base : Nat, size : Nat \ {0}] /\ Limit(f) <= Space
    BY <1>0 DEF Geometry
  <2> QED BY <1>1, <1>7, <1>8, <1>9, <2>1
<1>11. \A f, k \in Y : f = k \/ Limit(f) <= k.base \/ Limit(k) <= f.base
  <2>1. \A f, k \in Z : f = k \/ Limit(f) <= k.base \/ Limit(k) <= f.base
    BY <1>0 DEF Geometry
  <2>2. \A f \in Z \ {seg} : Limit(f) <= new.base \/ Limit(new) <= f.base
    BY <1>0, <1>7 DEF Room
  <2> QED BY <1>1, <2>1, <2>2
<1>12. ASSUME NEW p \in Regular(D)
       PROVE  \E f \in Y :
                Holds(f, p) /\ (End(D, p) = Limit(f) \/ (Holds(f, End(D, p)) /\ End(D, p) \in Regular(D)))
  <2>h. \A x \in Int : Holds(new, x) <=> seg.base <= x /\ x < lim
    <3>1. new.base + new.size = lim /\ new.base = seg.base
      BY <1>7 DEF Limit
    <3> QED BY <3>1 DEF Holds
  <2>1. CASE p \in T
    <3>1. a <= p /\ p < lim /\ p \in Int
      BY <1>4, <1>5, <2>1 DEF Regular
    <3>2. Holds(new, p)
      BY <1>4, <2>h, <3>1
    <3>3. CASE End(D, p) = lim
      BY <1>1, <1>7, <3>2, <3>3
    <3>4. CASE End(D, p) \in T
      <4>1. End(D, p) \in Int /\ a <= End(D, p) /\ End(D, p) < lim
        BY <1>4, <1>5, <3>4 DEF Regular
      <4>2. Holds(new, End(D, p))
        BY <1>4, <2>h, <4>1
      <4> QED BY <1>1, <1>5, <3>2, <3>4, <4>2
    <3> QED BY <1>5, <2>1, <3>3, <3>4
  <2>2. CASE p \in Regular(C) /\ (p < a \/ Limit(seg) <= p)
    <3>1. PICK f \in Z : /\ Holds(f, p)
                         /\ End(C, p) = Limit(f) \/ (Holds(f, End(C, p)) /\ End(C, p) \in Regular(C))
      BY <1>0, <2>2 DEF Geometry
    <3>2. PICK e : e = End(C, p)
      OBVIOUS
    <3>3. p \in Int /\ e \in Int /\ p < e /\ End(D, p) = e
      <4>1. p \in Int /\ C[p].size \in Nat \ {0}
        BY <1>4, <2>2 DEF Regular
      <4>2. End(D, p) = e
        BY <1>3, <2>2, <3>2
      <4> QED BY <3>2, <4>1, <4>2 DEF End
    <3>4. CASE f = seg
      <4>1. p < a /\ seg.base <= p
        BY <1>4, <1>6, <2>2, <3>1, <3>3, <3>4 DEF Holds, Limit
      <4>2. e <= a
        BY <1>3, <2>2, <3>2, <4>1
      <4>3. e # Limit(seg) /\ e \in Regular(C)
        BY <1>4, <3>1, <3>2, <3>3, <3>4, <4>2
      <4>4. e \in Regular(D)
        <5>1. e = a \/ e < a
          BY <1>4, <3>3, <4>2
        <5> QED BY <1>3, <1>5, <4>3, <5>1
      <4>5. Holds(new, p) /\ Holds(new, e)
        BY <1>4, <2>h, <3>3, <4>1, <4>2
      <4> QED BY <1>1, <3>3, <4>4, <4>5
    <3>5. CASE f # seg
      <4>1. Limit(f) <= seg.base \/ Limit(seg) <= f.base
        BY <1>0, <3>5 DEF Geometry
      <4>2. f.base \in Nat /\ f.size \in Nat \ {0} /\ Limit(f) = f.base + f.size
        BY <1>6
      <4>3. CASE e = Limit(f)
        BY <1>1, <3>1, <3>3, <3>5, <4>3
      <4>4. CASE Holds(f, e) /\ e \in Regular(C)
        <5>1. e < a \/ Limit(seg) <= e
          BY <1>4, <3>3, <4>1, <4>2, <4>4 DEF Holds
        <5>2. e \in Regular(D)
          BY <1>3, <4>4, <5>1
        <5> QED BY <1>1, <3>1, <3>3, <3>5, <4>4, <5>2
      <4> QED BY <3>1, <3>2, <4>3, <4>4
    <3> QED BY <3>4, <3>5
  <2> QED BY <1>3, <2>1, <2>2
<1>13. ASSUME NEW p \in Regular(D), NEW q \in Regular(D), p < q
       PROVE  End(D, p) <= q
  <2>0. p \in Int /\ q \in Int /\ End(D, p) \in Int
    BY <1>4 DEF Regular, End
  <2>1. CASE p \in T /\ q \in T
    BY <1>5, <1>13, <2>1
  <2>2. CASE p \in T /\ q \in Regular(C) /\ (q < a \/ Limit(seg) <= q)
    <3>1. End(D, p) <= lim
      <4>1. End(D, p) = lim \/ End(D, p) \in T
        BY <1>5, <2>2
      <4>2. End(D, p) \in T => End(D, p) < lim
        BY <1>5
      <4> QED BY <1>4, <2>0, <4>1, <4>2
    <3>2. a <= p /\ q \in DOMAIN C
      BY <1>5, <2>2 DEF Regular
    <3>3. lim <= q
      BY <1>3, <1>4, <1>13, <2>0, <2>2, <3>2
    <3> QED BY <1>4, <2>0, <3>1, <3>3
  <2>3. CASE p \in Regular(C) /\ (p < a \/ Limit(seg) <= p) /\ q \in T
    <3>1. a <= q /\ q < lim /\ p \in DOMAIN C
      BY <1>5, <2>3 DEF Regular
    <3>2. p < a
      BY <1>3, <1>4, <1>13, <2>0, <2>3, <3>1
    <3>3. End(D, p) <= a
      BY <1>3, <2>3, <3>2
    <3> QED BY <1>4, <2>0, <3>1, <3>3
  <2>4. CASE /\ p \in Regular(C) /\ (p < a \/ Limit(seg) <= p)
             /\ q \in Regular(C) /\ (q < a \/ Limit(seg) <= q)
    <3>1. End(D, p) = End(C, p)
      BY <1>3, <2>4
    <3>2. End(C, p) <= q
      BY <1>0, <1>13, <2>4 DEF Geometry
    <3> QED BY <3>1, <3>2
  <2> QED BY <1>3, <2>1, <2>2, <2>3, <2>4
<1>14. ASSUME NEW p \in DOMAIN D \ Regular(D)
       PROVE  /\ End(D, p) + FootPad <= Space
              /\ \A f \in Y : End(D, p) + FootPad <= f.base \/ Limit(f) <= p
              /\ \A q \in DOMAIN D \ Regular(D) : p < q => End(D, p) + FootPad <= q
  <2>1. p \in DOMAIN C \ Regular(C) /\ End(D, p) = End(C, p)
    BY <1>3
  <2>2. /\ End(C, p) + FootPad <= Space
        /\ \A f \in Z : End(C, p) + FootPad <= f.base \/ Limit(f) <= p
        /\ \A q \in DOMAIN C \ Regular(C) : p < q => End(C, p) + FootPad <= q
    BY <1>0, <2>1 DEF Geometry
  <2>3. End(C, p) + FootPad <= new.base \/ Limit(new) <= p
    BY <1>0, <1>7, <2>1 DEF Room
  <2>4. \A f \in Y : End(C, p) + FootPad <= f.base \/ Limit(f) <= p
    BY <1>1, <2>2, <2>3
  <2> QED BY <1>3, <2>1, <2>2, <2>4
<1> QED BY <1>10, <1>11, <1>12, <1>13, <1>14 DEF Geometry

\* The chunks of a new segment and those there were.
LEMMA AddedFacts ==
  ASSUME NEW C, NEW D, NEW Z, NEW Y, NEW base, NEW lim, NEW T, Added(C, D, Z, Y, base, lim, T)
  PROVE  SpecAdded(C, D, base, lim, T)
<1>0. /\ IsMap(C) /\ Geometry(C, Z) /\ Tiles(D, T, base, lim) /\ base \in Nat /\ lim \in Nat
      /\ \A f \in Z : lim <= f.base \/ Limit(f) <= base
      /\ \A p \in DOMAIN C \ Regular(C) : End(C, p) + FootPad <= base \/ lim <= p
      /\ DOMAIN D = DOMAIN C \union T
      /\ \A x \in DOMAIN C : D[x] = C[x]
  BY DEF Added
<1>1. IsMap(D) /\ base \in T /\ T \subseteq Regular(D) /\ base < lim
  BY <1>0 DEF Tiles
<1>2. /\ \A x \in DOMAIN C : x \in Int /\ C[x].size \in Nat \ {0}
      /\ \A x \in DOMAIN D : x \in Int /\ D[x].size \in Nat \ {0}
  BY <1>0, <1>1, ConstantsOK DEF IsMap, Header
<1>3. ASSUME NEW x \in Regular(C)
      PROVE  (x < base \/ lim <= x) /\ (x < base => End(C, x) <= base)
  <2>1. x \in Int /\ C[x].size \in Nat \ {0}
    BY <1>2 DEF Regular
  <2>2. PICK f \in Z :
          Holds(f, x) /\ (End(C, x) = Limit(f) \/ (Holds(f, End(C, x)) /\ End(C, x) \in Regular(C)))
    BY <1>0 DEF Geometry
  <2>3. f.base \in Nat /\ f.size \in Nat \ {0} /\ Limit(f) = f.base + f.size
    BY <1>0 DEF Geometry, Limit
  <2>4. f.base <= x /\ x < Limit(f) /\ End(C, x) <= Limit(f)
    BY <2>1, <2>2, <2>3 DEF Holds, End
  <2>5. lim <= f.base \/ Limit(f) <= base
    BY <1>0
  <2> QED BY <1>0, <1>1, <2>1, <2>3, <2>4, <2>5 DEF End
<1>4. ASSUME NEW x \in DOMAIN C \ Regular(C)
      PROVE  x < base \/ lim <= x
  <2>1. x \in Int /\ C[x].size \in Nat \ {0}
    BY <1>2
  <2>2. End(C, x) + FootPad <= base \/ lim <= x
    BY <1>0
  <2> QED BY <1>0, <2>1, <2>2 DEF End, FootPad
<1>5. \A x \in DOMAIN C : x < base \/ lim <= x
  BY <1>3, <1>4
<1>6. Regular(D) = Regular(C) \union T
  BY <1>0, <1>1 DEF Regular
<1>7. DOMAIN D \ Regular(D) = DOMAIN C \ Regular(C)
  BY <1>0, <1>1 DEF Regular
<1>8. \A x \in DOMAIN C : End(D, x) = End(C, x)
  BY <1>0 DEF End
<1> QED BY <1>1, <1>2, <1>3, <1>5, <1>6, <1>7, <1>8 DEF SpecAdded

\* The segments are tiled when the new one is.
LEMMA AddedGeometry ==
  ASSUME NEW C, NEW D, NEW Z, NEW Y, NEW base, NEW lim, NEW T, Added(C, D, Z, Y, base, lim, T)
  PROVE  Geometry(D, Y)
<1>0. /\ Geometry(C, Z) /\ Tiles(D, T, base, lim) /\ base \in Nat /\ lim \in Nat /\ lim <= Space
      /\ \A f \in Z : lim <= f.base \/ Limit(f) <= base
      /\ \A p \in DOMAIN C \ Regular(C) : End(C, p) + FootPad <= base \/ lim <= p
  BY DEF Added
<1>new. PICK new : new = [base |-> base, size |-> lim - base]
  OBVIOUS
<1>1. Y = Z \union {new}
  BY <1>new DEF Added
<1>2. SpecAdded(C, D, base, lim, T)
  BY AddedFacts
<1>3. /\ Regular(D) = Regular(C) \union T
      /\ DOMAIN D \ Regular(D) = DOMAIN C \ Regular(C)
      /\ \A x \in DOMAIN C : End(D, x) = End(C, x)
      /\ \A x \in Regular(C) : x < base => End(C, x) <= base
      /\ \A x \in DOMAIN C : x < base \/ lim <= x
      /\ \A x \in DOMAIN C : x \in Int /\ C[x].size \in Nat \ {0}
      /\ \A x \in DOMAIN D : x \in Int /\ D[x].size \in Nat \ {0}
      /\ base < lim
  BY <1>2 DEF SpecAdded
<1>5. /\ base \in T /\ T \subseteq Regular(D)
      /\ \A x \in T : base <= x /\ x < lim /\ (End(D, x) = lim \/ End(D, x) \in T)
      /\ \A x, y \in T : x < y => End(D, x) <= y
  BY <1>0 DEF Tiles
<1>7. new \in [base : Nat, size : Nat \ {0}] /\ new.base = base /\ Limit(new) = lim
  <2>1. new.base = base /\ new.size = lim - base
    BY <1>new
  <2>2. lim - base \in Nat \ {0} /\ base + (lim - base) = lim
    BY <1>0, <1>3
  <2> QED BY <1>0, <1>new, <2>1, <2>2 DEF Limit
<1>10. \A f \in Y : f \in [base : Nat, size : Nat \ {0}] /\ Limit(f) <= Space /\ f.base \in Regular(D)
  <2>1. \A f \in Z : f \in [base : Nat, size : Nat \ {0}] /\ Limit(f) <= Space /\ f.base \in Regular(C)
    BY <1>0 DEF Geometry
  <2> QED BY <1>0, <1>1, <1>3, <1>5, <1>7, <2>1
<1>11. \A f, k \in Y : f = k \/ Limit(f) <= k.base \/ Limit(k) <= f.base
  <2>1. \A f, k \in Z : f = k \/ Limit(f) <= k.base \/ Limit(k) <= f.base
    BY <1>0 DEF Geometry
  <2>2. \A f \in Z : Limit(f) <= new.base \/ Limit(new) <= f.base
    BY <1>0, <1>7
  <2> QED BY <1>1, <2>1, <2>2
<1>12. ASSUME NEW p \in Regular(D)
       PROVE  \E f \in Y :
                Holds(f, p) /\ (End(D, p) = Limit(f) \/ (Holds(f, End(D, p)) /\ End(D, p) \in Regular(D)))
  <2>h. \A x \in Int : Holds(new, x) <=> base <= x /\ x < lim
    <3>1. new.base + new.size = lim /\ new.base = base
      BY <1>7 DEF Limit
    <3> QED BY <3>1 DEF Holds
  <2>1. CASE p \in T
    <3>1. base <= p /\ p < lim /\ p \in Int
      BY <1>3, <1>5, <2>1 DEF Regular
    <3>2. Holds(new, p)
      BY <2>h, <3>1
    <3>3. CASE End(D, p) = lim
      BY <1>1, <1>7, <3>2, <3>3
    <3>4. CASE End(D, p) \in T
      <4>1. End(D, p) \in Int /\ base <= End(D, p) /\ End(D, p) < lim
        BY <1>3, <1>5, <3>4 DEF Regular
      <4>2. Holds(new, End(D, p))
        BY <2>h, <4>1
      <4> QED BY <1>1, <1>5, <3>2, <3>4, <4>2
    <3> QED BY <1>5, <2>1, <3>3, <3>4
  <2>2. CASE p \in Regular(C)
    <3>1. \E f \in Z : /\ Holds(f, p)
                       /\ End(C, p) = Limit(f) \/ (Holds(f, End(C, p)) /\ End(C, p) \in Regular(C))
      BY <1>0, <2>2 DEF Geometry
    <3>2. End(D, p) = End(C, p)
      BY <1>3, <2>2 DEF Regular
    <3> QED BY <1>1, <1>3, <3>1, <3>2
  <2> QED BY <1>3, <2>1, <2>2
<1>13. ASSUME NEW p \in Regular(D), NEW q \in Regular(D), p < q
       PROVE  End(D, p) <= q
  <2>0. p \in Int /\ q \in Int /\ End(D, p) \in Int
    BY <1>3 DEF Regular, End
  <2>1. CASE p \in T /\ q \in T
    BY <1>5, <1>13, <2>1
  <2>2. CASE p \in T /\ q \in Regular(C)
    <3>1. End(D, p) <= lim
      <4>1. End(D, p) = lim \/ End(D, p) \in T
        BY <1>5, <2>2
      <4>2. End(D, p) \in T => End(D, p) < lim
        BY <1>5
      <4> QED BY <1>0, <2>0, <4>1, <4>2
    <3>2. base <= p /\ q \in DOMAIN C
      BY <1>5, <2>2 DEF Regular
    <3>3. lim <= q
      BY <1>0, <1>3, <1>13, <2>0, <3>2
    <3> QED BY <1>0, <2>0, <3>1, <3>3
  <2>3. CASE p \in Regular(C) /\ q \in T
    <3>1. base <= q /\ q < lim /\ p \in DOMAIN C
      BY <1>5, <2>3 DEF Regular
    <3>2. p < base
      BY <1>0, <1>3, <1>13, <2>0, <3>1
    <3>3. End(D, p) <= base
      BY <1>3, <2>3, <3>1, <3>2
    <3> QED BY <1>0, <2>0, <3>1, <3>3
  <2>4. CASE p \in Regular(C) /\ q \in Regular(C)
    <3>1. End(D, p) = End(C, p)
      BY <1>3, <2>4 DEF Regular
    <3>2. End(C, p) <= q
      BY <1>0, <1>13, <2>4 DEF Geometry
    <3> QED BY <3>1, <3>2
  <2> QED BY <1>3, <2>1, <2>2, <2>3, <2>4
<1>14. ASSUME NEW p \in DOMAIN D \ Regular(D)
       PROVE  /\ End(D, p) + FootPad <= Space
              /\ \A f \in Y : End(D, p) + FootPad <= f.base \/ Limit(f) <= p
              /\ \A q \in DOMAIN D \ Regular(D) : p < q => End(D, p) + FootPad <= q
  <2>1. p \in DOMAIN C \ Regular(C) /\ End(D, p) = End(C, p)
    BY <1>3
  <2>2. /\ End(C, p) + FootPad <= Space
        /\ \A f \in Z : End(C, p) + FootPad <= f.base \/ Limit(f) <= p
        /\ \A q \in DOMAIN C \ Regular(C) : p < q => End(C, p) + FootPad <= q
    BY <1>0, <2>1 DEF Geometry
  <2>3. End(C, p) + FootPad <= new.base \/ Limit(new) <= p
    BY <1>0, <1>7, <2>1
  <2>4. \A f \in Y : End(C, p) + FootPad <= f.base \/ Limit(f) <= p
    BY <1>1, <2>2, <2>3
  <2> QED BY <1>3, <2>1, <2>2, <2>4
<1> QED BY <1>10, <1>11, <1>12, <1>13, <1>14 DEF Geometry

\* A heap stays good when everything from the top on is replaced by chunks that
\* are right among themselves.
LEMMA RetailedFacts ==
  ASSUME NEW h, NEW g, NEW B, NEW T, NEW V, NEW W, Retailed(h, g, B, T, V, W)
  PROVE  Good(g, B) /\ Frame(h, g, B)
<1> DEFINE C == h.chunk
           D == g.chunk
           K == OldChunks(h)
           Y == Segments(g)
<1>t. PICK foot : foot = g.top + g.topsize
  OBVIOUS
<1>0. /\ Good(h, B) /\ DOMAIN g = Fields /\ Counters(g)
      /\ Headers(D) /\ Geometry(D, Y) /\ TopLast(g) /\ Recorded(g)
      /\ FiledIn(D, Vacant(h) \union V, g) /\ g.sys = h.sys \union W
  BY DEF Retailed
<1>1. /\ DOMAIN D = K \union T
      /\ \A x \in K : x \notin T /\ D[x] = C[x]
      /\ \A k \in Y, p \in K : Holds(k, p) =>
           \E f \in Segments(h) : Holds(f, p) /\ \A q \in K : Holds(f, q) => Holds(k, q)
      /\ \A k \in Y, p \in K : Holds(k, p) /\ p \in Regular(C) /\ End(C, p) = Limit(k) => p \in h.sys
  BY DEF Retailed, SameOld, SegmentsStay
<1>2. /\ T \subseteq Regular(D) /\ V \subseteq T /\ W \subseteq T /\ g.top \in T /\ foot \in T
      /\ \A x \in T : D[x].cinuse <=> x \in W
      /\ \A x \in T : x \in V <=> ~D[x].cinuse /\ x \notin {g.top, foot}
      /\ \A x \in V : /\ ~D[End(D, x)].pinuse /\ D[End(D, x)].foot = D[x].size
                      /\ D[End(D, x)].cinuse /\ MinChunk <= D[x].size
      /\ \A p \in T \ {foot} : ~D[p].pinuse =>
           LET q == p - D[p].foot
           IN  q \in V /\ D[q].size = D[p].foot /\ \A k \in Y : Holds(k, p) => Holds(k, q)
      /\ \A p \in T, k \in Y : Holds(k, p) /\ End(D, p) = Limit(k) => p \in W \/ p = foot
  BY <1>t DEF Retailed, NewTail
<1>3. /\ \A x \in Vacant(h) : x \in K /\ End(C, x) \in K /\ C[End(C, x)].cinuse
      /\ \A x \in B \union h.sys : x \in K /\ x \in DOMAIN C
      /\ K \subseteq DOMAIN C
  <2>1. SpecTop(h, B, h.top + h.topsize)
    BY <1>0, TopFacts
  <2>2. ~C[h.top].cinuse /\ ~C[h.top + h.topsize].cinuse
    BY <2>1 DEF SpecTop
  <2>3. \A x \in Vacant(h) : End(C, x) \in Regular(C) /\ C[End(C, x)].cinuse
    BY <1>0, VacantFacts
  <2>4. \A x \in Vacant(h) : x \in Regular(C) /\ x \notin {h.top, h.top + h.topsize}
    BY DEF Vacant
  <2>5. \A x \in B \union h.sys : x \in DOMAIN C /\ C[x].cinuse
    BY <1>0 DEF Good, Kept, Regular
  <2> QED BY <2>2, <2>3, <2>4, <2>5 DEF OldChunks, Regular
<1> HIDE DEF K
<1>4. \A x \in K : x \in Regular(D) <=> x \in Regular(C)
  BY <1>1, <1>3 DEF Regular
<1>5. Vacant(g) = Vacant(h) \union V
  <2>1. Vacant(g) = {p \in Regular(D) : ~D[p].cinuse /\ p \notin {g.top, foot}}
    BY <1>t DEF Vacant
  <2>2. \A p \in K : p \in Vacant(h) <=> p \in Regular(C) /\ ~C[p].cinuse
    BY DEF Vacant, OldChunks, K
  <2>3. \A p \in K : p \in Vacant(g) <=> p \in Regular(D) /\ ~D[p].cinuse
    BY <1>1, <1>2, <2>1
  <2>4. \A p \in T : p \in Vacant(g) <=> p \in V
    BY <1>2, <2>1
  <2>5. \A p \in K : p \in Vacant(g) <=> p \in Vacant(h)
    BY <1>1, <1>4, <2>2, <2>3
  <2>6. Vacant(g) \subseteq K \union T
    BY <1>1, <2>1 DEF Regular
  <2> QED BY <1>1, <1>2, <1>3, <2>4, <2>5, <2>6
<1>6. Tags(g)
  <2>1. ASSUME NEW p \in Vacant(h)
        PROVE  ~D[End(D, p)].pinuse /\ D[End(D, p)].foot = D[p].size
    <3>1. ~C[End(C, p)].pinuse /\ C[End(C, p)].foot = C[p].size
      BY <1>0 DEF Good, Tags
    <3>2. End(D, p) = End(C, p) /\ D[p] = C[p]
      BY <1>1, <1>3 DEF End
    <3>3. D[End(C, p)] = C[End(C, p)]
      BY <1>1, <1>3
    <3> QED BY <3>1, <3>2, <3>3
  <2>2. ASSUME NEW p \in K, p \in Regular(D), ~D[p].pinuse
        PROVE  LET q == p - D[p].foot
               IN  q \in Vacant(g) /\ D[q].size = D[p].foot /\ \A k \in Y : Holds(k, p) => Holds(k, q)
    <3>1. p \in Regular(C) \ {h.top + h.topsize} /\ D[p] = C[p]
      BY <1>1, <1>4, <2>2 DEF OldChunks, K
    <3>2. PICK q : q = p - C[p].foot
      OBVIOUS
    <3>3. q \in Vacant(h) /\ C[q].size = C[p].foot /\ \A f \in Segments(h) : Holds(f, p) => Holds(f, q)
      BY <1>0, <2>2, <3>1, <3>2 DEF Good, Tags
    <3>4. q \in K /\ D[q] = C[q]
      BY <1>1, <1>3, <3>3
    <3>5. \A k \in Y : Holds(k, p) => Holds(k, q)
      BY <1>1, <3>3, <3>4
    <3> QED BY <1>5, <3>1, <3>2, <3>3, <3>4, <3>5
  <2>3. \A p \in Vacant(g) : ~D[End(D, p)].pinuse /\ D[End(D, p)].foot = D[p].size
    BY <1>2, <1>5, <2>1
  <2>4. ASSUME NEW p \in Regular(D) \ {foot}, ~D[p].pinuse
        PROVE  LET q == p - D[p].foot
               IN  q \in Vacant(g) /\ D[q].size = D[p].foot /\ \A k \in Y : Holds(k, p) => Holds(k, q)
    <3>1. p \in K \/ p \in T
      BY <1>1 DEF Regular
    <3>2. CASE p \in T
      BY <1>2, <1>5, <2>4, <3>2
    <3> QED BY <2>2, <2>4, <3>1, <3>2
  <2> QED BY <1>t, <2>3, <2>4 DEF Tags
<1>7. Found(g)
  <2>1. ASSUME NEW p \in Vacant(h) PROVE D[End(D, p)].cinuse /\ MinChunk <= D[p].size
    <3>1. C[End(C, p)].cinuse /\ MinChunk <= C[p].size
      BY <1>0 DEF Good, Found
    <3>2. End(D, p) = End(C, p) /\ D[p] = C[p]
      BY <1>1, <1>3 DEF End
    <3>3. D[End(C, p)] = C[End(C, p)]
      BY <1>1, <1>3
    <3> QED BY <3>1, <3>2, <3>3
  <2>2. \A p \in Vacant(g) : D[End(D, p)].cinuse /\ MinChunk <= D[p].size
    BY <1>2, <1>5, <2>1
  <2>3. FiledIn(D, Vacant(g), g)
    BY <1>0, <1>5
  <2> QED BY <2>2, <2>3 DEF Found
<1>8. Kept(g, B)
  <2>1. /\ \A p \in DOMAIN C : C[p].cinuse <=> p \in B \union h.sys
        /\ h.sys \subseteq Regular(C) /\ B \intersect h.sys = {}
        /\ \A p \in B \intersect Regular(C) : MinChunk <= C[p].size
    BY <1>0 DEF Good, Kept
  <2>2. \A p \in K : D[p].cinuse <=> p \in B \union g.sys
    BY <1>0, <1>1, <1>2, <1>3, <2>1
  <2>3. \A p \in T : D[p].cinuse <=> p \in B \union g.sys
    BY <1>0, <1>1, <1>2, <1>3
  <2>4. B \subseteq DOMAIN D /\ g.sys \subseteq Regular(D) /\ B \intersect g.sys = {}
    BY <1>0, <1>1, <1>2, <1>3, <1>4, <2>1
  <2>5. \A p \in B \intersect Regular(D) : MinChunk <= D[p].size
    BY <1>1, <1>3, <1>4, <2>1
  <2>6. \A p \in Regular(D), k \in Y : Holds(k, p) /\ End(D, p) = Limit(k) => p \in g.sys \/ p = foot
    <3>1. \A p \in Regular(D) : p \in K \/ p \in T
      BY <1>1 DEF Regular
    <3>2. \A p \in K : End(D, p) = End(C, p)
      BY <1>1 DEF End
    <3> QED BY <1>0, <1>1, <1>2, <1>4, <3>1, <3>2
  <2> QED BY <1>1, <1>t, <2>2, <2>3, <2>4, <2>5, <2>6 DEF Kept
<1>9. Good(g, B)
  BY <1>0, <1>6, <1>7, <1>8 DEF Good
<1>10. Frame(h, g, B)
  BY <1>1, <1>3 DEF Frame
<1> QED BY <1>9, <1>10

\* The chunks that stay are the ones before the top and behind its segment.
LEMMA BehindTop ==
  ASSUME NEW h, NEW B, Good(h, B)
  PROVE  /\ OldChunks(h) = {x \in DOMAIN h.chunk : x < h.top \/ Limit(h.seg) <= x}
         /\ OldChunks(h) \subseteq DOMAIN h.chunk
<1> DEFINE C == h.chunk
<1>t. PICK foot : foot = h.top + h.topsize
  OBVIOUS
<1>1. SpecTop(h, B, foot)
  BY <1>t, TopFacts
<1>2. /\ h.top \in Regular(C) /\ foot \in Regular(C) /\ foot = End(C, h.top) /\ h.top \in Int /\ foot \in Int
      /\ h.top < foot /\ h.topsize \in Nat \ {0}
  BY <1>1 DEF SpecTop
<1>3. Holds(h.seg, h.top) /\ Holds(h.seg, foot) /\ End(C, foot) = Limit(h.seg) /\ h.seg \in Segments(h)
  BY <1>t DEF Good, TopLast, Segments, End
<1>4. foot < Limit(h.seg) /\ Limit(h.seg) \in Int
  BY <1>2, <1>3 DEF Good, Geometry, Holds, Limit
<1>5. \A x \in DOMAIN C : x \in Int
  BY BlockFacts
<1>6. \A x \in DOMAIN C : h.top < x => foot <= x
  BY <1>2, <1>3, <1>4, GapFacts
<1>7. \A x \in DOMAIN C : foot < x => Limit(h.seg) <= x
  BY <1>2, <1>3, <1>4, GapFacts
<1>8. \A x \in DOMAIN C : x < h.top \/ Limit(h.seg) <= x <=> x # h.top /\ x # foot
  BY <1>2, <1>4, <1>5, <1>6, <1>7
<1>9. OldChunks(h) = {x \in DOMAIN C : x # h.top /\ x # foot}
  BY <1>t DEF OldChunks
<1> QED BY <1>8, <1>9

\* With the tail of m->seg retiled its chunks before the top stay together.
LEMMA TailSegments ==
  ASSUME NEW h, NEW B, Good(h, B), NEW D, NEW Y, NEW lim, NEW T,
         Retiled(h.chunk, D, Segments(h), Y, h.seg, h.top, lim, T)
  PROVE  SegmentsStay(h, Y)
<1> DEFINE C == h.chunk
           Z == Segments(h)
<1>k. PICK K : K = OldChunks(h)
  OBVIOUS
<1>new. PICK new : new = [base |-> h.seg.base, size |-> lim - h.seg.base]
  OBVIOUS
<1>1. Y = (Z \ {h.seg}) \union {new} /\ h.seg \in Z
  BY <1>new DEF Retiled
<1>2. SpecRetiled(C, D, h.seg, h.top, lim, T)
  BY RetiledFacts
<1>3. /\ \A x \in Regular(C) : x < h.top => End(C, x) <= h.top
      /\ \A x \in DOMAIN C : Limit(h.seg) <= x => lim <= x
      /\ \A x \in DOMAIN C : x \in Int /\ C[x].size \in Nat \ {0}
      /\ h.top \in Int /\ lim \in Int /\ h.top < lim /\ h.seg.base \in Int /\ Limit(h.seg) \in Int
      /\ h.seg.base <= h.top /\ h.top < Limit(h.seg)
  BY <1>2 DEF SpecRetiled
<1>4. K = {x \in DOMAIN C : x < h.top \/ Limit(h.seg) <= x}
  BY <1>k, BehindTop
<1>5. \A x \in K : Holds(h.seg, x) <=> h.seg.base <= x /\ x < h.top
  <2>1. \A x \in K : Holds(h.seg, x) <=> h.seg.base <= x /\ x < Limit(h.seg)
    BY DEF Holds, Limit
  <2>2. \A x \in K : x < Limit(h.seg) <=> x < h.top
    BY <1>3, <1>4
  <2> QED BY <2>1, <2>2
<1>6. new.base = h.seg.base /\ Limit(new) = lim
  <2>1. h.seg.base + (lim - h.seg.base) = lim
    BY <1>3
  <2> QED BY <1>new, <2>1 DEF Limit
<1>7. \A x \in K : Holds(new, x) <=> h.seg.base <= x /\ x < h.top
  <2>1. \A x \in K : Holds(new, x) <=> h.seg.base <= x /\ x < lim
    BY <1>6 DEF Holds, Limit
  <2>2. \A x \in K : x < lim <=> x < h.top
    BY <1>3, <1>4
  <2> QED BY <2>1, <2>2
<1>8. ASSUME NEW k \in Y, NEW p \in K, Holds(k, p)
      PROVE  \E f \in Z : Holds(f, p) /\ \A q \in K : Holds(f, q) => Holds(k, q)
  <2>1. CASE k \in Z
    BY <1>8, <2>1
  <2>2. CASE k = new
    BY <1>1, <1>5, <1>7, <1>8, <2>2
  <2> QED BY <1>1, <2>1, <2>2
<1>9. ASSUME NEW k \in Y, NEW p \in K, Holds(k, p), p \in Regular(C), End(C, p) = Limit(k)
      PROVE  p \in h.sys
  <2>1. CASE k \in Z
    <3>1. p # h.top + h.topsize
      BY <1>k DEF OldChunks
    <3> QED BY <1>9, <2>1, <3>1 DEF Good, Kept
  <2>2. CASE k = new
    <3>1. p < h.top
      BY <1>7, <1>9, <2>2
    <3>2. End(C, p) <= h.top /\ End(C, p) = lim
      BY <1>3, <1>6, <1>9, <2>2, <3>1
    <3> QED BY <1>3, <3>2
  <2> QED BY <1>1, <2>1, <2>2
<1> QED BY <1>8, <1>9, <1>k DEF SegmentsStay

\* The fake chunk behind the top.
LEMMA FakeFacts ==
  /\ FakeFoot.size = TopFoot /\ ~FakeFoot.cinuse /\ ~FakeFoot.pinuse /\ FakeFoot.foot = 0
  /\ TopFoot \in Nat \ {0}
  /\ TopFoot <= Space => FakeFoot \in Header /\ TopFoot \in Sizes
<1>1. FakeFoot.size = TopFoot /\ ~FakeFoot.cinuse /\ ~FakeFoot.pinuse /\ FakeFoot.foot = 0
  BY DEF FakeFoot, Unused
<1>2. TopFoot \in Nat \ {0}
  BY ConstantsOK DEF TopFoot
<1>3. ASSUME TopFoot <= Space PROVE FakeFoot \in Header /\ TopFoot \in Sizes
  <2>1. TopFoot \in Sizes
    BY <1>2, <1>3, ConstantsOK DEF Sizes
  <2>2. Unused(TopFoot) \in Header
    BY <2>1, HeaderFacts
  <2>3. FakeFoot \in Header
    BY <2>2 DEF FakeFoot, Header
  <2> QED BY <2>1, <2>3
<1> QED BY <1>1, <1>2, <1>3

\* The top gets another size, and its segment with it.
LEMMA RetoppedFacts ==
  ASSUME NEW h, NEW B, NEW n, NEW lim, NEW g, Retopped(h, B, n, lim, g)
  PROVE  Good(g, B) /\ Frame(h, g, B)
<1> DEFINE C == h.chunk
           D == g.chunk
           a == h.top
           Z == Segments(h)
           Y == Segments(g)
<1>t. PICK foot : foot = h.top + h.topsize
  OBVIOUS
<1>u. PICK new : new = a + n
  OBVIOUS
<1>0. /\ Good(h, B) /\ n \in Nat \ {0} /\ lim = a + n + TopFoot
      /\ Room(C, Z, h.seg, lim)
      /\ DOMAIN g = Fields /\ Counters(g) /\ g.top = a /\ g.topsize = n
      /\ g.seg = [base |-> h.seg.base, size |-> lim - h.seg.base]
      /\ g.linked = h.linked /\ g.sys = h.sys /\ g.bins = h.bins /\ g.dv = h.dv /\ g.dvsize = h.dvsize
      /\ D = Put(Put(Without(C, {foot}), new, FakeFoot), a, Unused(n))
  BY <1>t, <1>u DEF Retopped
<1>1. SpecTop(h, B, foot)
  BY <1>0, <1>t, TopFacts
<1>2. /\ a \in Int /\ a \in Addresses /\ foot \in Int /\ a \in DOMAIN C /\ foot \in DOMAIN C
      /\ a \in Regular(C) /\ a < foot /\ IsMap(C) /\ a # foot
  BY <1>1 DEF SpecTop
<1>3. /\ lim \in Nat /\ lim <= Space /\ TopFoot \in Nat \ {0} /\ Space \in Nat
      /\ new \in Int /\ new \in Addresses /\ a < new /\ new < lim /\ lim = new + TopFoot
      /\ n \in Sizes /\ TopFoot <= Space /\ a # new
  <2>1. lim \in Nat /\ lim <= Space /\ TopFoot \in Nat \ {0} /\ Space \in Nat
    BY <1>0, FakeFacts, ConstantsOK DEF Room
  <2> QED BY <1>0, <1>2, <1>u, <2>1 DEF Addresses, Sizes
<1>w. PICK W : W = Without(C, {foot})
  OBVIOUS
<1>e. PICK E : E = Put(W, new, FakeFoot)
  OBVIOUS
<1>4. IsMap(W) /\ DOMAIN W = DOMAIN C \ {foot} /\ \A x \in DOMAIN C \ {foot} : W[x] = C[x]
  <2>1. SpecWithout(C, {foot}, W)
    BY <1>2, <1>w, WithoutSpec
  <2> QED BY <2>1 DEF SpecWithout
<1>5. /\ IsMap(E) /\ DOMAIN E = DOMAIN W \union {new} /\ E[new] = FakeFoot
      /\ \A x \in DOMAIN W : x # new => E[x] = W[x]
  <2>1. FakeFoot \in Header
    BY <1>3, FakeFacts
  <2>2. SpecPut(W, new, FakeFoot, E)
    BY <1>3, <1>4, <1>e, <2>1, PutSpec
  <2> QED BY <2>2 DEF SpecPut
<1>6. /\ IsMap(D) /\ DOMAIN D = DOMAIN E \union {a} /\ D[a] = Unused(n)
      /\ \A x \in DOMAIN E : x # a => D[x] = E[x]
  <2>1. Unused(n) \in Header
    BY <1>3, HeaderFacts
  <2>2. D = Put(E, a, Unused(n))
    BY <1>0, <1>e, <1>w
  <2>3. SpecPut(E, a, Unused(n), D)
    BY <1>2, <1>5, <2>1, <2>2, PutSpec
  <2> QED BY <2>3 DEF SpecPut
<1>T. PICK T : T = {a, new}
  OBVIOUS
<1>k. PICK K : K = OldChunks(h)
  OBVIOUS
<1>7. K = {x \in DOMAIN C : x < a \/ Limit(h.seg) <= x} /\ K = {x \in DOMAIN C : x # a /\ x # foot}
  <2>1. K = {x \in DOMAIN C : x # a /\ x # foot}
    BY <1>k, <1>t DEF OldChunks
  <2> QED BY <1>0, <1>k, <2>1, BehindTop
<1>8. DOMAIN D = K \union T /\ D[new] = FakeFoot
  BY <1>2, <1>3, <1>4, <1>5, <1>6, <1>7, <1>T
<1>9. /\ D[a].size = n /\ ~D[a].cinuse /\ D[a].pinuse /\ D[a].foot = 0
      /\ D[new].size = TopFoot /\ ~D[new].cinuse /\ D[new].foot = 0
  BY <1>6, <1>8, FakeFacts DEF Unused
<1>10. \A x \in K : x \notin T => D[x] = C[x]
  BY <1>4, <1>5, <1>6, <1>7, <1>T
<1>11. Tiles(D, T, a, lim) /\ End(D, a) = new /\ End(D, new) = lim
  <2>1. a \in Regular(D) /\ new \in Regular(D)
    BY <1>8, <1>9, <1>T DEF Regular, Direct
  <2>2. End(D, a) = new /\ End(D, new) = lim
    BY <1>3, <1>9, <1>u DEF End
  <2>3. \A x \in T : a <= x /\ x < lim
    BY <1>2, <1>3, <1>T
  <2>4. \A x, y \in T : x < y => x = a /\ y = new
    BY <1>2, <1>3, <1>T
  <2>5. \A x, y \in T : x < y => End(D, x) <= y
    BY <1>3, <2>2, <2>4
  <2> QED BY <1>3, <1>6, <1>T, <2>1, <2>2, <2>3, <2>5 DEF Tiles
<1>12. \A x \in K : x \notin T
  <2>1. a \notin K
    BY <1>7
  <2>2. new \notin K
    <3>1. SUFFICES ASSUME new \in K PROVE FALSE
      OBVIOUS
    <3>2. Limit(h.seg) <= new /\ new \in DOMAIN C
      BY <1>2, <1>3, <1>7, <3>1
    <3>3. CASE new \in Regular(C)
      <4>1. PICK f \in Z : Holds(f, new)
        BY <1>0, <3>3 DEF Good, Geometry
      <4>2. f.base \in Nat /\ f.size \in Nat \ {0} /\ h.seg \in Z /\ h.seg.base \in Nat /\ h.seg.size \in Nat
        BY <1>0 DEF Good, Geometry, Segments
      <4>3. f # h.seg
        BY <1>3, <3>2, <4>1, <4>2 DEF Holds, Limit
      <4>4. Limit(f) <= h.seg.base \/ lim <= f.base
        BY <1>0, <4>3 DEF Room
      <4> QED BY <1>3, <3>2, <4>1, <4>2, <4>4 DEF Holds, Limit
    <3>4. CASE new \notin Regular(C)
      <4>1. End(C, new) + FootPad <= h.seg.base \/ lim <= new
        BY <1>0, <3>2, <3>4 DEF Room
      <4>2. h.seg.base \in Nat /\ h.seg.size \in Nat /\ C[new].size \in Nat
        BY <1>0, <3>2, BlockFacts DEF Good, Geometry, Segments
      <4> QED BY <1>3, <3>2, <4>1, <4>2 DEF End, FootPad, Limit
    <3> QED BY <3>3, <3>4
  <2> QED BY <1>T, <2>1, <2>2
<1>13. Retiled(C, D, Z, Y, h.seg, a, lim, T)
  <2>1. h.seg \in Z /\ Holds(h.seg, a) /\ Geometry(C, Z)
    BY <1>0 DEF Good, TopLast, Segments
  <2>2. Y = (Z \ {h.seg}) \union {[base |-> h.seg.base, size |-> lim - h.seg.base]}
    BY <1>0 DEF Good, Recorded, Segments
  <2>3. \A x \in DOMAIN C : x < a \/ Limit(h.seg) <= x => D[x] = C[x]
    BY <1>7, <1>10, <1>12
  <2> QED BY <1>0, <1>2, <1>7, <1>8, <1>11, <2>1, <2>2, <2>3 DEF Retiled
<1>14. Geometry(D, Y) /\ SegmentsStay(h, Y)
  BY <1>0, <1>13, RetiledGeometry, TailSegments
<1>15. SpecRetiled(C, D, h.seg, a, lim, T)
  BY <1>13, RetiledFacts
<1>16. DOMAIN D \ Regular(D) = DOMAIN C \ Regular(C) /\ DOMAIN C \ Regular(C) \subseteq K
  <2>1. foot \in Regular(C)
    BY <1>1 DEF SpecTop
  <2>2. DOMAIN D \ Regular(D) = DOMAIN C \ Regular(C)
    BY <1>15 DEF SpecRetiled
  <2> QED BY <1>2, <1>7, <2>1, <2>2
<1>17. Headers(D)
  <2>1. \A x \in DOMAIN C \ Regular(C) : C[x].cinuse /\ ~C[x].pinuse
    BY <1>0 DEF Good, Headers
  <2> QED BY <1>6, <1>10, <1>12, <1>16, <2>1 DEF Headers
<1>18. TopLast(g)
  <2>1. h.seg.base \in Int /\ h.seg.base <= a /\ a < lim
    BY <1>15 DEF SpecRetiled
  <2>2. g.seg.base = h.seg.base /\ g.seg.size = lim - h.seg.base
    BY <1>0
  <2>3. h.seg.base + (lim - h.seg.base) = lim
    BY <1>3, <2>1
  <2>4. Holds(g.seg, a) /\ Holds(g.seg, new) /\ Limit(g.seg) = lim
    BY <1>2, <1>3, <2>1, <2>2, <2>3 DEF Holds, Limit
  <2>5. a \in Regular(D) /\ new \in Regular(D)
    BY <1>11, <1>T DEF Tiles
  <2> QED BY <1>0, <1>3, <1>9, <1>u, <2>4, <2>5 DEF TopLast
<1>19. \A x \in h.sys : x \in K /\ x \in DOMAIN C /\ D[x] = C[x]
  <2>1. \A x \in h.sys : x \in DOMAIN C /\ x # a /\ x # foot
    BY <1>1 DEF SpecTop
  <2> QED BY <1>7, <1>10, <1>12, <2>1
<1>20. Recorded(g)
  <2>1. IsFiniteSet(g.linked)
    BY <1>0 DEF Good, Recorded
  <2>2. g.seg \notin g.linked
    <3>1. SUFFICES ASSUME g.seg \in h.linked PROVE FALSE
      BY <1>0
    <3>2. g.seg # h.seg /\ g.seg \in Z /\ h.seg \in Z
      BY <1>0, <3>1 DEF Good, Recorded, Segments
    <3>3. g.seg.base = h.seg.base
      BY <1>0
    <3>4. Limit(g.seg) <= h.seg.base \/ Limit(h.seg) <= g.seg.base
      BY <1>0, <3>2 DEF Good, Geometry
    <3>5. \A f \in Z : f.base \in Nat /\ f.size \in Nat \ {0}
      BY <1>0 DEF Good, Geometry
    <3> QED BY <3>2, <3>3, <3>4, <3>5 DEF Limit
  <2>3. ASSUME NEW k \in g.linked
        PROVE  \E sp, fence \in g.sys : /\ Holds(k, sp) /\ fence = End(D, sp)
                                        /\ End(D, fence) = Limit(k) /\ sp + TopFoot <= Limit(k)
    <3>1. PICK sp \in h.sys, fence \in h.sys :
            Holds(k, sp) /\ fence = End(C, sp) /\ End(C, fence) = Limit(k) /\ sp + TopFoot <= Limit(k)
      BY <1>0, <2>3 DEF Good, Recorded
    <3>2. End(D, sp) = End(C, sp) /\ End(D, fence) = End(C, fence)
      BY <1>19 DEF End
    <3> QED BY <1>0, <3>1, <3>2
  <2> QED BY <2>1, <2>2, <2>3 DEF Recorded
<1>21. FiledIn(D, Vacant(h), g)
  <2>1. \A x \in Vacant(h) : D[x].size = C[x].size
    <3>1. \A x \in Vacant(h) : x \in DOMAIN C /\ x # a /\ x # foot
      BY <1>t DEF Vacant, Regular
    <3> QED BY <1>7, <1>10, <1>12, <3>1
  <2>2. PICK V : V = Vacant(h)
    OBVIOUS
  <2>3. FiledIn(C, V, h)
    BY <1>0, <2>2 DEF Good, Found
  <2> QED BY <1>0, <2>1, <2>2, <2>3, FiledSame
<1>22. SameOld(h, g, T)
  BY <1>8, <1>10, <1>12, <1>14, <1>k DEF SameOld
<1>23. NewTail(h, g, T, {}, {})
  <2>1. g.top + g.topsize = new
    BY <1>0, <1>u
  <2>2. \A k \in Y : End(D, a) = Limit(k) => ~Holds(k, a) \/ FALSE
    <3>1. SUFFICES ASSUME NEW k \in Y, Holds(k, a), End(D, a) = Limit(k) PROVE FALSE
      OBVIOUS
    <3>2. g.seg \in Y /\ Holds(g.seg, a) /\ Holds(g.seg, new)
      BY <1>0, <1>18, <2>1 DEF TopLast, Segments
    <3>3. \A f \in Y : f.base \in Nat /\ f.size \in Nat \ {0}
      BY <1>14 DEF Geometry
    <3>4. k = g.seg \/ Limit(k) <= g.seg.base \/ Limit(g.seg) <= k.base
      BY <1>14, <3>1, <3>2 DEF Geometry
    <3>5. k = g.seg
      BY <1>2, <3>1, <3>2, <3>3, <3>4 DEF Holds, Limit
    <3> QED BY <1>3, <1>11, <3>1, <3>2, <3>3, <3>5 DEF Holds, Limit
  <2>3. \A x \in T : x \in Regular(D)
    BY <1>11 DEF Tiles
  <2>4. \A x \in T : ~D[x].cinuse /\ (x = a \/ x = new)
    BY <1>9, <1>T
  <2>5. \A p \in T \ {new} : D[p].pinuse
    BY <1>9, <1>T
  <2>6. g.top = a /\ a \in T /\ new \in T
    BY <1>0, <1>T
  <2> QED BY <2>1, <2>2, <2>3, <2>4, <2>5, <2>6 DEF NewTail
<1>24. Retailed(h, g, B, T, {}, {})
  <2>1. Vacant(h) \union {} = Vacant(h) /\ h.sys \union {} = h.sys
    OBVIOUS
  <2> QED BY <1>0, <1>14, <1>17, <1>18, <1>20, <1>21, <1>22, <1>23, <2>1 DEF Retailed
<1> QED BY <1>24, RetailedFacts

\* The segment that holds the top is m->seg.
LEMMA TopSegment ==
  ASSUME NEW h, NEW B, Good(h, B), NEW seg \in Segments(h), Holds(seg, h.top)
  PROVE  seg = h.seg
<1>1. /\ \A f \in Segments(h) : f.base \in Nat /\ f.size \in Nat \ {0}
      /\ \A f, k \in Segments(h) : f = k \/ Limit(f) <= k.base \/ Limit(k) <= f.base
  BY DEF Good, Geometry
<1>2. h.seg \in Segments(h) /\ Holds(h.seg, h.top)
  BY DEF Good, TopLast, Segments
<1>3. h.top \in Int
  <2>1. SpecTop(h, B, h.top + h.topsize)
    BY TopFacts
  <2> QED BY <2>1 DEF SpecTop
<1> QED BY <1>1, <1>2, <1>3 DEF Holds, Limit

\* segment_holding finds m->seg for the top.
LEMMA HoldingTop ==
  ASSUME NEW h, NEW B, Good(h, B)
  PROVE  Holding(h, h.top) = h.seg
<1>1. h.seg \in Segments(h) /\ Holds(h.seg, h.top)
  BY DEF Good, TopLast, Segments
<1>2. Holding(h, h.top) \in Segments(h) /\ Holds(Holding(h, h.top), h.top)
  BY <1>1 DEF Holding
<1> QED BY <1>2, TopSegment

\* init_top for a segment that was resized behind the top.
LEMMA Retop ==
  ASSUME NEW h, NEW B, Good(h, B), NEW n \in Nat \ {0}, NEW lim, lim = h.top + n + TopFoot,
         Room(h.chunk, Segments(h), h.seg, lim),
         NEW new, new = [base |-> h.seg.base, size |-> lim - h.seg.base],
         NEW g, g = InitTop(NoTopFoot(Resized(h, h.seg, new)), h.top, n)
  PROVE  Good(g, B) /\ Frame(h, g, B) /\ g.topsize = n
<1>k. PICK k : k = Resized(h, h.seg, new)
  OBVIOUS
<1>1. k = [h EXCEPT !.seg = new]
  BY <1>k DEF Resized
<1>2. DOMAIN h = Fields /\ Counters(h)
  BY DEF Good
<1>3. /\ DOMAIN k = Fields /\ k.seg = new /\ k.linked = h.linked /\ k.sys = h.sys /\ k.bins = h.bins
      /\ k.dv = h.dv /\ k.dvsize = h.dvsize /\ k.chunk = h.chunk /\ k.top = h.top
      /\ k.topsize = h.topsize /\ k.checks = h.checks
  BY <1>1, <1>2 DEF Fields
<1>f. PICK f : f = NoTopFoot(k)
  OBVIOUS
<1>4. f = [k EXCEPT !.chunk = Without(@, {k.top + k.topsize})]
  BY <1>f DEF NoTopFoot
<1>5. /\ DOMAIN f = Fields /\ f.seg = new /\ f.linked = h.linked /\ f.sys = h.sys /\ f.bins = h.bins
      /\ f.dv = h.dv /\ f.dvsize = h.dvsize /\ f.chunk = Without(h.chunk, {h.top + h.topsize})
      /\ f.checks = h.checks
  BY <1>3, <1>4 DEF Fields
<1>6. g = [f EXCEPT !.top = h.top, !.topsize = n, !.trim = TrimThreshold,
                    !.chunk = Put(Put(@, h.top + n, FakeFoot), h.top, Unused(n))]
  BY <1>f, <1>k DEF InitTop, FakeFoot
<1>7. /\ DOMAIN g = Fields /\ g.seg = new /\ g.linked = h.linked /\ g.sys = h.sys /\ g.bins = h.bins
      /\ g.dv = h.dv /\ g.dvsize = h.dvsize /\ g.checks = h.checks /\ g.trim = TrimThreshold
      /\ g.top = h.top /\ g.topsize = n
      /\ g.chunk = Put(Put(Without(h.chunk, {h.top + h.topsize}), h.top + n, FakeFoot), h.top, Unused(n))
  BY <1>5, <1>6 DEF Fields
<1>8. Counters(g)
  BY <1>2, <1>7 DEF Counters
<1>9. Retopped(h, B, n, lim, g)
  BY <1>7, <1>8 DEF Retopped
<1> QED BY <1>7, <1>9, RetoppedFacts

\* The segment of the top.
LEMMA SegFacts ==
  ASSUME NEW h, NEW B, Good(h, B), NEW foot, foot = h.top + h.topsize
  PROVE  SpecSeg(h, foot)
<1>1. SpecTop(h, B, foot)
  BY TopFacts
<1>2. h.seg \in [base : Nat, size : Nat \ {0}] /\ Limit(h.seg) <= Space
  BY DEF Good, Geometry, Segments
<1>3. foot + TopFoot = Limit(h.seg) /\ h.seg.base <= h.top
  BY DEF Good, TopLast, Holds
<1>4. h.top \in Int /\ h.topsize \in Nat \ {0}
  BY <1>1 DEF SpecTop
<1>5. TopFoot \in Nat \ {0} /\ Space \in Nat
  BY FakeFacts, ConstantsOK
<1> QED BY <1>2, <1>3, <1>4, <1>5 DEF SpecSeg, Limit

\* The top grows by the memory mapped behind its segment.
LEMMA ExtendTop ==
  ASSUME NEW h, NEW B, Good(h, B), NEW base, NEW size, Clear(h, base, size),
         NEW seg \in Segments(h), seg.base + seg.size = base, Holds(seg, h.top),
         NEW g, g = InitTop(NoTopFoot(Resized(h, seg, [seg EXCEPT !.size = @ + size])),
                            h.top, h.topsize + size)
  PROVE  Good(g, B) /\ Frame(h, g, B) /\ g.topsize = h.topsize + size
<1>f. PICK foot : foot = h.top + h.topsize
  OBVIOUS
<1>1. seg = h.seg
  BY TopSegment
<1>2. SpecSeg(h, foot)
  BY <1>f, SegFacts
<1>3. /\ h.seg.base \in Nat /\ h.seg.size \in Nat \ {0} /\ Limit(h.seg) = h.seg.base + h.seg.size
      /\ h.seg = [base |-> h.seg.base, size |-> h.seg.size]
      /\ foot + TopFoot = Limit(h.seg) /\ h.seg.base <= h.top
      /\ h.top \in Int /\ h.topsize \in Nat \ {0} /\ TopFoot \in Nat \ {0} /\ Space \in Nat
  BY <1>2 DEF SpecSeg
<1>4. base \in Nat /\ size \in Nat \ {0} /\ base + size <= Space /\ base = Limit(h.seg)
  BY <1>1, <1>3 DEF Clear
<1>n. PICK n : n = h.topsize + size
  OBVIOUS
<1>l. PICK lim : lim = base + size
  OBVIOUS
<1>5. n \in Nat \ {0} /\ lim = h.top + n + TopFoot /\ lim \in Nat /\ lim <= Space
  BY <1>3, <1>4, <1>f, <1>l, <1>n
<1>6. Room(h.chunk, Segments(h), h.seg, lim)
  <2>1. ASSUME NEW f \in Segments(h), f # h.seg
        PROVE  Limit(f) <= h.seg.base \/ lim <= f.base
    <3>1. base + size <= f.base \/ Limit(f) <= base
      BY DEF Clear
    <3>2. Limit(f) <= h.seg.base \/ Limit(h.seg) <= f.base
      BY <2>1 DEF Good, Geometry, Segments
    <3>3. f.base \in Nat /\ f.size \in Nat \ {0}
      BY DEF Good, Geometry
    <3> QED BY <1>3, <1>4, <1>l, <3>1, <3>2, <3>3 DEF Limit
  <2>2. ASSUME NEW p \in DOMAIN h.chunk \ Regular(h.chunk)
        PROVE  End(h.chunk, p) + FootPad <= h.seg.base \/ lim <= p
    <3>1. base + size <= p \/ End(h.chunk, p) + FootPad <= base
      BY DEF Clear
    <3>2. End(h.chunk, p) + FootPad <= h.seg.base \/ Limit(h.seg) <= p
      BY DEF Good, Geometry, Segments
    <3>3. p \in Int /\ h.chunk[p].size \in Nat \ {0}
      BY BlockFacts
    <3> QED BY <1>3, <1>4, <1>l, <3>1, <3>2, <3>3 DEF End, FootPad
  <2> QED BY <1>5, <2>1, <2>2 DEF Room
<1>7. [h.seg EXCEPT !.size = @ + size] = [base |-> h.seg.base, size |-> lim - h.seg.base]
  <2>1. h.seg.size + size = lim - h.seg.base
    BY <1>3, <1>4, <1>l
  <2> QED BY <1>3, <2>1
<1>8. g = InitTop(NoTopFoot(Resized(h, h.seg, [base |-> h.seg.base, size |-> lim - h.seg.base])),
                  h.top, n)
  BY <1>1, <1>7, <1>n
<1>9. Good(g, B) /\ Frame(h, g, B) /\ g.topsize = n
  BY <1>5, <1>6, <1>8, Retop
<1> QED BY <1>9, <1>n

\* alloc_trim gives a part of the top back.
LEMMA ShrunkTopsFacts ==
  ASSUME NEW h, NEW B, Good(h, B), NEW g \in ShrunkTops(h)
  PROVE  Good(g, B) /\ Frame(h, g, B)
<1>f. PICK foot : foot = h.top + h.topsize
  OBVIOUS
<1>0. Good(h, B) /\ Frame(h, h, B)
  BY DEF Frame
<1>2. SpecSeg(h, foot)
  BY <1>f, SegFacts
<1>3. /\ h.seg.base \in Nat /\ h.seg.size \in Nat \ {0} /\ Limit(h.seg) = h.seg.base + h.seg.size
      /\ h.seg = [base |-> h.seg.base, size |-> h.seg.size]
      /\ foot + TopFoot = Limit(h.seg) /\ h.seg.base <= h.top /\ Limit(h.seg) <= Space
      /\ h.top \in Int /\ h.topsize \in Nat \ {0} /\ TopFoot \in Nat \ {0} /\ Space \in Nat
  BY <1>2 DEF SpecSeg
<1>e. PICK extra : extra = Pages(h.topsize - TopFoot) - Granularity
  OBVIOUS
<1>1. CASE g = h
  BY <1>0, <1>1
<1>4. CASE /\ h.topsize > TopFoot /\ extra > 0
           /\ g = InitTop(NoTopFoot(Resized(h, h.seg, [h.seg EXCEPT !.size = @ - extra])),
                          h.top, h.topsize - extra)
  <2>n. PICK n : n = h.topsize - extra
    OBVIOUS
  <2>l. PICK lim : lim = Limit(h.seg) - extra
    OBVIOUS
  <2>0. extra \in Nat /\ extra < h.topsize - TopFoot
    <3>1. h.topsize - TopFoot \in Nat
      BY <1>3, <1>4
    <3>2. PICK m : m = h.topsize - TopFoot
      OBVIOUS
    <3>3. Pages(m) \in Nat /\ Pages(m) < m + Granularity
      BY <3>1, <3>2, PagesFacts
    <3>4. Granularity \in Nat
      BY ConstantsOK
    <3> QED BY <1>4, <1>e, <3>1, <3>2, <3>3, <3>4
  <2>1. n \in Nat \ {0} /\ lim = h.top + n + TopFoot /\ lim \in Nat /\ lim <= Space /\ lim <= Limit(h.seg)
    BY <1>3, <1>f, <2>0, <2>l, <2>n
  <2>2. Room(h.chunk, Segments(h), h.seg, lim)
    <3>1. ASSUME NEW f \in Segments(h), f # h.seg
          PROVE  Limit(f) <= h.seg.base \/ lim <= f.base
      <4>1. Limit(f) <= h.seg.base \/ Limit(h.seg) <= f.base
        BY <3>1 DEF Good, Geometry, Segments
      <4>2. f.base \in Nat
        BY DEF Good, Geometry
      <4>3. Limit(h.seg) \in Int
        BY <1>3
      <4> QED BY <2>1, <4>1, <4>2, <4>3
    <3>2. ASSUME NEW p \in DOMAIN h.chunk \ Regular(h.chunk)
          PROVE  End(h.chunk, p) + FootPad <= h.seg.base \/ lim <= p
      <4>1. End(h.chunk, p) + FootPad <= h.seg.base \/ Limit(h.seg) <= p
        BY DEF Good, Geometry, Segments
      <4>2. p \in Int
        BY BlockFacts
      <4>3. Limit(h.seg) \in Int
        BY <1>3
      <4> QED BY <2>1, <4>1, <4>2, <4>3
    <3> QED BY <2>1, <3>1, <3>2 DEF Room
  <2>3. [h.seg EXCEPT !.size = @ - extra] = [base |-> h.seg.base, size |-> lim - h.seg.base]
    <3>1. h.seg.size - extra = lim - h.seg.base
      BY <1>3, <2>0, <2>l
    <3> QED BY <1>3, <3>1
  <2>4. g = InitTop(NoTopFoot(Resized(h, h.seg, [base |-> h.seg.base, size |-> lim - h.seg.base])),
                    h.top, n)
    BY <1>4, <2>3, <2>n
  <2> QED BY <2>1, <2>2, <2>4, Retop
<1>5. Holding(h, h.top) = h.seg
  BY HoldingTop
<1> QED BY <1>1, <1>4, <1>5, <1>e DEF ShrunkTops

=============================================================================
