--------------------------------- MODULE Heap ---------------------------------
(***************************************************************************)
(* The memory allocator of the Lua runtime, src/luajit/lj_alloc.c, between *)
(* the program, which calls lj_alloc_f, and the operating system, which    *)
(* maps memory where it likes, next to a segment or apart from all, or not *)
(* at all.  Addresses and sizes count words of the 64 bit build.  A chunk  *)
(* p spans two header words and the memory up to the first header word of  *)
(* the next chunk, prev_foot, which belongs to p while p is in use.        *)
(*                                                                         *)
(* Abstractions.  Of the memory only the headers are kept, those that a    *)
(* chunk starts with.  A bin is a set: which of several chunks of one size *)
(* is taken is left open, and the tree of a bin is the best fit it finds.  *)
(* Pages are as large as the granularity (mmap_align on Windows).          *)
(***************************************************************************)
EXTENDS Integers, FiniteSetsExt

CONSTANTS
  MinChunk,        \* MIN_CHUNK_SIZE
  SegChunk,        \* pad_request(sizeof(struct malloc_segment))
  MState,          \* the chunk of the struct malloc_state
  SmallLimit,      \* MIN_LARGE_SIZE: where the tree bins start
  Granularity,     \* DEFAULT_GRANULARITY
  TrimThreshold,   \* DEFAULT_TRIM_THRESHOLD
  MmapThreshold,   \* DEFAULT_MMAP_THRESHOLD
  CheckRate,       \* MAX_RELEASE_CHECK_RATE
  Space,           \* bound: the words of the address space
  Requests,        \* bound: the words the program asks for
  MaxLive,         \* bound: the blocks it holds at once
  None

TopFoot == SegChunk + MinChunk     \* TOP_FOOT_SIZE
FootPad == 4                       \* DIRECT_FOOT_PAD
Direct  == -1                      \* the prev_foot of a directly mapped chunk
Never   == Space + 1               \* MAX_SIZE_T as a trim threshold

ASSUME ConstantsOK ==
  /\ \A c \in {MinChunk, SegChunk, MState, SmallLimit, Granularity, CheckRate, Space} :
       c \in Nat \ {0}
  /\ 4 <= MinChunk /\ MinChunk <= SegChunk /\ MinChunk < SmallLimit
  /\ TrimThreshold \in Nat /\ MmapThreshold \in Nat /\ MaxLive \in Nat
  /\ MState + TopFoot + MinChunk <= Granularity /\ Granularity <= Space
  /\ Requests \subseteq Nat \ {0} /\ None \notin Int

VARIABLES
  heap,   \* chunk: the headers; dv, dvsize, top, topsize, bins (pairs of a free
          \* chunk and the size it is filed under), seg (m->seg) and linked (the
          \* records behind it), sys (the allocator's own chunks), trim
          \* (trim_check) and checks (release_checks) of struct malloc_state
  live    \* the blocks of the program: chunk and requested size

vars == <<heap, live>>

Small(s)   == s < SmallLimit
Pages(n)   == ((n + Granularity - 1) \div Granularity) * Granularity

\* request2size
PaddedBare(n) == Max({MinChunk, n})      \* mutant: no overhead
Padded(n)     == Max({MinChunk, n + 1})

(***************************************************************************)
(* Headers                                                                 *)
(***************************************************************************)
Used(s)   == [size |-> s, cinuse |-> TRUE, pinuse |-> TRUE, foot |-> 0]
Unused(s) == [size |-> s, cinuse |-> FALSE, pinuse |-> TRUE, foot |-> 0]

Without(C, S) == Restrict(C, DOMAIN C \ S)
Put(C, p, v)  == [q \in DOMAIN C \union {p} |-> IF q = p THEN v ELSE C[q]]

\* set_size_and_pinuse_of_inuse_chunk
SetUsed(C, p, s) == Put(C, p, Used(s))

\* set_inuse_and_pinuse: prev_foot of the next chunk is the program's now.
SetUsedAll(C, p, s) ==
  LET D == SetUsed(C, p, s)
  IN  [D EXCEPT ![p + s] = [@ EXCEPT !.pinuse = TRUE, !.foot = 0]]

\* set_size_and_pinuse_of_free_chunk
SetUnused(C, p, s) ==
  LET D == Put(C, p, Unused(s)) IN [D EXCEPT ![p + s].foot = s]

\* set_free_with_pinuse
SetFreeKept(C, p, s) == SetUnused(C, p, s)      \* mutant: PINUSE of the next one stays
SetFree(C, p, s) ==
  LET D == SetUnused(C, p, s) IN [D EXCEPT ![p + s].pinuse = FALSE]

\* insert_chunk and unlink_chunk
Bin(h, p, s)   == [h EXCEPT !.bins = @ \union {<<p, s>>}]
Unbin(h, p, s) == [h EXCEPT !.bins = @ \ {<<p, s>>}]

NoDv(h) == [h EXCEPT !.dv = None, !.dvsize = 0]

ReplaceDv(h, p, s) ==
  [(IF h.dvsize = 0 THEN h ELSE Bin(h, h.dv, h.dvsize)) EXCEPT !.dv = p, !.dvsize = s]

\* init_top.  The fake chunk behind the top holds the overhead.
InitTop(h, p, s) ==
  [h EXCEPT !.top = p, !.topsize = s, !.trim = TrimThreshold,
            !.chunk = Put(Put(@, p + s, [Unused(TopFoot) EXCEPT !.pinuse = FALSE]), p, Unused(s))]

NoTopFoot(h) == [h EXCEPT !.chunk = Without(@, {h.top + h.topsize})]

(***************************************************************************)
(* The operating system                                                    *)
(***************************************************************************)
Holds(seg, a) == seg.base <= a /\ a < seg.base + seg.size

Segments(h) == {h.seg} \union h.linked

\* The record of a segment is changed.
Resized(h, seg, new) ==
  IF seg = h.seg THEN [h EXCEPT !.seg = new]
  ELSE [h EXCEPT !.linked = (@ \ {seg}) \union {new}]

\* segment_holding
Holding(h, a) == CHOOSE seg \in Segments(h) : Holds(seg, a)

Mapped(h) ==
  Segments(h) \union {[base |-> p, size |-> h.chunk[p].size + FootPad] :
                          p \in {q \in DOMAIN h.chunk : h.chunk[q].foot = Direct}}

\* Where size words can be mapped.
Regions(h, size) ==
  {a \in {g * Granularity : g \in 0..(Space \div Granularity)} :
     /\ a + size <= Space
     /\ \A m \in Mapped(h) : a + size <= m.base \/ m.base + m.size <= a}

(***************************************************************************)
(* Allocation.  A result is the heap and the chunk, or None when there is  *)
(* no memory; these operators return the set of the possible results.      *)
(***************************************************************************)
Result(h, p) == [heap |-> h, at |-> p]

\* Whether the remainder of a chunk of size s is too small to be a chunk.
NoRestLax(s, nb) == s = nb          \* mutant
NoRest(s, nb)    == s - nb < MinChunk

\* The chunk p of size s, which is in no bin, is used whole, or its front is
\* used and the remainder becomes the designated victim or goes to a bin.
Take(h, p, s, nb, victim) ==
  IF NoRest(s, nb)
  THEN Result([h EXCEPT !.chunk = SetUsedAll(@, p, s)], p)
  ELSE LET r == [h EXCEPT !.chunk = SetUnused(SetUsed(@, p, nb), p + nb, s - nb)]
       IN  Result(IF victim THEN ReplaceDv(r, p + nb, s - nb) ELSE Bin(r, p + nb, s - nb), p)

BestFit(bins) == {b \in bins : \A c \in bins : b[2] <= c[2]}

FromDv(h, nb) == Take(NoDv(h), h.dv, h.dvsize, nb, TRUE)

FromTop(h, nb) ==
  Result([h EXCEPT !.top = h.top + nb, !.topsize = @ - nb,
                   !.chunk = Put(SetUsed(@, h.top, nb), h.top + nb, Unused(h.topsize - nb))],
         h.top)

\* direct_alloc
DirectAlloc(h, nb) ==
  LET size == Pages(nb + 6)
  IN  {Result([h EXCEPT !.chunk =
                 Put(@, a, [Used(size - FootPad) EXCEPT !.pinuse = FALSE, !.foot = Direct])], a) :
         a \in Regions(h, size)}

ExtendedDownNot(seg, base, size) == [seg EXCEPT !.base = base]     \* mutant
ExtendedDown(seg, base, size)    == [base |-> base, size |-> seg.size + size]

\* prepend_alloc: the new memory ends where seg starts.
Prepend(h, seg, base, size, nb) ==
  LET first == seg.base
      q     == base + nb
      qsize == size - nb
      g     == [Resized(h, seg, ExtendedDown(seg, base, size)) EXCEPT !.chunk = SetUsed(@, base, nb)]
      old   == g.chunk[first].size
  IN  CASE first = h.top ->
             [g EXCEPT !.top = q, !.topsize = @ + qsize,
                       !.chunk = Put(Without(@, {first}), q, Unused(h.topsize + qsize))]
        [] first = h.dv ->
             [g EXCEPT !.dv = q, !.dvsize = @ + qsize,
                       !.chunk = SetUnused(Without(@, {first}), q, h.dvsize + qsize)]
        [] g.chunk[first].cinuse /\ first \notin {h.top, h.dv} ->
             Bin([g EXCEPT !.chunk = SetFree(@, q, qsize)], q, qsize)
        [] OTHER ->
             Bin([Unbin(g, first, old) EXCEPT !.chunk = SetFree(Without(@, {first}), q, qsize + old)],
                 q, qsize + old)

\* add_segment: the record of the segment that held the top goes to the end of
\* it, fenceposts behind it, and the rest of the top to a bin.
AddSegment(h, base, size) ==
  LET old   == Holding(h, h.top)
      end   == old.base + old.size
      sp    == IF end - TopFoot < h.top + MinChunk THEN h.top ELSE end - TopFoot
      fence == sp + SegChunk
      g     == InitTop(NoTopFoot(h), base, size - TopFoot)
      C     == SetUsed(SetUsed(Without(g.chunk, {h.top}), sp, SegChunk), fence, end - fence)
      r     == [g EXCEPT !.seg = [base |-> base, size |-> size], !.linked = @ \union {h.seg},
                         !.sys = @ \union {sp, fence}, !.chunk = C]
  IN  IF sp = h.top THEN r
      ELSE Bin([r EXCEPT !.chunk = SetFree(C, h.top, sp - h.top)], h.top, sp - h.top)

\* alloc_sys with the memory mapped at base: it extends the segment of the top,
\* or another one at its lower end, or is a segment of its own.
GrownAt(h, base, size, nb) ==
  LET lower == {seg \in Segments(h) : seg.base + seg.size = base /\ Holds(seg, h.top)}
      upper == {seg \in Segments(h) : seg.base = base + size}
  IN  IF lower # {}
      THEN {FromTop(InitTop(NoTopFoot(Resized(h, seg, [seg EXCEPT !.size = @ + size])),
                            h.top, h.topsize + size), nb) : seg \in lower}
      ELSE IF upper # {} THEN {Result(Prepend(h, seg, base, size, nb), base) : seg \in upper}
      ELSE {FromTop(AddSegment(h, base, size), nb)}

AllocSys(h, nb) ==
  LET size == Pages(nb + TopFoot + 1)
  IN  (IF nb >= MmapThreshold THEN DirectAlloc(h, nb) ELSE {})
      \union {Result(h, None)}
      \union UNION {GrownAt(h, base, size, nb) : base \in Regions(h, size)}

\* lj_alloc_malloc
FromDvTopOrSys(h, nb) ==
  IF nb <= h.dvsize THEN {FromDv(h, nb)}
  ELSE IF nb < h.topsize THEN {FromTop(h, nb)}
  ELSE AllocSys(h, nb)

MallocSmall(h, nb) ==
  LET exact == {b \in h.bins : Small(b[2]) /\ b[2] \in {nb, nb + 1}}
      fits  == {b \in h.bins : b[2] >= nb}
  IN  IF exact # {}
      THEN {Result([Unbin(h, b[1], b[2]) EXCEPT !.chunk = SetUsedAll(@, b[1], b[2])], b[1]) :
              b \in BestFit(exact)}
      ELSE IF nb > h.dvsize /\ fits # {}
      THEN {Take(Unbin(h, b[1], b[2]), b[1], b[2], nb, TRUE) : b \in BestFit(fits)}
      ELSE FromDvTopOrSys(h, nb)

MallocLarge(h, nb) ==
  LET fits   == {b \in h.bins : b[2] >= nb}
      better == {b \in BestFit(fits) : h.dvsize < nb \/ b[2] < h.dvsize}
  IN  IF better # {}
      THEN {Take(Unbin(h, b[1], b[2]), b[1], b[2], nb, FALSE) : b \in better}
      ELSE FromDvTopOrSys(h, nb)

Malloc(h, n) == IF Small(Padded(n)) THEN MallocSmall(h, Padded(n)) ELSE MallocLarge(h, Padded(n))

(***************************************************************************)
(* Release.  munmap and mremap may fail, so these return sets of heaps.    *)
(***************************************************************************)
\* The first chunk of the segment is free and reaches to its record.
Releasable(h, seg) ==
  LET c == h.chunk[seg.base]
  IN  ~c.cinuse /\ seg.base + c.size >= seg.base + seg.size - TopFoot

ChecksExact(n) == n                 \* mutant: no minimum
Checks(n) == Max({n, CheckRate})

\* release_unused_segments when munmap succeeds for the segments of S.  A
\* designated victim whose segment it failed for is in a bin then.
Released(h, S) ==
  LET gone   == {q \in DOMAIN h.chunk : \E seg \in S : Holds(seg, q)}
      first  == {<<seg.base, h.chunk[seg.base].size>> : seg \in S}
      victim == \E seg \in h.linked : Releasable(h, seg) /\ seg.base = h.dv
      g      == IF victim THEN NoDv(Bin(h, h.dv, h.chunk[h.dv].size)) ELSE h
  IN  [g EXCEPT !.linked = @ \ S, !.sys = @ \ gone, !.chunk = Without(@, gone),
                !.bins = @ \ first, !.checks = Checks(Cardinality(h.linked))]

ReleaseUnused(h) ==
  {Released(h, S) : S \in SUBSET {seg \in h.linked : Releasable(h, seg)}}

\* alloc_trim with pad 0.
ShrunkTops(h) ==
  LET extra == Pages(h.topsize - TopFoot) - Granularity
      seg   == Holding(h, h.top)
  IN  IF h.topsize > TopFoot /\ extra > 0 /\ seg.size >= extra /\ \A p \in h.sys : ~Holds(seg, p)
      THEN {h, InitTop(NoTopFoot(Resized(h, seg, [seg EXCEPT !.size = @ - extra])),
                       h.top, h.topsize - extra)}
      ELSE {h}

Trim(h) ==
  LET released(g) == Segments(g) # Segments(h)
  IN  {IF ~released(g) /\ g.topsize > g.trim THEN [g EXCEPT !.trim = Never] ELSE g :
         g \in UNION {ReleaseUnused(g) : g \in ShrunkTops(h)}}

\* The last part of lj_alloc_free: the free chunk p goes to a bin.
Filed(h, p, s) ==
  LET g == Bin(h, p, s)
  IN  IF Small(s) THEN {g}
      ELSE IF g.checks = 1 THEN ReleaseUnused(g) ELSE {[g EXCEPT !.checks = @ - 1]}

\* lj_alloc_free behind the consolidation with the chunk before: p, of size s,
\* is free now, and the chunk behind it is next.
FreeForward(h, p, s) ==
  LET next  == p + s
      nsize == h.chunk[next].size
      merged == [h EXCEPT !.chunk = Without(@, {next})]
      total == s + nsize
  IN  CASE h.chunk[next].cinuse ->
             Filed([h EXCEPT !.chunk = SetFree(@, p, s)], p, s)
        [] next = h.top ->
             LET g == [(IF p = h.dv THEN NoDv(merged) ELSE merged)
                         EXCEPT !.top = p, !.topsize = @ + s, !.chunk = Put(@, p, Unused(total))]
             IN  IF total > h.trim THEN Trim(g) ELSE {g}
        [] next = h.dv ->
             {[merged EXCEPT !.dv = p, !.dvsize = total, !.chunk = SetUnused(@, p, total)]}
        [] ~h.chunk[next].cinuse /\ next \notin {h.top, h.dv} ->
             LET g == [Unbin(merged, next, nsize) EXCEPT !.chunk = SetUnused(@, p, total)]
             IN  IF p = h.dv THEN {[g EXCEPT !.dvsize = total]} ELSE Filed(g, p, total)

Free(h, p) ==
  LET c    == h.chunk[p]
      prev == p - c.foot
      size == c.size + c.foot
      back == [h EXCEPT !.chunk = Without(@, {p})]
  IN  CASE c.pinuse -> FreeForward(h, p, c.size)
        [] ~c.pinuse /\ c.foot = Direct -> {back}
        [] ~c.pinuse /\ c.foot # Direct /\ prev # h.dv ->
             FreeForward(Unbin(back, prev, c.foot), prev, size)
        [] OTHER ->
             IF h.chunk[p + c.size].cinuse
             THEN {[back EXCEPT !.dvsize = size, !.chunk = SetFree(@, prev, size)]}
             ELSE FreeForward(back, prev, size)

(***************************************************************************)
(* lj_alloc_realloc                                                        *)
(***************************************************************************)
\* direct_resize: whether the chunk is kept, and the results of mremap, which
\* must not move it (CALL_MREMAP_NOMOVE in the 64 bit build).
Fits(h, p, nb) ==
  LET old == h.chunk[p].size
  IN  ~Small(nb) /\ old >= nb + 1 /\ old - nb <= Granularity \div 2

Remapped(h, p, nb) ==
  LET size == Pages(nb + 6)
      rest == [h EXCEPT !.chunk = Without(@, {p})]
  IN  IF Small(nb) \/ p \notin Regions(rest, size) THEN {}
      ELSE {Result([h EXCEPT !.chunk[p].size = size - FootPad], p)}

FreedRestUnmerged(h, p) ==          \* mutant: put into a bin as it is
  Filed([h EXCEPT !.chunk = SetFree(@, p, @[p].size)], p, h.chunk[p].size)
FreedRest(h, p) == Free(h, p)

\* The block shrinks, or grows into the top, where it is.
InPlace(h, p, nb) ==
  LET c == h.chunk[p]
      next == p + c.size
      rem  == p + nb
  IN  CASE c.size >= nb ->
             IF NoRest(c.size, nb) THEN {Result(h, p)}
             ELSE LET split == [h EXCEPT !.chunk =
                                  SetUsedAll(Put(@, p, [c EXCEPT !.size = nb]), rem, c.size - nb)]
                  IN  {Result(g, p) : g \in FreedRest(split, rem)}
        [] c.size < nb /\ next = h.top /\ c.size + h.topsize > nb ->
             {Result([h EXCEPT !.top = rem, !.topsize = c.size + @ - nb,
                       !.chunk = Put(Put(Without(@, {next}), rem, Unused(c.size + h.topsize - nb)),
                                     p, [c EXCEPT !.size = nb])], p)}
        [] OTHER -> {}

\* malloc, copy and free.  The copy takes what fits, which is all the program
\* has put there (Apart).
MovedFreedFirst(h, p, n) ==         \* mutant: the old block is freed first
  UNION {{IF r.at = None THEN Result(h, None) ELSE r : r \in Malloc(g, n)} : g \in Free(h, p)}
Moved(h, p, n) ==
  UNION {IF r.at = None THEN {r} ELSE {Result(g, r.at) : g \in Free(r.heap, p)} :
           r \in Malloc(h, n)}

Realloc(h, p, n) ==
  LET nb     == Padded(n)
      direct == h.chunk[p].foot = Direct
  IN  CASE direct /\ Fits(h, p, nb)  -> {Result(h, p)}
        [] direct /\ ~Fits(h, p, nb) -> Remapped(h, p, nb) \union Moved(h, p, n)
        [] OTHER -> LET kept == InPlace(h, p, nb)
                    IN  IF kept = {} THEN Moved(h, p, n) ELSE kept

(***************************************************************************)
(* Behaviours                                                              *)
(***************************************************************************)
\* lj_alloc_create
Init ==
  /\ live = <<>>
  /\ heap = InitTop([chunk |-> [p \in {0} |-> Used(MState)], dv |-> None, dvsize |-> 0,
                     top |-> 0, topsize |-> 0, bins |-> {},
                     seg |-> [base |-> 0, size |-> Granularity], linked |-> {}, sys |-> {0},
                     trim |-> 0, checks |-> CheckRate],
                    MState, Granularity - MState - TopFoot)

MallocCall(n) ==
  /\ Cardinality(DOMAIN live) < MaxLive
  /\ \E r \in Malloc(heap, n) :
       /\ heap' = r.heap
       /\ live' = IF r.at = None THEN live ELSE Put(live, r.at, n)

FreeCall(p) ==
  /\ heap' \in Free(heap, p)
  /\ live' = Without(live, {p})

ReallocCall(p, n) ==
  \E r \in Realloc(heap, p, n) :
    /\ heap' = r.heap
    /\ live' = IF r.at = None THEN live ELSE Put(Without(live, {p}), r.at, n)

Next ==
  \/ \E n \in Requests : MallocCall(n)
  \/ \E p \in DOMAIN live : FreeCall(p)
  \/ \E p \in DOMAIN live, n \in Requests : ReallocCall(p, n)

Spec == Init /\ [][Next]_vars

(***************************************************************************)
(* Properties                                                              *)
(***************************************************************************)
Chunks     == DOMAIN heap.chunk
Foot       == heap.top + heap.topsize
Mapping(p) == heap.chunk[p].foot = Direct
IsFree(p)  == ~heap.chunk[p].cinuse /\ p \notin {heap.top, Foot}
InSegs     == {p \in Chunks : ~Mapping(p)}

TypeOK ==
  /\ Chunks \subseteq 0..Space - 1
  /\ \A p \in Chunks : heap.chunk[p] \in
       [size : 1..Space, cinuse : BOOLEAN, pinuse : BOOLEAN, foot : -1..Space]
  /\ heap.top \in Chunks /\ heap.dv \in Chunks \union {None}
  /\ heap.checks \in Nat \ {0}
  /\ heap.trim \in {TrimThreshold, Never}

\* The chunks of every segment lie end to end and fill it, whichever way it
\* was split, merged, extended at either end or cut: no two overlap and no word
\* is lost.
Tiled ==
  /\ \A p \in InSegs : \E seg \in Segments(heap) :
       /\ Holds(seg, p)
       /\ LET end == p + heap.chunk[p].size
          IN  end = seg.base + seg.size \/ (end \in InSegs /\ Holds(seg, end))
  /\ \A seg \in Segments(heap) : seg.base \in InSegs
  /\ \A p, q \in InSegs : p < q => p + heap.chunk[p].size <= q

\* What a chunk says of the one before it is true, so that consolidation
\* never takes the program's data for a size: PINUSE agrees with CINUSE, and
\* prev_foot is the size of a free chunk.
TagsAgree ==
  \A p \in InSegs :
    LET next == p + heap.chunk[p].size
    IN  p # heap.top /\ (\E seg \in Segments(heap) : Holds(seg, p) /\ Holds(seg, next)) =>
          /\ heap.chunk[next].pinuse = heap.chunk[p].cinuse
          /\ IsFree(p) => heap.chunk[next].foot = heap.chunk[p].size

\* What is freed is merged with what is free beside it and found again, once:
\* a free chunk borders on no other one and not on the top, is in the bin of its
\* size or the designated victim, and nothing else is (lj_alloc_free).
Filing ==
  /\ \A p \in InSegs : IsFree(p) => heap.chunk[p + heap.chunk[p].size].cinuse
  /\ heap.bins = {<<p, heap.chunk[p].size>> : p \in {q \in InSegs : IsFree(q) /\ q # heap.dv}}
  /\ heap.topsize = heap.chunk[heap.top].size
  /\ IF heap.dv = None THEN heap.dvsize = 0
     ELSE IsFree(heap.dv) /\ heap.dvsize = heap.chunk[heap.dv].size
  /\ \A b \in heap.bins : b[2] >= MinChunk

\* The program's blocks are in use and as large as it asked for, and nothing
\* else is in use but what the allocator needs itself.
BlocksKept ==
  /\ {p \in Chunks : heap.chunk[p].cinuse} = DOMAIN live \union heap.sys
  /\ DOMAIN live \intersect heap.sys = {}
  /\ \A p \in DOMAIN live :
       live[p] + (IF Mapping(p) THEN 2 ELSE 1) <= heap.chunk[p].size

\* A block that realloc moves goes to memory that does not overlap the old
\* block, from which it is copied.
Words(h, p) == p + 2..p + h.chunk[p].size
Apart ==
  [][\A p \in DOMAIN live \ DOMAIN live' : \A q \in DOMAIN live' \ DOMAIN live :
       Words(heap, p) \intersect Words(heap', q) = {}]_vars
=============================================================================
