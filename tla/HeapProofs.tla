----------------------------- MODULE HeapProofs -----------------------------
(***************************************************************************)
(* What the allocator of the Lua runtime guarantees for every size of the  *)
(* address space, of chunks, segments and requests, and whatever the       *)
(* operating system answers.                                               *)
(*                                                                         *)
(*   - HeapInvariant shows what the changes within a segment keep.         *)
(*   - LinkedFacts does so for a new segment, RemapsFacts for directly     *)
(*     mapped chunks, ReleasedFacts for released segments.                 *)
(*   - MallocFacts, FreeFacts and ReallocFacts put the cases together.     *)
(*   - IInv says that the heap is good for the blocks of the program.      *)
(***************************************************************************)
EXTENDS HeapInvariant

(***************************************************************************)
(* A new segment: m->seg is linked behind it, with its record at sp and    *)
(* the fenceposts behind it, and the top is the new memory.                *)
(***************************************************************************)

\* The chunks of the old segment of the top and of the new one.
LEMMA LinkingFacts ==
  ASSUME NEW h, NEW B, NEW base, NEW size, NEW r, NEW sp, NEW fence, NEW T1, NEW T2, NEW V,
         Linking(h, B, base, size, r, sp, fence, T1, T2, V),
         NEW a, a = h.top, NEW end, end = Limit(h.seg), NEW last, last = base + (size - TopFoot)
  PROVE  SpecLinking(h, B, base, size, r, sp, fence, T1, T2, V, a, end, last)
<1> DEFINE C == h.chunk
           D == r.chunk
<1>f. PICK foot : foot = h.top + h.topsize
  OBVIOUS
<1>u. PICK u : u = h.topsize
  OBVIOUS
<1>0. /\ Good(h, B) /\ Clear(h, base, size) /\ TopFoot < size /\ fence = sp + SegChunk
      /\ IsMap(D) /\ DOMAIN D = OldChunks(h) \union (T1 \union T2)
      /\ T2 = {base, last}
      /\ D[base].size = size - TopFoot /\ D[base].foot = 0
      /\ D[last].size = TopFoot /\ D[last].foot = 0
      /\ D[sp].size = SegChunk
      /\ D[fence].size = foot + TopFoot - fence /\ D[fence].foot = 0
  BY <1>f DEF Linking
<1>1. \/ sp = a /\ u < MinChunk /\ T1 = {sp, fence} /\ V = {} /\ D[sp].foot = 0
      \/ /\ sp = foot /\ MinChunk <= u /\ T1 = {a, sp, fence} /\ V = {a} /\ D[sp].foot = u
         /\ D[a].size = u /\ D[a].foot = 0
  BY <1>f, <1>u DEF Linking
<1>2. SpecSeg(h, foot)
  BY <1>0, <1>f, SegFacts
<1>3. /\ foot + TopFoot = end /\ end <= Space /\ end \in Int
      /\ a \in Int /\ u \in Nat \ {0} /\ foot = a + u
      /\ TopFoot \in Nat \ {0}
  <2>1. /\ foot + TopFoot = end /\ end <= Space /\ end = h.seg.base + h.seg.size
        /\ h.seg.base \in Nat /\ h.seg.size \in Nat
        /\ a \in Int /\ u \in Nat \ {0} /\ foot = a + u
        /\ TopFoot \in Nat \ {0}
    BY <1>2, <1>u DEF SpecSeg
  <2> QED BY <2>1
<1>4. base \in Int /\ size \in Nat
  BY <1>0 DEF Clear
<1>5. MinChunk \in Nat \ {0} /\ SegChunk \in Nat \ {0} /\ TopFoot = SegChunk + MinChunk /\ MinChunk <= SegChunk
  BY ConstantsOK DEF TopFoot
<1>6. /\ sp \in Int /\ fence \in Int /\ last \in Int
      /\ a <= sp /\ sp < fence /\ fence < end /\ sp + TopFoot <= end
      /\ V # {} => a < sp
  <2>1. CASE sp = a /\ u < MinChunk /\ V = {}
    BY <1>0, <1>3, <1>4, <1>5, <2>1
  <2>2. CASE sp = foot /\ V = {a}
    BY <1>0, <1>3, <1>4, <1>5, <2>2
  <2> QED BY <1>1, <2>1, <2>2
<1>7. base < last /\ last < base + size /\ last + TopFoot = base + size
  BY <1>0, <1>3, <1>4
<1>8. /\ End(D, sp) = fence /\ End(D, fence) = end /\ End(D, base) = last /\ End(D, last) = base + size
  BY <1>0, <1>3, <1>4, <1>6, <1>7 DEF End
<1>9. V # {} => End(D, a) = sp
  BY <1>1, <1>3 DEF End
<1>10. /\ sp \in T1 /\ fence \in T1 /\ T1 = V \union {sp, fence} /\ V \subseteq {a} /\ a \in T1
  BY <1>1
<1>11. Tiles(D, T2, base, base + size)
  <2>1. T2 \subseteq Regular(D)
    BY <1>0 DEF Regular, Direct
  <2>2. \A x \in T2 : base <= x /\ x < base + size
    BY <1>0, <1>4, <1>6, <1>7
  <2>3. \A x, y \in T2 : x < y => x = base /\ y = last
    BY <1>0, <1>4, <1>6, <1>7
  <2>4. \A x, y \in T2 : x < y => End(D, x) <= y
    BY <1>6, <1>8, <2>3
  <2>5. \A x \in T2 : End(D, x) = base + size \/ End(D, x) \in T2
    BY <1>0, <1>8
  <2>6. base + size \in Int /\ base \in T2
    BY <1>0, <1>4
  <2> QED BY <1>0, <2>1, <2>2, <2>4, <2>5, <2>6 DEF Tiles
<1>12. Tiles(D, T1, a, end)
  <2>1. T1 \subseteq Regular(D)
    <3>1. T1 \subseteq DOMAIN D
      BY <1>0
    <3>2. \A x \in T1 : D[x].foot # Direct
      BY <1>0, <1>1, <1>3 DEF Direct
    <3> QED BY <3>1, <3>2 DEF Regular
  <2>2. \A x \in T1 : x = sp \/ x = fence \/ (x = a /\ V # {})
    BY <1>10
  <2>3. \A x \in T1 : a <= x /\ x < end
    BY <1>3, <1>6, <2>2
  <2>4. \A x \in T1 : End(D, x) = end \/ End(D, x) \in T1
    BY <1>8, <1>9, <1>10, <2>2
  <2>5. ASSUME NEW x \in T1, NEW y \in T1, x < y PROVE End(D, x) <= y
    <3>1. CASE x = fence
      BY <1>3, <1>6, <2>2, <2>5, <3>1
    <3>2. CASE x = sp
      BY <1>3, <1>6, <1>8, <2>2, <2>5, <3>2
    <3>3. CASE x = a /\ V # {}
      BY <1>3, <1>6, <1>9, <2>2, <2>5, <3>3
    <3> QED BY <2>2, <3>1, <3>2, <3>3
  <2> QED BY <1>0, <1>3, <1>10, <2>1, <2>3, <2>4, <2>5 DEF Tiles
<1> QED BY <1>3, <1>4, <1>6, <1>7, <1>8, <1>9, <1>10, <1>11, <1>12 DEF SpecLinking

\* Both segments are tiled.
LEMMA LinkingGeometry ==
  ASSUME NEW h, NEW B, NEW base, NEW size, NEW r, NEW sp, NEW fence, NEW T1, NEW T2, NEW V,
         Linking(h, B, base, size, r, sp, fence, T1, T2, V),
         NEW Y, Y = Segments(h) \union {[base |-> base, size |-> size]}
  PROVE  /\ Geometry(r.chunk, Y) /\ SegmentsStay(h, Y)
         /\ \A x \in OldChunks(h) : x \notin T1 /\ x \notin T2
         /\ DOMAIN r.chunk \ Regular(r.chunk) = DOMAIN h.chunk \ Regular(h.chunk)
         /\ DOMAIN h.chunk \ Regular(h.chunk) \subseteq OldChunks(h)
<1> DEFINE C == h.chunk
           D == r.chunk
           Z == Segments(h)
<1>a. PICK a : a = h.top
  OBVIOUS
<1>e. PICK end : end = Limit(h.seg)
  OBVIOUS
<1>l. PICK last : last = base + (size - TopFoot)
  OBVIOUS
<1>m. PICK lim : lim = base + size
  OBVIOUS
<1>s. SpecLinking(h, B, base, size, r, sp, fence, T1, T2, V, a, end, last)
  BY <1>a, <1>e, <1>l, LinkingFacts
<1>0. /\ Good(h, B) /\ Clear(h, base, size)
      /\ IsMap(D) /\ DOMAIN D = OldChunks(h) \union (T1 \union T2) /\ \A x \in OldChunks(h) : D[x] = C[x]
  BY DEF Linking
<1>1. /\ Tiles(D, T1, a, end) /\ Tiles(D, T2, base, lim) /\ base < lim /\ a < end /\ a \in Int /\ end \in Int
      /\ end <= Space
  <2>1. /\ Tiles(D, T1, a, end) /\ Tiles(D, T2, base, lim) /\ end <= Space
        /\ a \in Int /\ end \in Int /\ sp \in Int /\ fence \in Int /\ last \in Int /\ base \in Int
        /\ a <= sp /\ sp < fence /\ fence < end /\ base < last /\ last < lim /\ last + TopFoot = lim
    BY <1>m, <1>s DEF SpecLinking
  <2>2. lim \in Int
    BY <2>1 DEF Tiles
  <2> QED BY <2>1, <2>2
<1>k. PICK K : K = OldChunks(h)
  OBVIOUS
<1>2. K = {x \in DOMAIN C : x < a \/ end <= x} /\ K = {x \in DOMAIN C : x # a /\ x # a + h.topsize}
  BY <1>0, <1>a, <1>e, <1>k, BehindTop DEF OldChunks
<1>3. \A x \in DOMAIN C : x \in Int
  BY <1>0, BlockFacts
<1>4. \A x \in K : x \notin T1
  BY <1>1, <1>2, <1>3 DEF Tiles
<1>5. \A x \in DOMAIN C : x < base \/ lim <= x
  BY <1>0, <1>m, ClearFacts
<1>6. base \in Nat /\ lim \in Nat /\ lim <= Space /\ lim - base = size
  BY <1>0, <1>m DEF Clear
<1>7. \A x \in T2 : base <= x /\ x < lim /\ x \in Int
  <2>1. \A x \in DOMAIN D : x \in Int
    BY <1>0, ConstantsOK DEF IsMap
  <2> QED BY <1>1, <2>1 DEF Tiles, Regular
<1>8. \A x \in K : x \notin T2
  BY <1>2, <1>3, <1>5, <1>6, <1>7
<1>9. \A x \in T1 : x \notin T2
  <2>1. \A x \in T1 : a <= x /\ x < end /\ x \in Int
    <3>1. \A x \in DOMAIN D : x \in Int
      BY <1>0, ConstantsOK DEF IsMap
    <3> QED BY <1>1, <3>1 DEF Tiles, Regular
  <2>2. h.seg \in Z
    BY DEF Segments
  <2>3. lim <= h.seg.base \/ end <= base
    BY <1>0, <1>e, <1>m, <2>2 DEF Clear
  <2>4. h.seg.base <= a /\ h.seg.base \in Nat
    BY <1>0, <1>a, <2>2 DEF Good, TopLast, Holds, Geometry
  <2> QED BY <1>1, <1>6, <1>7, <2>1, <2>3, <2>4
\* The old segment.
<1>d. PICK E : E = Without(D, T2)
  OBVIOUS
<1>10. IsMap(E) /\ DOMAIN E = K \union T1 /\ \A x \in DOMAIN E : E[x] = D[x]
  <2>1. SpecWithout(D, T2, E)
    BY <1>0, <1>d, WithoutSpec
  <2>2. IsMap(E) /\ DOMAIN E = DOMAIN D \ T2 /\ \A x \in DOMAIN D \ T2 : E[x] = D[x]
    BY <2>1 DEF SpecWithout
  <2>3. DOMAIN D \ T2 = K \union T1
    BY <1>0, <1>8, <1>9, <1>k
  <2> QED BY <2>2, <2>3
<1>11. Tiles(E, T1, a, end)
  <2>1. /\ a \in T1 /\ T1 \subseteq Regular(D) /\ end \in Int
        /\ \A x \in T1 : a <= x /\ x < end /\ (End(D, x) = end \/ End(D, x) \in T1)
        /\ \A x, y \in T1 : x < y => End(D, x) <= y
    BY <1>1 DEF Tiles
  <2>2. \A x \in T1 : End(E, x) = End(D, x) /\ x \in Regular(E)
    BY <1>10, <2>1 DEF End, Regular
  <2> QED BY <1>10, <2>1, <2>2 DEF Tiles
<1>12. h.seg.base \in Nat /\ end = h.seg.base + h.seg.size /\ h.seg = [base |-> h.seg.base, size |-> end - h.seg.base]
  <2>1. SpecSeg(h, h.top + h.topsize)
    BY <1>0, SegFacts
  <2>2. /\ h.seg.base \in Nat /\ h.seg.size \in Nat \ {0} /\ end = h.seg.base + h.seg.size
        /\ h.seg = [base |-> h.seg.base, size |-> h.seg.size]
    BY <1>e, <2>1 DEF SpecSeg
  <2>3. end - h.seg.base = h.seg.size
    BY <2>2
  <2> QED BY <2>2, <2>3
<1>13. Room(C, Z, h.seg, end)
  <2>1. \A f \in Z : f = h.seg \/ Limit(f) <= h.seg.base \/ end <= f.base
    BY <1>0, <1>e DEF Good, Geometry, Segments
  <2>2. \A p \in DOMAIN C \ Regular(C) : End(C, p) + FootPad <= h.seg.base \/ end <= p
    BY <1>0, <1>e DEF Good, Geometry, Segments
  <2>3. end \in Nat
    <3>1. h.seg.size \in Nat
      BY <1>0 DEF Good, Geometry, Segments
    <3> QED BY <1>12, <3>1
  <2> QED BY <1>1, <2>1, <2>2, <2>3 DEF Room
<1>14. Retiled(C, E, Z, Z, h.seg, a, end, T1)
  <2>1. h.seg \in Z /\ Holds(h.seg, a) /\ Geometry(C, Z) /\ a \in Regular(C) /\ IsMap(C)
    BY <1>0, <1>a DEF Good, TopLast, Segments, Headers
  <2>2. Z = (Z \ {h.seg}) \union {[base |-> h.seg.base, size |-> end - h.seg.base]}
    BY <1>12, <2>1
  <2>3. \A x \in DOMAIN C : x < a \/ Limit(h.seg) <= x => E[x] = C[x]
    BY <1>0, <1>2, <1>10, <1>e, <1>k
  <2>4. DOMAIN E = {x \in DOMAIN C : x < a \/ Limit(h.seg) <= x} \union T1
    BY <1>2, <1>10, <1>e
  <2> QED BY <1>11, <1>13, <2>1, <2>2, <2>3, <2>4 DEF Retiled
<1>15. Geometry(E, Z) /\ SegmentsStay(h, Z)
  BY <1>0, <1>14, <1>a, RetiledGeometry, TailSegments
<1>16. DOMAIN E \ Regular(E) = DOMAIN C \ Regular(C) /\ \A x \in DOMAIN C \ Regular(C) : End(E, x) = End(C, x)
  <2>1. SpecRetiled(C, E, h.seg, a, end, T1)
    BY <1>14, RetiledFacts
  <2> QED BY <2>1 DEF SpecRetiled
\* The new one.
<1>17. Added(E, D, Z, Y, base, lim, T2)
  <2>1. /\ \A f \in Z : lim <= f.base \/ Limit(f) <= base
        /\ \A p \in DOMAIN C \ Regular(C) : End(C, p) + FootPad <= base \/ lim <= p
    BY <1>0, <1>m DEF Clear
  <2>2. \A p \in DOMAIN E \ Regular(E) : End(E, p) + FootPad <= base \/ lim <= p
    BY <1>16, <2>1
  <2>3. DOMAIN D = DOMAIN E \union T2
    BY <1>0, <1>10, <1>k
  <2>4. Y = Z \union {[base |-> base, size |-> lim - base]}
    BY <1>6
  <2> QED BY <1>1, <1>6, <1>10, <1>15, <2>1, <2>2, <2>3, <2>4 DEF Added
<1>18. Geometry(D, Y)
  BY <1>17, AddedGeometry
<1>19. DOMAIN D \ Regular(D) = DOMAIN C \ Regular(C)
  <2>1. SpecAdded(E, D, base, lim, T2)
    BY <1>17, AddedFacts
  <2> QED BY <1>16, <2>1 DEF SpecAdded
<1>20. DOMAIN C \ Regular(C) \subseteq K
  <2>1. SpecTop(h, B, h.top + h.topsize)
    BY <1>0, TopFacts
  <2>2. h.top \in Regular(C) /\ h.top + h.topsize \in Regular(C)
    BY <2>1 DEF SpecTop
  <2> QED BY <1>2, <1>a, <2>2
<1>21. SegmentsStay(h, Y)
  <2>n. PICK new : new = [base |-> base, size |-> size]
    OBVIOUS
  <2>1. \A p \in K : ~Holds(new, p)
    <3>1. \A p \in K : Holds(new, p) => base <= p /\ p < lim
      BY <1>m, <2>n DEF Holds
    <3>2. \A p \in K : p < base \/ lim <= p
      BY <1>2, <1>5
    <3> QED BY <1>2, <1>3, <1>6, <3>1, <3>2
  <2>2. Y = Z \union {new}
    BY <2>n
  <2> QED BY <1>15, <1>k, <2>1, <2>2 DEF SegmentsStay
<1> QED BY <1>4, <1>8, <1>18, <1>19, <1>20, <1>21, <1>k

\* An address lies in one segment at most.
LEMMA OneSegment ==
  ASSUME NEW C, NEW Z, Geometry(C, Z), NEW f \in Z, NEW g \in Z, NEW x \in Int,
         Holds(f, x), Holds(g, x)
  PROVE  f = g
  BY DEF Geometry, Holds, Limit

\* The new chunks are right among themselves.
LEMMA LinkedTail ==
  ASSUME NEW h, NEW B, NEW base, NEW size, NEW r, NEW sp, NEW fence, NEW T1, NEW T2, NEW V,
         Linked(h, B, base, size, r, sp, fence, T1, T2, V)
  PROVE  NewTail(h, r, T1 \union T2, V, {sp, fence})
<1> DEFINE D == r.chunk
<1>a. PICK a : a = h.top
  OBVIOUS
<1>e. PICK end : end = Limit(h.seg)
  OBVIOUS
<1>l. PICK last : last = base + (size - TopFoot)
  OBVIOUS
<1>n. PICK new : new = [base |-> base, size |-> size]
  OBVIOUS
<1>g. Linking(h, B, base, size, r, sp, fence, T1, T2, V)
  BY DEF Linked
<1>h. r.top = base /\ r.top + r.topsize = last /\ Segments(r) = Segments(h) \union {new}
  BY <1>l, <1>n DEF Linked, Segments
<1>y. PICK Y : Y = Segments(r)
  OBVIOUS
<1>s. SpecLinking(h, B, base, size, r, sp, fence, T1, T2, V, a, end, last)
  BY <1>a, <1>e, <1>g, <1>l, LinkingFacts
<1>0. Good(h, B) /\ Clear(h, base, size) /\ T2 = {base, last}
  BY <1>g, <1>l DEF Linking
<1>1. /\ ~D[base].cinuse /\ D[base].pinuse /\ ~D[last].cinuse /\ D[sp].cinuse
      /\ D[fence].cinuse /\ D[fence].pinuse
  BY <1>g, <1>l DEF Linking
<1>u. PICK u : u = h.topsize
  OBVIOUS
<1>2. V = {} \/ V = {a}
  BY <1>a, <1>g DEF Linking
<1>3. V = {} => D[sp].pinuse
  BY <1>g DEF Linking
<1>4. V # {} => /\ ~D[sp].pinuse /\ D[sp].foot = u /\ D[a].size = u /\ ~D[a].cinuse /\ D[a].pinuse
                /\ MinChunk <= u
  BY <1>a, <1>g, <1>u DEF Linking
<1>5. /\ T1 \subseteq Regular(D) /\ T2 \subseteq Regular(D)
      /\ a \in Int /\ end \in Int /\ sp \in Int /\ fence \in Int /\ last \in Int /\ base \in Int
      /\ a <= sp /\ sp < fence /\ fence < end /\ base < last /\ last < base + size
      /\ V # {} => a < sp /\ End(D, a) = sp
      /\ sp \in T1 /\ fence \in T1 /\ T1 = V \union {sp, fence}
      /\ End(D, sp) = fence /\ End(D, fence) = end /\ End(D, base) = last
  BY <1>s DEF SpecLinking, Tiles
<1>6. Geometry(D, Y) /\ new \in Y /\ h.seg \in Y
  <2>1. Y = Segments(h) \union {[base |-> base, size |-> size]}
    BY <1>h, <1>n, <1>y
  <2>2. Geometry(D, Y)
    BY <1>g, <2>1, LinkingGeometry
  <2> QED BY <1>n, <2>1, <2>2 DEF Segments
<1>7. Holds(new, base) /\ Limit(new) = base + size /\ last # base + size
  <2>1. size \in Nat /\ new.base = base /\ new.size = size
    BY <1>0, <1>n DEF Clear
  <2> QED BY <1>5, <2>1 DEF Holds, Limit
<1>8. Holds(h.seg, a) /\ Holds(h.seg, sp) /\ Limit(h.seg) # sp
  <2>1. h.seg.base <= a /\ h.seg.base \in Int /\ end = h.seg.base + h.seg.size
    BY <1>0, <1>a, <1>e DEF Good, TopLast, Holds, Geometry, Segments, Limit
  <2> QED BY <1>5, <1>e, <2>1 DEF Holds
<1>9. a # base /\ a # last
  <2>1. a \in DOMAIN h.chunk
    BY <1>0, <1>a DEF Good, TopLast, Regular
  <2>2. a < base \/ base + size <= a
    BY <1>0, <2>1, ClearFacts
  <2>3. size \in Nat
    BY <1>0 DEF Clear
  <2> QED BY <1>5, <2>2, <2>3
<1>10. ASSUME NEW x \in T1 \union T2
       PROVE  x = base \/ x = last \/ x = sp \/ x = fence \/ (x = a /\ V = {a})
  BY <1>0, <1>2, <1>5
<1>11. ASSUME NEW x \in T1 \union T2
       PROVE  D[x].cinuse <=> x \in {sp, fence}
  BY <1>1, <1>4, <1>10
<1>12. ASSUME NEW x \in T1 \union T2
       PROVE  x \in V <=> ~D[x].cinuse /\ x \notin {base, last}
  BY <1>1, <1>2, <1>4, <1>9, <1>10
<1>13. ASSUME NEW x \in V
       PROVE  /\ ~D[End(D, x)].pinuse /\ D[End(D, x)].foot = D[x].size
              /\ D[End(D, x)].cinuse /\ MinChunk <= D[x].size
  <2>1. x = a /\ V # {}
    BY <1>2
  <2>2. End(D, x) = sp
    BY <1>5, <2>1
  <2> QED BY <1>1, <1>4, <2>1, <2>2
<1>14. ASSUME NEW p \in T1 \union T2, p # last, ~D[p].pinuse
       PROVE  LET q == p - D[p].foot
              IN  q \in V /\ D[q].size = D[p].foot /\ \A k \in Segments(r) : Holds(k, p) => Holds(k, q)
  <2>1. p = sp /\ V = {a}
    BY <1>1, <1>2, <1>3, <1>4, <1>10, <1>14
  <2>2. p - D[p].foot = a
    <3>1. D[sp].foot = u /\ D[a].size = u /\ End(D, a) = sp
      BY <1>4, <1>5, <2>1
    <3>2. sp = a + u /\ u \in Int
      <4>1. SpecTop(h, B, h.top + h.topsize)
        BY <1>0, TopFacts
      <4>2. u \in Nat
        BY <1>u, <4>1 DEF SpecTop
      <4> QED BY <3>1, <4>2 DEF End
    <3> QED BY <1>5, <2>1, <3>1, <3>2
  <2>3. ASSUME NEW k \in Y, Holds(k, p) PROVE Holds(k, a)
    <3>1. k = h.seg
      BY <1>5, <1>6, <1>8, <2>1, <2>3, OneSegment
    <3> QED BY <1>8, <3>1
  <2> QED BY <1>4, <1>y, <2>1, <2>2, <2>3
<1>15. ASSUME NEW p \in T1 \union T2, NEW k \in Y, Holds(k, p), End(D, p) = Limit(k)
       PROVE  p \in {sp, fence} \/ p = last
  <2>1. CASE p = base
    <3>1. k = new
      BY <1>5, <1>6, <1>7, <1>15, <2>1, OneSegment
    <3> QED BY <1>5, <1>7, <1>15, <2>1, <3>1
  <2>2. CASE p = a /\ V = {a}
    <3>1. k = h.seg
      BY <1>5, <1>6, <1>8, <1>15, <2>2, OneSegment
    <3> QED BY <1>5, <1>8, <1>15, <2>2, <3>1
  <2> QED BY <1>10, <2>1, <2>2
<1>16. /\ T1 \union T2 \subseteq Regular(D) /\ V \subseteq T1 \union T2 /\ {sp, fence} \subseteq T1 \union T2
       /\ base \in T1 \union T2 /\ last \in T1 \union T2
  BY <1>0, <1>5
<1> QED BY <1>11, <1>12, <1>13, <1>14, <1>15, <1>16, <1>h, <1>y DEF NewTail

\* With m->seg linked behind the new segment the heap is good.
LEMMA LinkedFacts ==
  ASSUME NEW h, NEW B, NEW base, NEW size, NEW r, NEW sp, NEW fence, NEW T1, NEW T2, NEW V,
         Linked(h, B, base, size, r, sp, fence, T1, T2, V)
  PROVE  Good(r, B) /\ Frame(h, r, B)
<1> DEFINE C == h.chunk
           D == r.chunk
<1>a. PICK a : a = h.top
  OBVIOUS
<1>e. PICK end : end = Limit(h.seg)
  OBVIOUS
<1>l. PICK last : last = base + (size - TopFoot)
  OBVIOUS
<1>n. PICK new : new = [base |-> base, size |-> size]
  OBVIOUS
<1>t. PICK T : T = T1 \union T2
  OBVIOUS
<1>w. PICK W : W = {sp, fence}
  OBVIOUS
<1>g. Linking(h, B, base, size, r, sp, fence, T1, T2, V)
  BY DEF Linked
<1>h. /\ r.top = base /\ r.topsize = size - TopFoot /\ r.top + r.topsize = last
      /\ r.linked = h.linked \union {h.seg} /\ r.seg = new
      /\ DOMAIN r = Fields /\ Counters(r) /\ r.sys = h.sys \union W
      /\ FiledIn(D, Vacant(h) \union V, r)
  BY <1>l, <1>n, <1>w DEF Linked
<1>y. PICK Y : Y = Segments(h) \union {new}
  OBVIOUS
<1>z. Segments(r) = Y
  BY <1>h, <1>y DEF Segments
<1>s. SpecLinking(h, B, base, size, r, sp, fence, T1, T2, V, a, end, last)
  BY <1>a, <1>e, <1>g, <1>l, LinkingFacts
<1>0. /\ Good(h, B) /\ Clear(h, base, size) /\ T2 = {base, last} /\ IsMap(D)
      /\ DOMAIN D = OldChunks(h) \union T /\ \A x \in OldChunks(h) : D[x] = C[x]
      /\ ~D[base].cinuse /\ D[base].size = size - TopFoot /\ ~D[last].cinuse /\ D[last].size = TopFoot
  BY <1>g, <1>l, <1>t DEF Linking
<1>1. /\ Geometry(D, Y) /\ SegmentsStay(h, Y)
      /\ \A x \in OldChunks(h) : x \notin T
      /\ DOMAIN D \ Regular(D) = DOMAIN C \ Regular(C)
      /\ DOMAIN C \ Regular(C) \subseteq OldChunks(h)
  <2>1. Y = Segments(h) \union {[base |-> base, size |-> size]}
    BY <1>n, <1>y
  <2> QED BY <1>g, <1>t, <2>1, LinkingGeometry
<1>2. SameOld(h, r, T)
  BY <1>0, <1>1, <1>z DEF SameOld
<1>3. Headers(D)
  BY <1>0, <1>1 DEF Good, Headers
<1>4. /\ a \in Int /\ end \in Int /\ sp \in Int /\ fence \in Int /\ last \in Int /\ base \in Int
      /\ a <= sp /\ sp < fence /\ fence < end /\ base < last /\ last < base + size
      /\ last + TopFoot = base + size /\ sp + TopFoot <= end
      /\ End(D, sp) = fence /\ End(D, fence) = end /\ T2 \subseteq Regular(D)
  BY <1>s DEF SpecLinking, Tiles
<1>5. TopLast(r)
  <2>1. Holds(new, base) /\ Holds(new, last) /\ Limit(new) = base + size
    <3>1. size \in Nat /\ new.base = base /\ new.size = size
      BY <1>0, <1>n DEF Clear
    <3> QED BY <1>4, <3>1 DEF Holds, Limit
  <2> QED BY <1>0, <1>4, <1>h, <2>1 DEF TopLast
<1>6. Recorded(r)
  <2>1. IsFiniteSet(r.linked)
    <3>1. IsFiniteSet(h.linked)
      BY <1>0 DEF Good, Recorded
    <3>2. IsFiniteSet(h.linked \union {h.seg})
      BY <3>1, FS_AddElement
    <3> QED BY <1>h, <3>2
  <2>2. r.seg \notin r.linked
    <3>1. new \notin Segments(h)
      <4>1. \A f \in Segments(h) : f.base \in DOMAIN C
        BY <1>0 DEF Good, Geometry, Regular
      <4>2. base \notin DOMAIN C
        <5>1. size \in Nat \ {0}
          BY <1>0 DEF Clear
        <5>2. \A x \in DOMAIN C : x < base \/ base + size <= x
          BY <1>0, ClearFacts
        <5> QED BY <1>4, <5>1, <5>2
      <4>3. new.base = base
        BY <1>n
      <4> QED BY <4>1, <4>2, <4>3
    <3> QED BY <1>h, <3>1 DEF Segments
  <2>3. ASSUME NEW g \in h.linked
        PROVE  \E p, f \in r.sys : /\ Holds(g, p) /\ f = End(D, p)
                                   /\ End(D, f) = Limit(g) /\ p + TopFoot <= Limit(g)
    <3>1. PICK p \in h.sys, f \in h.sys :
             /\ Holds(g, p) /\ f = End(C, p) /\ End(C, f) = Limit(g) /\ p + TopFoot <= Limit(g)
      BY <1>0 DEF Good, Recorded
    <3>2. SpecTop(h, B, h.top + h.topsize)
      BY <1>0, TopFacts
    <3>3. h.sys \subseteq OldChunks(h)
      BY <3>2 DEF SpecTop, OldChunks
    <3>4. End(D, p) = End(C, p) /\ End(D, f) = End(C, f)
      BY <1>0, <3>1, <3>3 DEF End
    <3> QED BY <1>h, <3>1, <3>4
  <2>4. /\ sp \in r.sys /\ fence \in r.sys
        /\ Holds(h.seg, sp) /\ fence = End(D, sp)
        /\ End(D, fence) = Limit(h.seg) /\ sp + TopFoot <= Limit(h.seg)
    <3>1. h.seg.base <= a /\ h.seg.base \in Int /\ end = h.seg.base + h.seg.size
      BY <1>0, <1>a, <1>e DEF Good, TopLast, Holds, Geometry, Segments, Limit
    <3> QED BY <1>4, <1>e, <1>h, <1>w, <3>1 DEF Holds
  <2> QED BY <1>h, <2>1, <2>2, <2>3, <2>4 DEF Recorded
<1>7. NewTail(h, r, T, V, W)
  BY <1>t, <1>w, LinkedTail
<1>8. Retailed(h, r, B, T, V, W)
  BY <1>0, <1>1, <1>2, <1>3, <1>5, <1>6, <1>7, <1>h, <1>z DEF Retailed
<1> QED BY <1>8, RetailedFacts

\* The addresses that add_segment writes to differ.
LEMMA AddingFacts ==
  ASSUME NEW h, NEW B, NEW base, NEW size, NEW sp, NEW fence, Adding(h, B, base, size, sp, fence),
         NEW n, n = size - TopFoot, NEW last, last = base + n, NEW end, end = Limit(h.seg)
  PROVE  SpecAdding(h, base, n, last, sp, fence, end)
<1>a. PICK a : a = h.top
  OBVIOUS
<1>u. PICK u : u = h.topsize
  OBVIOUS
<1>0. Good(h, B) /\ Clear(h, base, size) /\ TopFoot < size /\ fence = sp + SegChunk
  BY DEF Adding
<1>1. (sp = a /\ u < MinChunk) \/ (sp = a + u /\ MinChunk <= u)
  <2>1. (sp = h.top /\ h.topsize < MinChunk) \/ (sp = h.top + h.topsize /\ MinChunk <= h.topsize)
    BY DEF Adding
  <2> QED BY <1>a, <1>u, <2>1
<1>2. SpecSeg(h, a + u)
  BY <1>0, <1>a, <1>u, SegFacts
<1>3. /\ a + u + TopFoot = end /\ end <= Space /\ a \in Nat /\ u \in Nat \ {0}
      /\ TopFoot \in Nat \ {0} /\ Space \in Nat /\ h.seg.base \in Nat /\ h.seg.base <= a
  <2>1. /\ a + u + TopFoot = end /\ end <= Space /\ a \in Int /\ u \in Nat \ {0}
        /\ TopFoot \in Nat \ {0} /\ Space \in Nat /\ h.seg.base \in Nat /\ h.seg.base <= a
    BY <1>2, <1>a, <1>u DEF SpecSeg
  <2> QED BY <2>1
<1>4. base \in Nat /\ size \in Nat /\ base + size <= Space
  BY <1>0 DEF Clear
<1>5. MinChunk \in Nat \ {0} /\ SegChunk \in Nat \ {0} /\ TopFoot = SegChunk + MinChunk /\ MinChunk <= SegChunk
  BY ConstantsOK DEF TopFoot
<1>6. a <= sp /\ sp < fence /\ fence < end /\ sp \in Nat /\ fence \in Nat /\ end \in Nat
  BY <1>0, <1>1, <1>3, <1>5
<1>7. base < last /\ last < base + size /\ n \in Nat \ {0} /\ n <= Space /\ last \in Nat /\ last < Space
  BY <1>0, <1>3, <1>4
<1>8. base + size <= a \/ end <= base
  <2>1. base + size <= h.seg.base \/ end <= base
    BY <1>0 DEF Clear, Segments
  <2> QED BY <1>3, <1>4, <2>1
<1>9. {base, last, sp, fence, a} \subseteq Addresses /\ {base, last, sp, fence, end} \subseteq Int
  <2>1. base < Space /\ sp < Space /\ fence < Space /\ a < Space /\ last < Space
    BY <1>3, <1>4, <1>6, <1>7
  <2> QED BY <1>3, <1>4, <1>6, <1>7, <2>1 DEF Addresses
<1>10. {n, TopFoot, SegChunk, end - fence} \subseteq Sizes
  <2>1. TopFoot <= Space /\ SegChunk <= Space /\ end - fence <= Space /\ end - fence \in Nat \ {0}
    BY <1>3, <1>5, <1>6
  <2> QED BY <1>3, <1>5, <1>7, <2>1 DEF Sizes
<1>11. FakeFoot \in Header
  <2>1. TopFoot <= Space
    BY <1>3, <1>5
  <2> QED BY <2>1, FakeFacts
<1>12. base # last /\ sp # fence /\ base # a /\ last # a /\ fence # a
  BY <1>3, <1>4, <1>6, <1>7, <1>8
<1>13. base # sp /\ base # fence /\ last # sp /\ last # fence
  BY <1>3, <1>4, <1>6, <1>7, <1>8
<1>14. ASSUME NEW x \in OldChunks(h) PROVE x \notin {base, last, sp, fence, a}
  <2>1. x \in DOMAIN h.chunk /\ (x < a \/ end <= x)
    BY <1>0, <1>a, BehindTop
  <2>2. x < base \/ base + size <= x
    BY <1>0, <2>1, ClearFacts
  <2>3. x \in Int
    BY <1>0, <2>1, ConstantsOK DEF Good, Headers, IsMap
  <2> QED BY <1>3, <1>4, <1>6, <1>7, <2>1, <2>2, <2>3
<1>15. IsMap(h.chunk) /\ DOMAIN h = Fields
  BY <1>0 DEF Good, Headers
<1> QED BY <1>9, <1>10, <1>11, <1>12, <1>13, <1>14, <1>15, <1>a DEF SpecAdding

\* The headers that add_segment writes, before the rest of the top is freed.
AddedChunks(h, base, n, last, sp, fence, end) ==
  SetUsed(SetUsed(Without(Put(Put(Without(h.chunk, {h.top + h.topsize}), last, FakeFoot), base, Unused(n)),
                          {h.top}), sp, SegChunk), fence, end - fence)

SpecAddedChunks(h, D, base, n, last, sp, fence, end) ==
  /\ IsMap(D) /\ DOMAIN D = OldChunks(h) \union {base, last, sp, fence}
  /\ D[base] = Unused(n) /\ D[last] = FakeFoot /\ D[sp] = Used(SegChunk) /\ D[fence] = Used(end - fence)
  /\ \A x \in OldChunks(h) : D[x] = h.chunk[x]

\* The headers that add_segment leaves.
LEMMA AddedChunksFacts ==
  ASSUME NEW h, NEW base, NEW n, NEW last, NEW sp, NEW fence, NEW end,
         SpecAdding(h, base, n, last, sp, fence, end),
         NEW D, D = AddedChunks(h, base, n, last, sp, fence, end)
  PROVE  SpecAddedChunks(h, D, base, n, last, sp, fence, end)
<1>a. PICK a : a = h.top
  OBVIOUS
<1>f. PICK f : f = h.top + h.topsize
  OBVIOUS
<1>k. PICK K : K = OldChunks(h)
  OBVIOUS
<1>0. /\ base \in Addresses /\ last \in Addresses /\ sp \in Addresses /\ fence \in Addresses
      /\ n \in Sizes /\ SegChunk \in Sizes /\ end - fence \in Sizes /\ FakeFoot \in Header
      /\ IsMap(h.chunk)
  BY DEF SpecAdding
<1>1. /\ base # last /\ sp # fence /\ base # a /\ last # a /\ fence # a
      /\ base # sp /\ base # fence /\ last # sp /\ last # fence
      /\ \A x \in K : x # base /\ x # last /\ x # sp /\ x # fence /\ x # a
  BY <1>a, <1>k DEF SpecAdding
<1>2. K = DOMAIN h.chunk \ {a, f}
  BY <1>a, <1>f, <1>k DEF OldChunks
<1>3. PICK C1 : C1 = Without(h.chunk, {f})
  OBVIOUS
<1>4. PICK C2 : C2 = Put(C1, last, FakeFoot)
  OBVIOUS
<1>5. PICK C3 : C3 = Put(C2, base, Unused(n))
  OBVIOUS
<1>6. PICK C4 : C4 = Without(C3, {a})
  OBVIOUS
<1>7. PICK C5 : C5 = SetUsed(C4, sp, SegChunk)
  OBVIOUS
<1>8. D = SetUsed(C5, fence, end - fence)
  BY <1>3, <1>4, <1>5, <1>6, <1>7, <1>a, <1>f DEF AddedChunks
<1>9. IsMap(C1) /\ DOMAIN C1 = DOMAIN h.chunk \ {f} /\ \A x \in DOMAIN h.chunk \ {f} : C1[x] = h.chunk[x]
  BY <1>0, <1>3, WithoutSpec DEF SpecWithout
<1>10. IsMap(C2) /\ DOMAIN C2 = DOMAIN C1 \union {last} /\ C2[last] = FakeFoot
       /\ \A x \in DOMAIN C1 : x # last => C2[x] = C1[x]
  <2>1. SpecPut(C1, last, FakeFoot, C2)
    BY <1>0, <1>4, <1>9, PutSpec
  <2> QED BY <2>1 DEF SpecPut
<1>11. IsMap(C3) /\ DOMAIN C3 = DOMAIN C2 \union {base} /\ C3[base] = Unused(n)
       /\ \A x \in DOMAIN C2 : x # base => C3[x] = C2[x]
  <2>0. Unused(n) \in Header
    BY <1>0, HeaderFacts
  <2>1. SpecPut(C2, base, Unused(n), C3)
    BY <1>0, <1>5, <1>10, <2>0, PutSpec
  <2> QED BY <2>1 DEF SpecPut
<1>12. IsMap(C4) /\ DOMAIN C4 = DOMAIN C3 \ {a} /\ \A x \in DOMAIN C3 \ {a} : C4[x] = C3[x]
  <2>1. SpecWithout(C3, {a}, C4)
    BY <1>6, <1>11, WithoutSpec
  <2> QED BY <2>1 DEF SpecWithout
<1>13. IsMap(C5) /\ DOMAIN C5 = DOMAIN C4 \union {sp} /\ C5[sp] = Used(SegChunk)
       /\ \A x \in DOMAIN C4 : x # sp => C5[x] = C4[x]
  <2>1. SpecUsed(C4, sp, SegChunk, C5)
    BY <1>0, <1>7, <1>12, SetUsedFacts
  <2> QED BY <2>1 DEF SpecUsed
<1>14. IsMap(D) /\ DOMAIN D = DOMAIN C5 \union {fence} /\ D[fence] = Used(end - fence)
       /\ \A x \in DOMAIN C5 : x # fence => D[x] = C5[x]
  <2>1. SpecUsed(C5, fence, end - fence, D)
    BY <1>0, <1>8, <1>13, SetUsedFacts
  <2> QED BY <2>1 DEF SpecUsed
<1>15. DOMAIN D = K \union {base, last, sp, fence}
  BY <1>1, <1>2, <1>9, <1>10, <1>11, <1>12, <1>13, <1>14
<1>16. D[base] = Unused(n) /\ D[last] = FakeFoot /\ D[sp] = Used(SegChunk) /\ D[fence] = Used(end - fence)
  BY <1>1, <1>2, <1>9, <1>10, <1>11, <1>12, <1>13, <1>14
<1>17. \A x \in K : D[x] = h.chunk[x]
  BY <1>1, <1>2, <1>9, <1>10, <1>11, <1>12, <1>13, <1>14
<1> QED BY <1>14, <1>15, <1>16, <1>17, <1>k DEF SpecAddedChunks

\* The state that add_segment makes, with the headers of D.
NewSegment(h, base, size, sp, fence, D) ==
  [InitTop(NoTopFoot(h), base, size - TopFoot)
     EXCEPT !.seg = [base |-> base, size |-> size], !.linked = @ \union {h.seg},
            !.sys = @ \union {sp, fence}, !.chunk = D]

SpecNewSegment(h, base, size, sp, fence, D, r) ==
  /\ DOMAIN r = Fields /\ Counters(r) /\ r.chunk = D
  /\ r.top = base /\ r.topsize = size - TopFoot /\ r.seg = [base |-> base, size |-> size]
  /\ r.linked = h.linked \union {h.seg} /\ r.sys = h.sys \union {sp, fence}
  /\ r.bins = h.bins /\ r.dv = h.dv /\ r.dvsize = h.dvsize

\* What init_top changes.
LEMMA InitTopFields ==
  ASSUME NEW h, DOMAIN h = Fields, NEW p, NEW s, NEW g, g = InitTop(h, p, s)
  PROVE  /\ DOMAIN g = Fields /\ g.top = p /\ g.topsize = s /\ g.trim = TrimThreshold
         /\ g.chunk = Put(Put(h.chunk, p + s, FakeFoot), p, Unused(s))
         /\ g.seg = h.seg /\ g.linked = h.linked /\ g.sys = h.sys /\ g.checks = h.checks
         /\ g.bins = h.bins /\ g.dv = h.dv /\ g.dvsize = h.dvsize
  BY DEF InitTop, FakeFoot, Fields

\* What the removal of the fake chunk changes.
LEMMA NoTopFootFields ==
  ASSUME NEW h, DOMAIN h = Fields, NEW g, g = NoTopFoot(h)
  PROVE  /\ DOMAIN g = Fields /\ g.top = h.top /\ g.topsize = h.topsize /\ g.trim = h.trim
         /\ g.chunk = Without(h.chunk, {h.top + h.topsize})
         /\ g.seg = h.seg /\ g.linked = h.linked /\ g.sys = h.sys /\ g.checks = h.checks
         /\ g.bins = h.bins /\ g.dv = h.dv /\ g.dvsize = h.dvsize
  BY DEF NoTopFoot, Fields

\* What add_segment changes besides the headers.
LEMMA NewSegmentFacts ==
  ASSUME NEW h, DOMAIN h = Fields, Counters(h), NEW base, NEW size, NEW sp, NEW fence, NEW D,
         NEW r, r = NewSegment(h, base, size, sp, fence, D)
  PROVE  SpecNewSegment(h, base, size, sp, fence, D, r)
<1>1. PICK k : k = NoTopFoot(h)
  OBVIOUS
<1>2. PICK g : g = InitTop(k, base, size - TopFoot)
  OBVIOUS
<1>3. /\ DOMAIN k = Fields /\ k.linked = h.linked /\ k.sys = h.sys /\ k.checks = h.checks
      /\ k.bins = h.bins /\ k.dv = h.dv /\ k.dvsize = h.dvsize
  BY <1>1, NoTopFootFields
<1>4. /\ DOMAIN g = Fields /\ g.top = base /\ g.topsize = size - TopFoot /\ g.trim = TrimThreshold
      /\ g.linked = k.linked /\ g.sys = k.sys /\ g.checks = k.checks
      /\ g.bins = k.bins /\ g.dv = k.dv /\ g.dvsize = k.dvsize
  BY <1>2, <1>3, InitTopFields
<1>5. r = [g EXCEPT !.seg = [base |-> base, size |-> size], !.linked = @ \union {h.seg},
                    !.sys = @ \union {sp, fence}, !.chunk = D]
  BY <1>1, <1>2 DEF NewSegment
<1>6. /\ DOMAIN r = Fields /\ r.chunk = D /\ r.trim = TrimThreshold /\ r.checks = h.checks
      /\ r.top = base /\ r.topsize = size - TopFoot /\ r.seg = [base |-> base, size |-> size]
      /\ r.linked = h.linked \union {h.seg} /\ r.sys = h.sys \union {sp, fence}
      /\ r.bins = h.bins /\ r.dv = h.dv /\ r.dvsize = h.dvsize
  BY <1>3, <1>4, <1>5 DEF Fields
<1>7. Counters(r)
  BY <1>6 DEF Counters
<1> QED BY <1>6, <1>7 DEF SpecNewSegment

AddSegmentAt(h, base, size, sp, fence, D) ==
  IF sp = h.top THEN NewSegment(h, base, size, sp, fence, D)
  ELSE Bin([NewSegment(h, base, size, sp, fence, D) EXCEPT !.chunk = SetFree(D, h.top, sp - h.top)],
           h.top, sp - h.top)

\* AddSegment with the values of its local definitions.
LEMMA AddSegmentDef ==
  ASSUME NEW h, DOMAIN h = Fields, NEW base, NEW size, Holding(h, h.top) = h.seg,
         NEW end, end = Limit(h.seg),
         NEW sp, sp = IF end - TopFoot < h.top + MinChunk THEN h.top ELSE end - TopFoot,
         NEW fence, fence = sp + SegChunk,
         NEW D, D = AddedChunks(h, base, size - TopFoot, base + (size - TopFoot), sp, fence, end)
  PROVE  AddSegment(h, base, size) = AddSegmentAt(h, base, size, sp, fence, D)
<1>1. PICK k : k = NoTopFoot(h)
  OBVIOUS
<1>2. PICK g : g = InitTop(k, base, size - TopFoot)
  OBVIOUS
<1>3. DOMAIN k = Fields /\ k.chunk = Without(h.chunk, {h.top + h.topsize})
  BY <1>1, NoTopFootFields
<1>4. g.chunk = Put(Put(k.chunk, base + (size - TopFoot), FakeFoot), base, Unused(size - TopFoot))
  BY <1>2, <1>3, InitTopFields
<1>5. D = SetUsed(SetUsed(Without(g.chunk, {h.top}), sp, SegChunk), fence, end - fence)
  BY <1>3, <1>4 DEF AddedChunks
<1>6. PICK r : r = [g EXCEPT !.seg = [base |-> base, size |-> size], !.linked = @ \union {h.seg},
                         !.sys = @ \union {sp, fence}, !.chunk = D]
  OBVIOUS
<1>7. r = NewSegment(h, base, size, sp, fence, D)
  BY <1>1, <1>2, <1>6 DEF NewSegment
<1>8. AddSegment(h, base, size) =
        IF sp = h.top THEN r ELSE Bin([r EXCEPT !.chunk = SetFree(D, h.top, sp - h.top)],
                                      h.top, sp - h.top)
  BY Zenon, <1>1, <1>2, <1>5, <1>6 DEF AddSegment, Limit
<1> QED BY <1>7, <1>8 DEF AddSegmentAt

\* The chunks that were there before keep their headers and their filing.
LEMMA OldFiled ==
  ASSUME NEW h, NEW B, Good(h, B), NEW D, \A x \in OldChunks(h) : D[x] = h.chunk[x],
         NEW g, g.bins = h.bins, g.dv = h.dv, g.dvsize = h.dvsize
  PROVE  FiledIn(D, Vacant(h), g)
<1>1. FiledIn(h.chunk, Vacant(h), h)
  BY DEF Good, Found
<1>2. \A x \in Vacant(h) : x \in OldChunks(h)
  BY DEF Vacant, OldChunks, Regular
<1>3. \A x \in Vacant(h) : D[x].size = h.chunk[x].size
  BY <1>2
<1> QED BY <1>1, <1>3, FiledSame

AtTop(h, p) == p = h.top

\* The record and the fenceposts take all of the old top.
LEMMA AddWhole ==
  ASSUME NEW h, NEW B, NEW base, NEW size, NEW sp, NEW fence, Adding(h, B, base, size, sp, fence),
         AtTop(h, sp), NEW n, n = size - TopFoot, NEW last, last = base + n,
         NEW end, end = Limit(h.seg),
         NEW D, SpecAddedChunks(h, D, base, n, last, sp, fence, end),
         NEW r, SpecNewSegment(h, base, size, sp, fence, D, r)
  PROVE  Good(r, B) /\ Frame(h, r, B) /\ r.topsize = n
<1>0. Good(h, B) /\ Clear(h, base, size) /\ TopFoot < size /\ fence = sp + SegChunk
  BY DEF Adding
<1>1. /\ IsMap(D) /\ DOMAIN D = OldChunks(h) \union {base, last, sp, fence}
      /\ D[base] = Unused(n) /\ D[last] = FakeFoot /\ D[sp] = Used(SegChunk) /\ D[fence] = Used(end - fence)
      /\ \A x \in OldChunks(h) : D[x] = h.chunk[x]
  BY DEF SpecAddedChunks
<1>2. /\ DOMAIN r = Fields /\ Counters(r) /\ r.chunk = D
      /\ r.top = base /\ r.topsize = n /\ r.seg = [base |-> base, size |-> size]
      /\ r.linked = h.linked \union {h.seg} /\ r.sys = h.sys \union {sp, fence}
      /\ r.bins = h.bins /\ r.dv = h.dv /\ r.dvsize = h.dvsize
  BY DEF SpecNewSegment
<1>3. n \in Sizes /\ TopFoot \in Sizes /\ SegChunk \in Sizes /\ end - fence \in Sizes
  <2>1. SpecAdding(h, base, n, last, sp, fence, end)
    BY AddingFacts
  <2> QED BY <2>1 DEF SpecAdding
<1>4. /\ D[base].size = n /\ ~D[base].cinuse /\ D[base].pinuse /\ D[base].foot = 0
      /\ D[last].size = TopFoot /\ ~D[last].cinuse /\ D[last].foot = 0
      /\ D[sp].size = SegChunk /\ D[sp].cinuse /\ D[sp].pinuse /\ D[sp].foot = 0
      /\ D[fence].size = end - fence /\ D[fence].cinuse /\ D[fence].pinuse /\ D[fence].foot = 0
  BY <1>1, FakeFacts DEF Used, Unused
<1>5. h.topsize < MinChunk
  <2>1. SpecTop(h, B, h.top + h.topsize)
    BY <1>0, TopFacts
  <2>2. h.top \in Int /\ h.topsize \in Nat \ {0}
    BY <2>1 DEF SpecTop
  <2>3. h.top # h.top + h.topsize
    BY <2>2
  <2> QED BY <2>3 DEF Adding, AtTop
<1>6. /\ end = h.top + h.topsize + TopFoot /\ fence \in Int
      /\ h.top \in Int /\ h.topsize \in Int /\ TopFoot \in Int
  <2>1. SpecSeg(h, h.top + h.topsize)
    BY <1>0, SegFacts
  <2>2. SpecAdding(h, base, n, last, sp, fence, end)
    BY AddingFacts
  <2>3. fence \in Int
    BY <2>2 DEF SpecAdding
  <2> QED BY <2>1, <2>3 DEF SpecSeg
<1>7. FiledIn(D, Vacant(h), r)
  BY <1>0, <1>1, <1>2, OldFiled
<1>8. PICK T1 : T1 = {sp, fence}
  OBVIOUS
<1>9. PICK T2 : T2 = {base, last}
  OBVIOUS
<1>10. Linking(h, B, base, size, r, sp, fence, T1, T2, {})
  <2>1. DOMAIN D = OldChunks(h) \union (T1 \union T2)
    BY <1>1, <1>8, <1>9
  <2>2. last = base + (size - TopFoot) /\ D[base].size = size - TopFoot
    BY <1>4
  <2>3. D[fence].size = h.top + h.topsize + TopFoot - fence
    BY <1>4, <1>6
  <2>4. r.chunk = D
    BY <1>2
  <2>5. sp = h.top /\ h.topsize < MinChunk /\ T1 = {sp, fence}
    BY <1>5, <1>8 DEF AtTop
  <2>6. T2 = {base, base + (size - TopFoot)}
    BY <1>9, <2>2
  <2> QED BY <1>0, <1>1, <1>4, <2>1, <2>2, <2>3, <2>4, <2>5, <2>6 DEF Linking
<1>11. Linked(h, B, base, size, r, sp, fence, T1, T2, {})
  <2>1. FiledIn(r.chunk, Vacant(h) \union {}, r)
    <3>1. Vacant(h) \union {} = Vacant(h)
      OBVIOUS
    <3> QED BY <1>2, <1>7, <3>1
  <2> QED BY <1>2, <1>10, <2>1 DEF Linked
<1> QED BY <1>2, <1>11, LinkedFacts

\* What the record leaves of the old top is a free chunk.
LEMMA AddSplit ==
  ASSUME NEW h, NEW B, NEW base, NEW size, NEW sp, NEW fence, Adding(h, B, base, size, sp, fence),
         sp # h.top, NEW n, n = size - TopFoot, NEW last, last = base + n,
         NEW end, end = Limit(h.seg),
         NEW D, SpecAddedChunks(h, D, base, n, last, sp, fence, end),
         NEW k, SpecNewSegment(h, base, size, sp, fence, D, k), NEW u, u = h.topsize,
         NEW r, r = Bin([k EXCEPT !.chunk = SetFree(D, h.top, u)], h.top, u)
  PROVE  Good(r, B) /\ Frame(h, r, B) /\ r.topsize = n
<1>a. PICK a : a = h.top
  OBVIOUS
<1>0. Good(h, B) /\ Clear(h, base, size) /\ TopFoot < size /\ fence = sp + SegChunk
  BY DEF Adding
<1>s. sp = a + u /\ MinChunk <= u
  BY <1>a DEF Adding
<1>1. /\ IsMap(D) /\ DOMAIN D = OldChunks(h) \union {base, last, sp, fence}
      /\ D[base] = Unused(n) /\ D[last] = FakeFoot /\ D[sp] = Used(SegChunk) /\ D[fence] = Used(end - fence)
      /\ \A x \in OldChunks(h) : D[x] = h.chunk[x]
  BY DEF SpecAddedChunks
<1>2. /\ DOMAIN k = Fields /\ Counters(k) /\ k.chunk = D
      /\ k.top = base /\ k.topsize = n /\ k.seg = [base |-> base, size |-> size]
      /\ k.linked = h.linked \union {h.seg} /\ k.sys = h.sys \union {sp, fence}
      /\ k.bins = h.bins /\ k.dv = h.dv /\ k.dvsize = h.dvsize
  BY DEF SpecNewSegment
<1>3. /\ n \in Sizes /\ TopFoot \in Sizes /\ SegChunk \in Sizes /\ end - fence \in Sizes
      /\ a \in Addresses
      /\ base # last /\ sp # fence /\ base # a /\ last # a /\ fence # a
      /\ base # sp /\ base # fence /\ last # sp /\ last # fence
      /\ \A x \in OldChunks(h) : x # base /\ x # last /\ x # sp /\ x # fence /\ x # a
  <2>1. SpecAdding(h, base, n, last, sp, fence, end)
    BY AddingFacts
  <2> QED BY <1>a, <2>1 DEF SpecAdding
<1>4. /\ D[base].size = n /\ ~D[base].cinuse /\ D[base].pinuse /\ D[base].foot = 0
      /\ D[last].size = TopFoot /\ ~D[last].cinuse /\ D[last].foot = 0
      /\ D[sp].size = SegChunk /\ D[sp].cinuse
      /\ D[fence].size = end - fence /\ D[fence].cinuse /\ D[fence].pinuse /\ D[fence].foot = 0
  BY <1>1, FakeFacts DEF Used, Unused
<1>5. u \in Sizes /\ a \in Int /\ a # None /\ a \notin Vacant(h)
  <2>1. SpecTop(h, B, h.top + h.topsize)
    BY <1>0, TopFacts
  <2> QED BY <1>a, <2>1 DEF SpecTop
<1>6. /\ end = h.top + h.topsize + TopFoot /\ fence \in Int
      /\ h.top \in Int /\ h.topsize \in Int /\ TopFoot \in Int
  <2>1. SpecSeg(h, h.top + h.topsize)
    BY <1>0, SegFacts
  <2>2. SpecAdding(h, base, n, last, sp, fence, end)
    BY AddingFacts
  <2>3. fence \in Int
    BY <2>2 DEF SpecAdding
  <2> QED BY <2>1, <2>3 DEF SpecSeg
\* The rest of the top is freed.
<1>7. PICK E : E = SetFree(D, a, u)
  OBVIOUS
<1>8. SpecFree(D, a, u, sp, E)
  <2>1. sp \in DOMAIN D
    BY <1>1
  <2> QED BY <1>1, <1>3, <1>5, <1>7, <1>s, <2>1, SetFreeFacts
<1>9. /\ IsMap(E) /\ DOMAIN E = DOMAIN D \union {a} /\ E[a] = Unused(u)
      /\ SameChunk(D[sp], E[sp]) /\ ~E[sp].pinuse /\ E[sp].foot = u
      /\ \A x \in DOMAIN D : x # a /\ x # sp => E[x] = D[x]
  BY <1>8 DEF SpecFree
<1>10. \A x \in OldChunks(h) : E[x] = h.chunk[x]
  BY <1>1, <1>3, <1>9
<1>11. E[base] = D[base] /\ E[last] = D[last] /\ E[fence] = D[fence]
  BY <1>1, <1>3, <1>9
<1>12. E[sp].size = SegChunk /\ E[sp].cinuse
  BY <1>4, <1>9 DEF SameChunk
<1>13. E[a].size = u /\ ~E[a].cinuse /\ E[a].pinuse /\ E[a].foot = 0
  BY <1>9 DEF Unused
<1>14. PICK f : f = [k EXCEPT !.chunk = E]
  OBVIOUS
<1>15. /\ DOMAIN f = Fields /\ f.chunk = E /\ f.trim = k.trim /\ f.checks = k.checks
       /\ f.top = k.top /\ f.topsize = k.topsize /\ f.seg = k.seg /\ f.linked = k.linked
       /\ f.sys = k.sys /\ f.bins = h.bins /\ f.dv = h.dv /\ f.dvsize = h.dvsize
  BY <1>2, <1>14 DEF Fields
<1>16. FiledIn(E, Vacant(h), f)
  BY <1>0, <1>10, <1>15, OldFiled
<1>17. r = Bin(f, a, u)
  BY <1>7, <1>14, <1>a
<1>18. PICK T : T = Vacant(h) \union {a}
  OBVIOUS
<1>19. SameMemory(f, r) /\ FiledIn(E, T, r)
  <2>1. u = E[a].size
    BY <1>13
  <2> QED BY <1>5, <1>15, <1>16, <1>17, <1>18, <2>1, BinFacts
<1>20. /\ DOMAIN r = Fields /\ r.chunk = E /\ r.top = base /\ r.topsize = n
       /\ r.seg = [base |-> base, size |-> size] /\ r.linked = h.linked \union {h.seg}
       /\ r.sys = h.sys \union {sp, fence} /\ Counters(r)
  BY <1>2, <1>15, <1>19 DEF SameMemory, Counters
<1>21. PICK T1 : T1 = {a, sp, fence}
  OBVIOUS
<1>22. PICK T2 : T2 = {base, last}
  OBVIOUS
<1>23. PICK V : V = {a}
  OBVIOUS
<1>24. Linking(h, B, base, size, r, sp, fence, T1, T2, V)
  <2>1. DOMAIN E = OldChunks(h) \union (T1 \union T2)
    BY <1>1, <1>9, <1>21, <1>22
  <2>2. r.chunk = E
    BY <1>20
  <2>3. \/ sp = h.top /\ h.topsize < MinChunk /\ T1 = {sp, fence} /\ V = {}
           /\ E[sp].pinuse /\ E[sp].foot = 0
        \/ /\ sp = h.top + h.topsize /\ MinChunk <= h.topsize /\ T1 = {h.top, sp, fence} /\ V = {h.top}
           /\ ~E[sp].pinuse /\ E[sp].foot = h.topsize
           /\ E[h.top].size = h.topsize /\ ~E[h.top].cinuse /\ E[h.top].pinuse /\ E[h.top].foot = 0
    BY <1>9, <1>13, <1>21, <1>23, <1>a, <1>s
  <2>4. last = base + (size - TopFoot) /\ E[base].size = size - TopFoot
    BY <1>4, <1>11
  <2>5. E[fence].size = h.top + h.topsize + TopFoot - fence
    BY <1>4, <1>6, <1>11
  <2>6. T2 = {base, base + (size - TopFoot)}
    BY <1>22, <2>4
  <2>7. /\ ~E[base].cinuse /\ E[base].pinuse /\ E[base].foot = 0
        /\ E[last].size = TopFoot /\ ~E[last].cinuse /\ E[last].foot = 0
        /\ E[fence].cinuse /\ E[fence].pinuse /\ E[fence].foot = 0
    BY <1>4, <1>11
  <2> QED BY <1>0, <1>9, <1>10, <1>12, <2>1, <2>2, <2>3, <2>4, <2>5, <2>6, <2>7 DEF Linking
<1>25. Linked(h, B, base, size, r, sp, fence, T1, T2, V)
  <2>1. FiledIn(r.chunk, Vacant(h) \union V, r)
    BY <1>18, <1>19, <1>20, <1>23
  <2> QED BY <1>20, <1>24, <2>1 DEF Linked
<1> QED BY <1>20, <1>25, LinkedFacts

\* add_segment keeps the heap good, and the new memory is the top.
LEMMA AddSegmentFacts ==
  ASSUME NEW h, NEW B, Good(h, B), NEW base, NEW size, Clear(h, base, size), TopFoot < size,
         NEW r, r = AddSegment(h, base, size)
  PROVE  Good(r, B) /\ Frame(h, r, B) /\ r.topsize = size - TopFoot
<1>e. PICK end : end = Limit(h.seg)
  OBVIOUS
<1>u. PICK u : u = h.topsize
  OBVIOUS
<1>1. PICK sp : sp = IF end - TopFoot < h.top + MinChunk THEN h.top ELSE end - TopFoot
  OBVIOUS
<1>2. PICK fence : fence = sp + SegChunk
  OBVIOUS
<1>n. PICK n : n = size - TopFoot
  OBVIOUS
<1>l. PICK last : last = base + n
  OBVIOUS
<1>3. PICK D : D = AddedChunks(h, base, n, last, sp, fence, end)
  OBVIOUS
<1>4. Holding(h, h.top) = h.seg /\ DOMAIN h = Fields /\ Counters(h)
  BY HoldingTop DEF Good
<1>5. Adding(h, B, base, size, sp, fence)
  <2>1. SpecSeg(h, h.top + h.topsize)
    BY SegFacts
  <2>2. /\ h.top + u + TopFoot = end /\ h.top \in Int /\ u \in Nat /\ TopFoot \in Nat
    BY <2>1, <1>e, <1>u DEF SpecSeg
  <2>3. MinChunk \in Nat
    BY ConstantsOK
  <2>4. (sp = h.top /\ u < MinChunk) \/ (sp = h.top + u /\ MinChunk <= u)
    BY <1>1, <2>2, <2>3
  <2> QED BY <1>2, <1>u, <2>4 DEF Adding
<1>6. SpecAdding(h, base, n, last, sp, fence, end)
  BY <1>5, <1>e, <1>l, <1>n, AddingFacts
<1>7. SpecAddedChunks(h, D, base, n, last, sp, fence, end)
  BY <1>3, <1>6, AddedChunksFacts
<1>8. PICK k : k = NewSegment(h, base, size, sp, fence, D)
  OBVIOUS
<1>9. SpecNewSegment(h, base, size, sp, fence, D, k)
  BY <1>4, <1>8, NewSegmentFacts
<1>10. r = AddSegmentAt(h, base, size, sp, fence, D)
  BY <1>1, <1>2, <1>3, <1>4, <1>e, <1>l, <1>n, AddSegmentDef
<1>11. CASE sp = h.top
  <2>1. r = k
    BY <1>8, <1>10, <1>11 DEF AddSegmentAt
  <2>t. AtTop(h, sp)
    BY <1>11 DEF AtTop
  <2>2. Good(k, B) /\ Frame(h, k, B) /\ k.topsize = n
    BY <1>5, <1>7, <1>9, <2>t, <1>e, <1>l, <1>n, AddWhole
  <2> QED BY <1>n, <2>1, <2>2
<1>12. CASE sp # h.top
  <2>1. sp - h.top = u
    <3>1. sp = h.top + u
      BY <1>5, <1>12, <1>u DEF Adding
    <3>2. SpecTop(h, B, h.top + h.topsize)
      BY TopFacts
    <3>3. h.top \in Int /\ u \in Nat
      BY <1>u, <3>2 DEF SpecTop
    <3> QED BY <3>1, <3>3
  <2>2. r = Bin([k EXCEPT !.chunk = SetFree(D, h.top, u)], h.top, u)
    BY <1>8, <1>10, <1>12, <2>1 DEF AddSegmentAt
  <2> QED BY <1>5, <1>7, <1>9, <1>12, <1>e, <1>l, <1>n, <1>u, <2>2, AddSplit
<1> QED BY <1>11, <1>12

(***************************************************************************)
(* alloc_sys: with new memory of size words at base.                       *)
(***************************************************************************)

\* A request that is served after a change that kept all blocks is served.
LEMMA ServedTrans ==
  ASSUME NEW h, NEW g, NEW B, Frame(h, g, B), NEW r, NEW nb, Served(g, B, r, nb)
  PROVE  Served(h, B, r, nb)
<1>1. Frame(g, r.heap, B)
  BY DEF Served
<1>2. Frame(h, r.heap, B)
  BY <1>1, FrameTrans
<1> QED BY <1>2 DEF Served

\* A chunk of the size asked for serves the request.
LEMMA ServesServed ==
  ASSUME NEW h, NEW B, NEW g, NEW p, NEW nb \in Nat, Serves(h, B, g, p, nb),
         NEW r, r.heap = g, r.at = p
  PROVE  Served(h, B, r, nb)
  BY DEF Serves, Served

\* The new memory becomes the top or a part of it.
LEMMA FromNewTop ==
  ASSUME NEW h, NEW B, NEW g, Good(g, B), Frame(h, g, B), NEW nb, nb \in Nat, MinChunk <= nb,
         nb < g.topsize, NEW r, r = FromTop(g, nb)
  PROVE  Served(h, B, r, nb)
<1>1. Served(g, B, r, nb)
  BY FromTopFacts
<1> QED BY <1>1, ServedTrans

Growth(h, B, base, size, nb) ==
  /\ Good(h, B) /\ Clear(h, base, size) /\ nb \in Nat /\ MinChunk <= nb /\ size = Pages(nb + TopFoot + 1)

\* What alloc_sys maps is enough for the request, the fake chunk and a rest.
LEMMA MappingSizes ==
  ASSUME NEW h, NEW B, NEW base, NEW size, NEW nb, Growth(h, B, base, size, nb)
  PROVE  /\ size \in Nat /\ nb < size /\ nb + MinChunk <= size /\ TopFoot < size
         /\ nb < size - TopFoot
<1>1. nb \in Nat /\ size = Pages(nb + TopFoot + 1) /\ TopFoot \in Nat
  BY FakeFacts DEF Growth
<1>2. TopFoot = SegChunk + MinChunk /\ SegChunk \in Nat /\ MinChunk \in Nat
  BY ConstantsOK DEF TopFoot
<1>3. PICK m : m = nb + TopFoot + 1
  OBVIOUS
<1>4. m \in Nat
  BY <1>1, <1>3
<1>5. Pages(m) \in Nat /\ m <= Pages(m)
  BY <1>4, PagesFacts
<1> QED BY <1>1, <1>2, <1>3, <1>5

GrownLower(h, base, size, nb, seg) ==
  FromTop(InitTop(NoTopFoot(Resized(h, seg, [seg EXCEPT !.size = @ + size])),
                  h.top, h.topsize + size), nb)

\* The three cases of alloc_sys with memory at base.
LEMMA GrownCases ==
  ASSUME NEW h, NEW base, NEW size, NEW nb, NEW r \in GrownAt(h, base, size, nb)
  PROVE  \/ \E seg \in Segments(h) : seg.base + seg.size = base /\ Holds(seg, h.top) /\ r = GrownLower(h, base, size, nb, seg)
         \/ \E seg \in Segments(h) : seg.base = base + size /\ r = Result(Prepend(h, seg, base, size, nb), base)
         \/ r = FromTop(AddSegment(h, base, size), nb)
<1> DEFINE lower == {seg \in Segments(h) : seg.base + seg.size = base /\ Holds(seg, h.top)}
           upper == {seg \in Segments(h) : seg.base = base + size}
<1>1. GrownAt(h, base, size, nb) =
        IF lower # {} THEN {GrownLower(h, base, size, nb, seg) : seg \in lower}
        ELSE IF upper # {} THEN {Result(Prepend(h, seg, base, size, nb), base) : seg \in upper}
        ELSE {FromTop(AddSegment(h, base, size), nb)}
  BY DEF GrownAt, GrownLower
<1> QED BY <1>1

\* alloc_sys serves the request from the memory mapped at base.
LEMMA GrownAtFacts ==
  ASSUME NEW h, NEW B, NEW base, NEW size, NEW nb, Growth(h, B, base, size, nb),
         NEW r \in GrownAt(h, base, size, nb)
  PROVE  Served(h, B, r, nb)
<1>0. Good(h, B) /\ Clear(h, base, size) /\ nb \in Nat /\ MinChunk <= nb
  BY DEF Growth
<1>s. /\ size \in Nat /\ nb < size /\ nb + MinChunk <= size /\ TopFoot < size /\ nb < size - TopFoot
  BY MappingSizes
<1>1. CASE \E seg \in Segments(h) : /\ seg.base + seg.size = base /\ Holds(seg, h.top)
                                    /\ r = GrownLower(h, base, size, nb, seg)
  <2>1. PICK seg \in Segments(h) : /\ seg.base + seg.size = base /\ Holds(seg, h.top)
                                   /\ r = GrownLower(h, base, size, nb, seg)
    BY <1>1
  <2>2. PICK g : g = InitTop(NoTopFoot(Resized(h, seg, [seg EXCEPT !.size = @ + size])),
                             h.top, h.topsize + size)
    OBVIOUS
  <2>3. Good(g, B) /\ Frame(h, g, B) /\ g.topsize = h.topsize + size
    BY <1>0, <2>1, <2>2, ExtendTop
  <2>4. nb < g.topsize
    <3>1. SpecTop(h, B, h.top + h.topsize)
      BY <1>0, TopFacts
    <3>2. h.topsize \in Nat
      BY <3>1 DEF SpecTop
    <3> QED BY <1>0, <1>s, <2>3, <3>2
  <2>5. r = FromTop(g, nb)
    BY <2>1, <2>2 DEF GrownLower
  <2> QED BY <1>0, <2>3, <2>4, <2>5, FromNewTop
<1>2. CASE \E seg \in Segments(h) : /\ seg.base = base + size
                                    /\ r = Result(Prepend(h, seg, base, size, nb), base)
  <2>1. PICK seg \in Segments(h) : /\ seg.base = base + size
                                   /\ r = Result(Prepend(h, seg, base, size, nb), base)
    BY <1>2
  <2>2. PICK g : g = Prepend(h, seg, base, size, nb)
    OBVIOUS
  <2>3. Prepending(h, B, seg, base, size, nb)
    BY <1>0, <1>s, <2>1 DEF Prepending
  <2>4. Serves(h, B, g, base, nb)
    BY <2>2, <2>3, PrependFacts
  <2>5. r.heap = g /\ r.at = base
    BY <2>1, <2>2 DEF Result
  <2> QED BY <1>0, <2>4, <2>5, ServesServed
<1>3. CASE r = FromTop(AddSegment(h, base, size), nb)
  <2>1. PICK g : g = AddSegment(h, base, size)
    OBVIOUS
  <2>2. Good(g, B) /\ Frame(h, g, B) /\ g.topsize = size - TopFoot
    BY <1>0, <1>s, <2>1, AddSegmentFacts
  <2>3. nb < g.topsize
    BY <1>s, <2>2
  <2> QED BY <1>0, <1>3, <2>1, <2>2, <2>3, FromNewTop
<1> QED BY <1>1, <1>2, <1>3, GrownCases

(***************************************************************************)
(* Directly mapped chunks.  Only they change.                              *)
(***************************************************************************)

\* A heap stays good when its directly mapped chunks change and stay apart.
LEMMA RemapsFacts ==
  ASSUME NEW h, NEW g, NEW B, NEW D, NEW B2, Remaps(h, g, B, D, B2)
  PROVE  Good(g, B2)
<1> DEFINE C == h.chunk
<1>0. /\ Good(h, B) /\ IsMap(D) /\ Regular(D) = Regular(C)
      /\ \A x \in Regular(C) : D[x] = C[x]
      /\ \A x \in Irregular(D) : D[x].cinuse /\ ~D[x].pinuse /\ ApartFrom(D, Segments(h), x)
      /\ \A x \in Regular(C) : x \in B2 <=> x \in B
      /\ B2 \subseteq DOMAIN D /\ Irregular(D) \subseteq B2
  BY DEF Remaps
<1>1. /\ DOMAIN g = Fields /\ g.chunk = D /\ g.trim = h.trim /\ g.checks = h.checks
      /\ g.top = h.top /\ g.topsize = h.topsize /\ g.seg = h.seg /\ g.linked = h.linked
      /\ g.sys = h.sys /\ g.bins = h.bins /\ g.dv = h.dv /\ g.dvsize = h.dvsize
  BY <1>0 DEF Remaps, Good, Fields
<1>2. Segments(g) = Segments(h) /\ Counters(g)
  BY <1>0, <1>1 DEF Segments, Counters, Good
<1>3. Headers(D)
  BY <1>0 DEF Headers, Irregular
<1>4. \A x \in Regular(C) : End(D, x) = End(C, x)
  BY <1>0 DEF End
<1>5. Geometry(D, Segments(h))
  <2>1. Geometry(C, Segments(h))
    BY <1>0 DEF Good
  <2>2. \A p \in Irregular(D) : /\ End(D, p) + FootPad <= Space
                                /\ \A f \in Segments(h) : End(D, p) + FootPad <= f.base \/ Limit(f) <= p
                                /\ \A q \in Irregular(D) : p < q => End(D, p) + FootPad <= q
    BY <1>0 DEF ApartFrom
  <2>3. \A p \in Regular(D) : \E f \in Segments(h) :
          Holds(f, p) /\ (End(D, p) = Limit(f) \/ (Holds(f, End(D, p)) /\ End(D, p) \in Regular(D)))
    BY <1>0, <1>4, <2>1 DEF Geometry
  <2>4. \A p, q \in Regular(D) : p < q => End(D, p) <= q
    BY <1>0, <1>4, <2>1 DEF Geometry
  <2> QED BY <1>0, <2>1, <2>2, <2>3, <2>4 DEF Geometry, Irregular
<1>6. Vacant(g) = Vacant(h)
  BY <1>0, <1>1 DEF Vacant
<1>7. TopLast(g)
  BY <1>0, <1>1 DEF TopLast, Good
<1>8. h.sys \subseteq Regular(C)
  BY <1>0 DEF Good, Kept
<1>9. Recorded(g)
  <2>1. IsFiniteSet(g.linked) /\ g.seg \notin g.linked
    BY <1>0, <1>1 DEF Good, Recorded
  <2>2. ASSUME NEW k \in g.linked
        PROVE  \E sp, fence \in g.sys : /\ Holds(k, sp) /\ fence = End(D, sp)
                                        /\ End(D, fence) = Limit(k) /\ sp + TopFoot <= Limit(k)
    <3>1. PICK sp \in h.sys, fence \in h.sys :
            /\ Holds(k, sp) /\ fence = End(C, sp) /\ End(C, fence) = Limit(k) /\ sp + TopFoot <= Limit(k)
      BY <1>0, <1>1 DEF Good, Recorded
    <3>2. End(D, sp) = End(C, sp) /\ End(D, fence) = End(C, fence)
      BY <1>4, <1>8, <3>1
    <3> QED BY <1>1, <3>1, <3>2
  <2> QED BY <1>1, <2>1, <2>2 DEF Recorded
<1>10. \A x \in Vacant(h) : x \in Regular(C) /\ End(C, x) \in Regular(C) /\ D[End(D, x)] = C[End(C, x)]
  <2> SUFFICES ASSUME NEW x \in Vacant(h)
               PROVE  x \in Regular(C) /\ End(C, x) \in Regular(C) /\ D[End(D, x)] = C[End(C, x)]
    OBVIOUS
  <2>1. SpecVacant(h, B, x, End(C, x))
    BY <1>0, VacantSpec
  <2>2. x \in Regular(C) /\ End(C, x) \in Regular(C)
    BY <2>1 DEF SpecVacant
  <2> QED BY <1>0, <1>4, <2>2
<1>11. Tags(g)
  <2>1. \A p \in Vacant(g) : ~D[End(D, p)].pinuse /\ D[End(D, p)].foot = D[p].size
    BY <1>0, <1>6, <1>10 DEF Good, Tags
  <2>2. ASSUME NEW p \in Regular(D) \ {g.top + g.topsize}, ~D[p].pinuse
        PROVE  LET q == p - D[p].foot
               IN  q \in Vacant(g) /\ D[q].size = D[p].foot
                   /\ \A k \in Segments(g) : Holds(k, p) => Holds(k, q)
    <3>1. p \in Regular(C) \ {h.top + h.topsize} /\ D[p] = C[p]
      BY <1>0, <1>1
    <3>2. PICK q : q = p - C[p].foot
      OBVIOUS
    <3>3. q \in Vacant(h) /\ C[q].size = C[p].foot /\ \A k \in Segments(h) : Holds(k, p) => Holds(k, q)
      BY <1>0, <2>2, <3>1, <3>2 DEF Good, Tags
    <3>4. D[q] = C[q]
      BY <1>0, <1>10, <3>3
    <3> QED BY <1>2, <1>6, <3>1, <3>2, <3>3, <3>4
  <2> QED BY <1>1, <2>1, <2>2 DEF Tags
<1>12. Found(g)
  <2>1. \A p \in Vacant(h) : D[End(D, p)].cinuse /\ MinChunk <= D[p].size
    BY <1>0, <1>10 DEF Good, Found
  <2>2. FiledIn(C, Vacant(h), h) /\ \A x \in Vacant(h) : D[x].size = C[x].size
    BY <1>0, <1>10 DEF Good, Found
  <2>3. FiledIn(D, Vacant(h), g)
    BY <1>1, <2>2, FiledSame
  <2> QED BY <1>1, <1>6, <2>1, <2>3 DEF Found
<1>13. Kept(g, B2)
  <2>1. ASSUME NEW p \in DOMAIN D PROVE D[p].cinuse <=> p \in B2 \union h.sys
    <3>1. CASE p \in Regular(C)
      BY <1>0, <3>1 DEF Good, Kept, Regular
    <3>2. CASE p \notin Regular(C)
      BY <1>0, <3>2 DEF Irregular
    <3> QED BY <3>1, <3>2
  <2>2. B2 \intersect h.sys = {}
    BY <1>0, <1>8 DEF Good, Kept
  <2>3. \A p \in B2 \intersect Regular(D) : MinChunk <= D[p].size
    BY <1>0 DEF Good, Kept
  <2>4. \A p \in Regular(D) : \A f \in Segments(g) :
          Holds(f, p) /\ End(D, p) = Limit(f) => p \in h.sys \/ p = h.top + h.topsize
    BY <1>0, <1>2, <1>4 DEF Good, Kept
  <2> QED BY <1>0, <1>1, <1>8, <2>1, <2>2, <2>3, <2>4 DEF Kept
<1> QED BY <1>1, <1>2, <1>3, <1>5, <1>7, <1>9, <1>11, <1>12, <1>13 DEF Good

\* A directly mapped chunk is a block, and lies apart.
LEMMA IrregularFacts ==
  ASSUME NEW h, NEW B, Good(h, B), NEW x \in Irregular(h.chunk)
  PROVE  /\ h.chunk[x].cinuse /\ ~h.chunk[x].pinuse /\ ApartFrom(h.chunk, Segments(h), x)
         /\ x \in B /\ h.chunk[x].foot = Direct /\ x \in DOMAIN h.chunk
<1> DEFINE C == h.chunk
<1>1. x \in DOMAIN C \ Regular(C)
  BY DEF Irregular
<1>2. C[x].cinuse /\ ~C[x].pinuse /\ C[x].foot = Direct
  BY <1>1 DEF Good, Headers, Regular
<1>3. /\ End(C, x) + FootPad <= Space
      /\ \A g \in Segments(h) : End(C, x) + FootPad <= g.base \/ Limit(g) <= x
      /\ \A q \in DOMAIN C \ Regular(C) : x < q => End(C, x) + FootPad <= q
      /\ \A q \in DOMAIN C \ Regular(C) : q < x => End(C, q) + FootPad <= x
  BY <1>1 DEF Good, Geometry
<1>4. ApartFrom(C, Segments(h), x)
  BY <1>3 DEF ApartFrom, Irregular
<1>5. x \in B
  BY <1>1, <1>2 DEF Good, Kept
<1> QED BY <1>1, <1>2, <1>4, <1>5

\* A block in a segment needs no room for a footer.
LEMMA ServedGranted ==
  ASSUME NEW h, NEW B, NEW r, NEW nb \in Nat, Served(h, B, r, nb)
  PROVE  Granted(h, B, r, nb)
  BY DEF Served, Granted, Regular

\* The header of a directly mapped chunk.
LEMMA ApieceFacts ==
  ASSUME NEW s \in Sizes
  PROVE  /\ Apiece(s) \in Header
         /\ Apiece(s).size = s /\ Apiece(s).cinuse /\ ~Apiece(s).pinuse /\ Apiece(s).foot = Direct
<1>1. Space \in Nat /\ Direct \in -1..Space
  BY ConstantsOK DEF Direct
<1> QED BY <1>1 DEF Apiece, Used, Header, Sizes

\* A directly mapped chunk is one more block.
LEMMA MappedAloneFacts ==
  ASSUME NEW h, NEW B, NEW a, NEW size, NEW D, MappedAlone(h, B, a, size, D),
         NEW B2, B2 = B \union {a}, NEW g, g = [h EXCEPT !.chunk = D]
  PROVE  /\ a \notin B /\ Good(g, B2) /\ Frame(h, g, B) /\ a \in DOMAIN D /\ g.chunk = D
         /\ D[a].size = size - FootPad /\ D[a].foot = Direct
<1> DEFINE C == h.chunk
<1>0. Good(h, B) /\ Clear(h, a, size) /\ FootPad < size /\ D = Put(C, a, Apiece(size - FootPad))
  BY DEF MappedAlone
<1>1. a \in Nat /\ size \in Nat /\ a + size <= Space /\ FootPad = 4 /\ Space \in Nat
  BY <1>0, ConstantsOK DEF Clear, FootPad
<1>2. PICK s : s = size - FootPad
  OBVIOUS
<1>3. s \in Sizes /\ a \in Addresses /\ a \in Int /\ s \in Int /\ a + s + FootPad = a + size
  BY <1>0, <1>1, <1>2 DEF Sizes, Addresses
<1>4. a \notin DOMAIN C
  <2>1. a < a + size
    BY <1>0, <1>1
  <2>2. \A x \in DOMAIN C : x < a \/ a + size <= x
    BY <1>0, ClearFacts
  <2> QED BY <1>1, <2>1, <2>2
<1>5. IsMap(C) /\ B \subseteq DOMAIN C /\ DOMAIN h = Fields
  BY <1>0 DEF Good, Headers, Kept
<1>6. /\ Apiece(s) \in Header
      /\ Apiece(s).size = s /\ Apiece(s).cinuse /\ ~Apiece(s).pinuse /\ Apiece(s).foot = Direct
  BY <1>3, ApieceFacts
<1>7. SpecPut(C, a, Apiece(s), D)
  BY <1>0, <1>2, <1>3, <1>5, <1>6, PutSpec
<1>8. IsMap(D) /\ DOMAIN D = DOMAIN C \union {a} /\ D[a] = Apiece(s)
      /\ \A x \in DOMAIN C : D[x] = C[x]
  BY <1>4, <1>7 DEF SpecPut
<1>9. Regular(D) = Regular(C) /\ Irregular(D) = Irregular(C) \union {a}
  BY <1>4, <1>6, <1>8 DEF Regular, Irregular
<1>10. End(D, a) = a + s /\ \A x \in DOMAIN C : End(D, x) = End(C, x)
  BY <1>6, <1>8 DEF End
<1>11. \A x \in DOMAIN C : x \in Int
  BY <1>5, ConstantsOK DEF IsMap
<1>12. /\ \A f \in Segments(h) : a + size <= f.base \/ Limit(f) <= a
       /\ \A p \in Irregular(C) : a + size <= p \/ End(C, p) + FootPad <= a
  BY <1>0 DEF Clear, Irregular
<1>13. ASSUME NEW x \in Irregular(D)
       PROVE  D[x].cinuse /\ ~D[x].pinuse /\ ApartFrom(D, Segments(h), x)
  <2>1. CASE x = a
    <3>1. End(D, x) + FootPad = a + size
      BY <1>3, <1>10, <2>1
    <3>2. ASSUME NEW q \in Irregular(C)
          PROVE  (a < q => a + size <= q) /\ (q < a => End(D, q) + FootPad <= a)
      <4>1. q \in DOMAIN C /\ q \in Int /\ q < End(C, q) /\ End(C, q) \in Int
        <5>1. q \in DOMAIN C
          BY DEF Irregular
        <5>2. C[q].size \in Nat \ {0} /\ q \in Int
          BY <1>0, <5>1, BlockFacts
        <5> QED BY <5>1, <5>2 DEF End
      <4>2. a + size <= q \/ End(C, q) + FootPad <= a
        BY <1>12
      <4> QED BY <1>1, <1>10, <4>1, <4>2
    <3>3. \A q \in Irregular(D) : (a < q => a + size <= q) /\ (q < a => End(D, q) + FootPad <= a)
      BY <1>1, <1>9, <3>2
    <3>4. ApartFrom(D, Segments(h), x)
      BY <1>1, <1>12, <2>1, <3>1, <3>3 DEF ApartFrom
    <3> QED BY <1>6, <1>8, <2>1, <3>4
  <2>2. CASE x \in Irregular(C)
    <3>1. /\ C[x].cinuse /\ ~C[x].pinuse /\ ApartFrom(C, Segments(h), x) /\ x \in DOMAIN C
      BY <1>0, <2>2, IrregularFacts
    <3>2. C[x].size \in Nat \ {0} /\ x \in Int
      BY <1>0, <3>1, BlockFacts
    <3>3. (x < a => End(C, x) + FootPad <= a) /\ (a < x => a + size <= x)
      <4>1. x < End(C, x) /\ End(C, x) \in Int
        BY <3>2 DEF End
      <4>2. a + size <= x \/ End(C, x) + FootPad <= a
        BY <1>12, <2>2
      <4> QED BY <1>1, <3>2, <4>1, <4>2
    <3>4. End(D, a) + FootPad = a + size /\ End(D, x) = End(C, x)
      BY <1>3, <1>10, <3>1
    <3>5. \A q \in Irregular(C) : q \in DOMAIN C
      BY DEF Irregular
    <3>6. ApartFrom(D, Segments(h), x)
      BY <1>9, <1>10, <3>1, <3>3, <3>4, <3>5 DEF ApartFrom
    <3> QED BY <1>8, <3>1, <3>6
  <2> QED BY <1>9, <2>1, <2>2
<1>14. a \notin B
  BY <1>4, <1>5
<1>15. Remaps(h, g, B, D, B2)
  <2>1. \A x \in Regular(C) : D[x] = C[x] /\ (x \in B2 <=> x \in B)
    BY <1>4, <1>8 DEF Regular
  <2>2. B2 \subseteq DOMAIN D
    BY <1>5, <1>8
  <2>3. Irregular(D) \subseteq B2
    <3>1. \A x \in Irregular(C) : x \in B
      BY <1>0, IrregularFacts
    <3> QED BY <1>9, <3>1
  <2> QED BY <1>0, <1>8, <1>9, <1>13, <2>1, <2>2, <2>3 DEF Remaps
<1>16. Good(g, B2)
  BY <1>15, RemapsFacts
<1>17. g.chunk = D
  BY <1>5 DEF Fields
<1>18. Frame(h, g, B)
  BY <1>5, <1>8, <1>17 DEF Frame
<1> QED BY <1>2, <1>6, <1>8, <1>14, <1>16, <1>17, <1>18

\* direct_alloc serves the request.
LEMMA DirectAllocFacts ==
  ASSUME NEW h, NEW B, Good(h, B), NEW nb \in Nat, NEW r \in DirectAlloc(h, nb)
  PROVE  Granted(h, B, r, nb)
<1>1. PICK size : size = Pages(nb + 6)
  OBVIOUS
<1>2. size \in Nat /\ nb + 6 <= size
  BY <1>1, PagesFacts
<1>3. PICK a \in Regions(h, size) :
        r = Result([h EXCEPT !.chunk = Put(@, a, Apiece(size - FootPad))], a)
  BY <1>1 DEF DirectAlloc, Apiece
<1>4. size \in Nat \ {0} /\ FootPad < size
  BY <1>2 DEF FootPad
<1>5. Clear(h, a, size)
  BY <1>3, <1>4, RegionsFacts
<1>6. PICK D : D = Put(h.chunk, a, Apiece(size - FootPad))
  OBVIOUS
<1>7. PICK g : g = [h EXCEPT !.chunk = D]
  OBVIOUS
<1>8. r.heap = g /\ r.at = a
  BY <1>3, <1>6, <1>7 DEF Result
<1>9. MappedAlone(h, B, a, size, D)
  BY <1>4, <1>5, <1>6 DEF MappedAlone
<1>10. PICK B2 : B2 = B \union {a}
  OBVIOUS
<1>11. /\ a \notin B /\ Good(g, B2) /\ Frame(h, g, B) /\ a \in DOMAIN D /\ g.chunk = D
       /\ D[a].size = size - FootPad /\ D[a].foot = Direct
  BY <1>7, <1>9, <1>10, MappedAloneFacts
<1>12. nb + 1 <= size - FootPad
  BY <1>2 DEF FootPad
<1> QED BY <1>8, <1>10, <1>11, <1>12 DEF Granted

\* A request that is granted is answered.
LEMMA GrantedAllocated ==
  ASSUME NEW h, NEW B, NEW r, NEW nb, Granted(h, B, r, nb)
  PROVE  Allocated(h, B, r, nb)
<1>1. PICK B2 : B2 = B \union {r.at}
  OBVIOUS
<1>2. Good(r.heap, B2) /\ r.at \in DOMAIN r.heap.chunk
  BY <1>1 DEF Granted
<1>3. r.at # None
  BY <1>2, BlockFacts
<1> QED BY <1>3 DEF Allocated

\* alloc_sys maps the chunk alone, grows the heap, or fails.
LEMMA AllocSysCases ==
  ASSUME NEW h, NEW nb, NEW size, size = Pages(nb + TopFoot + 1), NEW r \in AllocSys(h, nb)
  PROVE  \/ r \in DirectAlloc(h, nb)
         \/ \E base \in Regions(h, size) : r \in GrownAt(h, base, size, nb)
         \/ r = Result(h, None)
<1>1. PICK X : X = IF nb >= MmapThreshold THEN DirectAlloc(h, nb) ELSE {}
  OBVIOUS
<1>2. PICK U : U = UNION {GrownAt(h, base, size, nb) : base \in Regions(h, size)}
  OBVIOUS
<1>3. AllocSys(h, nb) = X \union {Result(h, None)} \union U
  BY Zenon, <1>1, <1>2 DEF AllocSys
<1>4. r \in X \/ r \in U \/ r = Result(h, None)
  BY <1>3
<1>5. r \in X => r \in DirectAlloc(h, nb)
  BY <1>1
<1>6. r \in U => \E base \in Regions(h, size) : r \in GrownAt(h, base, size, nb)
  BY <1>2
<1> QED BY <1>4, <1>5, <1>6

\* alloc_sys serves the request or leaves the heap alone.
LEMMA AllocSysFacts ==
  ASSUME NEW h, NEW B, Good(h, B), NEW nb \in Nat, MinChunk <= nb, NEW r \in AllocSys(h, nb)
  PROVE  Allocated(h, B, r, nb)
<1>1. PICK size : size = Pages(nb + TopFoot + 1)
  OBVIOUS
<1>2. CASE r \in DirectAlloc(h, nb)
  BY <1>2, DirectAllocFacts, GrantedAllocated
<1>3. CASE \E base \in Regions(h, size) : r \in GrownAt(h, base, size, nb)
  <2>1. PICK base \in Regions(h, size) : r \in GrownAt(h, base, size, nb)
    BY <1>3
  <2>2. size \in Nat \ {0}
    <3>1. TopFoot \in Nat
      BY FakeFacts
    <3>2. PICK m : m = nb + TopFoot + 1
      OBVIOUS
    <3>3. m \in Nat \ {0}
      BY <3>1, <3>2
    <3>4. Pages(m) \in Nat /\ m <= Pages(m)
      BY <3>3, PagesFacts
    <3> QED BY <1>1, <3>2, <3>3, <3>4
  <2>3. Clear(h, base, size)
    BY <2>1, <2>2, RegionsFacts
  <2>4. Growth(h, B, base, size, nb)
    BY <1>1, <2>3 DEF Growth
  <2>5. Served(h, B, r, nb)
    BY <2>1, <2>4, GrownAtFacts
  <2> QED BY <2>5, ServedGranted, GrantedAllocated
<1>4. CASE r = Result(h, None)
  BY <1>4 DEF Result, Allocated
<1> QED BY <1>1, <1>2, <1>3, <1>4, AllocSysCases

(***************************************************************************)
(* A directly mapped chunk is released or resized.                         *)
(***************************************************************************)

\* A directly mapped chunk is unmapped.
LEMMA UnmapFacts ==
  ASSUME NEW h, NEW B, Good(h, B), NEW p \in Irregular(h.chunk),
         NEW g, g = [h EXCEPT !.chunk = Without(@, {p})]
  PROVE  Freed(h, B, p, g) /\ g.chunk = Without(h.chunk, {p})
<1> DEFINE C == h.chunk
<1>1. PICK D : D = Without(C, {p})
  OBVIOUS
<1>2. IsMap(C) /\ B \subseteq DOMAIN C /\ DOMAIN h = Fields
  BY DEF Good, Headers, Kept
<1>3. IsMap(D) /\ DOMAIN D = DOMAIN C \ {p} /\ \A x \in DOMAIN C \ {p} : D[x] = C[x]
  <2>1. SpecWithout(C, {p}, D)
    BY <1>1, <1>2, WithoutSpec
  <2> QED BY <2>1 DEF SpecWithout
<1>4. g = [h EXCEPT !.chunk = D]
  BY <1>1
<1>5. g.chunk = D
  BY <1>2, <1>4 DEF Fields
<1>6. Regular(D) = Regular(C) /\ Irregular(D) = Irregular(C) \ {p}
  BY <1>3 DEF Regular, Irregular
<1>7. PICK B2 : B2 = B \ {p}
  OBVIOUS
<1>8. ASSUME NEW x \in Irregular(D)
      PROVE  D[x].cinuse /\ ~D[x].pinuse /\ ApartFrom(D, Segments(h), x)
  <2>1. x \in Irregular(C) /\ x # p
    BY <1>6
  <2>2. C[x].cinuse /\ ~C[x].pinuse /\ ApartFrom(C, Segments(h), x) /\ x \in DOMAIN C
    BY <2>1, IrregularFacts
  <2>3. \A q \in Irregular(D) : q \in Irregular(C) /\ End(D, q) = End(C, q)
    BY <1>3, <1>6 DEF End, Irregular
  <2>4. ApartFrom(D, Segments(h), x)
    BY <2>2, <2>3 DEF ApartFrom
  <2> QED BY <1>3, <2>1, <2>2, <2>4
<1>9. Remaps(h, g, B, D, B2)
  <2>1. \A x \in Regular(C) : D[x] = C[x] /\ (x \in B2 <=> x \in B)
    BY <1>3, <1>6, <1>7 DEF Regular
  <2>2. B2 \subseteq DOMAIN D
    BY <1>2, <1>3, <1>7
  <2>3. Irregular(D) \subseteq B2
    <3>1. \A x \in Irregular(C) : x \in B
      BY IrregularFacts
    <3> QED BY <1>6, <1>7, <3>1
  <2> QED BY <1>3, <1>4, <1>6, <1>8, <2>1, <2>2, <2>3 DEF Remaps
<1>10. Good(g, B2)
  BY <1>9, RemapsFacts
<1>11. Frame(h, g, B2)
  BY <1>2, <1>3, <1>5, <1>7 DEF Frame
<1> QED BY <1>1, <1>5, <1>7, <1>10, <1>11 DEF Freed

\* Headers with the same fields are the same.
LEMMA HeaderEqual ==
  ASSUME NEW v \in Header, NEW w \in Header, v.size = w.size, v.cinuse = w.cinuse,
         v.pinuse = w.pinuse, v.foot = w.foot
  PROVE  v = w
  BY DEF Header

\* direct_resize keeps the block, with the room asked for.
LEMMA RemappedFacts ==
  ASSUME NEW h, NEW B, Good(h, B), NEW p \in Irregular(h.chunk), NEW nb \in Nat,
         NEW r \in Remapped(h, p, nb)
  PROVE  Resizes(h, B, p, r, nb)
<1> DEFINE C == h.chunk
<1>1. PICK size : size = Pages(nb + 6)
  OBVIOUS
<1>2. size \in Nat /\ nb + 6 <= size
  BY <1>1, PagesFacts
<1>3. size \in Nat \ {0} /\ FootPad < size /\ nb + 1 <= size - FootPad
  BY <1>2 DEF FootPad
<1>4. PICK rest : rest = [h EXCEPT !.chunk = Without(@, {p})]
  OBVIOUS
<1>5. p \in Regions(rest, size) /\ r = Result([h EXCEPT !.chunk[p].size = size - FootPad], p)
  BY <1>1, <1>4 DEF Remapped
<1>6. PICK K : K = B \ {p}
  OBVIOUS
<1>7. Good(rest, K) /\ Frame(h, rest, K) /\ rest.chunk = Without(C, {p})
  BY <1>4, <1>6, UnmapFacts DEF Freed
<1>8. Clear(rest, p, size)
  BY <1>3, <1>5, <1>7, RegionsFacts
<1>9. PICK D : D = Put(rest.chunk, p, Apiece(size - FootPad))
  OBVIOUS
<1>10. MappedAlone(rest, K, p, size, D)
  BY <1>3, <1>7, <1>8, <1>9 DEF MappedAlone
<1>11. p \in B /\ C[p].cinuse /\ ~C[p].pinuse /\ C[p].foot = Direct /\ p \in DOMAIN C
  BY IrregularFacts
<1>12. B = K \union {p}
  BY <1>6, <1>11
<1>13. PICK g : g = [rest EXCEPT !.chunk = D]
  OBVIOUS
<1>14. /\ Good(g, B) /\ Frame(rest, g, K) /\ p \in DOMAIN D /\ g.chunk = D
       /\ D[p].size = size - FootPad /\ D[p].foot = Direct
  BY <1>10, <1>12, <1>13, MappedAloneFacts
<1>15. D = [C EXCEPT ![p].size = size - FootPad]
  <2>1. PICK s : s = size - FootPad
    OBVIOUS
  <2>2. C[p] \in Header /\ IsMap(C)
    BY <1>11 DEF Good, Headers, IsMap
  <2>3. Apiece(s) = [C[p] EXCEPT !.size = s]
    <3>1. PICK c : c = C[p]
      OBVIOUS
    <3>2. c.cinuse = TRUE /\ c.pinuse = FALSE /\ c.foot = Direct /\ c \in Header
      BY <1>11, <2>2, <3>1 DEF Header
    <3>3. s \in Sizes
      <4>1. size \in Nat /\ size <= Space /\ FootPad = 4 /\ s \in Nat \ {0} /\ Space \in Nat
        BY <1>2, <1>8, <2>1, ConstantsOK DEF Clear, FootPad
      <4> QED BY <2>1, <4>1 DEF Sizes
    <3>4. PICK v : v = [c EXCEPT !.size = s]
      OBVIOUS
    <3>5. v \in Header /\ v.size = s /\ v.cinuse = TRUE /\ v.pinuse = FALSE /\ v.foot = Direct
      BY <3>2, <3>3, <3>4 DEF Header, Sizes
    <3>6. PICK w : w = Apiece(s)
      OBVIOUS
    <3>7. w \in Header /\ w.size = s /\ w.cinuse = TRUE /\ w.pinuse = FALSE /\ w.foot = Direct
      BY <3>3, <3>6, ApieceFacts DEF Header
    <3>8. v = w
      BY <3>5, <3>7, HeaderEqual
    <3> QED BY <3>1, <3>4, <3>6, <3>8
  <2>4. D = Put(Without(C, {p}), p, [C[p] EXCEPT !.size = s])
    BY <1>7, <1>9, <2>1, <2>3
  <2>5. PICK v : v = [C[p] EXCEPT !.size = s]
    OBVIOUS
  <2>6. D = [C EXCEPT ![p] = v]
    <3>1. PICK W : W = Without(C, {p})
      OBVIOUS
    <3>2. DOMAIN W = DOMAIN C \ {p} /\ \A x \in DOMAIN C \ {p} : W[x] = C[x]
      BY <3>1, WithoutFacts
    <3>3. D = [q \in DOMAIN W \union {p} |-> IF q = p THEN v ELSE W[q]]
      BY <2>4, <2>5, <3>1 DEF Put
    <3>4. DOMAIN W \union {p} = DOMAIN C
      BY <1>11, <3>2
    <3>5. C \in [DOMAIN C -> Header]
      BY <2>2 DEF IsMap
    <3> QED BY <1>11, <3>2, <3>3, <3>4, <3>5
  <2> QED BY <2>1, <2>5, <2>6
<1>16. g = [h EXCEPT !.chunk = D]
  BY <1>4, <1>13
<1>17. r.heap = g /\ r.at = p
  BY <1>5, <1>15, <1>16 DEF Result
<1>18. Frame(h, g, K)
  BY <1>7, <1>14, FrameTrans
<1> QED BY <1>3, <1>6, <1>14, <1>17, <1>18 DEF Resizes

(***************************************************************************)
(* lj_alloc_malloc                                                         *)
(***************************************************************************)

\* request2size leaves room for the header.
LEMMA PaddedFacts ==
  ASSUME NEW n \in Nat
  PROVE  Padded(n) \in Nat /\ MinChunk <= Padded(n) /\ n + 1 <= Padded(n)
<1>1. MinChunk \in Nat
  BY ConstantsOK
<1>2. PICK k : k = n + 1
  OBVIOUS
<1>3. k \in Int /\ MinChunk \in Int /\ k \in Nat
  BY <1>1, <1>2
<1>4. Max({MinChunk, k}) \in {MinChunk, k} /\ MinChunk <= Max({MinChunk, k}) /\ k <= Max({MinChunk, k})
  BY <1>3, MaxFacts
<1>5. Padded(n) = Max({MinChunk, k})
  BY <1>2 DEF Padded
<1> QED BY <1>1, <1>2, <1>3, <1>4, <1>5

\* A chunk of a bin is free and has the size it is filed under.
LEMMA BinTaken ==
  ASSUME NEW h, NEW B, Good(h, B), NEW b \in h.bins, NEW p, p = b[1], NEW s, s = b[2],
         NEW h1, h1 = Unbin(h, p, s)
  PROVE  Taken(h, p, h1) /\ s = h.chunk[p].size /\ s \in Nat
<1>1. FiledIn(h.chunk, Vacant(h), h) /\ DOMAIN h = Fields
  BY DEF Good, Found
<1>2. p \in Vacant(h) /\ p # h.dv /\ s = h.chunk[p].size
  <2>1. b[1] \in Vacant(h) /\ b[1] # h.dv /\ b = <<b[1], h.chunk[b[1]].size>>
    BY <1>1 DEF FiledIn
  <2>2. b[2] = h.chunk[b[1]].size
    BY <2>1
  <2> QED BY <2>1, <2>2
<1>3. PICK T : T = Vacant(h) \ {p}
  OBVIOUS
<1>4. SameMemory(h, h1) /\ FiledIn(h.chunk, T, h1)
  BY <1>1, <1>2, <1>3, UnbinFacts
<1>5. s \in Nat
  <2>1. SpecVacant(h, B, p, End(h.chunk, p))
    BY <1>2, VacantSpec
  <2> QED BY <1>2, <2>1, Zenon DEF SpecVacant
<1> QED BY <1>2, <1>3, <1>4, <1>5 DEF Taken

\* A chunk of at least the size asked for grants the request.
LEMMA ServesGranted ==
  ASSUME NEW h, NEW B, NEW g, NEW p, NEW s \in Nat, NEW nb \in Nat, nb <= s, Serves(h, B, g, p, s),
         NEW r, r.heap = g, r.at = p
  PROVE  Granted(h, B, r, nb)
<1>1. Served(h, B, r, nb)
  BY DEF Serves, Served
<1> QED BY <1>1, ServedGranted

\* lj_alloc_malloc hands out the whole chunk of a bin.
LEMMA MallocExact ==
  ASSUME NEW h, NEW B, Good(h, B), NEW nb \in Nat, NEW b \in h.bins, nb <= b[2],
         NEW r, r = Result([Unbin(h, b[1], b[2]) EXCEPT !.chunk = SetUsedAll(@, b[1], b[2])], b[1])
  PROVE  Allocated(h, B, r, nb)
<1>1. PICK p : p = b[1]
  OBVIOUS
<1>2. PICK s : s = b[2]
  OBVIOUS
<1>3. PICK h1 : h1 = Unbin(h, p, s)
  OBVIOUS
<1>4. Taken(h, p, h1) /\ s = h.chunk[p].size /\ s \in Nat
  BY <1>1, <1>2, <1>3, BinTaken
<1>5. PICK g : g = [h1 EXCEPT !.chunk = SetUsedAll(@, p, h.chunk[p].size)]
  OBVIOUS
<1>6. Serves(h, B, g, p, s)
  BY <1>4, <1>5, UseWhole
<1>7. r = Result(g, p)
  BY <1>1, <1>2, <1>3, <1>4, <1>5
<1>8. r.heap = g /\ r.at = p
  BY <1>7 DEF Result
<1>9. nb <= s
  BY <1>2
<1> QED BY <1>4, <1>6, <1>8, <1>9, ServesGranted, GrantedAllocated

\* lj_alloc_malloc splits a chunk of a bin.
LEMMA MallocFit ==
  ASSUME NEW h, NEW B, Good(h, B), NEW nb \in Nat, MinChunk <= nb, NEW b \in h.bins, nb <= b[2],
         NEW victim, NEW r, r = Take(Unbin(h, b[1], b[2]), b[1], b[2], nb, victim)
  PROVE  Allocated(h, B, r, nb)
<1>1. PICK p : p = b[1]
  OBVIOUS
<1>2. PICK s : s = b[2]
  OBVIOUS
<1>3. PICK h1 : h1 = Unbin(h, p, s)
  OBVIOUS
<1>4. Taken(h, p, h1) /\ s = h.chunk[p].size /\ s \in Nat
  BY <1>1, <1>2, <1>3, BinTaken
<1>5. r = Take(h1, p, h.chunk[p].size, nb, victim) /\ nb <= h.chunk[p].size
  BY <1>1, <1>2, <1>3, <1>4
<1>6. Takes(h, p, h1, nb, victim, r)
  BY <1>4, <1>5 DEF Takes
<1>7. Served(h, B, r, nb)
  BY <1>6, TakeFacts
<1> QED BY <1>7, ServedGranted, GrantedAllocated

\* Without a fitting bin the designated victim, the top or alloc_sys answers.
LEMMA RestFacts ==
  ASSUME NEW h, NEW B, Good(h, B), NEW nb \in Nat, MinChunk <= nb, NEW r \in FromDvTopOrSys(h, nb)
  PROVE  Allocated(h, B, r, nb)
<1>1. CASE nb <= h.dvsize
  <2>1. r = FromDv(h, nb)
    BY <1>1 DEF FromDvTopOrSys
  <2>2. Served(h, B, r, nb)
    BY <1>1, <2>1, FromDvFacts
  <2> QED BY <2>2, ServedGranted, GrantedAllocated
<1>2. CASE ~(nb <= h.dvsize) /\ nb < h.topsize
  <2>1. r = FromTop(h, nb)
    BY <1>2 DEF FromDvTopOrSys
  <2>2. Served(h, B, r, nb)
    BY <1>2, <2>1, FromTopFacts
  <2> QED BY <2>2, ServedGranted, GrantedAllocated
<1>3. CASE ~(nb <= h.dvsize) /\ ~(nb < h.topsize)
  <2>1. r \in AllocSys(h, nb)
    BY <1>3 DEF FromDvTopOrSys
  <2> QED BY <2>1, AllocSysFacts
<1> QED BY <1>1, <1>2, <1>3

\* The best fit is one of the chunks it is searched in.
LEMMA BestFitFacts ==
  ASSUME NEW S, NEW b \in BestFit(S)
  PROVE  b \in S
  BY DEF BestFit

\* Every way to answer a small request.
LEMMA MallocSmallFacts ==
  ASSUME NEW h, NEW B, Good(h, B), NEW nb \in Nat, MinChunk <= nb, NEW r \in MallocSmall(h, nb)
  PROVE  Allocated(h, B, r, nb)
<1>e. PICK exact : exact = {b \in h.bins : Small(b[2]) /\ b[2] \in {nb, nb + 1}}
  OBVIOUS
<1>f. PICK fits : fits = {b \in h.bins : b[2] >= nb}
  OBVIOUS
<1>0. MallocSmall(h, nb) =
        IF exact # {}
        THEN {Result([Unbin(h, b[1], b[2]) EXCEPT !.chunk = SetUsedAll(@, b[1], b[2])], b[1]) :
                b \in BestFit(exact)}
        ELSE IF nb > h.dvsize /\ fits # {}
        THEN {Take(Unbin(h, b[1], b[2]), b[1], b[2], nb, TRUE) : b \in BestFit(fits)}
        ELSE FromDvTopOrSys(h, nb)
  BY <1>e, <1>f DEF MallocSmall
<1>1. CASE exact # {}
  <2>1. PICK b \in BestFit(exact) :
          r = Result([Unbin(h, b[1], b[2]) EXCEPT !.chunk = SetUsedAll(@, b[1], b[2])], b[1])
    BY <1>0, <1>1
  <2>2. b \in exact
    BY <2>1, BestFitFacts
  <2>3. b \in h.bins /\ nb <= b[2]
    BY <1>e, <2>2
  <2> QED BY <2>1, <2>3, MallocExact
<1>2. CASE exact = {} /\ nb > h.dvsize /\ fits # {}
  <2>1. PICK b \in BestFit(fits) : r = Take(Unbin(h, b[1], b[2]), b[1], b[2], nb, TRUE)
    BY <1>0, <1>2
  <2>2. b \in fits
    BY <2>1, BestFitFacts
  <2>3. b \in h.bins /\ nb <= b[2]
    BY <1>f, <2>2
  <2> QED BY <2>1, <2>3, MallocFit
<1>3. CASE exact = {} /\ ~(nb > h.dvsize /\ fits # {})
  <2>1. r \in FromDvTopOrSys(h, nb)
    BY <1>0, <1>3
  <2> QED BY <2>1, RestFacts
<1> QED BY <1>1, <1>2, <1>3

\* Every way to answer a large request.
LEMMA MallocLargeFacts ==
  ASSUME NEW h, NEW B, Good(h, B), NEW nb \in Nat, MinChunk <= nb, NEW r \in MallocLarge(h, nb)
  PROVE  Allocated(h, B, r, nb)
<1>f. PICK fits : fits = {b \in h.bins : b[2] >= nb}
  OBVIOUS
<1>b. PICK better : better = {b \in BestFit(fits) : h.dvsize < nb \/ b[2] < h.dvsize}
  OBVIOUS
<1>0. MallocLarge(h, nb) =
        IF better # {}
        THEN {Take(Unbin(h, b[1], b[2]), b[1], b[2], nb, FALSE) : b \in better}
        ELSE FromDvTopOrSys(h, nb)
  BY <1>b, <1>f DEF MallocLarge
<1>1. CASE better # {}
  <2>1. PICK b \in better : r = Take(Unbin(h, b[1], b[2]), b[1], b[2], nb, FALSE)
    BY <1>0, <1>1
  <2>2. b \in fits
    BY <1>b, <2>1, BestFitFacts
  <2>3. b \in h.bins /\ nb <= b[2]
    BY <1>f, <2>2
  <2> QED BY <2>1, <2>3, MallocFit
<1>2. CASE better = {}
  <2>1. r \in FromDvTopOrSys(h, nb)
    BY <1>0, <1>2
  <2> QED BY <2>1, RestFacts
<1> QED BY <1>1, <1>2

\* lj_alloc_malloc grants the request or fails and leaves the heap alone.
LEMMA MallocFacts ==
  ASSUME NEW h, NEW B, Good(h, B), NEW n \in Nat, NEW r \in Malloc(h, n)
  PROVE  Allocated(h, B, r, Padded(n))
<1>1. PICK nb : nb = Padded(n)
  OBVIOUS
<1>2. nb \in Nat /\ MinChunk <= nb
  BY <1>1, PaddedFacts
<1>3. r \in MallocSmall(h, nb) \/ r \in MallocLarge(h, nb)
  BY <1>1 DEF Malloc
<1> QED BY <1>1, <1>2, <1>3, MallocSmallFacts, MallocLargeFacts

(***************************************************************************)
(* Segments are released.                                                  *)
(***************************************************************************)

\* A chunk that a segment holds is not directly mapped.
LEMMA HeldRegular ==
  ASSUME NEW h, NEW B, Good(h, B), NEW k \in Segments(h), NEW x \in DOMAIN h.chunk, Holds(k, x)
  PROVE  x \in Regular(h.chunk)
<1> SUFFICES ASSUME x \notin Regular(h.chunk) PROVE FALSE
  OBVIOUS
<1>1. x \in Irregular(h.chunk)
  BY DEF Irregular
<1>2. End(h.chunk, x) + FootPad <= k.base \/ Limit(k) <= x
  BY <1>1, IrregularFacts DEF ApartFrom
<1>3. x \in Int /\ h.chunk[x].size \in Nat
  BY BlockFacts
<1>4. k.base \in Int /\ k.size \in Nat /\ Limit(k) = k.base + k.size
  BY DEF Good, Geometry, Limit
<1> QED BY <1>2, <1>3, <1>4 DEF Holds, End, FootPad

\* The chunk behind one of a segment is in the segment, unless that one ends it.
LEMMA NextHeld ==
  ASSUME NEW h, NEW B, Good(h, B), NEW k \in Segments(h), NEW x \in Regular(h.chunk), Holds(k, x)
  PROVE  \/ End(h.chunk, x) = Limit(k)
         \/ Holds(k, End(h.chunk, x)) /\ End(h.chunk, x) \in Regular(h.chunk)
<1>1. PICK g \in Segments(h) :
        /\ Holds(g, x)
        /\ End(h.chunk, x) = Limit(g) \/ (Holds(g, End(h.chunk, x)) /\ End(h.chunk, x) \in Regular(h.chunk))
  BY DEF Good, Geometry
<1>2. x \in Int
  BY BlockFacts DEF Regular
<1>3. g = k
  BY <1>1, <1>2, OneSegment DEF Good
<1> QED BY <1>1, <1>3

\* A segment that can be released has a free chunk, a record and a fencepost.
LEMMA ReleasableFacts ==
  ASSUME NEW h, NEW B, Good(h, B), NEW seg \in h.linked, Releasable(h, seg),
         NEW x \in DOMAIN h.chunk, Holds(seg, x)
  PROVE  (x = seg.base /\ x \in Vacant(h)) \/ x \in h.sys
<1> DEFINE C == h.chunk
<1>0. seg \in Segments(h) /\ h.seg \in Segments(h) /\ seg # h.seg
  BY DEF Segments, Good, Recorded
<1>1. PICK sp \in h.sys, fence \in h.sys :
        /\ Holds(seg, sp) /\ fence = End(C, sp) /\ End(C, fence) = Limit(seg) /\ sp + TopFoot <= Limit(seg)
  BY DEF Good, Recorded
<1>2. PICK p : p = seg.base
  OBVIOUS
<1>3. p \in Regular(C) /\ p \in DOMAIN C /\ sp \in Regular(C) /\ fence \in Regular(C)
      /\ sp \in DOMAIN C /\ fence \in DOMAIN C /\ C[sp].cinuse
  BY <1>0, <1>1, <1>2 DEF Good, Geometry, Kept, Regular
<1>4. ~C[p].cinuse /\ p + C[p].size >= p + seg.size - TopFoot
  BY <1>2 DEF Releasable
<1>5. /\ p \in Int /\ sp \in Int /\ fence \in Int /\ x \in Int
      /\ C[p].size \in Nat \ {0} /\ C[sp].size \in Nat \ {0} /\ C[fence].size \in Nat \ {0}
  BY <1>3, BlockFacts
<1>6. TopFoot \in Nat /\ seg.size \in Nat /\ Limit(seg) = p + seg.size
  BY <1>0, <1>2, FakeFacts DEF Good, Geometry, Limit
<1>7. x \in Regular(C)
  BY <1>0, HeldRegular
<1>8. p <= x /\ x < Limit(seg) /\ p <= sp
  BY <1>1, <1>2, <1>6 DEF Holds
<1>9. p # sp
  BY <1>3, <1>4
<1>10. End(C, p) = sp
  <2>1. End(C, p) <= sp
    BY <1>3, <1>5, <1>8, <1>9 DEF Good, Geometry
  <2>2. sp <= End(C, p)
    BY <1>1, <1>4, <1>5, <1>6 DEF End
  <2> QED BY <1>5, <2>1, <2>2 DEF End
<1>11. \A a \in Regular(C) : a < x => End(C, a) <= x
  BY <1>7 DEF Good, Geometry
<1>12. x = p \/ x = sp \/ x = fence
  <2>1. p < x => sp <= x
    BY <1>3, <1>10, <1>11
  <2>2. sp < x => fence <= x
    BY <1>1, <1>3, <1>11
  <2>3. fence < x => Limit(seg) <= x
    BY <1>1, <1>3, <1>11
  <2> QED BY <1>5, <1>6, <1>8, <2>1, <2>2, <2>3
<1>13. p \in Vacant(h)
  <2>1. Holds(h.seg, h.top) /\ Holds(h.seg, h.top + h.topsize)
    BY DEF Good, TopLast
  <2>2. Holds(seg, p)
    BY <1>1, <1>2, <1>5, <1>6, <1>8 DEF Holds, Limit
  <2>3. p # h.top /\ p # h.top + h.topsize
    BY <1>0, <1>5, <2>1, <2>2, OneSegment DEF Good
  <2> QED BY <1>3, <1>4, <2>3 DEF Vacant
<1> QED BY <1>2, <1>12, <1>13

\* What goes with the segments of S: no block and no chunk that stays says
\* anything of a chunk that goes.
LEMMA GoneFacts ==
  ASSUME NEW h, NEW B, NEW S, Releasing(h, B, S), NEW G, G = Gone(h, S)
  PROVE  SpecGone(h, B, S, G)
<1> DEFINE C == h.chunk
<1>0. Good(h, B) /\ S \subseteq h.linked /\ \A seg \in S : Releasable(h, seg)
  BY DEF Releasing
<1>1. S \subseteq Segments(h) /\ h.seg \in Segments(h) \ S
  BY <1>0 DEF Segments, Good, Recorded
<1>2. \A x \in G : x \in DOMAIN C /\ \E seg \in S : Holds(seg, x)
  BY DEF Gone
<1>3. \A x \in DOMAIN C : x \in Int
  BY <1>0, BlockFacts
<1>4. ASSUME NEW k \in Segments(h) \ S, NEW x \in G PROVE ~Holds(k, x)
  <2>1. PICK seg \in S : Holds(seg, x)
    BY <1>2
  <2> QED BY <1>0, <1>1, <1>2, <1>3, <2>1, OneSegment DEF Good
<1>5. ASSUME NEW x \in G
      PROVE  /\ x \in Regular(C) /\ x \notin B /\ x # h.top /\ x # h.top + h.topsize
             /\ x \in Vacant(h) => \E seg \in S : x = seg.base
  <2>1. PICK seg \in S : Holds(seg, x)
    BY <1>2
  <2>2. x \in Regular(C)
    BY <1>0, <1>1, <1>2, <2>1, HeldRegular
  <2>3. (x = seg.base /\ x \in Vacant(h)) \/ x \in h.sys
    BY <1>0, <1>2, <2>1, ReleasableFacts
  <2>4. x \in h.sys => C[x].cinuse /\ x \notin B
    BY <1>0 DEF Good, Kept, Regular
  <2>5. x \in Vacant(h) => ~C[x].cinuse /\ x \notin B
    BY <1>0, <2>2 DEF Good, Kept, Vacant, Regular
  <2>6. Holds(h.seg, h.top) /\ Holds(h.seg, h.top + h.topsize)
    BY <1>0 DEF Good, TopLast
  <2>7. x # h.top /\ x # h.top + h.topsize
    BY <1>1, <1>4, <2>6
  <2> QED BY <2>1, <2>2, <2>3, <2>4, <2>5, <2>7
<1>6. \A k \in S, x \in DOMAIN C : Holds(k, x) => x \in G
  BY DEF Gone
<1>7. ASSUME NEW x \in Regular(C) \ G PROVE \E k \in Segments(h) \ S : Holds(k, x)
  <2>1. PICK k \in Segments(h) : Holds(k, x)
    BY <1>0 DEF Good, Geometry
  <2> QED BY <1>6, <2>1 DEF Regular
<1>8. ASSUME NEW x \in Vacant(h) \ G PROVE End(C, x) \notin G
  <2>1. x \in Regular(C)
    BY DEF Vacant
  <2>2. PICK k \in Segments(h) \ S : Holds(k, x)
    BY <1>7, <2>1
  <2>3. x \notin h.sys /\ x # h.top + h.topsize
    BY <1>0 DEF Good, Kept, Vacant, Regular
  <2>4. End(C, x) # Limit(k)
    BY <1>0, <2>1, <2>2, <2>3 DEF Good, Kept
  <2>5. Holds(k, End(C, x))
    BY <1>0, <2>1, <2>2, <2>4, NextHeld
  <2> QED BY <1>4, <2>2, <2>5
<1> QED BY <1>1, <1>4, <1>5, <1>6, <1>7, <1>8 DEF SpecGone

Victim(h) == \E seg \in h.linked : Releasable(h, seg) /\ seg.base = h.dv

\* What is filed when the designated victim was in a segment to be released.
VictimFiled(h) == IF Victim(h) THEN NoDv(Bin(h, h.dv, h.chunk[h.dv].size)) ELSE h

First(h, S) == {<<seg.base, h.chunk[seg.base].size>> : seg \in S}

\* The designated victim goes to a bin when its segment may be released.
LEMMA VictimFiledFacts ==
  ASSUME NEW h, NEW B, Good(h, B), NEW g, g = VictimFiled(h)
  PROVE  /\ SameMemory(h, g) /\ FiledIn(h.chunk, Vacant(h), g)
         /\ \A seg \in h.linked : Releasable(h, seg) => seg.base # g.dv
<1> DEFINE C == h.chunk
<1>1. DOMAIN h = Fields /\ FiledIn(C, Vacant(h), h)
  BY DEF Good, Found
<1>2. CASE ~Victim(h)
  <2>1. g = h
    BY <1>2 DEF VictimFiled
  <2> QED BY <1>1, <1>2, <2>1 DEF SameMemory, Victim
<1>3. CASE Victim(h)
  <2>1. \A seg \in h.linked : seg.base \in DOMAIN C
    BY DEF Good, Geometry, Segments, Regular
  <2>2. h.dv # None
    <3>1. PICK seg \in h.linked : seg.base = h.dv
      BY <1>3 DEF Victim
    <3>2. seg.base # None
      BY <2>1, BlockFacts
    <3> QED BY <3>1, <3>2
  <2>3. PICK s : s = C[h.dv].size
    OBVIOUS
  <2>4. g = NoDv(Bin(h, h.dv, s))
    BY <1>3, <2>3 DEF VictimFiled
  <2>5. /\ DOMAIN g = Fields /\ g.dv = None /\ g.dvsize = 0 /\ g.bins = h.bins \union {<<h.dv, s>>}
        /\ g.chunk = h.chunk /\ g.top = h.top /\ g.topsize = h.topsize /\ g.seg = h.seg
        /\ g.linked = h.linked /\ g.sys = h.sys /\ g.trim = h.trim /\ g.checks = h.checks
    BY <1>1, <2>4 DEF NoDv, Bin, Fields
  <2>6. SameMemory(h, g)
    BY <2>5 DEF SameMemory
  <2>7. /\ \A x \in Vacant(h) : x = h.dv \/ <<x, C[x].size>> \in h.bins
        /\ \A y \in h.bins : y[1] \in Vacant(h) /\ y[1] # h.dv /\ y = <<y[1], C[y[1]].size>>
        /\ h.dv \in Vacant(h)
    BY <1>1, <2>2 DEF FiledIn
  <2>8. \A x \in Vacant(h) : x # None
    BY BlockFacts DEF Vacant, Regular
  <2>9. \A x \in Vacant(h) : <<x, C[x].size>> \in g.bins
    BY <2>3, <2>5, <2>7
  <2>10. ASSUME NEW y \in g.bins
         PROVE  y[1] \in Vacant(h) /\ y[1] # None /\ y = <<y[1], C[y[1]].size>>
    <3>1. CASE y \in h.bins
      BY <2>7, <2>8, <3>1
    <3>2. CASE y = <<h.dv, s>>
      <4>1. y[1] = h.dv
        BY <3>2
      <4> QED BY <2>2, <2>3, <2>7, <3>2, <4>1
    <3> QED BY <2>5, <3>1, <3>2
  <2>11. FiledIn(C, Vacant(h), g)
    BY <2>5, <2>9, <2>10 DEF FiledIn
  <2>12. \A seg \in h.linked : seg.base # g.dv
    <3>1. \A x \in DOMAIN C : x # None
      BY BlockFacts
    <3> QED BY <2>1, <2>5, <3>1
  <2> QED BY <2>6, <2>11, <2>12
<1> QED BY <1>2, <1>3

\* What release_unused_segments changes.
LEMMA ReleasedDef ==
  ASSUME NEW h, NEW B, Good(h, B), NEW S, NEW g, g = VictimFiled(h),
         NEW r, r = Released(h, S)
  PROVE  Unlinked(h, g, S, Gone(h, S), First(h, S), Checks(Cardinality(h.linked)), r)
<1>1. r = [g EXCEPT !.linked = @ \ S, !.sys = @ \ Gone(h, S), !.chunk = Without(@, Gone(h, S)),
                    !.bins = @ \ First(h, S), !.checks = Checks(Cardinality(h.linked))]
  BY Zenon DEF Released, VictimFiled, Victim, Gone, First
<1>2. SameMemory(h, g)
  BY VictimFiledFacts
<1>3. /\ DOMAIN g = Fields /\ g.chunk = h.chunk /\ g.top = h.top /\ g.topsize = h.topsize
      /\ g.seg = h.seg /\ g.linked = h.linked /\ g.sys = h.sys /\ g.trim = h.trim
  BY <1>2 DEF SameMemory
<1> QED BY <1>1, <1>3 DEF Unlinked, Fields

\* The chunks that stay are filed.
LEMMA UnlinkedFiled ==
  ASSUME NEW h, NEW B, NEW S, Releasing(h, B, S), NEW g, g = VictimFiled(h), NEW G, G = Gone(h, S),
         NEW r, r.bins = g.bins \ First(h, S), r.dv = g.dv, r.dvsize = g.dvsize,
         NEW V, V = Vacant(h) \ G
  PROVE  FiledIn(h.chunk, V, r)
<1> DEFINE C == h.chunk
           F == First(h, S)
<1>0. Good(h, B) /\ S \subseteq h.linked /\ \A seg \in S : Releasable(h, seg)
  BY DEF Releasing
<1>1. FiledIn(C, Vacant(h), g) /\ \A seg \in S : seg.base # g.dv
  BY <1>0, VictimFiledFacts
<1>2. SpecGone(h, B, S, G)
  BY GoneFacts
<1>3. \A x \in G : x \in Vacant(h) => \E seg \in S : x = seg.base
  BY <1>2 DEF SpecGone
<1>4. \A seg \in S : seg.base \in G
  <2>1. \A seg \in S : seg \in Segments(h)
    BY <1>0 DEF Segments
  <2>2. \A seg \in S : seg.base \in DOMAIN C /\ Holds(seg, seg.base)
    BY <1>0, <2>1 DEF Good, Geometry, Regular, Holds
  <2> QED BY <1>2, <2>2 DEF SpecGone
<1>5. \A y \in F : y[1] \in G
  <2> SUFFICES ASSUME NEW seg \in S PROVE <<seg.base, C[seg.base].size>>[1] \in G
    BY DEF First
  <2> QED BY <1>4
<1>6. /\ \A x \in Vacant(h) : x = g.dv \/ <<x, C[x].size>> \in g.bins
      /\ \A y \in g.bins : y[1] \in Vacant(h) /\ y[1] # g.dv /\ y = <<y[1], C[y[1]].size>>
      /\ g.dv = None => g.dvsize = 0
      /\ g.dv # None => g.dv \in Vacant(h) /\ g.dvsize = C[g.dv].size
  BY <1>1 DEF FiledIn
<1>7. ASSUME NEW x \in V PROVE x = r.dv \/ <<x, C[x].size>> \in r.bins
  <2>1. <<x, C[x].size>>[1] = x
    OBVIOUS
  <2>2. <<x, C[x].size>> \notin F
    BY <1>5, <2>1
  <2> QED BY <1>6, <2>2
<1>8. ASSUME NEW y \in r.bins PROVE y[1] \in V /\ y[1] # r.dv /\ y = <<y[1], C[y[1]].size>>
  <2>1. y \in g.bins /\ y \notin F
    OBVIOUS
  <2>2. y[1] \in Vacant(h) /\ y[1] # r.dv /\ y = <<y[1], C[y[1]].size>>
    BY <1>6, <2>1
  <2>3. y[1] \notin G
    <3> SUFFICES ASSUME y[1] \in G PROVE FALSE
      OBVIOUS
    <3>1. PICK seg \in S : y[1] = seg.base
      BY <1>3, <2>2
    <3>2. y = <<seg.base, C[seg.base].size>>
      BY <2>2, <3>1
    <3>3. y \in F
      BY <3>2 DEF First
    <3> QED BY <2>1, <3>3
  <2> QED BY <2>2, <2>3
<1>9. r.dv = None => r.dvsize = 0
  BY <1>6
<1>10. r.dv # None => r.dv \in V /\ r.dvsize = C[r.dv].size
  BY <1>1, <1>3, <1>6
<1> QED BY <1>7, <1>8, <1>9, <1>10 DEF FiledIn

\* The next check is due after at least one release.
LEMMA ChecksFacts ==
  ASSUME NEW n \in Nat
  PROVE  Checks(n) \in Nat \ {0}
<1>1. CheckRate \in Nat \ {0} /\ CheckRate \in Int
  BY ConstantsOK
<1>2. Max({n, CheckRate}) \in {n, CheckRate} /\ CheckRate <= Max({n, CheckRate})
  BY <1>1, MaxFacts
<1> QED BY <1>1, <1>2 DEF Checks

\* The segments that stay are tiled.
LEMMA UnlinkedGeometry ==
  ASSUME NEW h, NEW B, NEW S, Releasing(h, B, S), NEW G, G = Gone(h, S),
         NEW D, SpecWithout(h.chunk, G, D), NEW Z, Z = Segments(h) \ S
  PROVE  /\ Geometry(D, Z) /\ Regular(D) = Regular(h.chunk) \ G
         /\ \A x \in DOMAIN D : End(D, x) = End(h.chunk, x) /\ D[x] = h.chunk[x]
         /\ Irregular(D) = Irregular(h.chunk)
<1> DEFINE C == h.chunk
<1>0. Good(h, B)
  BY DEF Releasing
<1>1. IsMap(D) /\ DOMAIN D = DOMAIN C \ G /\ \A x \in DOMAIN D : D[x] = C[x]
  BY DEF SpecWithout
<1>2. SpecGone(h, B, S, G)
  BY GoneFacts
<1>3. /\ \A x \in G : x \in Regular(C)
      /\ \A k \in Z, x \in Regular(C) : Holds(k, x) => x \notin G
      /\ \A x \in Regular(C) \ G : \E k \in Z : Holds(k, x)
  BY <1>2 DEF SpecGone
<1>4. Regular(D) = Regular(C) \ G /\ Irregular(D) = Irregular(C)
  BY <1>1, <1>3 DEF Regular, Irregular
<1>5. \A x \in DOMAIN D : End(D, x) = End(C, x)
  BY <1>1 DEF End
<1>6. Geometry(C, Segments(h)) /\ Z \subseteq Segments(h)
  BY <1>0 DEF Good
<1>7. \A f \in Z : /\ f \in [base : Nat, size : Nat \ {0}] /\ Limit(f) <= Space
                   /\ f.base \in Regular(D)
  <2> SUFFICES ASSUME NEW f \in Z
               PROVE  /\ f \in [base : Nat, size : Nat \ {0}] /\ Limit(f) <= Space
                      /\ f.base \in Regular(D)
    OBVIOUS
  <2>1. /\ f \in [base : Nat, size : Nat \ {0}] /\ Limit(f) <= Space /\ f.base \in Regular(C)
    BY <1>6 DEF Geometry
  <2>2. Holds(f, f.base)
    BY <2>1 DEF Holds
  <2> QED BY <1>3, <1>4, <2>1, <2>2
<1>8. \A f, g \in Z : f = g \/ Limit(f) <= g.base \/ Limit(g) <= f.base
  BY <1>6 DEF Geometry
<1>9. ASSUME NEW x \in Regular(D)
      PROVE  \E f \in Z : /\ Holds(f, x)
                          /\ End(D, x) = Limit(f) \/ (Holds(f, End(D, x)) /\ End(D, x) \in Regular(D))
  <2>1. x \in Regular(C) /\ x \in DOMAIN D /\ x \notin G
    BY <1>4 DEF Regular
  <2>2. PICK k \in Z : Holds(k, x)
    BY <1>3, <2>1
  <2>3. \/ End(C, x) = Limit(k)
        \/ Holds(k, End(C, x)) /\ End(C, x) \in Regular(C)
    BY <1>0, <1>6, <2>1, <2>2, NextHeld
  <2>4. End(D, x) = End(C, x)
    BY <1>5, <2>1
  <2> QED BY <1>3, <1>4, <2>2, <2>3, <2>4
<1>10. \A x, y \in Regular(D) : x < y => End(D, x) <= y
  <2>1. \A x, y \in Regular(C) : x < y => End(C, x) <= y
    BY <1>6 DEF Geometry
  <2>2. \A x \in Regular(D) : x \in Regular(C) /\ End(D, x) = End(C, x)
    BY <1>4, <1>5 DEF Regular
  <2> QED BY <2>1, <2>2
<1>11. \A p \in Irregular(C) :
         /\ End(D, p) + FootPad <= Space
         /\ \A g \in Z : End(D, p) + FootPad <= g.base \/ Limit(g) <= p
         /\ \A q \in Irregular(C) : p < q => End(D, p) + FootPad <= q
  <2>1. \A p \in Irregular(C) : ApartFrom(C, Segments(h), p) /\ End(D, p) = End(C, p)
    <3>1. \A p \in Irregular(C) : p \in DOMAIN D
      BY <1>4 DEF Irregular
    <3> QED BY <1>0, <1>5, <3>1, IrregularFacts
  <2> QED BY <1>6, <2>1 DEF ApartFrom
<1>12. Geometry(D, Z)
  BY <1>4, <1>7, <1>8, <1>9, <1>10, <1>11 DEF Geometry, Irregular
<1> QED BY <1>1, <1>4, <1>5, <1>12

\* The heap is good without the segments of S, and all blocks are there.
LEMMA ReleasedFacts ==
  ASSUME NEW h, NEW B, NEW S, Releasing(h, B, S), NEW r, r = Released(h, S)
  PROVE  Good(r, B) /\ Frame(h, r, B)
<1> DEFINE C == h.chunk
           D == r.chunk
<1>0. Good(h, B) /\ S \subseteq h.linked
  BY DEF Releasing
<1>g. PICK g : g = VictimFiled(h)
  OBVIOUS
<1>G. PICK G : G = Gone(h, S)
  OBVIOUS
<1>1. Unlinked(h, g, S, G, First(h, S), Checks(Cardinality(h.linked)), r)
  BY <1>0, <1>g, <1>G, ReleasedDef
<1>2. /\ DOMAIN r = Fields /\ D = Without(C, G) /\ r.top = h.top /\ r.topsize = h.topsize
      /\ r.seg = h.seg /\ r.linked = h.linked \ S /\ r.sys = h.sys \ G /\ r.trim = h.trim
      /\ r.checks = Checks(Cardinality(h.linked))
      /\ r.bins = g.bins \ First(h, S) /\ r.dv = g.dv /\ r.dvsize = g.dvsize
  BY <1>1 DEF Unlinked
<1>3. SpecWithout(C, G, D)
  BY <1>0, <1>2, WithoutSpec DEF Good, Headers
<1>4. IsMap(D) /\ DOMAIN D = DOMAIN C \ G /\ \A x \in DOMAIN D : D[x] = C[x]
  BY <1>3 DEF SpecWithout
<1>5. PICK Z : Z = Segments(h) \ S
  OBVIOUS
<1>6. /\ Geometry(D, Z) /\ Regular(D) = Regular(C) \ G
      /\ \A x \in DOMAIN D : End(D, x) = End(C, x)
      /\ Irregular(D) = Irregular(C)
  BY <1>3, <1>5, <1>G, UnlinkedGeometry
<1>7. SpecGone(h, B, S, G)
  BY <1>G, GoneFacts
<1>8. /\ \A x \in G : x \in Regular(C) /\ x \notin B /\ x # h.top /\ x # h.top + h.topsize
      /\ \A k \in Z, x \in Regular(C) : Holds(k, x) => x \notin G
      /\ \A k \in S, x \in DOMAIN C : Holds(k, x) => x \in G
      /\ \A x \in Regular(C) \ G : \E k \in Z : Holds(k, x)
      /\ \A x \in Vacant(h) \ G : End(C, x) \notin G
      /\ h.seg \in Z
  BY <1>5, <1>7 DEF SpecGone
<1>9. Segments(r) = Z
  BY <1>0, <1>2, <1>5, <1>8 DEF Segments
<1>10. Headers(D)
  <2>1. \A x \in Irregular(D) : D[x].cinuse /\ ~D[x].pinuse
    <3>1. \A x \in Irregular(D) : x \in Irregular(C) /\ D[x] = C[x]
      BY <1>4, <1>6 DEF Irregular
    <3> QED BY <1>0, <3>1, IrregularFacts
  <2> QED BY <1>4, <2>1 DEF Headers, Irregular
<1>11. Counters(r)
  <2>1. Cardinality(h.linked) \in Nat
    BY <1>0, FS_CardinalityType DEF Good, Recorded
  <2> QED BY <1>0, <1>2, <2>1, ChecksFacts DEF Counters, Good
<1>12. Vacant(r) = Vacant(h) \ G
  BY <1>2, <1>4, <1>6 DEF Vacant, Regular
<1>13. \A x \in Vacant(h) \ G : /\ x \in Regular(C) /\ x \in DOMAIN D /\ End(C, x) \in DOMAIN D
                                /\ End(D, x) = End(C, x)
  <2> SUFFICES ASSUME NEW x \in Vacant(h) \ G
               PROVE  /\ x \in Regular(C) /\ x \in DOMAIN D /\ End(C, x) \in DOMAIN D
                      /\ End(D, x) = End(C, x)
    OBVIOUS
  <2>1. SpecVacant(h, B, x, End(C, x))
    BY <1>0, VacantSpec
  <2>2. x \in Regular(C) /\ x \in DOMAIN C /\ End(C, x) \in DOMAIN C
    BY <2>1 DEF SpecVacant
  <2> QED BY <1>4, <1>6, <1>8, <2>2
<1>14. TopLast(r)
  <2>1. h.top \in Regular(D) /\ h.top + h.topsize \in Regular(D)
    BY <1>0, <1>6, <1>8 DEF Good, TopLast
  <2>2. D[h.top] = C[h.top] /\ D[h.top + h.topsize] = C[h.top + h.topsize]
    BY <1>4, <2>1 DEF Regular
  <2> QED BY <1>0, <1>2, <2>1, <2>2 DEF Good, TopLast
<1>15. Recorded(r)
  <2>1. IsFiniteSet(r.linked)
    <3>1. IsFiniteSet(h.linked)
      BY <1>0 DEF Good, Recorded
    <3>2. IsFiniteSet(h.linked \ S)
      BY <3>1, FS_Difference
    <3> QED BY <1>2, <3>2
  <2>2. r.seg \notin r.linked
    BY <1>0, <1>2 DEF Good, Recorded
  <2>3. ASSUME NEW k \in r.linked
        PROVE  \E sp, fence \in r.sys : /\ Holds(k, sp) /\ fence = End(D, sp)
                                        /\ End(D, fence) = Limit(k) /\ sp + TopFoot <= Limit(k)
    <3>0. k \in h.linked /\ k \in Z /\ k \in Segments(h)
      BY <1>2, <1>5 DEF Segments
    <3>1. PICK sp \in h.sys, fence \in h.sys :
            /\ Holds(k, sp) /\ fence = End(C, sp) /\ End(C, fence) = Limit(k) /\ sp + TopFoot <= Limit(k)
      BY <1>0, <3>0 DEF Good, Recorded
    <3>2. sp \in Regular(C) /\ fence \in Regular(C) /\ sp \in DOMAIN C /\ fence \in DOMAIN C
      BY <1>0, <3>1 DEF Good, Kept, Regular
    <3>3. fence # Limit(k)
      <4>1. fence \in Int /\ C[fence].size \in Nat \ {0}
        BY <1>0, <3>2, BlockFacts
      <4>2. PICK n : n = C[fence].size
        OBVIOUS
      <4>3. End(C, fence) = fence + n
        BY <4>2 DEF End
      <4>4. fence \in Int /\ n \in Nat \ {0}
        BY <4>1, <4>2
      <4>5. fence + n # fence
        BY <4>4
      <4> QED BY <3>1, <4>3, <4>5
    <3>4. Holds(k, fence)
      BY <1>0, <3>0, <3>1, <3>2, <3>3, NextHeld
    <3>5. sp \notin G /\ fence \notin G
      BY <1>8, <3>0, <3>1, <3>2, <3>4
    <3>6. End(D, sp) = End(C, sp) /\ End(D, fence) = End(C, fence)
      BY <1>4, <1>6, <3>2, <3>5
    <3> QED BY <1>2, <3>1, <3>5, <3>6
  <2> QED BY <1>2, <2>1, <2>2, <2>3 DEF Recorded
<1>16. Tags(r)
  <2>1. \A p \in Vacant(r) : ~D[End(D, p)].pinuse /\ D[End(D, p)].foot = D[p].size
    BY <1>0, <1>4, <1>12, <1>13 DEF Good, Tags
  <2>2. ASSUME NEW p \in Regular(D) \ {r.top + r.topsize}, ~D[p].pinuse
        PROVE  LET q == p - D[p].foot
               IN  q \in Vacant(r) /\ D[q].size = D[p].foot
                   /\ \A k \in Segments(r) : Holds(k, p) => Holds(k, q)
    <3>1. p \in Regular(C) \ {h.top + h.topsize} /\ D[p] = C[p] /\ p \notin G
      BY <1>2, <1>4, <1>6 DEF Regular
    <3>2. PICK q : q = p - C[p].foot
      OBVIOUS
    <3>3. q \in Vacant(h) /\ C[q].size = C[p].foot /\ \A k \in Segments(h) : Holds(k, p) => Holds(k, q)
      BY <1>0, <2>2, <3>1, <3>2 DEF Good, Tags
    <3>4. PICK k \in Z : Holds(k, p)
      BY <1>8, <3>1
    <3>5. Holds(k, q) /\ q \in Regular(C)
      BY <1>5, <3>3, <3>4 DEF Vacant
    <3>6. q \notin G
      BY <1>8, <3>4, <3>5
    <3>7. D[q] = C[q]
      BY <1>4, <1>13, <3>3, <3>6
    <3> QED BY <1>5, <1>9, <1>12, <3>1, <3>2, <3>3, <3>6, <3>7
  <2> QED BY <2>1, <2>2 DEF Tags
<1>17. Found(r)
  <2>1. \A p \in Vacant(r) : D[End(D, p)].cinuse /\ MinChunk <= D[p].size
    BY <1>0, <1>4, <1>12, <1>13 DEF Good, Found
  <2>2. PICK V : V = Vacant(h) \ G
    OBVIOUS
  <2>3. FiledIn(C, V, r)
    BY <1>2, <1>g, <1>G, <2>2, UnlinkedFiled
  <2>4. \A x \in V : D[x].size = C[x].size
    BY <1>4, <1>13, <2>2
  <2>5. FiledIn(D, V, r)
    BY <2>3, <2>4, FiledSame
  <2> QED BY <1>12, <2>1, <2>2, <2>5 DEF Found
<1>18. Kept(r, B)
  <2>1. /\ \A p \in DOMAIN C : C[p].cinuse <=> p \in B \union h.sys
        /\ B \subseteq DOMAIN C /\ h.sys \subseteq Regular(C) /\ B \intersect h.sys = {}
        /\ \A p \in B \intersect Regular(C) : MinChunk <= C[p].size
        /\ \A p \in Regular(C) : \A f \in Segments(h) :
             Holds(f, p) /\ End(C, p) = Limit(f) => p \in h.sys \/ p = h.top + h.topsize
    BY <1>0 DEF Good, Kept
  <2>2. \A p \in DOMAIN D : D[p].cinuse <=> p \in B \union r.sys
    BY <1>2, <1>4, <2>1
  <2>3. B \subseteq DOMAIN D /\ r.sys \subseteq Regular(D) /\ B \intersect r.sys = {}
    BY <1>2, <1>4, <1>6, <1>8, <2>1
  <2>4. \A p \in B \intersect Regular(D) : MinChunk <= D[p].size
    BY <1>4, <1>6, <2>1, <2>3
  <2>5. \A p \in Regular(D) : \A f \in Segments(r) :
          Holds(f, p) /\ End(D, p) = Limit(f) => p \in r.sys \/ p = r.top + r.topsize
    <3>1. \A p \in Regular(D) : p \in Regular(C) /\ p \notin G /\ End(D, p) = End(C, p)
      BY <1>6 DEF Regular
    <3> QED BY <1>2, <1>5, <1>9, <2>1, <3>1
  <2> QED BY <2>2, <2>3, <2>4, <2>5 DEF Kept
<1>19. Good(r, B)
  BY <1>2, <1>6, <1>9, <1>10, <1>11, <1>14, <1>15, <1>16, <1>17, <1>18 DEF Good
<1>20. Frame(h, r, B)
  BY <1>4, <1>18 DEF Frame, Kept
<1> QED BY <1>19, <1>20

\* Two changes that keep the heap good and all blocks are one.
LEMMA KeepsTrans ==
  ASSUME NEW h, NEW B, NEW g, NEW r, Keeps(h, B, g), Keeps(g, B, r)
  PROVE  Keeps(h, B, r)
  BY FrameTrans DEF Keeps

\* No change keeps the heap good.
LEMMA KeepsSame ==
  ASSUME NEW h, NEW B, Good(h, B)
  PROVE  Keeps(h, B, h)
  BY DEF Keeps, Frame

\* The counters do not matter.
LEMMA Recounted ==
  ASSUME NEW h, NEW B, Good(h, B), NEW g, DOMAIN g = Fields, Counters(g),
         g.chunk = h.chunk, g.top = h.top, g.topsize = h.topsize, g.seg = h.seg,
         g.linked = h.linked, g.sys = h.sys, g.bins = h.bins, g.dv = h.dv, g.dvsize = h.dvsize
  PROVE  Keeps(h, B, g)
<1>1. Vacant(g) = Vacant(h) /\ Segments(g) = Segments(h)
  BY DEF Vacant, Segments
<1>2. FiledIn(h.chunk, Vacant(h), h)
  BY DEF Good, Found
<1>3. FiledIn(g.chunk, Vacant(g), g)
  BY <1>1, <1>2 DEF FiledIn
<1>4. Found(g)
  BY <1>1, <1>3 DEF Good, Found
<1>5. TopLast(g) /\ Recorded(g)
  BY DEF Good, TopLast, Recorded
<1>6. Tags(g) /\ Kept(g, B)
  BY <1>1 DEF Good, Tags, Kept
<1>7. Headers(g.chunk) /\ Geometry(g.chunk, Segments(g))
  BY <1>1 DEF Good
<1>8. Good(g, B)
  BY <1>4, <1>5, <1>6, <1>7 DEF Good
<1> QED BY <1>8 DEF Keeps, Frame

\* release_unused_segments keeps the heap good and all blocks.
LEMMA ReleaseUnusedFacts ==
  ASSUME NEW h, NEW B, Good(h, B), NEW r \in ReleaseUnused(h)
  PROVE  Keeps(h, B, r)
<1>1. PICK S \in SUBSET {seg \in h.linked : Releasable(h, seg)} : r = Released(h, S)
  BY DEF ReleaseUnused
<1>2. Releasing(h, B, S)
  BY <1>1 DEF Releasing
<1> QED BY <1>1, <1>2, ReleasedFacts DEF Keeps

\* alloc_trim keeps the heap good and all blocks.
LEMMA TrimFacts ==
  ASSUME NEW h, NEW B, Good(h, B), NEW r \in Trim(h)
  PROVE  Keeps(h, B, r)
<1>1. PICK U : U = UNION {ReleaseUnused(k) : k \in ShrunkTops(h)}
  OBVIOUS
<1>2. Trim(h) = {IF ~(Segments(g) # Segments(h)) /\ g.topsize > g.trim
                 THEN [g EXCEPT !.trim = Never] ELSE g : g \in U}
  BY Zenon, <1>1 DEF Trim
<1>3. PICK g \in U : r = IF ~(Segments(g) # Segments(h)) /\ g.topsize > g.trim
                         THEN [g EXCEPT !.trim = Never] ELSE g
  BY <1>2
<1>4. PICK k \in ShrunkTops(h) : g \in ReleaseUnused(k)
  BY <1>1, <1>3
<1>5. Keeps(h, B, k)
  BY <1>4, ShrunkTopsFacts DEF Keeps
<1>6. Keeps(k, B, g)
  BY <1>4, <1>5, ReleaseUnusedFacts DEF Keeps
<1>7. Keeps(h, B, g) /\ Good(g, B)
  BY <1>5, <1>6, KeepsTrans DEF Keeps
<1>8. CASE r = g
  BY <1>7, <1>8
<1>9. CASE r = [g EXCEPT !.trim = Never]
  <2>1. /\ DOMAIN r = Fields /\ r.trim = Never /\ r.checks = g.checks
        /\ r.chunk = g.chunk /\ r.top = g.top /\ r.topsize = g.topsize /\ r.seg = g.seg
        /\ r.linked = g.linked /\ r.sys = g.sys /\ r.bins = g.bins /\ r.dv = g.dv /\ r.dvsize = g.dvsize
    BY <1>7, <1>9 DEF Good, Fields
  <2>2. Counters(r)
    BY <1>7, <2>1 DEF Good, Counters
  <2>3. Keeps(g, B, r)
    BY <1>7, <2>1, <2>2, Recounted
  <2> QED BY <1>7, <2>3, KeepsTrans
<1> QED BY <1>3, <1>8, <1>9

\* So does the check that is due when a chunk was put in a bin.
LEMMA FiledFacts ==
  ASSUME NEW h, NEW B, NEW p, NEW s, NEW g, g = Bin(h, p, s), Good(g, B), NEW r \in Filed(h, p, s)
  PROVE  Keeps(g, B, r)
<1>1. Filed(h, p, s) = IF Small(s) THEN {g}
                       ELSE IF g.checks = 1 THEN ReleaseUnused(g) ELSE {[g EXCEPT !.checks = @ - 1]}
  BY Zenon DEF Filed
<1>2. CASE r = g
  BY <1>2, KeepsSame
<1>3. CASE r \in ReleaseUnused(g)
  BY <1>3, ReleaseUnusedFacts
<1>4. CASE g.checks # 1 /\ r = [g EXCEPT !.checks = @ - 1]
  <2>1. /\ DOMAIN r = Fields /\ r.trim = g.trim /\ r.checks = g.checks - 1
        /\ r.chunk = g.chunk /\ r.top = g.top /\ r.topsize = g.topsize /\ r.seg = g.seg
        /\ r.linked = g.linked /\ r.sys = g.sys /\ r.bins = g.bins /\ r.dv = g.dv /\ r.dvsize = g.dvsize
    BY <1>4 DEF Good, Fields
  <2>2. Counters(r)
    <3>1. g.checks \in Nat \ {0} /\ g.trim \in {TrimThreshold, Never}
      BY DEF Good, Counters
    <3>2. r.checks \in Nat \ {0}
      BY <1>4, <2>1, <3>1
    <3> QED BY <2>1, <3>1, <3>2 DEF Counters
  <2> QED BY <2>1, <2>2, Recounted
<1> QED BY <1>1, <1>2, <1>3, <1>4

(***************************************************************************)
(* A block in a segment is released.                                       *)
(***************************************************************************)

\* A block that is released before such a change is released.
LEMMA FreedKept ==
  ASSUME NEW h, NEW B, NEW p, NEW g, Freed(h, B, p, g), NEW K, K = B \ {p}, NEW r, Keeps(g, K, r)
  PROVE  Freed(h, B, p, r)
  BY FrameTrans DEF Freed, Keeps

\* The free chunks of hp are filed in it, and p is none of them.
LEMMA FreeingFiled ==
  ASSUME NEW h, NEW hp, NEW B, NEW p, NEW s, NEW next, Freeing(h, hp, B, p, s, next),
         NEW V, V = Vacant(hp)
  PROVE  /\ FiledIn(hp.chunk, V, hp) /\ p \notin V /\ V \subseteq DOMAIN hp.chunk /\ None \notin V
         /\ hp.dv # p
         /\ h.bins = hp.bins
         /\ \/ h.dv = hp.dv /\ h.dvsize = hp.dvsize
            \/ h.dv = p /\ hp.dv = None /\ ~hp.chunk[next].cinuse
<1>1. SpecFreeing(h, hp, B, p, s, next)
  BY FreeingFacts
<1>2. /\ Good(hp, B) /\ p \notin Vacant(hp) /\ h.bins = hp.bins /\ p # None
      /\ \/ h.dv = hp.dv /\ h.dvsize = hp.dvsize
         \/ h.dv = p /\ hp.dv = None /\ ~hp.chunk[next].cinuse
  BY <1>1 DEF SpecFreeing
<1>3. FiledIn(hp.chunk, V, hp)
  BY <1>2 DEF Good, Found
<1>4. V \subseteq DOMAIN hp.chunk
  BY DEF Vacant, Regular
<1>5. None \notin V
  BY <1>2, <1>4, ConstantsOK DEF Good, Headers, IsMap
<1>6. hp.dv # p
  BY <1>2, <1>3 DEF FiledIn
<1> QED BY <1>2, <1>3, <1>4, <1>5, <1>6

\* The chunk behind is in use.
LEMMA ForwardUsed ==
  ASSUME NEW h, NEW hp, NEW B, NEW p, NEW s, NEW next, Freeing(h, hp, B, p, s, next),
         hp.chunk[next].cinuse,
         NEW r \in Filed([h EXCEPT !.chunk = SetFree(@, p, s)], p, s)
  PROVE  Freed(hp, B, p, r)
<1> DEFINE C == h.chunk
<1>1. PICK V : V = Vacant(hp)
  OBVIOUS
<1>2. /\ FiledIn(hp.chunk, V, hp) /\ p \notin V /\ V \subseteq DOMAIN hp.chunk
      /\ h.bins = hp.bins /\ h.dv = hp.dv /\ h.dvsize = hp.dvsize
  BY <1>1, FreeingFiled
<1>3. SpecFreeing(h, hp, B, p, s, next)
  BY FreeingFacts
<1>4. /\ IsMap(C) /\ p \in Addresses /\ s \in Sizes /\ next \in DOMAIN C /\ next = p + s
      /\ p \in DOMAIN C /\ p # next /\ p # None /\ DOMAIN h = Fields /\ Counters(h)
      /\ SameSegments(hp, h) /\ DOMAIN C = DOMAIN hp.chunk
      /\ \A x \in DOMAIN C : x # p => C[x] = hp.chunk[x]
  BY <1>3 DEF SpecFreeing
<1>5. PICK D : D = SetFree(C, p, s)
  OBVIOUS
<1>6. SpecFree(C, p, s, next, D)
  BY <1>4, <1>5, SetFreeFacts
<1>7. D[p] = Unused(s) /\ SameChunk(C[next], D[next]) /\ \A x \in DOMAIN C : x # p /\ x # next => D[x] = C[x]
  BY <1>6 DEF SpecFree
<1>8. s = D[p].size
  BY <1>7 DEF Unused
<1>9. \A x \in V : D[x].size = hp.chunk[x].size
  BY <1>2, <1>4, <1>7 DEF SameChunk
<1>10. PICK f : f = [h EXCEPT !.chunk = D]
  OBVIOUS
<1>11. /\ DOMAIN f = Fields /\ f.chunk = D /\ f.top = h.top /\ f.topsize = h.topsize /\ f.seg = h.seg
       /\ f.linked = h.linked /\ f.sys = h.sys /\ f.trim = h.trim /\ f.checks = h.checks
       /\ f.bins = hp.bins /\ f.dv = hp.dv /\ f.dvsize = hp.dvsize
  BY <1>2, <1>4, <1>10 DEF Fields
<1>12. FiledIn(D, V, f)
  BY <1>2, <1>9, <1>11, FiledSame
<1>13. PICK g : g = Bin(f, p, s)
  OBVIOUS
<1>14. PICK T : T = V \union {p}
  OBVIOUS
<1>15. SameMemory(f, g) /\ FiledIn(D, T, g)
  BY <1>2, <1>4, <1>8, <1>11, <1>12, <1>13, <1>14, BinFacts
<1>16. /\ DOMAIN g = Fields /\ Counters(g) /\ SameSegments(hp, g) /\ g.chunk = SetFree(h.chunk, p, s)
       /\ g.top = h.top /\ g.topsize = h.topsize
  BY <1>4, <1>5, <1>11, <1>15 DEF SameMemory, Counters, SameSegments
<1>17. FiledIn(g.chunk, Vacant(hp) \union {p}, g)
  BY <1>1, <1>5, <1>14, <1>15, <1>16
<1>18. Freed(hp, B, p, g)
  BY <1>16, <1>17, FreeBesideUsed DEF Freed
<1>19. PICK K : K = B \ {p}
  OBVIOUS
<1>20. Good(g, K)
  BY <1>18, <1>19 DEF Freed
<1>21. r \in Filed(f, p, s)
  BY <1>5, <1>10
<1>22. Keeps(g, K, r)
  BY <1>13, <1>20, <1>21, FiledFacts
<1> QED BY <1>18, <1>19, <1>22, FreedKept

\* What FreeForward makes of the heap when the top is behind p.
IntoTopOf(h, p, s, next, total) ==
  [(IF p = h.dv THEN NoDv([h EXCEPT !.chunk = Without(@, {next})])
    ELSE [h EXCEPT !.chunk = Without(@, {next})])
     EXCEPT !.top = p, !.topsize = @ + s, !.chunk = Put(@, p, Unused(total))]

SpecIntoTopOf(h, g, p, s, next, total) ==
  /\ DOMAIN g = Fields /\ g.trim = h.trim /\ g.checks = h.checks /\ g.seg = h.seg
  /\ g.linked = h.linked /\ g.sys = h.sys /\ g.bins = h.bins
  /\ g.top = p /\ g.topsize = h.topsize + s
  /\ g.chunk = Put(Without(h.chunk, {next}), p, Unused(total))
  /\ IF p = h.dv THEN g.dv = None /\ g.dvsize = 0 ELSE g.dv = h.dv /\ g.dvsize = h.dvsize

\* What lj_alloc_free changes when the chunk behind is the top.
LEMMA IntoTopOfFacts ==
  ASSUME NEW h, DOMAIN h = Fields, NEW p, NEW s, NEW next, NEW total,
         NEW g, g = IntoTopOf(h, p, s, next, total)
  PROVE  SpecIntoTopOf(h, g, p, s, next, total)
<1>1. PICK m : m = [h EXCEPT !.chunk = Without(@, {next})]
  OBVIOUS
<1>2. PICK k : k = IF p = h.dv THEN NoDv(m) ELSE m
  OBVIOUS
<1>3. g = [k EXCEPT !.top = p, !.topsize = @ + s, !.chunk = Put(@, p, Unused(total))]
  BY <1>1, <1>2 DEF IntoTopOf
<1>4. /\ DOMAIN m = Fields /\ m.trim = h.trim /\ m.checks = h.checks /\ m.seg = h.seg
      /\ m.linked = h.linked /\ m.sys = h.sys /\ m.bins = h.bins /\ m.top = h.top
      /\ m.topsize = h.topsize /\ m.chunk = Without(h.chunk, {next}) /\ m.dv = h.dv /\ m.dvsize = h.dvsize
  BY <1>1 DEF Fields
<1>5. /\ DOMAIN k = Fields /\ k.trim = h.trim /\ k.checks = h.checks /\ k.seg = h.seg
      /\ k.linked = h.linked /\ k.sys = h.sys /\ k.bins = h.bins /\ k.top = h.top
      /\ k.topsize = h.topsize /\ k.chunk = Without(h.chunk, {next})
      /\ IF p = h.dv THEN k.dv = None /\ k.dvsize = 0 ELSE k.dv = h.dv /\ k.dvsize = h.dvsize
  BY <1>2, <1>4 DEF NoDv, Fields
<1> QED BY <1>3, <1>5 DEF SpecIntoTopOf, Fields

TopBehind(h, s, next, total) == next = h.top /\ total = s + h.chunk[next].size

\* The chunk behind is the top.
LEMMA ForwardTop ==
  ASSUME NEW h, NEW hp, NEW B, NEW p, NEW s, NEW next, Freeing(h, hp, B, p, s, next),
         NEW total, TopBehind(h, s, next, total),
         NEW g, g = IntoTopOf(h, p, s, next, total)
  PROVE  Freed(hp, B, p, g)
<1>b. next = h.top /\ total = s + h.chunk[next].size
  BY DEF TopBehind
<1>1. PICK V : V = Vacant(hp)
  OBVIOUS
<1>2. /\ FiledIn(hp.chunk, V, hp) /\ h.bins = hp.bins
      /\ \/ h.dv = hp.dv /\ h.dvsize = hp.dvsize
         \/ h.dv = p /\ hp.dv = None
      /\ hp.dv # p
  BY <1>1, FreeingFiled
<1>3. SpecFreeing(h, hp, B, p, s, next)
  BY FreeingFacts
<1>4. /\ DOMAIN h = Fields /\ Counters(h) /\ SameSegments(hp, h) /\ Good(hp, B)
      /\ h.top = hp.top /\ h.topsize = hp.topsize /\ h.chunk[next] = hp.chunk[next]
      /\ s \in Nat \ {0}
  BY <1>3 DEF SpecFreeing
<1>5. total = s + hp.topsize /\ next = hp.top /\ hp.topsize \in Nat \ {0}
  <2>1. SpecTop(hp, B, hp.top + hp.topsize)
    BY <1>4, TopFacts
  <2>2. hp.chunk[hp.top].size = hp.topsize /\ hp.topsize \in Nat \ {0}
    BY <2>1 DEF SpecTop
  <2> QED BY <1>4, <1>b, <2>2
<1>c. ToTop(hp, s, next, total)
  BY <1>5 DEF ToTop
<1>a. SpecIntoTopOf(h, g, p, s, next, total)
  BY <1>4, IntoTopOfFacts
<1>6. /\ DOMAIN g = Fields /\ g.trim = h.trim /\ g.checks = h.checks /\ g.seg = h.seg
      /\ g.linked = h.linked /\ g.sys = h.sys /\ g.bins = h.bins
      /\ g.top = p /\ g.topsize = h.topsize + s
      /\ g.chunk = Put(Without(h.chunk, {next}), p, Unused(total))
      /\ IF p = h.dv THEN g.dv = None /\ g.dvsize = 0 ELSE g.dv = h.dv /\ g.dvsize = h.dvsize
  BY <1>a DEF SpecIntoTopOf
<1>7. g.topsize = total
  BY <1>4, <1>5, <1>6
<1>8. Counters(g) /\ SameSegments(hp, g)
  BY <1>4, <1>6 DEF Counters, SameSegments
<1>9. FiledIn(hp.chunk, V, g)
  <2>1. CASE h.dv = hp.dv /\ h.dvsize = hp.dvsize
    <3>1. g.bins = hp.bins /\ g.dv = hp.dv /\ g.dvsize = hp.dvsize
      BY <1>2, <1>6, <2>1
    <3> QED BY <1>2, <3>1 DEF FiledIn
  <2>2. CASE h.dv = p /\ hp.dv = None
    <3>1. hp.dvsize = 0
      BY <1>2, <2>2 DEF FiledIn
    <3>2. g.bins = hp.bins /\ g.dv = hp.dv /\ g.dvsize = hp.dvsize
      BY <1>2, <1>6, <2>2, <3>1
    <3> QED BY <1>2, <3>2 DEF FiledIn
  <2> QED BY <1>2, <2>1, <2>2
<1>10. FiledIn(hp.chunk, Vacant(hp), g)
  BY <1>1, <1>9
<1>11. /\ DOMAIN g = Fields /\ g.top = p /\ g.topsize = total
       /\ g.chunk = Put(Without(h.chunk, {next}), p, Unused(total))
  BY <1>6, <1>7
<1>12. Good(g, B \ {p}) /\ Frame(hp, g, B \ {p})
  BY <1>c, <1>8, <1>10, <1>11, FreeBesideTop, ZenonT(40)
<1> QED BY <1>12 DEF Freed

\* The chunk behind p is free, and is merged with p.
Behind(hp, s, next, total) == next \in Vacant(hp) /\ total = s + hp.chunk[next].size

JoinedSizes(hp, D, p, next, total) ==
  D[p].size = total /\ \A x \in Vacant(hp) \ {next} : D[x].size = hp.chunk[x].size

\* The sizes after the free chunk behind was merged.
LEMMA ForwardChunks ==
  ASSUME NEW h, NEW hp, NEW B, NEW p, NEW s, NEW next, Freeing(h, hp, B, p, s, next),
         NEW total, Behind(hp, s, next, total),
         NEW D, D = SetUnused(Without(h.chunk, {next}), p, total)
  PROVE  JoinedSizes(hp, D, p, next, total)
<1> DEFINE C == h.chunk
<1>0. next \in Vacant(hp) /\ total = s + hp.chunk[next].size
  BY DEF Behind
<1>a. SpecFreeing(h, hp, B, p, s, next)
  BY FreeingFacts
<1>1. /\ p \in B /\ p \notin Vacant(hp) /\ p \in Int /\ p \in Addresses /\ s \in Nat \ {0}
      /\ p < next /\ next \in DOMAIN C /\ next \in Int
      /\ next = p + s /\ IsMap(C) /\ p \in DOMAIN C /\ p # next /\ DOMAIN C = DOMAIN hp.chunk
      /\ \A x \in DOMAIN C : x # p => C[x] = hp.chunk[x]
      /\ Good(hp, B)
  BY <1>a DEF SpecFreeing
<1>2. PICK b : b = End(hp.chunk, next)
  OBVIOUS
<1>b. SpecVacant(hp, B, next, b)
  BY <1>0, <1>1, <1>2, VacantSpec
<1>3. /\ hp.chunk[next].size \in Nat \ {0} /\ b = next + hp.chunk[next].size
      /\ next < b /\ b \in Int /\ b \in Addresses /\ b \in DOMAIN C
  BY <1>1, <1>b DEF SpecVacant
<1>4. /\ total \in Nat \ {0} /\ total \in Sizes /\ b = p + total /\ p # b /\ next # b
  BY <1>0, <1>1, <1>3, ConstantsOK DEF Addresses, Sizes
<1>8. PICK E : E = Without(C, {next})
  OBVIOUS
<1>c. SpecWithout(C, {next}, E)
  BY <1>1, <1>8, WithoutSpec
<1>9. IsMap(E) /\ DOMAIN E = DOMAIN C \ {next} /\ \A x \in DOMAIN C \ {next} : E[x] = C[x]
  BY <1>c DEF SpecWithout
<1>10. SpecUnused(E, p, total, b, D)
  <2>1. b \in DOMAIN E
    BY <1>3, <1>4, <1>9
  <2> QED BY <1>1, <1>4, <1>8, <1>9, <2>1, SetUnusedFacts
<1>11. /\ D[p] = Unused(total) /\ D[b].size = C[b].size
       /\ \A x \in DOMAIN E : x # p /\ x # b => D[x] = C[x]
  <2>1. E[b] = C[b] /\ \A x \in DOMAIN E : E[x] = C[x]
    BY <1>3, <1>4, <1>9
  <2> QED BY <1>10, <2>1 DEF SpecUnused, SameChunk
<1>12. D[p].size = total
  BY <1>11 DEF Unused
<1>13. ASSUME NEW x \in Vacant(hp) \ {next} PROVE D[x].size = hp.chunk[x].size
  <2>1. x \in DOMAIN C /\ x # p
    BY <1>1 DEF Vacant, Regular
  <2>2. x \in DOMAIN E /\ C[x] = hp.chunk[x]
    BY <1>1, <1>9, <2>1
  <2> QED BY <1>11, <2>1, <2>2
<1> QED BY <1>12, <1>13 DEF JoinedSizes

\* What FreeForward makes of the heap when the designated victim is behind p.
IntoVictimOf(h, p, next, total) ==
  [[h EXCEPT !.chunk = Without(@, {next})] EXCEPT !.dv = p, !.dvsize = total,
                                                  !.chunk = SetUnused(@, p, total)]

SpecJoinedTo(h, g, p, next, total) ==
  /\ DOMAIN g = Fields /\ g.trim = h.trim /\ g.checks = h.checks /\ g.seg = h.seg
  /\ g.linked = h.linked /\ g.sys = h.sys /\ g.top = h.top /\ g.topsize = h.topsize
  /\ g.chunk = SetUnused(Without(h.chunk, {next}), p, total)

\* The chunk behind is free, and the two are filed as one.
LEMMA JoinedToFacts ==
  ASSUME NEW h, NEW hp, NEW B, NEW p, NEW s, NEW next, Freeing(h, hp, B, p, s, next),
         NEW total, Behind(hp, s, next, total),
         NEW g, SpecJoinedTo(h, g, p, next, total),
         FiledIn(g.chunk, (Vacant(hp) \ {next}) \union {p}, g)
  PROVE  Freed(hp, B, p, g)
<1>1. SpecFreeing(h, hp, B, p, s, next)
  BY FreeingFacts
<1>2. DOMAIN h = Fields /\ Counters(h) /\ SameSegments(hp, h)
  BY <1>1 DEF SpecFreeing
<1>3. /\ DOMAIN g = Fields /\ g.trim = h.trim /\ g.checks = h.checks /\ g.seg = h.seg
      /\ g.linked = h.linked /\ g.sys = h.sys /\ g.top = h.top /\ g.topsize = h.topsize
      /\ g.chunk = SetUnused(Without(h.chunk, {next}), p, total)
  BY DEF SpecJoinedTo
<1>4. Counters(g) /\ SameSegments(hp, g)
  BY <1>2, <1>3 DEF Counters, SameSegments
<1>5. next \in Vacant(hp) /\ total = s + hp.chunk[next].size
  BY DEF Behind
<1>6. Good(g, B \ {p}) /\ Frame(hp, g, B \ {p})
  BY <1>3, <1>4, <1>5, FreeBesideFree
<1> QED BY <1>6 DEF Freed

\* The chunk behind is the designated victim.
LEMMA ForwardVictim ==
  ASSUME NEW h, NEW hp, NEW B, NEW p, NEW s, NEW next, Freeing(h, hp, B, p, s, next),
         NEW total, Behind(hp, s, next, total), hp.dv = next,
         NEW g, g = IntoVictimOf(h, p, next, total)
  PROVE  Freed(hp, B, p, g)
<1>1. PICK V : V = Vacant(hp)
  OBVIOUS
<1>2. /\ FiledIn(hp.chunk, V, hp) /\ h.bins = hp.bins /\ p \notin V /\ None \notin V
  BY <1>1, FreeingFiled
<1>3. SpecFreeing(h, hp, B, p, s, next)
  BY FreeingFacts
<1>4. DOMAIN h = Fields /\ p # None /\ Good(hp, B)
  BY <1>3 DEF SpecFreeing
<1>5. PICK D : D = SetUnused(Without(h.chunk, {next}), p, total)
  OBVIOUS
<1>6. /\ SpecJoinedTo(h, g, p, next, total) /\ g.chunk = D
      /\ g.bins = h.bins /\ g.dv = p /\ g.dvsize = total
  <2>1. PICK m : m = [h EXCEPT !.chunk = Without(@, {next})]
    OBVIOUS
  <2>2. /\ DOMAIN m = Fields /\ m.trim = h.trim /\ m.checks = h.checks /\ m.seg = h.seg
        /\ m.linked = h.linked /\ m.sys = h.sys /\ m.bins = h.bins /\ m.top = h.top
        /\ m.topsize = h.topsize /\ m.chunk = Without(h.chunk, {next})
    BY <1>4, <2>1 DEF Fields
  <2>3. g = [m EXCEPT !.dv = p, !.dvsize = total, !.chunk = SetUnused(@, p, total)]
    BY <2>1 DEF IntoVictimOf
  <2> QED BY <1>5, <2>2, <2>3 DEF SpecJoinedTo, Fields
<1>7. JoinedSizes(hp, D, p, next, total)
  BY <1>5, ForwardChunks
<1>8. PICK W : W = V \ {next}
  OBVIOUS
<1>9. D[p].size = total /\ \A x \in W : D[x].size = hp.chunk[x].size
  BY <1>1, <1>7, <1>8 DEF JoinedSizes
<1>10. PICK k : k = NoDv(hp)
  OBVIOUS
<1>11. SameMemory(hp, k) /\ k.dv = None /\ FiledIn(hp.chunk, W, k)
  <2>1. DOMAIN hp = Fields /\ W = V \ {hp.dv}
    BY <1>4, <1>8 DEF Good
  <2> QED BY <1>2, <1>10, <2>1, NoDvFacts
<1>12. k.bins = hp.bins /\ DOMAIN k = Fields
  BY <1>4, <1>10 DEF NoDv, Good, Fields
<1>13. FiledIn(D, W, k)
  BY <1>9, <1>11 DEF FiledIn
<1>14. PICK T : T = W \union {p}
  OBVIOUS
<1>15. FiledIn(D, T, g)
  <2>1. p \notin W /\ None \notin W
    BY <1>2, <1>8
  <2>2. g.bins = k.bins /\ g.dv = p /\ g.dvsize = D[p].size
    BY <1>2, <1>6, <1>9, <1>12
  <2> QED BY <1>4, <1>11, <1>12, <1>13, <1>14, <2>1, <2>2, SetDvFacts
<1>16. T = (Vacant(hp) \ {next}) \union {p}
  BY <1>1, <1>8, <1>14
<1>17. FiledIn(g.chunk, (Vacant(hp) \ {next}) \union {p}, g)
  BY <1>6, <1>15, <1>16
<1> QED BY <1>6, <1>17, JoinedToFacts

\* What FreeForward makes of the heap when a chunk of a bin is behind p.
WithNext(h, p, next, nsize, total) ==
  [Unbin([h EXCEPT !.chunk = Without(@, {next})], next, nsize)
     EXCEPT !.chunk = SetUnused(@, p, total)]

\* What lj_alloc_free changes when the chunk behind is in a bin.
LEMMA WithNextFacts ==
  ASSUME NEW h, DOMAIN h = Fields, NEW p, NEW next, NEW nsize, NEW total,
         NEW g, g = WithNext(h, p, next, nsize, total)
  PROVE  /\ SpecJoinedTo(h, g, p, next, total)
         /\ g.bins = h.bins \ {<<next, nsize>>} /\ g.dv = h.dv /\ g.dvsize = h.dvsize
<1>1. PICK m : m = [h EXCEPT !.chunk = Without(@, {next})]
  OBVIOUS
<1>2. /\ DOMAIN m = Fields /\ m.trim = h.trim /\ m.checks = h.checks /\ m.seg = h.seg
      /\ m.linked = h.linked /\ m.sys = h.sys /\ m.bins = h.bins /\ m.top = h.top
      /\ m.topsize = h.topsize /\ m.chunk = Without(h.chunk, {next}) /\ m.dv = h.dv
      /\ m.dvsize = h.dvsize
  BY <1>1 DEF Fields
<1>3. PICK k : k = Unbin(m, next, nsize)
  OBVIOUS
<1>4. /\ DOMAIN k = Fields /\ k.trim = h.trim /\ k.checks = h.checks /\ k.seg = h.seg
      /\ k.linked = h.linked /\ k.sys = h.sys /\ k.bins = h.bins \ {<<next, nsize>>} /\ k.top = h.top
      /\ k.topsize = h.topsize /\ k.chunk = Without(h.chunk, {next}) /\ k.dv = h.dv
      /\ k.dvsize = h.dvsize
  BY <1>2, <1>3 DEF Unbin, Fields
<1>5. g = [k EXCEPT !.chunk = SetUnused(@, p, total)]
  BY <1>1, <1>3 DEF WithNext
<1> QED BY <1>4, <1>5 DEF SpecJoinedTo, Fields

ForwardBinAt(h, p, next, nsize, total) ==
  IF p = h.dv THEN {[WithNext(h, p, next, nsize, total) EXCEPT !.dvsize = total]}
  ELSE Filed(WithNext(h, p, next, nsize, total), p, total)

\* The chunk behind is in a bin.
LEMMA ForwardBin ==
  ASSUME NEW h, NEW hp, NEW B, NEW p, NEW s, NEW next, Freeing(h, hp, B, p, s, next),
         NEW total, Behind(hp, s, next, total), hp.dv # next,
         NEW nsize, nsize = hp.chunk[next].size,
         NEW r \in ForwardBinAt(h, p, next, nsize, total)
  PROVE  Freed(hp, B, p, r)
<1>0. next \in Vacant(hp)
  BY DEF Behind
<1>1. PICK V : V = Vacant(hp)
  OBVIOUS
<1>2. /\ FiledIn(hp.chunk, V, hp) /\ h.bins = hp.bins /\ p \notin V /\ None \notin V /\ hp.dv # p
      /\ \/ h.dv = hp.dv /\ h.dvsize = hp.dvsize
         \/ h.dv = p /\ hp.dv = None
  BY <1>1, FreeingFiled
<1>3. SpecFreeing(h, hp, B, p, s, next)
  BY FreeingFacts
<1>4. DOMAIN h = Fields /\ p # None /\ Good(hp, B) /\ DOMAIN hp = Fields
  BY <1>3 DEF SpecFreeing, Good
<1>5. PICK D : D = SetUnused(Without(h.chunk, {next}), p, total)
  OBVIOUS
<1>6. PICK f : f = WithNext(h, p, next, nsize, total)
  OBVIOUS
<1>7. /\ SpecJoinedTo(h, f, p, next, total)
      /\ f.bins = h.bins \ {<<next, nsize>>} /\ f.dv = h.dv /\ f.dvsize = h.dvsize
  BY <1>4, <1>6, WithNextFacts
<1>8. f.chunk = D /\ DOMAIN f = Fields
  BY <1>5, <1>7 DEF SpecJoinedTo
<1>9. JoinedSizes(hp, D, p, next, total)
  BY <1>5, ForwardChunks
<1>10. PICK W : W = V \ {next}
  OBVIOUS
<1>11. D[p].size = total /\ \A x \in W : D[x].size = hp.chunk[x].size
  BY <1>1, <1>9, <1>10 DEF JoinedSizes
<1>12. PICK k : k = Unbin(hp, next, nsize)
  OBVIOUS
<1>13. FiledIn(hp.chunk, W, k) /\ k.dv = hp.dv
  <2>1. DOMAIN hp = Fields /\ FiledIn(hp.chunk, V, hp) /\ next \in V /\ next # hp.dv
    BY <1>0, <1>1, <1>2, <1>4
  <2>2. nsize = hp.chunk[next].size
    OBVIOUS
  <2>3. W = V \ {next} /\ k = Unbin(hp, next, nsize)
    BY <1>10, <1>12
  <2> QED BY <2>1, <2>2, <2>3, UnbinFacts
<1>14. k.bins = f.bins /\ k.dvsize = hp.dvsize /\ DOMAIN k = Fields
  BY <1>2, <1>4, <1>7, <1>12 DEF Unbin, Fields
<1>15. FiledIn(D, W, k)
  BY <1>11, <1>13 DEF FiledIn
<1>16. PICK T : T = W \union {p}
  OBVIOUS
<1>17. T = (Vacant(hp) \ {next}) \union {p} /\ p \notin W /\ None \notin W
  BY <1>1, <1>2, <1>10, <1>16
<1>18. CASE p = h.dv
  <2>1. r = [f EXCEPT !.dvsize = total]
    BY <1>6, <1>18 DEF ForwardBinAt
  <2>2. SpecJoinedTo(h, r, p, next, total) /\ r.chunk = D
        /\ r.bins = f.bins /\ r.dv = p /\ r.dvsize = total
    BY <1>7, <1>8, <1>18, <2>1 DEF SpecJoinedTo, Fields
  <2>3. k.dv = None
    BY <1>2, <1>13, <1>18
  <2>4. FiledIn(D, T, r)
    BY <1>4, <1>11, <1>14, <1>15, <1>16, <1>17, <2>2, <2>3, SetDvFacts
  <2>5. FiledIn(r.chunk, (Vacant(hp) \ {next}) \union {p}, r)
    BY <1>17, <2>2, <2>4
  <2> QED BY <2>2, <2>5, JoinedToFacts
<1>19. CASE p # h.dv
  <2>1. r \in Filed(f, p, total)
    BY <1>6, <1>19 DEF ForwardBinAt
  <2>2. f.dv = hp.dv /\ f.dvsize = hp.dvsize
    BY <1>2, <1>7, <1>19
  <2>3. FiledIn(D, W, f)
    BY <1>13, <1>14, <1>15, <2>2 DEF FiledIn
  <2>4. PICK g : g = Bin(f, p, total)
    OBVIOUS
  <2>5. total = D[p].size
    BY <1>11
  <2>6. SameMemory(f, g) /\ FiledIn(D, T, g)
    BY <1>4, <1>8, <1>16, <1>17, <2>3, <2>4, <2>5, BinFacts
  <2>7. SpecJoinedTo(h, g, p, next, total) /\ g.chunk = D
    BY <1>7, <1>8, <2>6 DEF SpecJoinedTo, SameMemory
  <2>8. FiledIn(g.chunk, (Vacant(hp) \ {next}) \union {p}, g)
    BY <1>17, <2>6, <2>7
  <2>9. Freed(hp, B, p, g)
    BY <2>7, <2>8, JoinedToFacts
  <2>10. PICK K : K = B \ {p}
    OBVIOUS
  <2>11. Good(g, K)
    BY <2>9, <2>10 DEF Freed
  <2>12. Keeps(g, K, r)
    BY <2>1, <2>4, <2>11, FiledFacts
  <2> QED BY <2>9, <2>10, <2>12, FreedKept
<1> QED BY <1>18, <1>19

ForwardAt(h, p, s, next, nsize, total) ==
  CASE h.chunk[next].cinuse -> Filed([h EXCEPT !.chunk = SetFree(@, p, s)], p, s)
    [] next = h.top -> IF total > h.trim THEN Trim(IntoTopOf(h, p, s, next, total))
                       ELSE {IntoTopOf(h, p, s, next, total)}
    [] next = h.dv -> {IntoVictimOf(h, p, next, total)}
    [] ~h.chunk[next].cinuse /\ next \notin {h.top, h.dv} -> ForwardBinAt(h, p, next, nsize, total)

\* FreeForward with the values of its local definitions.
LEMMA ForwardDef ==
  ASSUME NEW h, NEW p, NEW s, NEW next, next = p + s, NEW nsize, nsize = h.chunk[next].size,
         NEW total, total = s + nsize
  PROVE  FreeForward(h, p, s) = ForwardAt(h, p, s, next, nsize, total)
<1>1. FreeForward(h, p, s) = ForwardAt(h, p, s, p + s, h.chunk[p + s].size, s + h.chunk[p + s].size)
  BY Zenon DEF FreeForward, ForwardAt, IntoTopOf, IntoVictimOf, ForwardBinAt, WithNext
<1> QED BY <1>1

\* The four cases of the merging with the chunk behind.
LEMMA ForwardCases ==
  ASSUME NEW h, NEW p, NEW s, NEW next, NEW nsize, NEW total,
         h.top # h.dv, h.chunk[next].cinuse => next # h.top /\ next # h.dv,
         NEW r \in ForwardAt(h, p, s, next, nsize, total)
  PROVE  \/ h.chunk[next].cinuse /\ r \in Filed([h EXCEPT !.chunk = SetFree(@, p, s)], p, s)
         \/ next = h.top /\ (\/ r \in Trim(IntoTopOf(h, p, s, next, total))
                             \/ r = IntoTopOf(h, p, s, next, total))
         \/ next = h.dv /\ r = IntoVictimOf(h, p, next, total)
         \/ /\ ~h.chunk[next].cinuse /\ next # h.top /\ next # h.dv
            /\ r \in ForwardBinAt(h, p, next, nsize, total)
<1>1. CASE h.chunk[next].cinuse
  BY <1>1 DEF ForwardAt
<1>2. CASE ~h.chunk[next].cinuse /\ next = h.top
  BY <1>2 DEF ForwardAt
<1>3. CASE ~h.chunk[next].cinuse /\ next = h.dv
  BY <1>3 DEF ForwardAt
<1>4. CASE ~h.chunk[next].cinuse /\ next # h.top /\ next # h.dv
  BY <1>4 DEF ForwardAt
<1> QED BY <1>1, <1>2, <1>3, <1>4

\* The release of p, from the merging with the chunk behind on.
LEMMA ForwardFacts ==
  ASSUME NEW h, NEW hp, NEW B, NEW p, NEW s, NEW next, Freeing(h, hp, B, p, s, next),
         NEW r \in FreeForward(h, p, s)
  PROVE  Freed(hp, B, p, r)
<1>1. SpecFreeing(h, hp, B, p, s, next)
  BY FreeingFacts
<1>2. /\ p \in B /\ p \in Regular(hp.chunk) /\ hp.top # p /\ p \in Int /\ s \in Nat \ {0}
      /\ next \in Regular(hp.chunk) /\ next = p + s /\ h.chunk[next] = hp.chunk[next]
      /\ p # None /\ p # next /\ DOMAIN h = Fields /\ h.top = hp.top /\ h.topsize = hp.topsize
      /\ Good(hp, B)
      /\ \/ h.dv = hp.dv /\ h.dvsize = hp.dvsize
         \/ h.dv = p /\ hp.dv = None /\ ~hp.chunk[next].cinuse
  BY <1>1 DEF SpecFreeing
<1>3. /\ hp.top # hp.dv /\ hp.top # None
      /\ hp.dv = None \/ (hp.dv \in Vacant(hp) /\ hp.dvsize = hp.chunk[hp.dv].size)
  BY <1>2, TopNotDv
<1>4. PICK foot : foot = hp.top + hp.topsize
  OBVIOUS
<1>5. SpecTop(hp, B, foot)
  BY <1>2, <1>4, TopFacts
<1>6. /\ ~hp.chunk[hp.top].cinuse /\ foot = End(hp.chunk, hp.top) /\ hp.top \in Regular(hp.chunk)
  BY <1>5 DEF SpecTop
<1>7. hp.chunk[next].cinuse => next # hp.top /\ next # hp.dv
  <2>1. None \notin Regular(hp.chunk)
    BY <1>2, ConstantsOK DEF Good, Headers, IsMap, Regular
  <2>2. \A x \in Vacant(hp) : ~hp.chunk[x].cinuse
    BY DEF Vacant
  <2> QED BY <1>2, <1>3, <1>6, <2>1, <2>2
<1>8. ASSUME ~hp.chunk[next].cinuse, next # hp.top PROVE next \in Vacant(hp)
  <2>1. next = End(hp.chunk, p)
    BY DEF Freeing
  <2>2. next # foot
    <3> SUFFICES ASSUME next = foot PROVE FALSE
      OBVIOUS
    <3>1. End(hp.chunk, p) = End(hp.chunk, hp.top)
      BY <1>6, <2>1
    <3> QED BY <1>2, <1>6, <3>1, EndInjective
  <2> QED BY <1>2, <1>4, <1>8, <2>2 DEF Vacant
<1>9. h.top # h.dv
  BY <1>2, <1>3
<1>10. h.chunk[next].cinuse => next # h.top /\ next # h.dv
  BY <1>2, <1>7
<1>11. PICK nsize : nsize = h.chunk[next].size
  OBVIOUS
<1>12. PICK total : total = s + nsize
  OBVIOUS
<1>13. r \in ForwardAt(h, p, s, next, nsize, total)
  BY <1>2, <1>11, <1>12, ForwardDef
<1>14. CASE h.chunk[next].cinuse /\ r \in Filed([h EXCEPT !.chunk = SetFree(@, p, s)], p, s)
  BY <1>2, <1>14, ForwardUsed
<1>15. CASE next = h.top /\ (r \in Trim(IntoTopOf(h, p, s, next, total))
                             \/ r = IntoTopOf(h, p, s, next, total))
  <2>1. PICK g : g = IntoTopOf(h, p, s, next, total)
    OBVIOUS
  <2>2. TopBehind(h, s, next, total)
    BY <1>11, <1>12, <1>15 DEF TopBehind
  <2>3. Freed(hp, B, p, g)
    BY <2>1, <2>2, ForwardTop
  <2>4. PICK K : K = B \ {p}
    OBVIOUS
  <2>5. Good(g, K)
    BY <2>3, <2>4 DEF Freed
  <2>6. ASSUME r \in Trim(g) PROVE Freed(hp, B, p, r)
    <3>1. Keeps(g, K, r)
      BY <2>5, <2>6, TrimFacts
    <3> QED BY <2>3, <2>4, <3>1, FreedKept
  <2> QED BY <1>15, <2>1, <2>3, <2>6
<1>16. CASE next # h.top /\ next = h.dv /\ r = IntoVictimOf(h, p, next, total)
  <2>1. ~hp.chunk[next].cinuse /\ hp.dv = next
    BY <1>2, <1>7, <1>16
  <2>2. next \in Vacant(hp)
    BY <1>2, <1>8, <1>16, <2>1
  <2>3. Behind(hp, s, next, total)
    BY <1>2, <1>11, <1>12, <2>2 DEF Behind
  <2> QED BY <1>16, <2>1, <2>3, ForwardVictim
<1>17. CASE /\ ~h.chunk[next].cinuse /\ next # h.top /\ next # h.dv
            /\ r \in ForwardBinAt(h, p, next, nsize, total)
  <2>1. next \in Vacant(hp)
    BY <1>2, <1>8, <1>17
  <2>2. Behind(hp, s, next, total)
    BY <1>2, <1>11, <1>12, <2>1 DEF Behind
  <2>3. nsize = hp.chunk[next].size
    BY <1>2, <1>11
  <2>4. hp.dv # next
    <3>1. None \notin Regular(hp.chunk)
      BY <1>2, ConstantsOK DEF Good, Headers, IsMap, Regular
    <3> QED BY <1>2, <1>17, <3>1
  <2> QED BY <1>17, <2>2, <2>3, <2>4, ForwardBin
<1>18. \/ h.chunk[next].cinuse /\ r \in Filed([h EXCEPT !.chunk = SetFree(@, p, s)], p, s)
       \/ next = h.top /\ (\/ r \in Trim(IntoTopOf(h, p, s, next, total))
                           \/ r = IntoTopOf(h, p, s, next, total))
       \/ next = h.dv /\ r = IntoVictimOf(h, p, next, total)
       \/ /\ ~h.chunk[next].cinuse /\ next # h.top /\ next # h.dv
          /\ r \in ForwardBinAt(h, p, next, nsize, total)
  BY <1>9, <1>10, <1>13, ForwardCases
<1>19. next = h.dv => next # h.top
  BY <1>9
<1> QED BY <1>14, <1>15, <1>16, <1>17, <1>18, <1>19

\* The chunk before p is in use.
LEMMA FreeFront ==
  ASSUME NEW h, NEW B, Good(h, B), NEW p \in B, p \in Regular(h.chunk), h.chunk[p].pinuse,
         NEW s, s = h.chunk[p].size, NEW r \in FreeForward(h, p, s)
  PROVE  Freed(h, B, p, r)
<1>1. PICK next : next = End(h.chunk, p)
  OBVIOUS
<1>2. DOMAIN h = Fields /\ IsMap(h.chunk)
  BY DEF Good, Headers
<1>3. Pending(h, h, p, next)
  BY <1>2 DEF Pending, SameSegments
<1>4. Freeing(h, h, B, p, s, next)
  BY <1>1, <1>3 DEF Freeing
<1> QED BY <1>4, ForwardFacts

\* The chunk prev before p is free: hp is the heap with both as one used chunk.
MergedWith(k, C, p, prev, total) == [k EXCEPT !.chunk = Put(Without(C, {p}), prev, Used(total))]

\* PINUSE and prev_foot of p lead to the free chunk before it.
LEMMA BackwardFacts ==
  ASSUME NEW h, NEW B, NEW p, NEW prev, NEW total, Backward(h, B, p, prev, total)
  PROVE  prev \in Vacant(h) /\ h.chunk[prev].size = h.chunk[p].foot
<1>1. Good(h, B) /\ p \in B /\ p \in Regular(h.chunk) /\ ~h.chunk[p].pinuse
      /\ prev = p - h.chunk[p].foot
  BY DEF Backward
<1>2. p # h.top + h.topsize
  <2>1. h.chunk[p].cinuse
    BY <1>1, BlockFacts DEF Regular
  <2> QED BY <1>1, <2>1 DEF Good, TopLast
<1> QED BY <1>1, <1>2 DEF Good, Tags

\* The heap hp in which the two are one block, and the heap f that lj_alloc_free
\* goes on with.
LEMMA BackwardSpec ==
  ASSUME NEW h, NEW B, NEW p, NEW prev, NEW total, Backward(h, B, p, prev, total),
         NEW k, SameMemory(h, k), FiledIn(h.chunk, Vacant(h) \ {prev}, k),
         NEW hp, hp = MergedWith(k, h.chunk, p, prev, total),
         NEW f, SameMemory([h EXCEPT !.chunk = Without(@, {p})], f), f.bins = k.bins,
         NEW B2, B2 = (B \ {p}) \union {prev}, NEW next, next = End(h.chunk, p)
  PROVE  SpecBackward(h, hp, f, B, p, prev, total, B2, next)
<1> DEFINE C == h.chunk
<1>1. /\ Good(h, B) /\ p \in B /\ p \in Regular(C) /\ ~C[p].pinuse
      /\ prev = p - C[p].foot /\ total = C[p].size + C[p].foot
  BY DEF Backward
<1>2. DOMAIN h = Fields /\ Counters(h)
  BY <1>1 DEF Good
<1>3. /\ DOMAIN hp = Fields /\ hp.chunk = Put(Without(C, {p}), prev, Used(total))
      /\ hp.top = h.top /\ hp.topsize = h.topsize /\ hp.seg = h.seg /\ hp.linked = h.linked
      /\ hp.sys = h.sys /\ hp.trim = h.trim /\ hp.checks = h.checks /\ hp.bins = k.bins
      /\ hp.dv = k.dv /\ hp.dvsize = k.dvsize
  BY DEF MergedWith, SameMemory, Fields
<1>4. Counters(hp) /\ SameSegments(h, hp)
  BY <1>2, <1>3 DEF Counters, SameSegments
<1>5. FiledIn(C, Vacant(h) \ {prev}, hp)
  BY <1>3 DEF FiledIn
<1>6. Merging(h, hp, B, p, prev, total)
  BY <1>1, <1>3, <1>4, <1>5 DEF Merging
<1>7. Merged(h, hp, B, p, prev, total) /\ SpecMerging(h, hp, B, p, prev, total, next)
  BY <1>6, MergeBack, MergingFacts
<1>8. /\ prev \notin B /\ Good(hp, B2)
      /\ prev \in Regular(hp.chunk) /\ hp.chunk[prev].pinuse /\ hp.chunk[prev].size = total
      /\ End(hp.chunk, prev) = next
  BY <1>7 DEF Merged
<1>9. /\ p \in DOMAIN C /\ next \in DOMAIN C /\ next # p /\ next # prev /\ prev # p /\ prev \in Int
      /\ prev \in DOMAIN C /\ IsMap(C)
  BY <1>7 DEF SpecMerging
<1>10. PICK m : m = [h EXCEPT !.chunk = Without(@, {p})]
  OBVIOUS
<1>11. /\ m.chunk = Without(C, {p}) /\ m.top = h.top /\ m.topsize = h.topsize /\ m.seg = h.seg
       /\ m.linked = h.linked /\ m.sys = h.sys /\ m.trim = h.trim /\ m.checks = h.checks
  BY <1>2, <1>10 DEF Fields
<1>12. /\ DOMAIN f = Fields /\ f.chunk = Without(C, {p}) /\ f.top = h.top /\ f.topsize = h.topsize
       /\ f.seg = h.seg /\ f.linked = h.linked /\ f.sys = h.sys /\ f.trim = h.trim
       /\ f.checks = h.checks
  BY <1>10, <1>11 DEF SameMemory
<1>13. PICK E : E = Without(C, {p})
  OBVIOUS
<1>14. IsMap(E) /\ DOMAIN E = DOMAIN C \ {p} /\ \A x \in DOMAIN C \ {p} : E[x] = C[x]
  <2>1. SpecWithout(C, {p}, E)
    BY <1>9, <1>13, WithoutSpec
  <2> QED BY <2>1 DEF SpecWithout
<1>15. /\ DOMAIN hp.chunk = DOMAIN E
       /\ \A x \in DOMAIN E : x # prev => hp.chunk[x] = E[x]
  BY <1>3, <1>9, <1>13, <1>14 DEF Put
<1>16. next \in DOMAIN hp.chunk /\ h.chunk[next] = hp.chunk[next]
  BY <1>9, <1>14, <1>15
<1>17. SameSegments(hp, f)
  BY <1>3, <1>12 DEF SameSegments
<1>18. B2 \ {prev} = B \ {p} /\ prev \in B2
  BY <1>8
<1>19. /\ IsMap(f.chunk) /\ DOMAIN f.chunk = DOMAIN hp.chunk
       /\ \A x \in DOMAIN hp.chunk : x # prev => f.chunk[x] = hp.chunk[x]
  BY <1>12, <1>13, <1>14, <1>15
<1>20. /\ DOMAIN f = Fields /\ f.top = hp.top /\ f.topsize = hp.topsize
       /\ f.trim = hp.trim /\ f.checks = hp.checks /\ f.bins = hp.bins
  BY <1>3, <1>12
<1> QED BY <1>7, <1>8, <1>9, <1>16, <1>17, <1>18, <1>19, <1>20 DEF SpecBackward

\* The block of hp is released where p is in h.
LEMMA BackFreed ==
  ASSUME NEW h, NEW hp, NEW f, NEW B, NEW p, NEW prev, NEW total, NEW B2, NEW next,
         SpecBackward(h, hp, f, B, p, prev, total, B2, next),
         NEW r, Freed(hp, B2, prev, r)
  PROVE  Freed(h, B, p, r)
<1>1. PICK K : K = B \ {p}
  OBVIOUS
<1>2. B2 \ {prev} = K /\ Frame(h, hp, K)
  BY <1>1 DEF SpecBackward, Merged
<1>3. Good(r, K) /\ Frame(hp, r, K)
  BY <1>2 DEF Freed
<1>4. Frame(h, r, K)
  BY <1>2, <1>3, FrameTrans
<1> QED BY <1>1, <1>3, <1>4 DEF Freed

\* f is the heap FreeForward is given.
LEMMA BackFreeing ==
  ASSUME NEW h, NEW hp, NEW f, NEW B, NEW p, NEW prev, NEW total, NEW B2, NEW next,
         SpecBackward(h, hp, f, B, p, prev, total, B2, next),
         \/ f.dv = hp.dv /\ f.dvsize = hp.dvsize
         \/ f.dv = prev /\ hp.dv = None /\ ~h.chunk[next].cinuse
  PROVE  Freeing(f, hp, B2, prev, total, next)
<1>1. Pending(f, hp, prev, next)
  BY DEF SpecBackward, Pending
<1> QED BY <1>1 DEF SpecBackward, Freeing

\* prev is in a bin.
LEMMA FreeBackBin ==
  ASSUME NEW h, NEW B, NEW p, NEW prev, NEW total, Backward(h, B, p, prev, total), prev # h.dv,
         NEW s, s = h.chunk[p].foot,
         NEW f, f = Unbin([h EXCEPT !.chunk = Without(@, {p})], prev, s),
         NEW r \in FreeForward(f, prev, total)
  PROVE  Freed(h, B, p, r)
<1>1. prev \in Vacant(h) /\ h.chunk[prev].size = s
  BY BackwardFacts
<1>2. Good(h, B) /\ DOMAIN h = Fields /\ FiledIn(h.chunk, Vacant(h), h)
  BY DEF Backward, Good, Found
<1>3. PICK W : W = Vacant(h) \ {prev}
  OBVIOUS
<1>4. PICK k : k = Unbin(h, prev, s)
  OBVIOUS
<1>5. SameMemory(h, k) /\ k.dv = h.dv /\ FiledIn(h.chunk, W, k)
  BY <1>1, <1>2, <1>3, <1>4, UnbinFacts
<1>6. k.bins = h.bins \ {<<prev, s>>} /\ k.dvsize = h.dvsize
  BY <1>2, <1>4 DEF Unbin, Fields
<1>7. PICK m : m = [h EXCEPT !.chunk = Without(@, {p})]
  OBVIOUS
<1>8. DOMAIN m = Fields /\ m.bins = h.bins /\ m.dv = h.dv /\ m.dvsize = h.dvsize
  BY <1>2, <1>7 DEF Fields
<1>9. SameMemory(m, f) /\ f.bins = k.bins /\ f.dv = k.dv /\ f.dvsize = k.dvsize
  BY <1>5, <1>6, <1>7, <1>8 DEF Unbin, SameMemory, Fields
<1>10. PICK hp : hp = MergedWith(k, h.chunk, p, prev, total)
  OBVIOUS
<1>11. PICK B2 : B2 = (B \ {p}) \union {prev}
  OBVIOUS
<1>12. PICK next : next = End(h.chunk, p)
  OBVIOUS
<1>13. SpecBackward(h, hp, f, B, p, prev, total, B2, next)
  BY <1>3, <1>5, <1>7, <1>9, <1>10, <1>11, <1>12, BackwardSpec
<1>14. hp.dv = k.dv /\ hp.dvsize = k.dvsize
  BY <1>5, <1>10 DEF MergedWith, SameMemory, Fields
<1>15. Freeing(f, hp, B2, prev, total, next)
  BY <1>9, <1>13, <1>14, BackFreeing
<1>16. Freed(hp, B2, prev, r)
  BY <1>15, ForwardFacts
<1> QED BY <1>13, <1>16, BackFreed

\* The block becomes the designated victim.
LEMMA VictimNowFacts ==
  ASSUME NEW h, NEW hp, NEW B, NEW p, NEW s, NEW next, Freeing(h, hp, B, p, s, next),
         hp.chunk[next].cinuse, NEW r, VictimNow(h, hp, r, p, s)
  PROVE  Freed(hp, B, p, r)
<1>0. /\ DOMAIN r = Fields /\ r.chunk = SetFree(h.chunk, p, s) /\ r.top = h.top
      /\ r.topsize = h.topsize /\ r.seg = h.seg /\ r.linked = h.linked /\ r.sys = h.sys
      /\ r.trim = h.trim /\ r.checks = h.checks /\ r.bins = hp.bins /\ r.dv = p
      /\ r.dvsize = s /\ hp.dv = None
  BY DEF VictimNow
<1>15. SpecFreeing(h, hp, B, p, s, next)
  BY FreeingFacts
<1>16. /\ p \in Int /\ p \in Addresses /\ s \in Sizes /\ next = p + s
       /\ next \in DOMAIN h.chunk /\ IsMap(h.chunk) /\ p \in DOMAIN h.chunk /\ p # None
       /\ DOMAIN h.chunk = DOMAIN hp.chunk /\ p \notin Vacant(hp)
       /\ \A x \in DOMAIN h.chunk : x # p => h.chunk[x] = hp.chunk[x]
       /\ Good(hp, B) /\ Counters(h) /\ SameSegments(hp, h)
  BY <1>15 DEF SpecFreeing
<1>17. PICK D : D = SetFree(h.chunk, p, s)
  OBVIOUS
<1>18. SpecFree(h.chunk, p, s, next, D)
  BY <1>16, <1>17, SetFreeFacts
<1>19. /\ D[p] = Unused(s) /\ SameChunk(h.chunk[next], D[next])
       /\ \A x \in DOMAIN h.chunk : x # p /\ x # next => D[x] = h.chunk[x]
  BY <1>18 DEF SpecFree
<1>20. PICK V : V = Vacant(hp)
  OBVIOUS
<1>21. FiledIn(hp.chunk, V, hp) /\ V \subseteq DOMAIN hp.chunk /\ None \notin V /\ p \notin V
  BY <1>20, FreeingFiled
<1>22. \A x \in V : D[x].size = hp.chunk[x].size
  BY <1>16, <1>19, <1>21 DEF SameChunk
<1>23. FiledIn(D, V, hp)
  BY <1>21, <1>22, FiledSame
<1>24. s = D[p].size
  BY <1>19 DEF Unused
<1>26. PICK T : T = V \union {p}
  OBVIOUS
<1>27. FiledIn(D, T, r)
  <2>1. DOMAIN hp = Fields
    BY <1>16 DEF Good
  <2>2. r.dvsize = D[p].size
    BY <1>0, <1>24
  <2> QED BY <1>0, <1>16, <1>21, <1>23, <1>26, <2>1, <2>2, SetDvFacts
<1>28. FiledIn(r.chunk, Vacant(hp) \union {p}, r)
  BY <1>0, <1>17, <1>20, <1>26, <1>27
<1>29. Counters(r) /\ SameSegments(hp, r)
  BY <1>0, <1>16 DEF Counters, SameSegments
<1>31. Good(r, B \ {p}) /\ Frame(hp, r, B \ {p})
  BY <1>0, <1>28, <1>29, FreeBesideUsed
<1> QED BY <1>31 DEF Freed

\* prev is the designated victim, and the chunk behind p is in use.
LEMMA FreeBackUsed ==
  ASSUME NEW h, NEW B, NEW p, NEW prev, NEW total, Backward(h, B, p, prev, total), prev = h.dv,
         NEW next, next = End(h.chunk, p), h.chunk[next].cinuse,
         NEW f, f = [h EXCEPT !.chunk = Without(@, {p})],
         NEW r, r = [f EXCEPT !.dvsize = total, !.chunk = SetFree(@, prev, total)]
  PROVE  Freed(h, B, p, r)
<1>1. prev \in Vacant(h)
  BY BackwardFacts
<1>2. Good(h, B) /\ DOMAIN h = Fields /\ FiledIn(h.chunk, Vacant(h), h) /\ None \notin Vacant(h)
  BY ConstantsOK DEF Backward, Good, Found, Headers, IsMap, Vacant, Regular
<1>3. PICK W : W = Vacant(h) \ {prev}
  OBVIOUS
<1>4. PICK k : k = NoDv(h)
  OBVIOUS
<1>5. SameMemory(h, k) /\ k.dv = None /\ FiledIn(h.chunk, W, k)
  BY <1>2, <1>3, <1>4, NoDvFacts
<1>6. k.bins = h.bins /\ k.dvsize = 0
  BY <1>2, <1>4 DEF NoDv, Fields
<1>7. PICK e : e = NoDv(f)
  OBVIOUS
<1>8. /\ DOMAIN f = Fields /\ f.chunk = Without(h.chunk, {p}) /\ f.top = h.top
      /\ f.topsize = h.topsize /\ f.seg = h.seg /\ f.linked = h.linked /\ f.sys = h.sys
      /\ f.trim = h.trim /\ f.checks = h.checks /\ f.bins = h.bins /\ f.dv = h.dv
  BY <1>2 DEF Fields
<1>9. /\ SameMemory(f, e) /\ e.bins = k.bins /\ e.dv = None /\ e.dvsize = 0
  BY <1>6, <1>7, <1>8 DEF NoDv, SameMemory, Fields
<1>10. PICK hp : hp = MergedWith(k, h.chunk, p, prev, total)
  OBVIOUS
<1>11. PICK B2 : B2 = (B \ {p}) \union {prev}
  OBVIOUS
<1>12. SpecBackward(h, hp, e, B, p, prev, total, B2, next)
  BY <1>3, <1>5, <1>9, <1>10, <1>11, BackwardSpec
<1>13. hp.dv = None /\ hp.dvsize = 0 /\ hp.bins = h.bins
  BY <1>5, <1>6, <1>10 DEF MergedWith, SameMemory, Fields
<1>14. Freeing(e, hp, B2, prev, total, next)
  BY <1>9, <1>12, <1>13, BackFreeing
<1>17. /\ DOMAIN r = Fields /\ r.chunk = SetFree(f.chunk, prev, total) /\ r.top = f.top
       /\ r.topsize = f.topsize /\ r.seg = f.seg /\ r.linked = f.linked /\ r.sys = f.sys
       /\ r.trim = f.trim /\ r.checks = f.checks /\ r.bins = f.bins /\ r.dv = f.dv
       /\ r.dvsize = total
  BY <1>8 DEF Fields
<1>18. VictimNow(e, hp, r, prev, total)
  BY <1>8, <1>9, <1>13, <1>17 DEF VictimNow, SameMemory
<1>30. hp.chunk[next].cinuse
  BY <1>12 DEF SpecBackward
<1>32. Freed(hp, B2, prev, r)
  BY <1>14, <1>18, <1>30, VictimNowFacts
<1> QED BY <1>12, <1>32, BackFreed

\* prev is the designated victim, and the chunk behind p is not in use.
LEMMA FreeBackVictim ==
  ASSUME NEW h, NEW B, NEW p, NEW prev, NEW total, Backward(h, B, p, prev, total), prev = h.dv,
         NEW next, next = End(h.chunk, p), ~h.chunk[next].cinuse,
         NEW f, f = [h EXCEPT !.chunk = Without(@, {p})],
         NEW r \in FreeForward(f, prev, total)
  PROVE  Freed(h, B, p, r)
<1>2. Good(h, B) /\ DOMAIN h = Fields /\ FiledIn(h.chunk, Vacant(h), h) /\ None \notin Vacant(h)
  BY ConstantsOK DEF Backward, Good, Found, Headers, IsMap, Vacant, Regular
<1>3. PICK W : W = Vacant(h) \ {prev}
  OBVIOUS
<1>4. PICK k : k = NoDv(h)
  OBVIOUS
<1>5. SameMemory(h, k) /\ k.dv = None /\ FiledIn(h.chunk, W, k)
  BY <1>2, <1>3, <1>4, NoDvFacts
<1>6. k.bins = h.bins
  BY <1>2, <1>4 DEF NoDv, Fields
<1>7. DOMAIN f = Fields /\ f.bins = k.bins /\ f.dv = prev
  BY <1>2, <1>6 DEF Fields
<1>8. SameMemory([h EXCEPT !.chunk = Without(@, {p})], f)
  BY <1>7 DEF SameMemory
<1>10. PICK hp : hp = MergedWith(k, h.chunk, p, prev, total)
  OBVIOUS
<1>11. PICK B2 : B2 = (B \ {p}) \union {prev}
  OBVIOUS
<1>12. SpecBackward(h, hp, f, B, p, prev, total, B2, next)
  BY <1>3, <1>5, <1>7, <1>8, <1>10, <1>11, BackwardSpec
<1>13. hp.dv = None
  BY <1>5, <1>10 DEF MergedWith, SameMemory, Fields
<1>14. Freeing(f, hp, B2, prev, total, next)
  BY <1>7, <1>12, <1>13, BackFreeing
<1>15. Freed(hp, B2, prev, r)
  BY <1>14, ForwardFacts
<1> QED BY <1>12, <1>15, BackFreed

FreeAt(h, p, s, foot, prev, total, next, f) ==
  CASE h.chunk[p].pinuse -> FreeForward(h, p, s)
    [] ~h.chunk[p].pinuse /\ foot = Direct -> {f}
    [] ~h.chunk[p].pinuse /\ foot # Direct /\ prev # h.dv -> FreeForward(Unbin(f, prev, foot), prev, total)
    [] OTHER -> IF h.chunk[next].cinuse
                THEN {[f EXCEPT !.dvsize = total, !.chunk = SetFree(@, prev, total)]}
                ELSE FreeForward(f, prev, total)

\* Free with the values of its local definitions.
LEMMA FreeDef ==
  ASSUME NEW h, NEW p, NEW s, s = h.chunk[p].size, NEW foot, foot = h.chunk[p].foot,
         NEW prev, prev = p - foot, NEW total, total = s + foot, NEW next, next = p + s,
         NEW f, f = [h EXCEPT !.chunk = Without(@, {p})]
  PROVE  Free(h, p) = FreeAt(h, p, s, foot, prev, total, next, f)
<1>1. Free(h, p) = FreeAt(h, p, h.chunk[p].size, h.chunk[p].foot, p - h.chunk[p].foot,
                          h.chunk[p].size + h.chunk[p].foot, p + h.chunk[p].size,
                          [h EXCEPT !.chunk = Without(@, {p})])
  BY Zenon DEF Free, FreeAt
<1> QED BY <1>1

FreeCase(h, p, s, foot, prev, total, next, f, r) ==
  \/ h.chunk[p].pinuse /\ r \in FreeForward(h, p, s)
  \/ ~h.chunk[p].pinuse /\ foot = Direct /\ r = f
  \/ /\ ~h.chunk[p].pinuse /\ foot # Direct /\ prev # h.dv
     /\ r \in FreeForward(Unbin(f, prev, foot), prev, total)
  \/ /\ ~h.chunk[p].pinuse /\ foot # Direct /\ prev = h.dv /\ h.chunk[next].cinuse
     /\ r = [f EXCEPT !.dvsize = total, !.chunk = SetFree(@, prev, total)]
  \/ /\ ~h.chunk[p].pinuse /\ foot # Direct /\ prev = h.dv /\ ~h.chunk[next].cinuse
     /\ r \in FreeForward(f, prev, total)

\* The cases of lj_alloc_free.
LEMMA FreeCases ==
  ASSUME NEW h, NEW p, NEW s, NEW foot, NEW prev, NEW total, NEW next, NEW f,
         NEW r \in FreeAt(h, p, s, foot, prev, total, next, f)
  PROVE  FreeCase(h, p, s, foot, prev, total, next, f, r)
<1>1. CASE h.chunk[p].pinuse
  BY <1>1 DEF FreeAt, FreeCase
<1>2. CASE ~h.chunk[p].pinuse /\ foot = Direct
  BY <1>2 DEF FreeAt, FreeCase
<1>3. CASE ~h.chunk[p].pinuse /\ foot # Direct /\ prev # h.dv
  BY <1>3 DEF FreeAt, FreeCase
<1>4. CASE ~h.chunk[p].pinuse /\ foot # Direct /\ prev = h.dv
  <2>1. FreeAt(h, p, s, foot, prev, total, next, f) =
          IF h.chunk[next].cinuse
          THEN {[f EXCEPT !.dvsize = total, !.chunk = SetFree(@, prev, total)]}
          ELSE FreeForward(f, prev, total)
    BY <1>4 DEF FreeAt
  <2>2. CASE h.chunk[next].cinuse
    BY <1>4, <2>1, <2>2 DEF FreeCase
  <2>3. CASE ~h.chunk[next].cinuse
    BY <1>4, <2>1, <2>3 DEF FreeCase
  <2> QED BY <2>2, <2>3
<1> QED BY <1>1, <1>2, <1>3, <1>4

\* lj_alloc_free releases p and nothing else.
LEMMA FreeFacts ==
  ASSUME NEW h, NEW B, Good(h, B), NEW p \in B, NEW r \in Free(h, p)
  PROVE  Freed(h, B, p, r)
<1>1. PICK s : s = h.chunk[p].size
  OBVIOUS
<1>2. PICK foot : foot = h.chunk[p].foot
  OBVIOUS
<1>3. PICK prev : prev = p - foot
  OBVIOUS
<1>4. PICK total : total = s + foot
  OBVIOUS
<1>5. PICK next : next = p + s
  OBVIOUS
<1>6. PICK f : f = [h EXCEPT !.chunk = Without(@, {p})]
  OBVIOUS
<1>7. FreeCase(h, p, s, foot, prev, total, next, f, r)
  <2>1. r \in FreeAt(h, p, s, foot, prev, total, next, f)
    BY <1>1, <1>2, <1>3, <1>4, <1>5, <1>6, FreeDef
  <2> QED BY <2>1, FreeCases
<1>8. p \in DOMAIN h.chunk
  BY DEF Good, Kept
<1>9. next = End(h.chunk, p)
  BY <1>1, <1>5 DEF End
<1>10. ASSUME ~h.chunk[p].pinuse, foot # Direct PROVE Backward(h, B, p, prev, total)
  <2>1. p \in Regular(h.chunk)
    BY <1>2, <1>8, <1>10 DEF Regular
  <2> QED BY <1>1, <1>2, <1>3, <1>4, <1>10, <2>1 DEF Backward
<1>11. CASE h.chunk[p].pinuse /\ r \in FreeForward(h, p, s)
  <2>1. p \in Regular(h.chunk)
    <3>1. p \in Irregular(h.chunk) => ~h.chunk[p].pinuse
      BY IrregularFacts
    <3> QED BY <1>8, <1>11, <3>1 DEF Irregular
  <2> QED BY <1>1, <1>11, <2>1, FreeFront
<1>12. CASE foot = Direct /\ r = f
  <2>1. p \in Irregular(h.chunk)
    BY <1>2, <1>8, <1>12 DEF Irregular, Regular
  <2> QED BY <1>6, <1>12, <2>1, UnmapFacts
<1>13. CASE /\ ~h.chunk[p].pinuse /\ foot # Direct /\ prev # h.dv
            /\ r \in FreeForward(Unbin(f, prev, foot), prev, total)
  <2>1. PICK g : g = Unbin(f, prev, foot)
    OBVIOUS
  <2>2. Backward(h, B, p, prev, total)
    BY <1>10, <1>13
  <2>3. r \in FreeForward(g, prev, total) /\ g = Unbin([h EXCEPT !.chunk = Without(@, {p})], prev, foot)
    BY <1>6, <1>13, <2>1
  <2> QED BY <1>2, <1>13, <2>2, <2>3, FreeBackBin
<1>14. CASE /\ ~h.chunk[p].pinuse /\ foot # Direct /\ prev = h.dv /\ h.chunk[next].cinuse
            /\ r = [f EXCEPT !.dvsize = total, !.chunk = SetFree(@, prev, total)]
  <2>1. Backward(h, B, p, prev, total)
    BY <1>10, <1>14
  <2> QED BY <1>6, <1>9, <1>14, <2>1, FreeBackUsed, Zenon
<1>15. CASE /\ ~h.chunk[p].pinuse /\ foot # Direct /\ prev = h.dv /\ ~h.chunk[next].cinuse
            /\ r \in FreeForward(f, prev, total)
  <2>1. Backward(h, B, p, prev, total)
    BY <1>10, <1>15
  <2> QED BY <1>6, <1>9, <1>15, <2>1, FreeBackVictim
<1> QED BY <1>7, <1>11, <1>12, <1>13, <1>14, <1>15 DEF FreeCase

(***************************************************************************)
(* realloc.                                                                *)
(***************************************************************************)

\* Chunks do not overlap, mapped alone or not.
LEMMA OrderedApart ==
  ASSUME NEW h, NEW B, Good(h, B), NEW p \in DOMAIN h.chunk, NEW q \in DOMAIN h.chunk, p < q
  PROVE  End(h.chunk, p) <= q
<1> DEFINE C == h.chunk
<1>0. /\ \A x \in DOMAIN C : x \in Int /\ C[x].size \in Nat \ {0} /\ End(C, x) \in Int /\ x < End(C, x)
      /\ FootPad \in Nat
  BY BlockFacts DEF End, FootPad
<1>1. CASE p \in Regular(C) /\ q \in Regular(C)
  BY <1>1 DEF Good, Geometry
<1>2. CASE p \in Regular(C) /\ q \in Irregular(C)
  <2>1. PICK g \in Segments(h) : Holds(g, p) /\ (End(C, p) = Limit(g) \/ Holds(g, End(C, p)))
    BY <1>2 DEF Good, Geometry
  <2>2. g.base \in Nat /\ g.size \in Nat \ {0} /\ (End(C, q) + FootPad <= g.base \/ Limit(g) <= q)
    BY <1>2, <2>1 DEF Good, Geometry, Irregular
  <2>3. Limit(g) = g.base + g.size /\ g.base <= p /\ p < g.base + g.size /\ End(C, p) <= Limit(g)
    <3>1. g.base <= p /\ p < g.base + g.size
      BY <2>1 DEF Holds
    <3>2. End(C, p) <= Limit(g)
      BY <1>0, <2>1, <2>2 DEF Holds, Limit
    <3> QED BY <3>1, <3>2 DEF Limit
  <2> QED BY <1>0, <2>2, <2>3
<1>3. CASE p \in Irregular(C) /\ q \in Regular(C)
  <2>1. PICK g \in Segments(h) : Holds(g, q)
    BY <1>3 DEF Good, Geometry
  <2>2. g.base \in Nat /\ g.size \in Nat \ {0} /\ (End(C, p) + FootPad <= g.base \/ Limit(g) <= p)
    BY <1>3, <2>1 DEF Good, Geometry, Irregular
  <2>3. Limit(g) = g.base + g.size /\ g.base <= q /\ q < g.base + g.size
    BY <2>1 DEF Holds, Limit
  <2> QED BY <1>0, <2>2, <2>3
<1>4. CASE p \in Irregular(C) /\ q \in Irregular(C)
  <2>1. End(C, p) + FootPad <= q
    BY <1>4 DEF Good, Geometry, Irregular
  <2> QED BY <1>0, <2>1
<1> QED BY <1>1, <1>2, <1>3, <1>4 DEF Irregular

\* The words of two chunks do not overlap.
LEMMA WordsApart ==
  ASSUME NEW h, NEW B, Good(h, B), NEW p \in DOMAIN h.chunk, NEW q \in DOMAIN h.chunk, p # q
  PROVE  Words(h, p) \intersect Words(h, q) = {}
<1>1. /\ p \in Int /\ q \in Int /\ h.chunk[p].size \in Nat \ {0} /\ h.chunk[q].size \in Nat \ {0}
  BY BlockFacts
<1>2. /\ p < q => p + h.chunk[p].size <= q
      /\ q < p => q + h.chunk[q].size <= p
  BY OrderedApart DEF End
<1> QED BY <1>1, <1>2 DEF Words

\* The block p stays where it is.
LEMMA ResizesSame ==
  ASSUME NEW h, NEW B, Good(h, B), NEW p \in B, NEW nb,
         nb + (IF h.chunk[p].foot = Direct THEN 1 ELSE 0) <= h.chunk[p].size,
         NEW r, r = Result(h, p)
  PROVE  Resizes(h, B, p, r, nb)
<1>1. r.at = p /\ r.heap = h /\ p \in DOMAIN h.chunk
  BY DEF Result, Good, Kept
<1>2. Frame(h, h, B \ {p})
  BY DEF Frame
<1> QED BY <1>1, <1>2 DEF Resizes

\* The block was cut, or grew into the top.
LEMMA CutResizes ==
  ASSUME NEW h, NEW B, NEW p, NEW q, NEW nb \in Nat, nb = q - p, NEW g, Cut(h, g, B, p, q),
         NEW r, r = Result(g, p)
  PROVE  Resizes(h, B, p, r, nb)
<1>1. /\ Good(g, B) /\ Frame(h, g, B \ {p}) /\ p \in Regular(g.chunk) /\ g.chunk[p].size = nb
  BY DEF Cut
<1>2. r.at = p /\ r.heap = g
  BY DEF Result
<1>3. g.chunk[p].foot # Direct /\ p \in DOMAIN g.chunk
  BY <1>1 DEF Regular
<1>4. nb + 0 <= g.chunk[p].size
  BY <1>1
<1> QED BY <1>1, <1>2, <1>3, <1>4 DEF Resizes

\* The block shrinks, and the rest of it is released.
LEMMA ShrunkResizes ==
  ASSUME NEW h, NEW B, NEW p, NEW nb \in Nat, NEW k, Shrinking(h, B, p, nb, k),
         NEW q, q = p + nb, NEW g \in Free(k, q), NEW r, r = Result(g, p)
  PROVE  Resizes(h, B, p, r, nb)
<1>1. Shrunk(h, k, B, p, q, nb) /\ p \in B
  BY ShrinkFacts DEF Shrinking
<1>2. PICK B2 : B2 = B \union {q}
  OBVIOUS
<1>3. PICK K : K = B \ {p}
  OBVIOUS
<1>4. /\ Good(k, B2) /\ Frame(h, k, K) /\ q \in B2 /\ B2 \ {q} = B
      /\ p \in Regular(k.chunk) /\ k.chunk[p].size = nb
  BY <1>1, <1>2, <1>3 DEF Shrunk
<1>5. Freed(k, B2, q, g)
  BY <1>4, FreeFacts
<1>6. Good(g, B) /\ Frame(k, g, B)
  BY <1>4, <1>5 DEF Freed
<1>7. /\ g.chunk[p].size = k.chunk[p].size /\ (g.chunk[p].foot = Direct <=> k.chunk[p].foot = Direct)
      /\ Frame(k, g, K) /\ p \in DOMAIN g.chunk
  BY <1>1, <1>3, <1>6 DEF Frame, Good, Kept
<1>8. g.chunk[p].size = nb /\ g.chunk[p].foot # Direct
  BY <1>4, <1>7 DEF Regular
<1>9. Frame(h, g, K)
  BY <1>4, <1>7, FrameTrans
<1>10. r.at = p /\ r.heap = g
  BY DEF Result
<1>11. nb + 0 <= g.chunk[p].size
  BY <1>8
<1> QED BY <1>3, <1>6, <1>7, <1>8, <1>9, <1>10, <1>11 DEF Resizes

Split(h, p, nb) ==
  [h EXCEPT !.chunk = SetUsedAll(Put(@, p, [h.chunk[p] EXCEPT !.size = nb]), p + nb,
                                 h.chunk[p].size - nb)]
Widened(h, p, nb) ==
  [h EXCEPT !.top = p + nb, !.topsize = h.chunk[p].size + @ - nb,
            !.chunk = Put(Put(Without(@, {p + h.chunk[p].size}), p + nb,
                              Unused(h.chunk[p].size + h.topsize - nb)),
                          p, [h.chunk[p] EXCEPT !.size = nb])]
InPlaceAt(h, p, nb) ==
  CASE h.chunk[p].size >= nb ->
         IF NoRest(h.chunk[p].size, nb) THEN {Result(h, p)}
         ELSE {Result(g, p) : g \in Free(Split(h, p, nb), p + nb)}
    [] h.chunk[p].size < nb /\ p + h.chunk[p].size = h.top /\ h.chunk[p].size + h.topsize > nb ->
         {Result(Widened(h, p, nb), p)}
    [] OTHER -> {}

\* lj_alloc_realloc in a segment, without moving the block.
LEMMA InPlaceFacts ==
  ASSUME NEW h, NEW B, Good(h, B), NEW p \in B, p \in Regular(h.chunk),
         NEW nb \in Nat, MinChunk <= nb, NEW r \in InPlace(h, p, nb)
  PROVE  Resizes(h, B, p, r, nb)
<1>1. r \in InPlaceAt(h, p, nb)
  <2>1. InPlace(h, p, nb) = InPlaceAt(h, p, nb)
    BY Zenon DEF InPlace, InPlaceAt, Split, Widened, FreedRest
  <2> QED BY <2>1
<1>2. PICK s : s = h.chunk[p].size
  OBVIOUS
<1>3. s \in Nat \ {0} /\ h.chunk[p].foot # Direct /\ p \in Int /\ MinChunk \in Nat
  BY <1>2, BlockFacts, ConstantsOK DEF Regular
<1>4. CASE s >= nb /\ NoRest(s, nb)
  <2>0. ~(s < nb)
    BY <1>3, <1>4
  <2>1. r = Result(h, p)
    BY <1>1, <1>2, <1>4, <2>0 DEF InPlaceAt
  <2>2. nb + 0 <= h.chunk[p].size
    BY <1>2, <1>3, <1>4
  <2> QED BY <1>3, <2>1, <2>2, ResizesSame
<1>5. CASE s >= nb /\ ~NoRest(s, nb)
  <2>0. ~(s < nb)
    BY <1>3, <1>5
  <2>1. PICK k : k = Split(h, p, nb)
    OBVIOUS
  <2>2. PICK q : q = p + nb
    OBVIOUS
  <2>3. r \in {Result(g, p) : g \in Free(k, q)}
    BY <1>1, <1>2, <1>5, <2>0, <2>1, <2>2 DEF InPlaceAt
  <2>4. PICK g \in Free(k, q) : r = Result(g, p)
    BY <2>3
  <2>5. nb + MinChunk <= s
    BY <1>3, <1>5 DEF NoRest
  <2>6. Shrinking(h, B, p, nb, k)
    BY <1>2, <2>1, <2>5 DEF Shrinking, Split
  <2> QED BY <2>2, <2>4, <2>6, ShrunkResizes
<1>6. CASE s < nb /\ p + s = h.top /\ s + h.topsize > nb
  <2>1. PICK g : g = Widened(h, p, nb)
    OBVIOUS
  <2>2. PICK q : q = p + nb
    OBVIOUS
  <2>3. r = Result(g, p)
    <3>1. ~(s >= nb)
      BY <1>3, <1>6
    <3> QED BY <1>1, <1>2, <1>6, <2>1, <3>1 DEF InPlaceAt
  <2>4. h.topsize \in Nat /\ nb < s + h.topsize
    <3>1. SpecTop(h, B, h.top + h.topsize)
      BY TopFacts
    <3>2. h.topsize \in Nat
      BY <3>1 DEF SpecTop
    <3> QED BY <1>3, <1>6, <3>2
  <2>5. Growing(h, B, p, nb, g)
    BY <1>2, <1>6, <2>1, <2>4 DEF Growing, Widened, End
  <2>6. Cut(h, g, B, p, q)
    BY <2>2, <2>5, GrowFacts
  <2>7. nb = q - p
    BY <1>3, <2>2
  <2> QED BY <2>3, <2>6, <2>7, CutResizes
<1>7. CASE ~(s >= nb) /\ ~(s < nb /\ p + s = h.top /\ s + h.topsize > nb)
  <2>1. InPlaceAt(h, p, nb) = {}
    BY <1>2, <1>7 DEF InPlaceAt
  <2> QED BY <1>1, <2>1
<1>8. s >= nb \/ ~(s >= nb)
  OBVIOUS
<1> QED BY <1>4, <1>5, <1>6, <1>7

\* A new block is allocated before the old one is released.
LEMMA GrantedFreed ==
  ASSUME NEW h, NEW B, Good(h, B), NEW p \in B, NEW nb \in Nat, NEW m, Granted(h, B, m, nb),
         NEW g \in Free(m.heap, p), NEW r, r = Result(g, m.at)
  PROVE  Moves(h, B, p, r, nb)
<1>1. PICK k : k = m.heap
  OBVIOUS
<1>2. PICK q : q = m.at
  OBVIOUS
<1>3. PICK B2 : B2 = B \union {q}
  OBVIOUS
<1>4. PICK K : K = B \ {p}
  OBVIOUS
<1>5. PICK K2 : K2 = B2 \ {p}
  OBVIOUS
<1>6. /\ q \notin B /\ Good(k, B2) /\ Frame(h, k, B) /\ q \in DOMAIN k.chunk
      /\ nb + (IF k.chunk[q].foot = Direct THEN 1 ELSE 0) <= k.chunk[q].size
  BY <1>1, <1>2, <1>3 DEF Granted
<1>7. Freed(k, B2, p, g)
  BY <1>1, <1>3, <1>6, FreeFacts
<1>8. Good(g, K2) /\ Frame(k, g, K2)
  BY <1>5, <1>7 DEF Freed
<1>9. K2 = K \union {q} /\ q \in K2 /\ p \in DOMAIN k.chunk /\ p # q
  BY <1>3, <1>4, <1>5, <1>6 DEF Good, Kept
<1>10. Frame(h, g, K)
  <2>1. Frame(h, k, K) /\ Frame(k, g, K)
    BY <1>4, <1>6, <1>8, <1>9 DEF Frame
  <2> QED BY <2>1, FrameTrans
<1>11. /\ g.chunk[q].size = k.chunk[q].size /\ (g.chunk[q].foot = Direct <=> k.chunk[q].foot = Direct)
       /\ q \in DOMAIN g.chunk
  BY <1>8, <1>9 DEF Frame, Good, Kept
<1>12. k.chunk[p].size = h.chunk[p].size
  BY <1>6 DEF Frame
<1>13. Words(h, p) = Words(k, p) /\ Words(g, q) = Words(k, q)
  BY <1>11, <1>12 DEF Words
<1>14. Words(k, p) \intersect Words(k, q) = {}
  BY <1>6, <1>9, WordsApart
<1>15. r.at = q /\ r.heap = g
  BY <1>2 DEF Result
<1>16. nb + (IF g.chunk[q].foot = Direct THEN 1 ELSE 0) <= g.chunk[q].size
  BY <1>6, <1>11
<1>17. Good(r.heap, (B \ {p}) \union {r.at})
  BY <1>4, <1>8, <1>9, <1>15
<1>18. Frame(h, r.heap, B \ {p}) /\ r.at \in DOMAIN r.heap.chunk
  BY <1>4, <1>10, <1>11, <1>15
<1> QED BY <1>6, <1>13, <1>14, <1>15, <1>16, <1>17, <1>18 DEF Moves

\* lj_alloc_realloc moves the block, or fails and leaves the heap alone.
LEMMA MovedFacts ==
  ASSUME NEW h, NEW B, Good(h, B), NEW p \in B, NEW n \in Nat, NEW r \in Moved(h, p, n)
  PROVE  Reallocated(h, B, p, r, Padded(n))
<1>1. PICK m \in Malloc(h, n) :
        r \in IF m.at = None THEN {m} ELSE {Result(g, m.at) : g \in Free(m.heap, p)}
  BY Zenon DEF Moved
<1>2. Allocated(h, B, m, Padded(n)) /\ Padded(n) \in Nat
  BY MallocFacts, PaddedFacts
<1>3. CASE m.at = None
  BY <1>1, <1>2, <1>3 DEF Allocated, Reallocated
<1>4. CASE m.at # None
  <2>1. PICK g \in Free(m.heap, p) : r = Result(g, m.at)
    BY <1>1, <1>4
  <2>2. Granted(h, B, m, Padded(n))
    BY <1>2, <1>4 DEF Allocated
  <2>3. Moves(h, B, p, r, Padded(n))
    BY <1>2, <2>1, <2>2, GrantedFreed
  <2>4. r.at = m.at
    BY <2>1 DEF Result
  <2> QED BY <1>4, <2>3, <2>4 DEF Reallocated
<1> QED BY <1>3, <1>4

\* A block that stays in place is an answer.
LEMMA ResizesReallocated ==
  ASSUME NEW h, NEW B, Good(h, B), NEW p \in B, NEW r, NEW nb, Resizes(h, B, p, r, nb)
  PROVE  Reallocated(h, B, p, r, nb)
<1>1. p \in DOMAIN h.chunk
  BY DEF Good, Kept
<1>2. p # None
  BY <1>1, BlockFacts
<1>3. r.at = p
  BY DEF Resizes
<1> QED BY <1>2, <1>3 DEF Reallocated

ReallocAt(h, p, n, nb, direct, kept) ==
  CASE direct /\ Fits(h, p, nb)  -> {Result(h, p)}
    [] direct /\ ~Fits(h, p, nb) -> Remapped(h, p, nb) \union Moved(h, p, n)
    [] OTHER -> IF kept = {} THEN Moved(h, p, n) ELSE kept

\* lj_alloc_realloc resizes or moves p, or fails and leaves the heap alone.
LEMMA ReallocFacts ==
  ASSUME NEW h, NEW B, Good(h, B), NEW p \in B, NEW n \in Nat, NEW r \in Realloc(h, p, n)
  PROVE  Reallocated(h, B, p, r, Padded(n))
<1>1. PICK nb : nb = Padded(n)
  OBVIOUS
<1>2. PICK kept : kept = InPlace(h, p, nb)
  OBVIOUS
<1>3. PICK direct : direct = (h.chunk[p].foot = Direct)
  OBVIOUS
<1>4. r \in ReallocAt(h, p, n, nb, direct, kept)
  <2>1. Realloc(h, p, n) = ReallocAt(h, p, n, Padded(n), h.chunk[p].foot = Direct,
                                     InPlace(h, p, Padded(n)))
    BY Zenon DEF Realloc, ReallocAt
  <2> QED BY <1>1, <1>2, <1>3, <2>1
<1>5. nb \in Nat /\ MinChunk <= nb
  BY <1>1, PaddedFacts
<1>6. p \in DOMAIN h.chunk /\ h.chunk[p].size \in Nat \ {0}
  <2>1. p \in DOMAIN h.chunk
    BY DEF Good, Kept
  <2> QED BY <2>1, BlockFacts
<1>7. CASE h.chunk[p].foot = Direct /\ Fits(h, p, nb)
  <2>1. r = Result(h, p)
    BY <1>3, <1>4, <1>7 DEF ReallocAt
  <2>2. nb + 1 <= h.chunk[p].size
    BY <1>5, <1>6, <1>7 DEF Fits
  <2>3. nb + (IF h.chunk[p].foot = Direct THEN 1 ELSE 0) <= h.chunk[p].size
    BY <1>7, <2>2
  <2>4. Resizes(h, B, p, r, nb)
    BY <1>5, <2>1, <2>3, ResizesSame
  <2> QED BY <1>1, <2>4, ResizesReallocated
<1>8. CASE h.chunk[p].foot = Direct /\ ~Fits(h, p, nb)
  <2>1. r \in Remapped(h, p, nb) \/ r \in Moved(h, p, n)
    BY <1>3, <1>4, <1>8 DEF ReallocAt
  <2>2. CASE r \in Remapped(h, p, nb)
    <3>1. p \in Irregular(h.chunk)
      BY <1>6, <1>8 DEF Irregular, Regular
    <3>2. Resizes(h, B, p, r, nb)
      BY <1>5, <2>2, <3>1, RemappedFacts
    <3> QED BY <1>1, <3>2, ResizesReallocated
  <2>3. CASE r \in Moved(h, p, n)
    BY <2>3, MovedFacts
  <2> QED BY <2>1, <2>2, <2>3
<1>9. CASE h.chunk[p].foot # Direct
  <2>1. r \in IF kept = {} THEN Moved(h, p, n) ELSE kept
    BY <1>3, <1>4, <1>9 DEF ReallocAt
  <2>2. CASE r \in kept
    <3>1. p \in Regular(h.chunk)
      BY <1>6, <1>9 DEF Regular
    <3>2. Resizes(h, B, p, r, nb)
      BY <1>2, <1>5, <2>2, <3>1, InPlaceFacts
    <3> QED BY <1>1, <3>2, ResizesReallocated
  <2>3. CASE r \in Moved(h, p, n)
    BY <2>3, MovedFacts
  <2> QED BY <2>1, <2>2, <2>3
<1> QED BY <1>7, <1>8, <1>9

(***************************************************************************)
(* lj_alloc_create.                                                        *)
(***************************************************************************)

\* lj_alloc_create: the state of the allocator, the top and its fake chunk.
LEMMA CreatedFacts ==
  ASSUME Init, NEW h, h = heap
  PROVE  Created(h, Granularity - MState - TopFoot, Granularity - TopFoot)
<1>1. PICK t : t = Granularity - MState - TopFoot
  OBVIOUS
<1>2. PICK f : f = Granularity - TopFoot
  OBVIOUS
<1>3. /\ MState \in Nat \ {0} /\ Granularity \in Nat \ {0} /\ Space \in Nat \ {0}
      /\ Granularity <= Space /\ MinChunk \in Nat \ {0} /\ CheckRate \in Nat \ {0}
      /\ TopFoot \in Nat \ {0} /\ MState + TopFoot + MinChunk <= Granularity
  <2>1. \A c \in {MinChunk, SegChunk, MState, Granularity, CheckRate, Space} : c \in Nat \ {0}
    BY ConstantsOK
  <2>2. Granularity <= Space /\ MState + TopFoot + MinChunk <= Granularity
    BY ConstantsOK
  <2>3. TopFoot \in Nat \ {0}
    BY <2>1 DEF TopFoot
  <2> QED BY <2>1, <2>2, <2>3
<1>4. /\ t \in Nat \ {0} /\ f = MState + t /\ f \in Int /\ f + TopFoot = Granularity /\ 0 < f
      /\ MState < f /\ t \in Sizes /\ TopFoot \in Sizes /\ MState \in Sizes
      /\ 0 \in Addresses /\ MState \in Addresses /\ f \in Addresses
  BY <1>1, <1>2, <1>3 DEF Sizes, Addresses
<1>5. PICK k : k = [chunk |-> [p \in {0} |-> Used(MState)], dv |-> None, dvsize |-> 0,
                    top |-> 0, topsize |-> 0, bins |-> {},
                    seg |-> [base |-> 0, size |-> Granularity], linked |-> {}, sys |-> {0},
                    trim |-> 0, checks |-> CheckRate]
  OBVIOUS
<1>6. h = InitTop(k, MState, t)
  BY <1>1, <1>5 DEF Init
<1>7. PICK A : A = [p \in {0} |-> Used(MState)]
  OBVIOUS
<1>8. PICK v : v = [Unused(TopFoot) EXCEPT !.pinuse = FALSE]
  OBVIOUS
<1>9. PICK D : D = Put(A, f, v)
  OBVIOUS
<1>10. PICK C : C = Put(D, MState, Unused(t))
  OBVIOUS
<1>11. /\ DOMAIN h = Fields /\ h.chunk = C /\ h.top = MState /\ h.topsize = t
       /\ h.dv = None /\ h.dvsize = 0 /\ h.bins = {} /\ h.linked = {} /\ h.sys = {0}
       /\ h.seg = [base |-> 0, size |-> Granularity] /\ h.checks = CheckRate
       /\ h.trim = TrimThreshold
  <2>1. k.chunk = A /\ MState + t = f /\ DOMAIN k = Fields
    BY <1>4, <1>5, <1>7 DEF Fields
  <2>2. h = [k EXCEPT !.top = MState, !.topsize = t, !.trim = TrimThreshold, !.chunk = C]
    BY <1>6, <1>8, <1>9, <1>10, <2>1 DEF InitTop
  <2> QED BY <1>5, <2>1, <2>2 DEF Fields
<1>12. /\ v \in Header /\ v.size = TopFoot /\ ~v.cinuse /\ v.foot = 0
  <2>1. v = [size |-> TopFoot, cinuse |-> FALSE, pinuse |-> FALSE, foot |-> 0]
    BY <1>8 DEF Unused
  <2>2. TopFoot \in 1..Space /\ 0 \in -1..Space
    BY <1>3, <1>4 DEF Sizes
  <2> QED BY <2>1, <2>2 DEF Header
<1>13. Used(MState) \in Header /\ Unused(t) \in Header
  BY <1>4, HeaderFacts
<1>14. IsMap(A) /\ DOMAIN A = {0} /\ A[0] = Used(MState)
  <2>1. DOMAIN A = {0} /\ A[0] = Used(MState) /\ A \in [{0} -> Header]
    BY <1>7, <1>13
  <2>2. 0 \in 0..Space - 1
    BY <1>3
  <2> QED BY <2>1, <2>2 DEF IsMap
<1>15. SpecPut(A, f, v, D)
  BY <1>4, <1>9, <1>12, <1>14, PutSpec
<1>16. IsMap(D) /\ DOMAIN D = {0, f} /\ D[f] = v /\ D[0] = Used(MState)
  BY <1>4, <1>14, <1>15 DEF SpecPut
<1>17. SpecPut(D, MState, Unused(t), C)
  BY <1>4, <1>10, <1>13, <1>16, PutSpec
<1>18. /\ IsMap(C) /\ DOMAIN C = {0, MState, f} /\ C[f] = v /\ C[0] = Used(MState)
       /\ C[MState] = Unused(t)
  BY <1>3, <1>4, <1>16, <1>17 DEF SpecPut
<1>19. /\ C[0].size = MState /\ C[0].foot = 0 /\ C[MState].size = t /\ C[MState].foot = 0
       /\ C[f].size = TopFoot /\ ~C[f].cinuse /\ C[f].foot = 0
  BY <1>12, <1>18 DEF Used, Unused
<1>20. Regular(C) = DOMAIN C
  BY <1>18, <1>19 DEF Regular, Direct
<1>21. End(C, 0) = MState /\ End(C, MState) = f /\ End(C, f) = Granularity
  BY <1>3, <1>4, <1>19 DEF End
<1>22. /\ h.seg.base = 0 /\ h.seg.size = Granularity /\ h.seg \in [base : Nat, size : Nat \ {0}]
       /\ Segments(h) = {h.seg} /\ Limit(h.seg) = Granularity
  BY <1>3, <1>11 DEF Segments, Limit
<1> QED BY <1>1, <1>2, <1>3, <1>4, <1>11, <1>18, <1>19, <1>20, <1>21, <1>22 DEF Created

\* This heap is good.
LEMMA CreatedGood ==
  ASSUME NEW h, NEW t, NEW f, Created(h, t, f), MinChunk \in Nat
  PROVE  Good(h, {})
<1> DEFINE C == h.chunk
<1>1. /\ DOMAIN h = Fields /\ h.top = MState /\ h.topsize = t /\ f = MState + t /\ f \in Int
      /\ f + TopFoot = Granularity /\ t \in Nat \ {0} /\ TopFoot \in Nat \ {0} /\ MState \in Nat \ {0}
      /\ Granularity \in Nat \ {0} /\ Space \in Nat /\ Granularity <= Space
      /\ h.dv = None /\ h.dvsize = 0 /\ h.bins = {} /\ h.linked = {} /\ h.sys = {0}
      /\ h.seg.base = 0 /\ h.seg.size = Granularity /\ h.seg \in [base : Nat, size : Nat \ {0}]
      /\ Segments(h) = {h.seg} /\ Limit(h.seg) = Granularity
      /\ IsMap(C) /\ DOMAIN C = {0, MState, f}
      /\ C[0] = Used(MState) /\ C[MState] = Unused(t)
      /\ C[f].size = TopFoot /\ ~C[f].cinuse /\ C[f].foot = 0
      /\ Regular(C) = DOMAIN C
      /\ End(C, 0) = MState /\ End(C, MState) = f /\ End(C, f) = Granularity
      /\ h.checks \in Nat \ {0} /\ h.trim = TrimThreshold
  BY DEF Created
<1>2. /\ C[0].cinuse /\ C[0].pinuse /\ ~C[MState].cinuse /\ C[MState].pinuse /\ C[MState].size = t
      /\ 0 # MState /\ 0 # f /\ MState # f
  BY <1>1 DEF Used, Unused
<1>3. Headers(C) /\ Counters(h)
  BY <1>1 DEF Headers, Counters
<1>4. \A x \in DOMAIN C : Holds(h.seg, x) /\ (End(C, x) = Limit(h.seg) \/ End(C, x) \in DOMAIN C)
  BY <1>1 DEF Holds
<1>5. Geometry(C, Segments(h))
  <2>1. \A g \in Segments(h) : /\ g \in [base : Nat, size : Nat \ {0}] /\ Limit(g) <= Space
                               /\ g.base \in Regular(C)
    BY <1>1
  <2>2. \A g1, g2 \in Segments(h) : g1 = g2 \/ Limit(g1) <= g2.base \/ Limit(g2) <= g1.base
    BY <1>1
  <2>3. \A p \in Regular(C) : \E g \in Segments(h) :
       Holds(g, p) /\ (End(C, p) = Limit(g) \/ (Holds(g, End(C, p)) /\ End(C, p) \in Regular(C)))
    BY <1>1, <1>4
  <2>4. \A p, q \in Regular(C) : p < q => End(C, p) <= q
    BY <1>1
  <2>5. DOMAIN C \ Regular(C) = {}
    BY <1>1
  <2> QED BY <2>1, <2>2, <2>3, <2>4, <2>5 DEF Geometry
<1>6. Vacant(h) = {}
  BY <1>1, <1>2 DEF Vacant
<1>7. Tags(h)
  BY <1>1, <1>2, <1>6 DEF Tags
<1>8. TopLast(h)
  BY <1>1, <1>2, <1>4 DEF TopLast
<1>9. Recorded(h)
  BY <1>1, FS_EmptySet DEF Recorded
<1>10. Found(h)
  BY <1>1, <1>6 DEF Found, FiledIn
<1>11. Kept(h, {})
  <2>1. \A p \in DOMAIN C : C[p].cinuse <=> p \in {} \union h.sys
    BY <1>1, <1>2
  <2>2. \A p \in Regular(C) : \A g \in Segments(h) :
          Holds(g, p) /\ End(C, p) = Limit(g) => p \in h.sys \/ p = h.top + h.topsize
    BY <1>1
  <2> QED BY <1>1, <2>1, <2>2 DEF Kept
<1> QED BY <1>1, <1>3, <1>5, <1>7, <1>8, <1>9, <1>10, <1>11 DEF Good

(***************************************************************************)
(* The invariant.                                                          *)
(***************************************************************************)

\* The invariant holds initially.
LEMMA Initially == Init => IInv
<1> SUFFICES ASSUME Init PROVE IInv
  OBVIOUS
<1>1. live = <<>> /\ DOMAIN live = {}
  BY DEF Init
<1>2. PICK h : h = heap
  OBVIOUS
<1>3. MinChunk \in Nat
  BY ConstantsOK
<1>4. PICK t : t = Granularity - MState - TopFoot
  OBVIOUS
<1>5. PICK f : f = Granularity - TopFoot
  OBVIOUS
<1>6. Created(h, t, f)
  BY <1>2, <1>4, <1>5, CreatedFacts
<1>7. Good(h, {})
  BY <1>3, <1>6, CreatedGood
<1>8. Sized(heap, live)
  BY <1>1 DEF Sized
<1> QED BY <1>1, <1>2, <1>7, <1>8 DEF IInv

\* The blocks of S keep their size.
LEMMA SizedFrame ==
  ASSUME NEW h, NEW g, NEW L, Sized(h, L), NEW M, NEW S, S \subseteq DOMAIN L, DOMAIN M = S,
         Frame(h, g, S), \A x \in S : M[x] = L[x]
  PROVE  Sized(g, M)
  BY DEF Sized, Frame

\* A block q of n words comes to those of S.
LEMMA SizedPut ==
  ASSUME NEW g, NEW M, Sized(g, M), NEW q, NEW n \in Nat, NEW nb \in Nat, n + 1 <= nb,
         g.chunk[q].size \in Nat,
         nb + (IF g.chunk[q].foot = Direct THEN 1 ELSE 0) <= g.chunk[q].size
  PROVE  Sized(g, Put(M, q, n))
<1>1. n + (IF g.chunk[q].foot = Direct THEN 2 ELSE 1) <= g.chunk[q].size
  <2>1. CASE g.chunk[q].foot = Direct
    BY <2>1
  <2>2. CASE g.chunk[q].foot # Direct
    BY <2>2
  <2> QED BY <2>1, <2>2
<1>2. PICK P : P = Put(M, q, n)
  OBVIOUS
<1>3. DOMAIN P = DOMAIN M \union {q} /\ P[q] = n /\ \A x \in DOMAIN M : x # q => P[x] = M[x]
  BY <1>2 DEF Put
<1> QED BY <1>1, <1>2, <1>3 DEF Sized

\* lj_alloc_malloc keeps the invariant.
LEMMA MallocKeeps ==
  ASSUME IInv, NEW n \in Requests, MallocCall(n)
  PROVE  IInv'
<1>1. PICK r \in Malloc(heap, n) : /\ heap' = r.heap
                                   /\ live' = IF r.at = None THEN live ELSE Put(live, r.at, n)
  BY DEF MallocCall
<1>2. PICK h : h = heap
  OBVIOUS
<1>3. PICK L : L = live
  OBVIOUS
<1>4. PICK B : B = DOMAIN L
  OBVIOUS
<1>5. Good(h, B) /\ Sized(h, L)
  BY <1>2, <1>3, <1>4 DEF IInv
<1>6. n \in Nat /\ Padded(n) \in Nat /\ n + 1 <= Padded(n)
  BY ConstantsOK, PaddedFacts
<1>7. Allocated(h, B, r, Padded(n))
  BY <1>1, <1>2, <1>5, <1>6, MallocFacts
<1>8. CASE r.at = None
  <2>1. r.heap = h
    BY <1>7, <1>8 DEF Allocated
  <2>2. heap' = heap /\ live' = live
    BY <1>1, <1>2, <1>8, <2>1
  <2> QED BY <2>2 DEF IInv
<1>9. CASE r.at # None
  <2>1. PICK g : g = r.heap
    OBVIOUS
  <2>2. PICK q : q = r.at
    OBVIOUS
  <2>3. PICK B2 : B2 = B \union {q}
    OBVIOUS
  <2>4. /\ q \notin B /\ Good(g, B2) /\ Frame(h, g, B) /\ q \in DOMAIN g.chunk
        /\ Padded(n) + (IF g.chunk[q].foot = Direct THEN 1 ELSE 0) <= g.chunk[q].size
    BY <1>7, <1>9, <2>1, <2>2, <2>3 DEF Allocated, Granted
  <2>5. Sized(g, L)
    BY <1>4, <1>5, <2>4, SizedFrame
  <2>6. g.chunk[q].size \in Nat
    BY <2>4, BlockFacts
  <2>7. PICK M : M = Put(L, q, n)
    OBVIOUS
  <2>8. Sized(g, M)
    BY <1>6, <2>4, <2>5, <2>6, <2>7, SizedPut
  <2>9. DOMAIN M = B2
    BY <1>4, <2>3, <2>7, PutFacts
  <2>10. heap' = g /\ live' = M
    BY <1>1, <1>3, <1>9, <2>1, <2>2, <2>7
  <2> QED BY <2>4, <2>8, <2>9, <2>10 DEF IInv
<1> QED BY <1>8, <1>9

\* lj_alloc_free keeps the invariant.
LEMMA FreeKeeps ==
  ASSUME IInv, NEW p \in DOMAIN live, FreeCall(p)
  PROVE  IInv'
<1>1. PICK h : h = heap
  OBVIOUS
<1>2. PICK L : L = live
  OBVIOUS
<1>3. PICK B : B = DOMAIN L
  OBVIOUS
<1>4. Good(h, B) /\ Sized(h, L) /\ p \in B
  BY <1>1, <1>2, <1>3 DEF IInv
<1>5. PICK g : g = heap'
  OBVIOUS
<1>6. PICK M : M = live'
  OBVIOUS
<1>7. g \in Free(h, p) /\ M = Without(L, {p})
  BY <1>1, <1>2, <1>5, <1>6 DEF FreeCall
<1>8. Freed(h, B, p, g)
  BY <1>4, <1>7, FreeFacts
<1>9. PICK K : K = B \ {p}
  OBVIOUS
<1>10. Good(g, K) /\ Frame(h, g, K)
  BY <1>8, <1>9 DEF Freed
<1>11. DOMAIN M = K /\ \A x \in K : M[x] = L[x]
  BY <1>3, <1>7, <1>9, WithoutFacts
<1>12. Sized(g, M)
  BY <1>3, <1>4, <1>9, <1>10, <1>11, SizedFrame
<1> QED BY <1>5, <1>6, <1>10, <1>11, <1>12 DEF IInv

\* lj_alloc_realloc keeps the invariant.
LEMMA ReallocKeeps ==
  ASSUME IInv, NEW p \in DOMAIN live, NEW n \in Requests, ReallocCall(p, n)
  PROVE  IInv'
<1>1. PICK r \in Realloc(heap, p, n) :
        /\ heap' = r.heap
        /\ live' = IF r.at = None THEN live ELSE Put(Without(live, {p}), r.at, n)
  BY DEF ReallocCall
<1>2. PICK h : h = heap
  OBVIOUS
<1>3. PICK L : L = live
  OBVIOUS
<1>4. PICK B : B = DOMAIN L
  OBVIOUS
<1>5. Good(h, B) /\ Sized(h, L) /\ p \in B
  BY <1>2, <1>3, <1>4 DEF IInv
<1>6. n \in Nat /\ Padded(n) \in Nat /\ n + 1 <= Padded(n)
  BY ConstantsOK, PaddedFacts
<1>7. Reallocated(h, B, p, r, Padded(n))
  BY <1>1, <1>2, <1>5, <1>6, ReallocFacts
<1>8. CASE r.at = None /\ r.heap = h
  <2>1. heap' = heap /\ live' = live
    BY <1>1, <1>2, <1>8
  <2> QED BY <2>1 DEF IInv
<1>9. CASE r.at # None /\ (Resizes(h, B, p, r, Padded(n)) \/ Moves(h, B, p, r, Padded(n)))
  <2>1. PICK g : g = r.heap
    OBVIOUS
  <2>2. PICK q : q = r.at
    OBVIOUS
  <2>3. PICK K : K = B \ {p}
    OBVIOUS
  <2>4. PICK B2 : B2 = K \union {q}
    OBVIOUS
  <2>5. /\ Good(g, B2) /\ Frame(h, g, K) /\ q \in DOMAIN g.chunk
        /\ Padded(n) + (IF g.chunk[q].foot = Direct THEN 1 ELSE 0) <= g.chunk[q].size
    <3>1. CASE Resizes(h, B, p, r, Padded(n))
      <4>1. q = p /\ B2 = B
        BY <1>5, <2>2, <2>3, <2>4, <3>1 DEF Resizes
      <4> QED BY <2>1, <2>3, <3>1, <4>1 DEF Resizes
    <3>2. CASE Moves(h, B, p, r, Padded(n))
      BY <2>1, <2>2, <2>3, <2>4, <3>2 DEF Moves
    <3> QED BY <1>9, <3>1, <3>2
  <2>6. PICK N : N = Without(L, {p})
    OBVIOUS
  <2>7. DOMAIN N = K /\ \A x \in K : N[x] = L[x]
    BY <1>4, <2>3, <2>6, WithoutFacts
  <2>8. Sized(g, N)
    BY <1>4, <1>5, <2>3, <2>5, <2>7, SizedFrame
  <2>9. g.chunk[q].size \in Nat
    BY <2>5, BlockFacts
  <2>10. PICK M : M = Put(N, q, n)
    OBVIOUS
  <2>11. Sized(g, M)
    BY <1>6, <2>5, <2>8, <2>9, <2>10, SizedPut
  <2>12. DOMAIN M = B2
    BY <2>4, <2>7, <2>10, PutFacts
  <2>13. heap' = g /\ live' = M
    BY <1>1, <1>3, <1>9, <2>1, <2>2, <2>6, <2>10
  <2> QED BY <2>5, <2>11, <2>12, <2>13 DEF IInv
<1> QED BY <1>7, <1>8, <1>9 DEF Reallocated

\* Every step keeps the invariant.
LEMMA Stepwise == IInv /\ [Next]_vars => IInv'
<1> SUFFICES ASSUME IInv, [Next]_vars PROVE IInv'
  OBVIOUS
<1>1. CASE \E n \in Requests : MallocCall(n)
  BY <1>1, MallocKeeps
<1>2. CASE \E p \in DOMAIN live : FreeCall(p)
  BY <1>2, FreeKeeps
<1>3. CASE \E p \in DOMAIN live, n \in Requests : ReallocCall(p, n)
  BY <1>3, ReallocKeeps
<1>4. CASE UNCHANGED vars
  BY <1>4 DEF vars, IInv
<1> QED BY <1>1, <1>2, <1>3, <1>4 DEF Next

(***************************************************************************)
(* The properties follow from the invariant.                               *)
(***************************************************************************)

\* The types follow.
LEMMA TypeOKFollows == IInv => TypeOK
<1> SUFFICES ASSUME IInv PROVE TypeOK
  OBVIOUS
<1>1. Good(heap, DOMAIN live)
  BY DEF IInv
<1>2. Chunks \subseteq 0..Space - 1 /\ \A p \in Chunks : heap.chunk[p] \in
         [size : 1..Space, cinuse : BOOLEAN, pinuse : BOOLEAN, foot : -1..Space]
  BY <1>1 DEF Good, Headers, IsMap, Header, Chunks
<1>3. heap.top \in Chunks
  BY <1>1 DEF Good, TopLast, Regular, Chunks
<1>4. heap.dv \in Chunks \union {None}
  BY <1>1, TopNotDv DEF Vacant, Regular, Chunks
<1>5. heap.checks \in Nat \ {0} /\ heap.trim \in {TrimThreshold, Never}
  BY <1>1 DEF Good, Counters
<1> QED BY <1>2, <1>3, <1>4, <1>5 DEF TypeOK

\* The chunks in segments of the model and of the proof are the same.
LEMMA InSegsRegular == InSegs = Regular(heap.chunk)
  BY DEF InSegs, Regular, Chunks, Mapping

\* The segments are tiled.
LEMMA TiledFollows == IInv => Tiled
<1> SUFFICES ASSUME IInv PROVE Tiled
  OBVIOUS
<1>1. Geometry(heap.chunk, Segments(heap))
  BY DEF IInv, Good
<1>2. \A p \in InSegs : \E seg \in Segments(heap) :
       /\ Holds(seg, p)
       /\ LET end == p + heap.chunk[p].size
          IN  end = seg.base + seg.size \/ (end \in InSegs /\ Holds(seg, end))
  BY <1>1, InSegsRegular DEF Geometry, End, Limit
<1>3. \A seg \in Segments(heap) : seg.base \in InSegs
  BY <1>1, InSegsRegular DEF Geometry
<1>4. \A p, q \in InSegs : p < q => p + heap.chunk[p].size <= q
  BY <1>1, InSegsRegular DEF Geometry, End
<1> QED BY <1>2, <1>3, <1>4 DEF Tiled

\* The free chunks are those of Vacant.
LEMMA FreeVacant ==
  /\ \A p \in InSegs : IsFree(p) => p \in Vacant(heap)
  /\ \A p \in Vacant(heap) : p \in InSegs /\ IsFree(p)
  BY InSegsRegular DEF IsFree, Foot, Vacant

\* The chunk behind one that does not end its segment.
LEMMA BehindFacts ==
  ASSUME NEW h, NEW B, Good(h, B), NEW p \in Regular(h.chunk), NEW seg \in Segments(h),
         Holds(seg, p), NEW next, next = End(h.chunk, p), Holds(seg, next)
  PROVE  /\ next \in Regular(h.chunk)
         /\ p # h.top + h.topsize
<1>1. PICK g \in Segments(h) :
        Holds(g, p) /\ (next = Limit(g) \/ (Holds(g, next) /\ next \in Regular(h.chunk)))
  BY DEF Good, Geometry
<1>2. /\ \A f \in Segments(h) : f.base \in Nat /\ f.size \in Nat \ {0} /\ Limit(f) = f.base + f.size
      /\ \A f1, f2 \in Segments(h) : f1 = f2 \/ Limit(f1) <= f2.base \/ Limit(f2) <= f1.base
  BY DEF Good, Geometry, Limit
<1>3. p \in Int /\ h.chunk[p].size \in Nat \ {0}
  BY BlockFacts DEF Regular
<1>4. g = seg
  BY <1>1, <1>2, <1>3 DEF Holds
<1>5. next # Limit(seg)
  <2>1. next \in Int /\ seg.base <= next /\ next < seg.base + seg.size
    BY <1>3 DEF Holds, End
  <2> QED BY <1>2, <2>1
<1>6. p # h.top + h.topsize
  <2> SUFFICES ASSUME p = h.top + h.topsize PROVE FALSE
    OBVIOUS
  <2>1. h.chunk[p].size = TopFoot /\ p + TopFoot = Limit(h.seg) /\ Holds(h.seg, p)
    BY DEF Good, TopLast
  <2>2. h.seg \in Segments(h)
    BY DEF Segments
  <2>3. h.seg = seg
    BY <1>2, <1>3, <2>1, <2>2 DEF Holds
  <2>4. next = Limit(seg)
    BY <2>1, <2>3 DEF End
  <2> QED BY <1>5, <2>4
<1> QED BY <1>1, <1>4, <1>5, <1>6

\* The tags agree.
LEMMA TagsAgreeFollows == IInv => TagsAgree
<1> SUFFICES ASSUME IInv,
                    NEW p \in InSegs, p # heap.top,
                    NEW seg \in Segments(heap), Holds(seg, p),
                    NEW next, next = p + heap.chunk[p].size, Holds(seg, next)
             PROVE  /\ heap.chunk[next].pinuse = heap.chunk[p].cinuse
                    /\ IsFree(p) => heap.chunk[next].foot = heap.chunk[p].size
  BY DEF TagsAgree
<1>1. Good(heap, DOMAIN live)
  BY DEF IInv
<1>2. next = End(heap.chunk, p) /\ p \in Regular(heap.chunk)
  BY InSegsRegular DEF End
<1>3. next \in Regular(heap.chunk) /\ p # heap.top + heap.topsize
  BY <1>1, <1>2, BehindFacts
<1>4. heap.chunk[next].pinuse \in BOOLEAN /\ heap.chunk[p].cinuse \in BOOLEAN
  BY <1>1, <1>2, <1>3 DEF Good, Headers, IsMap, Header, Regular
<1>5. CASE heap.chunk[p].cinuse
  <2>1. heap.chunk[next].pinuse
    BY <1>1, <1>2, <1>3, <1>5, NextPinuse
  <2> QED BY <1>4, <1>5, <2>1 DEF IsFree
<1>6. CASE ~heap.chunk[p].cinuse
  <2>1. p \in Vacant(heap)
    BY <1>2, <1>3, <1>6 DEF Vacant
  <2>2. ~heap.chunk[next].pinuse /\ heap.chunk[next].foot = heap.chunk[p].size
    BY <1>1, <1>2, <2>1 DEF Good, Tags
  <2> QED BY <1>4, <1>6, <2>2
<1> QED BY <1>5, <1>6

\* The free chunks are filed once.
LEMMA FilingFollows == IInv => Filing
<1> SUFFICES ASSUME IInv PROVE Filing
  OBVIOUS
<1>1. Good(heap, DOMAIN live)
  BY DEF IInv
<1>2. PICK V : V = Vacant(heap)
  OBVIOUS
<1>3. /\ \A p \in V : heap.chunk[End(heap.chunk, p)].cinuse /\ MinChunk <= heap.chunk[p].size
      /\ \A p \in V : p = heap.dv \/ <<p, heap.chunk[p].size>> \in heap.bins
      /\ \A y \in heap.bins : y[1] \in V /\ y[1] # heap.dv /\ y = <<y[1], heap.chunk[y[1]].size>>
      /\ heap.dv = None => heap.dvsize = 0
      /\ heap.dv # None => heap.dv \in V /\ heap.dvsize = heap.chunk[heap.dv].size
  BY <1>1, <1>2 DEF Good, Found, FiledIn
<1>4. V = {q \in InSegs : IsFree(q)}
  BY <1>2, FreeVacant
<1>5. \A p \in InSegs : IsFree(p) => heap.chunk[p + heap.chunk[p].size].cinuse
  BY <1>3, <1>4 DEF End
<1>6. PICK W : W = {q \in InSegs : IsFree(q) /\ q # heap.dv}
  OBVIOUS
<1>7. W = V \ {heap.dv}
  BY <1>4, <1>6
<1>8. heap.bins = {<<p, heap.chunk[p].size>> : p \in W}
  BY <1>3, <1>7
<1>9. heap.topsize = heap.chunk[heap.top].size
  BY <1>1 DEF Good, TopLast
<1>10. IF heap.dv = None THEN heap.dvsize = 0
       ELSE IsFree(heap.dv) /\ heap.dvsize = heap.chunk[heap.dv].size
  BY <1>3, <1>4
<1>11. \A b \in heap.bins : b[2] >= MinChunk
  <2> SUFFICES ASSUME NEW b \in heap.bins PROVE b[2] >= MinChunk
    OBVIOUS
  <2>1. b[1] \in V /\ b = <<b[1], heap.chunk[b[1]].size>>
    BY <1>3
  <2>2. MinChunk <= heap.chunk[b[1]].size /\ b[2] = heap.chunk[b[1]].size
    BY <1>3, <2>1
  <2>3. heap.chunk[b[1]].size \in Int /\ MinChunk \in Int
    <3>1. b[1] \in DOMAIN heap.chunk
      BY <1>2, <2>1 DEF Vacant, Regular
    <3> QED BY <1>1, <3>1, BlockFacts, ConstantsOK
  <2> QED BY <2>2, <2>3
<1> QED BY <1>5, <1>6, <1>8, <1>9, <1>10, <1>11 DEF Filing

\* The blocks of the program are in use, and nothing else is.
LEMMA BlocksKeptFollows == IInv => BlocksKept
<1> SUFFICES ASSUME IInv PROVE BlocksKept
  OBVIOUS
<1>1. /\ \A p \in DOMAIN heap.chunk : heap.chunk[p].cinuse <=> p \in DOMAIN live \union heap.sys
      /\ DOMAIN live \subseteq DOMAIN heap.chunk /\ heap.sys \subseteq DOMAIN heap.chunk
      /\ DOMAIN live \intersect heap.sys = {}
  BY DEF IInv, Good, Kept, Regular
<1>2. {p \in Chunks : heap.chunk[p].cinuse} = DOMAIN live \union heap.sys
  BY <1>1 DEF Chunks
<1>3. \A p \in DOMAIN live : live[p] + (IF Mapping(p) THEN 2 ELSE 1) <= heap.chunk[p].size
  BY DEF IInv, Sized, Mapping
<1> QED BY <1>1, <1>2, <1>3 DEF BlocksKept

\* Only realloc takes a block from the program and gives it another one.
LEMMA ApartStep ==
  ASSUME IInv, [Next]_vars
  PROVE  \A p \in DOMAIN live \ DOMAIN live' : \A q \in DOMAIN live' \ DOMAIN live :
           Words(heap, p) \intersect Words(heap', q) = {}
<1> SUFFICES ASSUME NEW p \in DOMAIN live \ DOMAIN live', NEW q \in DOMAIN live' \ DOMAIN live
             PROVE  Words(heap, p) \intersect Words(heap', q) = {}
  OBVIOUS
<1>1. CASE \E n \in Requests : MallocCall(n)
  <2>1. DOMAIN live \subseteq DOMAIN live'
    BY <1>1 DEF MallocCall, Put
  <2> QED BY <2>1
<1>2. CASE \E x \in DOMAIN live : FreeCall(x)
  <2>1. PICK x \in DOMAIN live : live' = Without(live, {x})
    BY <1>2 DEF FreeCall
  <2>2. DOMAIN live' \subseteq DOMAIN live
    BY <2>1, WithoutFacts
  <2> QED BY <2>2
<1>3. CASE \E x \in DOMAIN live, n \in Requests : ReallocCall(x, n)
  <2>1. PICK x \in DOMAIN live, n \in Requests : ReallocCall(x, n)
    BY <1>3
  <2>2. PICK r \in Realloc(heap, x, n) :
        /\ heap' = r.heap
        /\ live' = IF r.at = None THEN live ELSE Put(Without(live, {x}), r.at, n)
    BY <2>1 DEF ReallocCall
  <2>3. r.at # None /\ live' = Put(Without(live, {x}), r.at, n)
    BY <2>2
  <2>4. DOMAIN live' = (DOMAIN live \ {x}) \union {r.at}
    <3>1. PICK M : M = Without(live, {x})
      OBVIOUS
    <3>2. DOMAIN M = DOMAIN live \ {x}
      BY <3>1, WithoutFacts
    <3> QED BY <2>3, <3>1, <3>2 DEF Put
  <2>5. p = x /\ q = r.at
    BY <2>4
  <2>6. Reallocated(heap, DOMAIN live, x, r, Padded(n))
    BY <2>1, <2>2, ReallocFacts, ConstantsOK DEF IInv
  <2>7. Moves(heap, DOMAIN live, x, r, Padded(n))
    BY <2>3, <2>5, <2>6 DEF Reallocated, Resizes
  <2> QED BY <2>2, <2>5, <2>7 DEF Moves
<1>4. CASE UNCHANGED vars
  BY <1>4 DEF vars
<1> QED BY <1>1, <1>2, <1>3, <1>4 DEF Next

(***************************************************************************)
(* Theorems.                                                               *)
(***************************************************************************)

\* Between any two calls the heap is good with the blocks that the program holds,
\* and each has the words it was requested with.
THEOREM Invariant == Spec => []IInv
  BY Initially, Stepwise, PTL DEF Spec

\* Headers, top, designated victim and counters have their types, with any
\* sizes of chunks, segments and requests.
THEOREM Types == Spec => []TypeOK
  BY Invariant, TypeOKFollows, PTL

\* lj_alloc.c splits, merges, extends and gives back memory so that the chunks
\* of every segment fill it without a gap and without an overlap.
THEOREM NoGapNoOverlap == Spec => []Tiled
  BY Invariant, TiledFollows, PTL

\* PINUSE and prev_foot, which consolidation trusts, tell the truth.
THEOREM HeadersTrue == Spec => []TagsAgree
  BY Invariant, TagsAgreeFollows, PTL

\* Every free chunk is merged as far as it can be and is filed exactly once.
THEOREM FreeFiledOnce == Spec => []Filing
  BY Invariant, FilingFollows, PTL

\* No call takes a block from the program that it has not freed, or leaves it
\* less room than it asked for, and nothing leaks.
THEOREM NoBlockLost == Spec => []BlocksKept
  BY Invariant, BlocksKeptFollows, PTL

\* lj_alloc_realloc copies between memory that does not overlap.
THEOREM CopiesApart == Spec => Apart
<1>1. IInv /\ [Next]_vars =>
        [\A p \in DOMAIN live \ DOMAIN live' : \A q \in DOMAIN live' \ DOMAIN live :
           Words(heap, p) \intersect Words(heap', q) = {}]_vars
  BY ApartStep
<1> QED BY <1>1, Invariant, PTL DEF Spec, Apart

=============================================================================
