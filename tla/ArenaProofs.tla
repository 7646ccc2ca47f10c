---------------------------- MODULE ArenaProofs ----------------------------
(***************************************************************************)
(* The arena never hands out a byte twice nor a byte outside its blocks,   *)
(* for every block size, alignment, request size and malloc placement.     *)
(***************************************************************************)
EXTENDS Arena, TLAPS

USE ArenaAssumption

\* ALIGN_UP moves a pointer up, by less than the alignment.
LEMMA AlignUpBounds ==
  ASSUME NEW p \in Nat, NEW a \in Nat \ {0}
  PROVE  /\ ALIGN_UP(p, a) \in Nat
         /\ p <= ALIGN_UP(p, a)
         /\ ALIGN_UP(p, a) < p + a
<1>1. p % a \in 0..(a - 1)
  BY SMT
<1>2. CASE p % a = 0
  BY <1>2 DEF ALIGN_UP
<1>3. CASE p % a # 0
  <2>1. p % a \in Int /\ 1 <= p % a /\ p % a <= a - 1
    BY <1>1, <1>3
  <2> DEFINE m == p % a
  <2>2. m \in Int /\ 1 <= m /\ m <= a - 1
    BY <2>1
  <2>3. ALIGN_UP(p, a) = p + (a - m)
    BY <1>3 DEF ALIGN_UP
  <2> HIDE DEF m
  <2>4. QED
    BY <2>2, <2>3
<1>4. QED
  BY <1>2, <1>3

\* What arena_new_block returns: a fresh block, disjoint from the live ones,
\* with room for min_size bytes.
LEMMA NewBlockFacts ==
  ASSUME NEW min_size \in Nat, NEW b \in arena_new_block(min_size),
         Live \subseteq Block
  PROVE  /\ b \in Block
         /\ b.base = b.mem + HDR
         /\ b.base + min_size <= b.end
         /\ \A c \in Live : ~Overlap(b.mem, b.end, c.mem, c.end)
<1>1. PICK mem \in Addr : /\ malloc(mem, BlockSize(min_size))
                          /\ b = MakeBlock(mem, BlockSize(min_size))
  BY DEF arena_new_block
<1>2. BlockSize(min_size) \in Nat /\ min_size <= BlockSize(min_size)
  BY DEF BlockSize
<1>3. mem \in Nat
  OBVIOUS
<1>4. b = [mem |-> mem, base |-> mem + HDR, end |-> mem + HDR + BlockSize(min_size)]
  BY <1>1 DEF MakeBlock
<1>5. QED
  BY <1>1, <1>2, <1>3, <1>4 DEF malloc, Block, Overlap

\* Handing out a piece of the bump window keeps the invariant: the piece comes
\* from the block behind the window, and no earlier allocation reaches into it.
LEMMA BumpPreserves ==
  ASSUME IInv, head # {}, NEW lo \in Nat, NEW hi \in Nat,
         ptr <= lo, lo <= hi, ~stale => hi <= end,
         Bump(lo, hi), UNCHANGED <<head, next, end>>
  PROVE  IInv'
<1> DEFINE new == [lo |-> lo, hi |-> hi]
<1>1. /\ allocs' = allocs \cup {new} /\ ptr' = hi /\ stale' = stale
      /\ head' = head /\ next' = next /\ end' = end /\ Live' = Live
      /\ new \in [lo : Nat, hi : Nat] /\ new.lo = lo /\ new.hi = hi
  BY DEF Bump, Live
<1>2. Base'
  <2>1. TypeOK'
    BY <1>1 DEF IInv, Base, TypeOK
  <2>2. BlocksDisjoint'
    BY <1>1 DEF IInv, Base, BlocksDisjoint, Overlap
  <2>3. RangesProper'
    BY <1>1 DEF IInv, Base, RangesProper
  <2>4. QED
    BY <2>1, <2>2, <2>3 DEF Base
<1>3. SUFFICES ASSUME ~stale PROVE Sound'
  BY <1>1, <1>2 DEF IInv
<1>4. PICK w \in Live : w.base <= ptr /\ ptr <= end /\ end = w.end
  BY <1>3 DEF IInv, Sound, WindowFree
<1>5. Live \subseteq Block /\ ptr \in Nat /\ end \in Nat
  BY DEF IInv, Base, TypeOK, Live
<1>6. InLiveBlocks'
  <2>1. w.base <= lo /\ hi <= w.end
    BY <1>3, <1>4, <1>5 DEF Block
  <2>2. QED
    BY <1>1, <1>3, <1>4, <2>1 DEF IInv, Sound, InLiveBlocks
<1>7. \A r \in allocs : ~Overlap(r.lo, r.hi, lo, hi) /\ ~Overlap(r.lo, r.hi, hi, end)
  <2> SUFFICES ASSUME NEW r \in allocs
               PROVE  ~Overlap(r.lo, r.hi, lo, hi) /\ ~Overlap(r.lo, r.hi, hi, end)
    OBVIOUS
  <2>1. r.lo \in Nat /\ r.hi \in Nat /\ r.lo <= r.hi
    BY DEF IInv, Base, TypeOK, RangesProper
  <2>2. ~Overlap(r.lo, r.hi, ptr, end)
    BY <1>3 DEF IInv, Sound, WindowFree
  <2>3. QED
    BY <1>3, <1>5, <2>1, <2>2 DEF Overlap
<1>8. Apart'
  <2> SUFFICES ASSUME NEW r \in allocs', NEW s \in allocs', r # s
               PROVE  ~Overlap(r.lo, r.hi, s.lo, s.hi)
    BY DEF Apart, Overlap
  <2>1. CASE r \in allocs /\ s \in allocs
    BY <1>3, <2>1 DEF IInv, Sound, Apart
  <2>2. CASE r \in allocs /\ s = new
    BY <1>7, <2>2
  <2>3. CASE r = new /\ s \in allocs
    BY <1>7, <2>3 DEF Overlap
  <2>4. QED
    BY <1>1, <2>1, <2>2, <2>3
<1>9. WindowFree'
  <2>1. \A r \in allocs' : ~Overlap(r.lo, r.hi, ptr', end')
    <3>1. ~Overlap(lo, hi, hi, end)
      BY <1>5 DEF Overlap
    <3>2. QED
      BY <1>1, <1>7, <3>1
  <2>2. w.base <= ptr' /\ ptr' <= end
    BY <1>1, <1>3, <1>4, <1>5 DEF Block
  <2>3. QED
    BY <1>1, <1>4, <2>1, <2>2 DEF WindowFree, Overlap
<1>10. QED
  BY <1>6, <1>8, <1>9 DEF Sound

\* Redirecting the window into a fresh block keeps the invariant: every
\* earlier allocation lies in an older block, hence apart from the new one.
LEMMA RedirectPreserves ==
  ASSUME IInv, head # {}, NEW b \in Block, NEW lo \in Nat, NEW hi \in Nat,
         b.base = b.mem + HDR,
         \A c \in Live : ~Overlap(b.mem, b.end, c.mem, c.end),
         b.base <= lo, lo <= hi, hi <= b.end,
         Redirect(b, lo, hi), UNCHANGED head
  PROVE  IInv'
<1> DEFINE new == [lo |-> lo, hi |-> hi]
<1>1. /\ allocs' = allocs \cup {new} /\ ptr' = hi /\ end' = b.end /\ stale' = stale
      /\ head' = head /\ next' = next \cup {b} /\ Live' = Live \cup {b}
      /\ new \in [lo : Nat, hi : Nat] /\ new.lo = lo /\ new.hi = hi
  BY DEF Redirect, Bump, Live
<1>2. Live \subseteq Block /\ b.base \in Nat /\ b.end \in Nat /\ b.mem \in Nat
  BY DEF IInv, Base, TypeOK, Live, Block
<1>3. Base'
  <2>1. TypeOK'
    BY <1>1, <1>2 DEF IInv, Base, TypeOK
  <2>2. \A c, d \in Live' : c # d => ~Overlap(c.mem, c.end, d.mem, d.end)
    BY <1>1 DEF IInv, Base, BlocksDisjoint, Overlap
  <2>3. \A c \in Live' : c.base = c.mem + HDR /\ c.base <= c.end
    BY <1>1, <1>2 DEF IInv, Base, BlocksDisjoint
  <2>4. (head' = {} => next' = {} /\ allocs' = {}) /\ (\A c, d \in head' : c = d)
    BY <1>1 DEF IInv, Base, BlocksDisjoint
  <2>5. BlocksDisjoint'
    BY <2>2, <2>3, <2>4 DEF BlocksDisjoint, Overlap
  <2>6. RangesProper'
    BY <1>1 DEF IInv, Base, RangesProper
  <2>7. QED
    BY <2>1, <2>5, <2>6 DEF Base
<1>4. SUFFICES ASSUME ~stale PROVE Sound'
  BY <1>1, <1>3 DEF IInv
<1>5. InLiveBlocks'
  BY <1>1, <1>4 DEF IInv, Sound, InLiveBlocks
<1>6. \A r \in allocs : ~Overlap(r.lo, r.hi, lo, hi) /\ ~Overlap(r.lo, r.hi, hi, b.end)
  <2> SUFFICES ASSUME NEW r \in allocs
               PROVE  ~Overlap(r.lo, r.hi, lo, hi) /\ ~Overlap(r.lo, r.hi, hi, b.end)
    OBVIOUS
  <2>1. PICK c \in Live : c.base <= r.lo /\ r.hi <= c.end
    BY <1>4 DEF IInv, Sound, InLiveBlocks
  <2>2. /\ r.lo \in Nat /\ r.hi \in Nat /\ r.lo <= r.hi
        /\ c.mem \in Nat /\ c.base \in Nat /\ c.end \in Nat
        /\ c.base = c.mem + HDR
    BY <1>2 DEF IInv, Base, TypeOK, RangesProper, BlocksDisjoint, Block
  <2>3. ~Overlap(b.mem, b.end, c.mem, c.end)
    OBVIOUS
  <2>4. QED
    BY <1>2, <2>1, <2>2, <2>3 DEF Overlap
<1>7. Apart'
  <2> SUFFICES ASSUME NEW r \in allocs', NEW s \in allocs', r # s
               PROVE  ~Overlap(r.lo, r.hi, s.lo, s.hi)
    BY DEF Apart, Overlap
  <2>1. CASE r \in allocs /\ s \in allocs
    BY <1>4, <2>1 DEF IInv, Sound, Apart
  <2>2. CASE r \in allocs /\ s = new
    BY <1>6, <2>2
  <2>3. CASE r = new /\ s \in allocs
    BY <1>6, <2>3 DEF Overlap
  <2>4. QED
    BY <1>1, <2>1, <2>2, <2>3
<1>8. WindowFree'
  <2>1. \A r \in allocs' : ~Overlap(r.lo, r.hi, ptr', end')
    <3>1. ~Overlap(lo, hi, hi, b.end)
      BY <1>2 DEF Overlap
    <3>2. QED
      BY <1>1, <1>6, <3>1
  <2>2. b.base <= ptr' /\ ptr' <= end' /\ end' = b.end /\ b \in Live'
    BY <1>1, <1>2
  <2>3. QED
    BY <2>1, <2>2 DEF WindowFree, Overlap
<1>9. QED
  BY <1>5, <1>7, <1>8 DEF Sound

\* Every operation of arena.h preserves the invariant.
LEMMA StepPreserves == IInv /\ [Next]_vars => IInv'
<1> SUFFICES ASSUME IInv, [Next]_vars PROVE IInv'
  OBVIOUS
<1>t. ptr \in Nat /\ end \in Nat /\ Live \subseteq Block
  BY DEF IInv, Base, TypeOK, Live
<1>1. CASE arena_create
  <2>1. PICK mem \in Addr :
          /\ malloc(mem, BLOCK)
          /\ head' = {MakeBlock(mem, BLOCK)}
          /\ ptr' = MakeBlock(mem, BLOCK).base /\ end' = MakeBlock(mem, BLOCK).end
    BY <1>1 DEF arena_create
  <2> DEFINE b == MakeBlock(mem, BLOCK)
  <2>2. /\ b = [mem |-> mem, base |-> mem + HDR, end |-> mem + HDR + BLOCK]
        /\ mem \in Nat
    BY DEF MakeBlock
  <2>3. b \in Block /\ b.base = b.mem + HDR /\ b.base <= b.end
    BY <2>2 DEF Block
  <2>4. head = {} /\ next = {} /\ allocs = {} /\ next' = {} /\ allocs' = {}
    BY <1>1 DEF arena_create, IInv, Base, BlocksDisjoint
  <2>5. head' = {b} /\ ptr' = b.base /\ end' = b.end /\ Live' = {b}
    BY <2>1, <2>4 DEF Live
  <2> HIDE DEF b
  <2>6. TypeOK' /\ InLiveBlocks' /\ Apart' /\ RangesProper'
    BY <1>1, <2>3, <2>4, <2>5 DEF arena_create, TypeOK, Block, InLiveBlocks, Apart, RangesProper
  <2>7. WindowFree'
    BY <2>3, <2>4, <2>5 DEF WindowFree, Block
  <2>8. BlocksDisjoint'
    BY <2>3, <2>4, <2>5 DEF BlocksDisjoint
  <2>9. QED
    BY <2>6, <2>7, <2>8 DEF IInv, Base, Sound
<1>2. CASE Alloc
  <2>1. PICK request \in Sizes : arena_alloc(request)
    BY <1>2 DEF Alloc
  <2> DEFINE size == ALIGN_UP(request, ALIGN)
  <2>2. size \in Nat
    BY AlignUpBounds
  <2>3. CASE ptr + size <= end /\ Bump(ptr, ptr + size) /\ UNCHANGED <<next, end>>
    <3>1. head # {} /\ UNCHANGED <<head, next, end>>
      BY <2>1, <2>3 DEF arena_alloc
    <3>2. ptr + size \in Nat /\ ptr <= ptr /\ ptr <= ptr + size
      BY <1>t, <2>2
    <3> HIDE DEF size
    <3>3. QED
      BY <1>t, <2>3, <3>1, <3>2, BumpPreserves
  <2>4. CASE \E b \in arena_new_block(size) : Redirect(b, b.base, b.base + size)
    <3>1. PICK b \in arena_new_block(size) : Redirect(b, b.base, b.base + size)
      BY <2>4
    <3>2. head # {} /\ UNCHANGED head
      BY <2>1 DEF arena_alloc
    <3> HIDE DEF size
    <3>3. /\ b \in Block /\ b.base = b.mem + HDR /\ b.base + size <= b.end
          /\ \A c \in Live : ~Overlap(b.mem, b.end, c.mem, c.end)
      BY <1>t, <2>2, NewBlockFacts
    <3>4. b.base \in Nat /\ b.base + size \in Nat /\ b.base <= b.base + size
      BY <2>2, <3>3 DEF Block
    <3>5. QED
      BY <3>1, <3>2, <3>3, <3>4, RedirectPreserves
  <2>5. QED
    BY <2>1, <2>3, <2>4 DEF arena_alloc
<1>3. CASE AllocAligned
  <2>1. PICK size \in Sizes, request \in Aligns : arena_alloc_aligned(size, request)
    BY <1>3 DEF AllocAligned
  <2> DEFINE align  == IF request < ALIGN THEN ALIGN ELSE request
             lo     == ALIGN_UP(ptr, align)
             padded == size + (lo - ptr)
  <2>2. align \in Nat \ {0} /\ size \in Nat
    OBVIOUS
  <2> HIDE DEF align
  <2>3. lo \in Nat /\ ptr <= lo /\ padded \in Nat /\ size <= padded
    <3>1. lo \in Nat /\ ptr <= lo
      BY <1>t, <2>2, AlignUpBounds
    <3> HIDE DEF lo
    <3>2. QED
      BY <1>t, <2>2, <3>1
  <2>4. CASE ptr + padded <= end /\ Bump(lo, lo + size) /\ UNCHANGED <<next, end>>
    <3>1. head # {} /\ UNCHANGED <<head, next, end>>
      BY <2>1, <2>4 DEF arena_alloc_aligned
    <3> HIDE DEF lo
    <3>2. lo + size \in Nat /\ lo <= lo + size /\ lo + size <= end
      BY <1>t, <2>2, <2>3, <2>4
    <3>3. QED
      BY <2>3, <2>4, <3>1, <3>2, BumpPreserves
  <2>5. CASE \E b \in arena_new_block(padded + align) :
               Redirect(b, ALIGN_UP(b.base, align), ALIGN_UP(b.base, align) + size)
    <3>1. PICK b \in arena_new_block(padded + align) :
               Redirect(b, ALIGN_UP(b.base, align), ALIGN_UP(b.base, align) + size)
      BY <2>5
    <3>2. head # {} /\ UNCHANGED head
      BY <2>1 DEF arena_alloc_aligned
    <3> HIDE DEF padded
    <3>3. padded + align \in Nat
      BY <2>2, <2>3
    <3>4. /\ b \in Block /\ b.base = b.mem + HDR
          /\ b.base + (padded + align) <= b.end
          /\ \A c \in Live : ~Overlap(b.mem, b.end, c.mem, c.end)
      BY <1>t, <3>3, NewBlockFacts
    <3> DEFINE start == ALIGN_UP(b.base, align)
    <3>5. b.base \in Nat /\ b.end \in Nat
      BY <3>4 DEF Block
    <3>6. start \in Nat /\ b.base <= start /\ start < b.base + align
      BY <2>2, <3>5, AlignUpBounds
    <3> HIDE DEF start
    <3>7. start + size \in Nat /\ start <= start + size /\ start + size <= b.end
      BY <2>2, <2>3, <3>4, <3>5, <3>6
    <3>8. Redirect(b, start, start + size)
      BY <3>1 DEF start
    <3>9. QED
      BY <3>2, <3>4, <3>6, <3>7, <3>8, RedirectPreserves
  <2>6. QED
    BY <2>1, <2>4, <2>5 DEF arena_alloc_aligned, align
<1>4. CASE arena_destroy
  <2>1. head' = {} /\ next' = {} /\ allocs' = {} /\ ptr' = ptr /\ end' = end /\ stale' = stale
    BY <1>4 DEF arena_destroy
  <2>2. Base'
    BY <2>1 DEF IInv, Base, TypeOK, BlocksDisjoint, RangesProper, Live
  <2>3. Sound'
    BY <2>1 DEF Sound, InLiveBlocks, Apart, WindowFree
  <2>4. QED
    BY <2>2, <2>3 DEF IInv
<1>5. CASE arena_reset
  <2>1. PICK h \in head : head = {h}
    BY <1>5 DEF arena_reset, IInv, Base, BlocksDisjoint
  <2>2. /\ next' = {} /\ allocs' = {} /\ head' = {h} /\ end' = end
        /\ ptr' = h.base /\ Live' = {h} /\ stale' = (stale \/ next # {})
    BY <1>5, <2>1 DEF arena_reset, Live
  <2>3. h \in Block /\ h.base = h.mem + HDR /\ h.base <= h.end
    BY <1>t, <2>1 DEF IInv, Base, BlocksDisjoint, Live
  <2>4. Base'
    <3>1. TypeOK' /\ RangesProper'
      BY <2>2, <2>3 DEF IInv, Base, TypeOK, Block, RangesProper
    <3>2. BlocksDisjoint'
      BY <2>2, <2>3 DEF BlocksDisjoint
    <3>3. QED
      BY <3>1, <3>2 DEF Base
  <2>5. ASSUME ~stale' PROVE Sound'
    <3>1. ~stale /\ Live = {h}
      BY <2>1, <2>2, <2>5 DEF Live, IInv, Base, TypeOK
    <3>2. end = h.end
      BY <2>1, <3>1 DEF IInv, Sound, WindowFree
    <3>3. InLiveBlocks' /\ Apart'
      BY <2>2 DEF InLiveBlocks, Apart
    <3>4. WindowFree'
      BY <2>2, <2>3, <3>2 DEF WindowFree, Block
    <3>5. QED
      BY <3>3, <3>4 DEF Sound
  <2>6. QED
    BY <2>4, <2>5 DEF IInv
<1>6. CASE UNCHANGED vars
  BY <1>6 DEF vars, IInv, Base, Sound, TypeOK, InLiveBlocks, Apart,
              WindowFree, BlocksDisjoint, RangesProper, Live, Overlap
<1>7. QED
  BY <1>1, <1>2, <1>3, <1>4, <1>5, <1>6 DEF Next

\* The inductive invariant: its part on allocations speaks of the arenas that
\* were not reset after they had grown.
THEOREM ArenaInvariant == Spec => []IInv
<1>1. Init => IInv
  <2> SUFFICES ASSUME Init PROVE IInv
    OBVIOUS
  <2>1. TypeOK
    BY DEF Init, TypeOK
  <2>2. BlocksDisjoint /\ RangesProper
    BY DEF Init, BlocksDisjoint, RangesProper, Live
  <2>3. InLiveBlocks /\ Apart /\ WindowFree
    BY DEF Init, InLiveBlocks, Apart, WindowFree
  <2>4. QED
    BY <2>1, <2>2, <2>3 DEF IInv, Base, Sound
<1>2. QED
  BY <1>1, StepPreserves, PTL DEF Spec

\* Type correctness of the arena's fields.
THEOREM ArenaTypeOK == Spec => []TypeOK
<1>1. IInv => TypeOK
  BY DEF IInv, Base
<1>2. QED
  BY <1>1, ArenaInvariant, PTL

\* arena_alloc and arena_alloc_aligned only hand out bytes of live blocks, as
\* long as the arena is not reset after it has grown.
THEOREM ArenaAllocsInLiveBlocks == Spec => []AllocsInLiveBlocks
<1>1. IInv => AllocsInLiveBlocks
  BY DEF IInv, Sound, AllocsInLiveBlocks
<1>2. QED
  BY <1>1, ArenaInvariant, PTL

\* arena_alloc and arena_alloc_aligned never hand out a byte twice, under the same
\* condition.
THEOREM ArenaAllocsDisjoint == Spec => []AllocsDisjoint
<1>1. IInv => AllocsDisjoint
  BY DEF IInv, Sound, AllocsDisjoint
<1>2. QED
  BY <1>1, ArenaInvariant, PTL

=============================================================================
