------------------------------- MODULE Arena -------------------------------
(***************************************************************************)
(* The bump allocator of src/arena.c.  Every token array, AST node, scope  *)
(* and emitter of the compiler lives in an arena: a head block plus a list *)
(* of further blocks, and ONE bump window [ptr, end) kept in the head      *)
(* block's header, which arena_alloc_unzeroed redirects into the newest    *)
(* block.  Memory is a line of byte addresses; malloc is external and may  *)
(* place a block anywhere that is free, or fail.                           *)
(***************************************************************************)
EXTENDS Integers, FiniteSets

CONSTANTS
  Addr,          \* addresses malloc may return
  Sizes,         \* request sizes the clients use
  Aligns,        \* alignments passed to arena_alloc_aligned
  ALIGN,         \* 16 in the code
  HDR,           \* sizeof(Arena)
  BLOCK,         \* DEFAULT_BLOCK_SIZE
  MaxAllocs      \* bound on live allocations explored

ASSUME ArenaAssumption ==
  /\ Addr \subseteq Nat
  /\ Sizes \subseteq Nat
  /\ Aligns \subseteq Nat \ {0}
  /\ ALIGN \in Nat \ {0}
  /\ HDR \in Nat
  /\ BLOCK \in Nat
  /\ MaxAllocs \in Nat

VARIABLES
  head,     \* the set holding the head block, {} when no arena exists
  next,     \* the blocks linked behind the head
  ptr, end, \* the bump window (a->ptr, a->end)
  allocs,   \* history: the byte ranges handed out and not yet released
  stale     \* history: the arena was reset after it had grown

vars == <<head, next, ptr, end, allocs, stale>>

(***************************************************************************)
(* A block occupies [mem, end): HDR header bytes, then its data [base,end).*)
(***************************************************************************)
Block == [mem : Nat, base : Nat, end : Nat]

Live == head \cup next

ALIGN_UP(p, a) == IF p % a = 0 THEN p ELSE p + (a - (p % a))

Overlap(lo1, hi1, lo2, hi2) == lo1 < hi2 /\ lo2 < hi1

\* Mutant: the header is taken to lie in front of what malloc returned.
MakeBlock_HeaderBefore(mem, size) == [mem |-> mem, base |-> mem - HDR, end |-> mem + size]

MakeBlock(mem, size) == [mem |-> mem, base |-> mem + HDR, end |-> mem + HDR + size]

\* External: malloc returns an aligned region disjoint from every live block.
malloc(mem, size) ==
  /\ mem % ALIGN = 0
  /\ \A b \in Live : ~Overlap(mem, mem + HDR + size, b.mem, b.end)

\* The size arena_new_block gives a block that must hold min_size bytes.
BlockSize(min_size) == IF min_size > BLOCK THEN min_size + BLOCK ELSE BLOCK

Init ==
  /\ head = {} /\ next = {}
  /\ ptr = 0 /\ end = 0
  /\ allocs = {}
  /\ stale = FALSE

arena_create ==
  /\ head = {}
  /\ \E mem \in Addr :
       LET b == MakeBlock(mem, BLOCK) IN
       /\ malloc(mem, BLOCK)
       /\ head' = {b} /\ ptr' = b.base /\ end' = b.end
  /\ stale' = FALSE
  /\ UNCHANGED <<next, allocs>>

\* Hand out [lo, hi) and move a->ptr behind it.
Bump(lo, hi) ==
  /\ ptr' = hi
  /\ allocs' = allocs \cup {[lo |-> lo, hi |-> hi]}
  /\ UNCHANGED stale

\* arena_new_block: the blocks malloc can return with room for min_size bytes.
\* When it fails the callers return NULL and no field changes: a stutter.
arena_new_block(min_size) ==
  {MakeBlock(mem, BlockSize(min_size)) :
      mem \in {m \in Addr : malloc(m, BlockSize(min_size))}}

\* Link block b and redirect the window into it.
Redirect(b, lo, hi) ==
  /\ next' = next \cup {b}
  /\ end' = b.end
  /\ Bump(lo, hi)

\* Mutant: the check forgets the size of the request.
arena_alloc_NoSizeInCheck(request) ==
  LET size == ALIGN_UP(request, ALIGN) IN
  /\ head # {} /\ request # 0
  /\ \/ /\ ptr < end
        /\ Bump(ptr, ptr + size)
        /\ UNCHANGED <<next, end>>
     \/ /\ ptr >= end
        /\ \E b \in arena_new_block(size) : Redirect(b, b.base, b.base + size)
  /\ UNCHANGED head

\* Mutant: a->end is redirected into the new block, a->ptr is not.
arena_alloc_KeepPtr(request) ==
  LET size == ALIGN_UP(request, ALIGN) IN
  /\ head # {} /\ request # 0
  /\ \/ /\ ptr + size <= end
        /\ Bump(ptr, ptr + size)
        /\ UNCHANGED <<next, end>>
     \/ /\ ptr + size > end
        /\ \E b \in arena_new_block(size) : Redirect(b, ptr, ptr + size)
  /\ UNCHANGED head

\* arena_alloc / arena_alloc_unzeroed.  A request of zero bytes returns NULL.
arena_alloc(request) ==
  LET size == ALIGN_UP(request, ALIGN) IN
  /\ head # {} /\ request # 0
  /\ \/ /\ ptr + size <= end
        /\ Bump(ptr, ptr + size)
        /\ UNCHANGED <<next, end>>
     \/ /\ ptr + size > end
        /\ \E b \in arena_new_block(size) : Redirect(b, b.base, b.base + size)
  /\ UNCHANGED head

\* arena_alloc_aligned: the start is rounded up, the size is not.
arena_alloc_aligned(size, request) ==
  LET align  == IF request < ALIGN THEN ALIGN ELSE request
      lo     == ALIGN_UP(ptr, align)
      padded == size + (lo - ptr)
  IN
  /\ head # {}
  /\ \/ /\ ptr + padded <= end
        /\ Bump(lo, lo + size)
        /\ UNCHANGED <<next, end>>
     \/ /\ ptr + padded > end
        /\ \E b \in arena_new_block(padded + align) :
             Redirect(b, ALIGN_UP(b.base, align), ALIGN_UP(b.base, align) + size)
  /\ UNCHANGED head

\* arena_reset frees every block but the head.  a->end is not touched: of an
\* arena that has grown the window now ends where a freed block did.  The
\* compiler itself never calls it.
arena_reset ==
  /\ head # {}
  /\ next' = {}
  /\ ptr' = (CHOOSE b \in head : TRUE).base
  /\ allocs' = {}
  /\ stale' = (stale \/ next # {})
  /\ UNCHANGED <<head, end>>

arena_destroy ==
  /\ head # {}
  /\ head' = {} /\ next' = {} /\ allocs' = {}
  /\ UNCHANGED <<ptr, end, stale>>

Alloc == Cardinality(allocs) < MaxAllocs /\ \E s \in Sizes : arena_alloc(s)

AllocAligned ==
  /\ Cardinality(allocs) < MaxAllocs
  /\ \E s \in Sizes, a \in Aligns : arena_alloc_aligned(s, a)

Next == arena_create \/ Alloc \/ AllocAligned \/ arena_reset \/ arena_destroy

Spec == Init /\ [][Next]_vars

----------------------------------------------------------------------------
\* The state of arena.c has its types: addresses and sizes never go negative.
TypeOK ==
  /\ head \subseteq Block /\ next \subseteq Block
  /\ ptr \in Nat /\ end \in Nat /\ stale \in BOOLEAN
  /\ allocs \subseteq [lo : Nat, hi : Nat]

\* Every byte range arena_alloc* handed out lies inside the data area of a
\* block that is still allocated: no allocation runs over the end of its block
\* or into a freed one, wherever malloc placed the blocks.  Behind a reset of an
\* arena that has grown this is not so.
InLiveBlocks ==
  \A r \in allocs : \E b \in Live : b.base <= r.lo /\ r.hi <= b.end

\* The same of an arena that was not reset after it had grown.
AllocsInLiveBlocks == ~stale => InLiveBlocks

\* Two allocations never overlap.
Apart == \A r, s \in allocs : r # s => ~Overlap(r.lo, r.hi, s.lo, s.hi)

\* No byte is handed out twice, although ptr and end jump between blocks at
\* unrelated addresses, unless the arena was reset after it had grown.
AllocsDisjoint == ~stale => Apart

\* The bump window is backed by a live block and reaches no allocation.
WindowFree ==
  head # {} =>
    /\ \E b \in Live : b.base <= ptr /\ ptr <= end /\ end = b.end
    /\ \A r \in allocs : ~Overlap(r.lo, r.hi, ptr, end)

\* Live blocks do not overlap, there is one head at most, and no arena means
\* nothing is live.
BlocksDisjoint ==
  /\ \A b, c \in head : b = c
  /\ \A b, c \in Live : b # c => ~Overlap(b.mem, b.end, c.mem, c.end)
  /\ \A b \in Live : b.base = b.mem + HDR /\ b.base <= b.end
  /\ head = {} => next = {} /\ allocs = {}

RangesProper == \A r \in allocs : r.lo <= r.hi

\* What holds of every arena.
Base == TypeOK /\ BlocksDisjoint /\ RangesProper

\* What holds as long as the window is that of a live block.
Sound == InLiveBlocks /\ Apart /\ WindowFree

\* The inductive strengthening of the two safety invariants.
IInv == Base /\ (~stale => Sound)

=============================================================================
