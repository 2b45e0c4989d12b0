----------------------------- MODULE HeapProofs -----------------------------
(***************************************************************************)
(* Proofs about Heap for every heap and header size: the blocks tile the   *)
(* heap, no two free blocks are adjacent, and what is allocated is what    *)
(* the application holds.  The lemmas are about one heap record h, so that *)
(* the users of the heap can apply them to calls that allocate twice.      *)
(***************************************************************************)
EXTENDS Heap, FiniteSetTheorems, WellFoundedInduction, TLAPS

HeapRec ==
  [hdrs : SUBSET Addr, size : [Addr -> 0..HEAP_SIZE],
   is_free : [Addr -> BOOLEAN],
   used_heap_size : 0..(SIZE_MOD - 1), free_heap_size : 0..(SIZE_MOD - 1),
   num_allocations : 0..(COUNT_MOD - 1), num_frees : 0..(COUNT_MOD - 1)]

End(h, b) == b + HDR + h.size[b]

(* The linked blocks are aligned and each ends where the next begins.      *)
Layout(h) ==
  /\ h \in HeapRec
  /\ 0 \in h.hdrs
  /\ \A b \in h.hdrs : /\ b % 4 = 0
                       /\ End(h, b) \in h.hdrs \cup {HEAP_SIZE}
                       /\ \A c \in h.hdrs : b < c => End(h, b) <= c

(* The blocks that merge_free_blocks would merge with their successor.     *)
Adjacent(h) ==
  {b \in h.hdrs : /\ h.is_free[b]
                  /\ End(h, b) \in h.hdrs
                  /\ h.is_free[End(h, b)]}

Sound(h) == Layout(h) /\ Adjacent(h) = {}

AllocSet(h) == {b \in h.hdrs : ~h.is_free[b]}

-----------------------------------------------------------------------------
(* Numbers.                                                                *)

(* The assumptions on the sizes, one by one. *)
LEMMA Sizes4 ==
  /\ HDR \in Nat /\ HDR > 0 /\ HDR % 4 = 0
  /\ SPLIT_MIN \in Nat /\ SPLIT_MIN > 0
  /\ HEAP_SIZE \in Nat /\ HEAP_SIZE > HDR /\ HEAP_SIZE % 4 = 0
  /\ SIZE_MOD \in Nat /\ SIZE_MOD > 2 * HEAP_SIZE /\ SIZE_MOD % 4 = 0
  /\ COUNT_MOD \in Nat /\ COUNT_MOD > 0
  BY HeapAssumption

(* A remainder lies below its modulus. *)
LEMMA ModFacts ==
  ASSUME NEW x \in Int, NEW m \in Nat, m > 0
  PROVE  x % m \in 0..(m - 1)
  OBVIOUS

(* A number below the modulus is its own remainder. *)
LEMMA SmallMod ==
  ASSUME NEW m \in Nat, NEW y \in Nat, y < m
  PROVE  y % m = y
  OBVIOUS

(* A set of numbers that is not empty has a least one.                     *)
LEMMA LeastNat ==
  ASSUME NEW S, S \subseteq Nat, S # {}
  PROVE  \E n \in S : \A m \in S : n <= m
<1>1. PICK n \in S : \A m \in S : <<m, n>> \notin OpToRel(<, Nat)
  BY NatLessThanWellFounded, WFMin
<1>2. \A m \in S : ~(m < n)
  BY <1>1 DEF OpToRel
<1> QED
  BY <1>2

(* align_size rounds up to a multiple of four; beyond the largest size_t   *)
(* that is a multiple of four it wraps to 0.                               *)
LEMMA AlignFacts ==
  ASSUME NEW n \in 0..(SIZE_MOD - 1)
  PROVE  /\ align_size(n) \in Nat
         /\ align_size(n) % 4 = 0
         /\ n <= SIZE_MOD - 4 => align_size(n) >= n /\ align_size(n) < n + 4
<1> DEFINE k == (n + 3) \div 4
<1>1. k \in Nat /\ 4 * k >= n /\ 4 * k < n + 4
  OBVIOUS
<1>2. PICK m \in Nat : SIZE_MOD = 4 * m
  <2>1. SIZE_MOD = 4 * (SIZE_MOD \div 4) /\ SIZE_MOD \div 4 \in Nat
    BY Sizes4
  <2> QED
    BY <2>1
<1>3. m > 0 /\ k <= m
  BY <1>1, <1>2, Sizes4
<1> HIDE DEF k
<1>4. CASE k < m
  <2>1. 4 * k \in 0..(SIZE_MOD - 1)
    BY <1>1, <1>2, <1>4
  <2>2. (4 * k) % SIZE_MOD = 4 * k
    BY <2>1, Sizes4
  <2>3. align_size(n) = 4 * k
    BY <2>2 DEF align_size, k
  <2> QED
    BY <1>1, <2>3
<1>5. CASE k = m
  <2>1. (4 * k) % SIZE_MOD = 0
    BY <1>2, <1>3, <1>5, Sizes4
  <2>2. align_size(n) = 0
    BY <2>1 DEF align_size, k
  <2> QED
    BY <1>1, <1>2, <1>5, <2>2
<1> QED
  BY <1>1, <1>3, <1>4, <1>5

-----------------------------------------------------------------------------
(* The list of blocks.                                                     *)

(* The fields of a heap have their types. *)
LEMMA RecFacts ==
  ASSUME NEW h \in HeapRec
  PROVE  /\ h.hdrs \subseteq Addr
         /\ h.size \in [Addr -> 0..HEAP_SIZE]
         /\ h.is_free \in [Addr -> BOOLEAN]
         /\ h.used_heap_size \in 0..(SIZE_MOD - 1)
         /\ h.free_heap_size \in 0..(SIZE_MOD - 1)
         /\ h.num_allocations \in 0..(COUNT_MOD - 1)
         /\ h.num_frees \in 0..(COUNT_MOD - 1)
  BY DEF HeapRec

(* Blocks end inside the heap, after they begin.                           *)
LEMMA EndFacts ==
  ASSUME NEW h, Layout(h), NEW b \in h.hdrs
  PROVE  /\ b \in Addr /\ b \in Nat /\ b < HEAP_SIZE
         /\ h.size[b] \in 0..HEAP_SIZE
         /\ End(h, b) \in Nat /\ End(h, b) > b /\ End(h, b) <= HEAP_SIZE
         /\ End(h, b) % 4 = 0
<1>1. /\ b \in Addr /\ h.hdrs \subseteq Addr
      /\ h.size[b] \in 0..HEAP_SIZE
  BY RecFacts DEF Layout
<1>2. b \in Nat /\ b < HEAP_SIZE
  BY <1>1, Sizes4 DEF Addr
<1>3. End(h, b) \in Nat /\ End(h, b) > b
  BY <1>1, <1>2, Sizes4 DEF End
<1>4. End(h, b) \in h.hdrs \cup {HEAP_SIZE}
  BY DEF Layout
<1>5. End(h, b) <= HEAP_SIZE
  BY <1>1, <1>3, <1>4, Sizes4 DEF Addr
<1>6. End(h, b) % 4 = 0
  BY <1>4, Sizes4 DEF Layout
<1> QED
  BY <1>1, <1>2, <1>3, <1>5, <1>6

(* Two blocks cannot end at the same place.                                *)
LEMMA EndInjective ==
  ASSUME NEW h, Layout(h), NEW b \in h.hdrs, NEW c \in h.hdrs,
         End(h, b) = End(h, c)
  PROVE  b = c
<1>1. /\ b \in Nat /\ End(h, b) \in Nat /\ End(h, b) > b
      /\ c \in Nat /\ End(h, c) \in Nat /\ End(h, c) > c
  BY EndFacts
<1>2. (b < c => End(h, b) <= c) /\ (c < b => End(h, c) <= b)
  BY DEF Layout
<1> QED
  BY <1>1, <1>2

(* The successor in the list is the block that begins where this one ends. *)
LEMMA SuccessorIsEnd ==
  ASSUME NEW h, Layout(h), NEW b \in h.hdrs, NEW c \in h.hdrs
  PROVE  Successor(h, b, c) <=> c = End(h, b)
<1>1. /\ b \in Nat /\ End(h, b) \in Nat /\ End(h, b) > b
      /\ c \in Nat /\ c < HEAP_SIZE /\ HEAP_SIZE \in Nat
  BY EndFacts, Sizes4
<1>2. /\ b < c => End(h, b) <= c
      /\ End(h, b) \in h.hdrs \cup {HEAP_SIZE}
      /\ \A d \in h.hdrs : b < d => End(h, b) <= d
  BY DEF Layout
<1>3. ASSUME Successor(h, b, c) PROVE c = End(h, b)
  <2>1. b < c /\ \A d \in h.hdrs : d <= b \/ c <= d
    BY <1>3 DEF Successor
  <2>2. End(h, b) \in h.hdrs
    BY <1>1, <1>2, <2>1
  <2> QED
    BY <1>1, <1>2, <2>1, <2>2
<1>4. ASSUME c = End(h, b) PROVE Successor(h, b, c)
  <2>1. \A d \in h.hdrs : d \in Nat
    BY EndFacts
  <2>2. \A d \in h.hdrs : d <= b \/ c <= d
    BY <1>1, <1>2, <1>4, <2>1
  <2> QED
    BY <1>1, <1>4, <2>2 DEF Successor
<1> QED
  BY <1>3, <1>4

(* The code compares a block's end with the next header: in a tiled heap that
   finds exactly the free blocks followed by a free one. *)
LEMMA MergeableIsAdjacent ==
  ASSUME NEW h, Layout(h)
  PROVE  Mergeable(h) = Adjacent(h)
  BY SuccessorIsEnd DEF Mergeable, Adjacent
-----------------------------------------------------------------------------
(* Merging.                                                                *)

(* What a merge, or any number of them, leaves alone: whatever is not the  *)
(* extent of a free block.                                                 *)
SameAllocated(g, h) ==
  /\ AllocSet(g) = AllocSet(h)
  /\ g.is_free = h.is_free
  /\ \A x \in AllocSet(h) : g.size[x] = h.size[x]
  /\ g.used_heap_size = h.used_heap_size
  /\ g.free_heap_size = h.free_heap_size
  /\ g.num_allocations = h.num_allocations
  /\ g.num_frees = h.num_frees

(* MergeOne when nothing is adjacent.                                      *)
LEMMA MergeNothing ==
  ASSUME NEW h, Layout(h), Adjacent(h) = {}
  PROVE  MergeOne(h) = h
  BY MergeableIsAdjacent DEF MergeOne

(* Otherwise it lets the first adjacent block take its successor in.       *)
LEMMA MergeOneShape ==
  ASSUME NEW h, Layout(h), NEW b \in Adjacent(h),
         \A x \in Adjacent(h) : b <= x
  PROVE  MergeOne(h) = [h EXCEPT !.hdrs = @ \ {End(h, b)},
                                 !.size[b] = @ + HDR + h.size[End(h, b)]]
<1>1. Mergeable(h) = Adjacent(h)
  BY MergeableIsAdjacent
<1>2. \A x \in Adjacent(h) : x \in Nat
  BY EndFacts DEF Adjacent
<1>3. Min(Adjacent(h)) = b
  BY <1>2 DEF Min
<1>4. b \in h.hdrs /\ End(h, b) \in h.hdrs
  BY DEF Adjacent
<1>5. (CHOOSE c \in h.hdrs : Successor(h, b, c)) = End(h, b)
  BY <1>4, SuccessorIsEnd
<1> QED
  BY <1>1, <1>3, <1>5 DEF MergeOne

(* One merge keeps the tiling and the allocated blocks, and leaves fewer
   adjacent pairs. *)
LEMMA MergeOneFacts ==
  ASSUME NEW h, Layout(h), NEW b \in Adjacent(h),
         \A x \in Adjacent(h) : b <= x
  PROVE  LET g == MergeOne(h)
             c == End(h, b)
         IN  /\ Layout(g)
             /\ SameAllocated(g, h)
             /\ \A x \in Adjacent(g) : \/ x \in Adjacent(h) /\ x # b /\ x # c
                                       \/ x = b /\ c \in Adjacent(h)
<1> DEFINE g == MergeOne(h)
           c == End(h, b)
<1>1. /\ b \in h.hdrs /\ h.is_free[b]
      /\ c \in h.hdrs /\ h.is_free[c]
  BY DEF Adjacent
<1>2. /\ b \in Nat /\ c \in Nat /\ b < c
      /\ b \in Addr /\ c \in Addr
      /\ h.size[b] \in Nat /\ h.size[c] \in Nat
      /\ End(h, c) \in Nat /\ End(h, c) > c /\ End(h, c) <= HEAP_SIZE
  BY <1>1, EndFacts
<1>3. h \in HeapRec
  BY DEF Layout
<1>4. g = [h EXCEPT !.hdrs = @ \ {c}, !.size[b] = @ + HDR + h.size[c]]
  BY MergeOneShape
<1>5. End(h, c) = b + HDR + (h.size[b] + HDR + h.size[c])
  BY <1>2, Sizes4 DEF End
<1> HIDE DEF g, c
<1>6. h.size[b] + HDR + h.size[c] \in 0..HEAP_SIZE
  BY <1>2, <1>5, Sizes4
<1>7. /\ g.hdrs = h.hdrs \ {c}
      /\ g.size = [h.size EXCEPT ![b] = @ + HDR + h.size[c]]
      /\ g.is_free = h.is_free
      /\ g.used_heap_size = h.used_heap_size
      /\ g.free_heap_size = h.free_heap_size
      /\ g.num_allocations = h.num_allocations
      /\ g.num_frees = h.num_frees
  BY <1>3, <1>4 DEF HeapRec
<1>8. g \in HeapRec
  <2>1. g = [hdrs |-> g.hdrs, size |-> g.size, is_free |-> g.is_free,
             used_heap_size |-> g.used_heap_size,
             free_heap_size |-> g.free_heap_size,
             num_allocations |-> g.num_allocations, num_frees |-> g.num_frees]
    BY <1>3, <1>4 DEF HeapRec
  <2>2. g.hdrs \in SUBSET Addr /\ g.size \in [Addr -> 0..HEAP_SIZE]
    BY <1>2, <1>3, <1>6, <1>7, RecFacts
  <2> QED
    BY <1>3, <1>7, <2>1, <2>2, RecFacts DEF HeapRec
<1>9. /\ End(g, b) = End(h, c)
      /\ \A x \in h.hdrs : x # b => End(g, x) = End(h, x)
  <2>1. h.size \in [Addr -> 0..HEAP_SIZE] /\ h.hdrs \subseteq Addr
    BY <1>3, RecFacts
  <2>2. g.size[b] = h.size[b] + HDR + h.size[c]
    BY <1>2, <1>7, <2>1
  <2>3. \A x \in h.hdrs : x # b => g.size[x] = h.size[x]
    BY <1>7, <2>1
  <2> QED
    BY <1>5, <2>2, <2>3 DEF End
<1>10. \A x \in h.hdrs : x # b => End(h, x) # c
  BY <1>1, EndInjective DEF c
<1>11. /\ 0 \in h.hdrs
       /\ \A x \in h.hdrs : /\ x % 4 = 0
                            /\ End(h, x) \in h.hdrs \cup {HEAP_SIZE}
                            /\ \A y \in h.hdrs : x < y => End(h, x) <= y
  BY DEF Layout
<1>12. \A x \in h.hdrs : x \in Nat
  BY EndFacts
<1>13. Layout(g)
  <2>1. 0 \in g.hdrs
    BY <1>2, <1>7, <1>11
  <2>2. ASSUME NEW x \in g.hdrs
        PROVE  /\ x % 4 = 0
               /\ End(g, x) \in g.hdrs \cup {HEAP_SIZE}
               /\ \A y \in g.hdrs : x < y => End(g, x) <= y
    <3>1. x \in h.hdrs /\ x # c
      BY <1>7
    <3>2. CASE x = b
      <4>1. End(h, c) \in g.hdrs \cup {HEAP_SIZE}
        BY <1>1, <1>2, <1>7, <1>11
      <4>2. \A y \in g.hdrs : b < y => End(h, c) <= y
        <5> SUFFICES ASSUME NEW y \in g.hdrs, b < y PROVE End(h, c) <= y
          OBVIOUS
        <5>1. y \in h.hdrs /\ y # c /\ c <= y
          BY <1>1, <1>7, <1>11 DEF c
        <5>2. c < y
          BY <1>2, <1>12, <5>1
        <5> QED
          BY <1>1, <1>11, <5>1, <5>2
      <4> QED
        BY <1>1, <1>9, <1>11, <3>2, <4>1, <4>2
    <3>3. CASE x # b
      BY <1>7, <1>9, <1>10, <1>11, <3>1, <3>3
    <3> QED
      BY <3>2, <3>3
  <2> QED
    BY <1>8, <2>1, <2>2 DEF Layout
<1>14. SameAllocated(g, h)
  <2>1. AllocSet(g) = AllocSet(h)
    BY <1>1, <1>7 DEF AllocSet
  <2>2. \A x \in AllocSet(h) : x # b /\ x \in Addr
    BY <1>1, <1>3, RecFacts DEF AllocSet
  <2>3. \A x \in AllocSet(h) : g.size[x] = h.size[x]
    BY <1>3, <1>7, <2>2, RecFacts
  <2> QED
    BY <1>7, <2>1, <2>3 DEF SameAllocated
<1>15. ASSUME NEW x \in Adjacent(g)
       PROVE  \/ x \in Adjacent(h) /\ x # b /\ x # c
              \/ x = b /\ c \in Adjacent(h)
  <2>1. /\ x \in h.hdrs /\ x # c /\ h.is_free[x]
        /\ End(g, x) \in h.hdrs /\ h.is_free[End(g, x)]
    BY <1>7, <1>15 DEF Adjacent
  <2>2. CASE x = b
    BY <1>1, <1>9, <2>1, <2>2 DEF Adjacent
  <2>3. CASE x # b
    BY <1>9, <2>1, <2>3 DEF Adjacent
  <2> QED
    BY <2>2, <2>3
<1> QED
  BY <1>13, <1>14, <1>15 DEF g, c

(* Keeping the allocated blocks is transitive. *)
LEMMA SameAllocatedTrans ==
  ASSUME NEW f, NEW g, NEW h, SameAllocated(f, g), SameAllocated(g, h)
  PROVE  SameAllocated(f, h)
  BY DEF SameAllocated

(* Two merges are enough when at most one block is out of place: every     *)
(* adjacent block is b or the one before it.                               *)
LEMMA MergeFacts ==
  ASSUME NEW h, Layout(h), NEW b \in h.hdrs,
         \A x \in Adjacent(h) : x = b \/ End(h, x) = b
  PROVE  Sound(merge_free_blocks(h)) /\ SameAllocated(merge_free_blocks(h), h)
<1> DEFINE g == MergeOne(h)
           f == MergeOne(g)
<1>0. merge_free_blocks(h) = f
  BY DEF merge_free_blocks
<1>a. \A x \in h.hdrs : x \in Nat /\ End(h, x) \in Nat /\ End(h, x) > x
  BY EndFacts
<1>b. SameAllocated(h, h)
  BY DEF SameAllocated
<1>c. \A x \in Adjacent(h) : x \in h.hdrs
  BY DEF Adjacent
<1>1. CASE Adjacent(h) = {}
  BY <1>0, <1>1, <1>b, MergeNothing DEF Sound
<1>2. ASSUME NEW p \in Adjacent(h), p # b
      PROVE  Sound(f) /\ SameAllocated(f, h)
  <2>1. End(h, p) = b /\ p \in h.hdrs
    BY <1>2, <1>c
  <2>2. \A x \in Adjacent(h) : x = p \/ x = b
    BY <2>1, <1>c, EndInjective
  <2>3. \A x \in Adjacent(h) : p <= x
    BY <1>a, <2>1, <2>2
  <2>4. /\ Layout(g) /\ SameAllocated(g, h)
        /\ \A x \in Adjacent(g) : \/ x \in Adjacent(h) /\ x # p /\ x # b
                                  \/ x = p
    BY <2>1, <2>3, MergeOneFacts
  <2>5. \A x \in Adjacent(g) : x = p
    BY <2>2, <2>4
  <2> HIDE DEF g
  <2>6. CASE Adjacent(g) = {}
    BY <2>4, <2>6, MergeNothing DEF Sound
  <2>7. CASE p \in Adjacent(g)
    <3>1. p \in Nat
      BY <1>a, <2>1
    <3>2. \A x \in Adjacent(g) : p <= x
      BY <2>5, <3>1
    <3>3. p \in g.hdrs
      BY <2>7 DEF Adjacent
    <3>4. End(g, p) # p
      BY <2>4, <3>3, EndFacts
    <3>5. /\ Layout(f) /\ SameAllocated(f, g)
          /\ \A x \in Adjacent(f) :
               \/ x \in Adjacent(g) /\ x # p /\ x # End(g, p)
               \/ x = p /\ End(g, p) \in Adjacent(g)
      BY <2>4, <2>7, <3>2, MergeOneFacts
    <3>6. Adjacent(f) = {}
      BY <2>5, <3>4, <3>5
    <3> QED
      BY <2>4, <3>5, <3>6, SameAllocatedTrans DEF Sound
  <2> QED
    BY <2>5, <2>6, <2>7
<1>3. CASE Adjacent(h) = {b}
  <2>1. \A x \in Adjacent(h) : b <= x
    BY <1>3, <1>a
  <2>2. End(h, b) # b
    BY <1>a
  <2>3. /\ Layout(g) /\ SameAllocated(g, h)
        /\ \A x \in Adjacent(g) :
             \/ x \in Adjacent(h) /\ x # b /\ x # End(h, b)
             \/ x = b /\ End(h, b) \in Adjacent(h)
    BY <1>3, <2>1, MergeOneFacts
  <2>4. Adjacent(g) = {}
    BY <1>3, <2>2, <2>3
  <2> HIDE DEF g
  <2> QED
    BY <1>0, <2>3, <2>4, MergeNothing DEF Sound
<1> HIDE DEF f
<1> QED
  BY <1>0, <1>1, <1>2, <1>3

-----------------------------------------------------------------------------
(* rtos_free.                                                              *)

(* Freeing an allocated block leaves the rest as it was, and the heap      *)
(* coalesced again.                                                        *)
LEMMA ReleaseFacts ==
  ASSUME NEW h, Sound(h), NEW b \in AllocSet(h)
  PROVE  LET g == Release(h, b)
         IN  /\ Sound(g)
             /\ AllocSet(g) = AllocSet(h) \ {b}
             /\ \A x \in AllocSet(g) : g.size[x] = h.size[x]
             /\ g.is_free = [h.is_free EXCEPT ![b] = TRUE]
             /\ g.num_allocations = h.num_allocations
             /\ g.num_frees = (h.num_frees + 1) % COUNT_MOD
             /\ g.used_heap_size = (h.used_heap_size - (h.size[b] + HDR)) % SIZE_MOD
<1> DEFINE m == MarkFree(h, b)
           g == merge_free_blocks(m)
           cost == h.size[b] + HDR
<1>1. b \in h.hdrs /\ ~h.is_free[b] /\ Layout(h) /\ Adjacent(h) = {}
  BY DEF AllocSet, Sound
<1>2. b \in Addr /\ h.size[b] \in 0..HEAP_SIZE /\ h \in HeapRec /\ cost \in Int
  BY <1>1, EndFacts, Sizes4 DEF Layout
<1>3. /\ m.hdrs = h.hdrs
      /\ m.size = h.size
      /\ m.is_free = [h.is_free EXCEPT ![b] = TRUE]
      /\ m.num_frees = (h.num_frees + 1) % COUNT_MOD
      /\ m.used_heap_size = (h.used_heap_size - cost) % SIZE_MOD
      /\ m.free_heap_size = (h.free_heap_size + cost) % SIZE_MOD
      /\ m.num_allocations = h.num_allocations
  BY <1>2 DEF MarkFree, HeapRec
<1>4. m \in HeapRec
  <2> DEFINE isf == [h.is_free EXCEPT ![b] = TRUE]
             frees == (h.num_frees + 1) % COUNT_MOD
             used == (h.used_heap_size - cost) % SIZE_MOD
             avail == (h.free_heap_size + cost) % SIZE_MOD
  <2>1. m = [h EXCEPT !.is_free = isf, !.num_frees = frees,
                      !.used_heap_size = used, !.free_heap_size = avail]
    BY <1>2 DEF MarkFree, HeapRec
  <2>2. isf \in [Addr -> BOOLEAN]
    BY <1>2, RecFacts
  <2> HIDE DEF cost
  <2>3. /\ frees \in 0..(COUNT_MOD - 1)
        /\ used \in 0..(SIZE_MOD - 1) /\ avail \in 0..(SIZE_MOD - 1)
    <3>1. /\ h.num_frees + 1 \in Int
          /\ h.used_heap_size - cost \in Int /\ h.free_heap_size + cost \in Int
      BY <1>2, RecFacts
    <3> QED
      BY <3>1, ModFacts, Sizes4
  <2> HIDE DEF m, isf, frees, used, avail
  <2> QED
    BY <1>2, <2>1, <2>2, <2>3 DEF HeapRec
<1>5. Release(h, b) = g
  BY <1>1 DEF Release
<1> HIDE DEF m, cost
<1>6. \A x : End(m, x) = End(h, x)
  BY <1>3 DEF End
<1>7. Layout(m)
  BY <1>1, <1>3, <1>4, <1>6 DEF Layout
<1>8. \A x \in Adjacent(m) : x = b \/ End(m, x) = b
  <2> SUFFICES ASSUME NEW x \in Adjacent(m), x # b, End(h, x) # b
               PROVE  FALSE
    BY <1>6
  <2>1. /\ x \in h.hdrs /\ m.is_free[x]
        /\ End(h, x) \in h.hdrs /\ m.is_free[End(h, x)]
    BY <1>3, <1>6 DEF Adjacent
  <2>2. x \in Addr /\ End(h, x) \in Addr
    BY <1>2, <2>1, RecFacts
  <2>3. h.is_free[x] /\ h.is_free[End(h, x)]
    BY <1>2, <1>3, <2>1, <2>2, RecFacts
  <2> QED
    BY <1>1, <2>1, <2>3 DEF Adjacent
<1>9. b \in m.hdrs
  BY <1>1, <1>3
<1>10. Sound(g) /\ SameAllocated(g, m)
  BY <1>7, <1>8, <1>9, MergeFacts
<1>11. AllocSet(m) = AllocSet(h) \ {b}
  BY <1>2, <1>3, RecFacts DEF AllocSet
<1> HIDE DEF g
<1> QED
  BY <1>3, <1>5, <1>10, <1>11 DEF SameAllocated, cost
-----------------------------------------------------------------------------
(* rtos_malloc.                                                            *)

(* The search finds a block when one fits.                                 *)
LEMMA BestFitFacts ==
  ASSUME NEW h, Layout(h), NEW n, Fits(h, n) # {}
  PROVE  find_best_fit(h, n) \in Fits(h, n)
<1> DEFINE F == Fits(h, n)
           sizes == {h.size[b] : b \in F}
<1>1. F \subseteq h.hdrs
  BY DEF Fits
<1>2. \A b \in F : b \in Nat /\ h.size[b] \in Nat
  BY <1>1, EndFacts
<1> HIDE DEF F
<1>3. sizes \subseteq Nat /\ sizes # {}
  BY <1>2 DEF F
<1>4. PICK m \in sizes : \A k \in sizes : m <= k
  BY <1>3, LeastNat
<1> DEFINE best == {b \in F : h.size[b] = m}
<1>5. best \subseteq Nat /\ best # {}
  BY <1>2, <1>4
<1>6. PICK b \in best : \A c \in best : b <= c
  BY <1>5, LeastNat
<1>7. \A c \in F : h.size[b] < h.size[c] \/ (h.size[b] = h.size[c] /\ b <= c)
  <2> SUFFICES ASSUME NEW c \in F
               PROVE  h.size[b] < h.size[c] \/ (h.size[b] = h.size[c] /\ b <= c)
    OBVIOUS
  <2>1. h.size[b] = m /\ m <= h.size[c] /\ h.size[c] \in Nat /\ m \in Nat
    BY <1>2, <1>3, <1>4
  <2>2. CASE h.size[c] = m
    BY <1>6, <2>1, <2>2
  <2> QED
    BY <2>1, <2>2
<1>8. b \in F
  OBVIOUS
<1>9. \E x \in Fits(h, n) : \A c \in Fits(h, n) :
        h.size[x] < h.size[c] \/ (h.size[x] = h.size[c] /\ x <= c)
  BY <1>7, <1>8 DEF F
<1> QED
  BY <1>9, Zenon DEF find_best_fit

(* Splitting cuts a block in two, or leaves it when the rest is too small. *)
LEMMA SplitFacts ==
  ASSUME NEW h, Layout(h), NEW b \in h.hdrs, h.is_free[b],
         NEW n \in Nat, n % 4 = 0, h.size[b] >= n
  PROVE  LET g == split_block(h, b, n)
         IN  /\ Layout(g) /\ b \in g.hdrs
             /\ g.size[b] >= n
             /\ AllocSet(g) = AllocSet(h)
             /\ \A x \in AllocSet(h) : g.size[x] = h.size[x]
             /\ \A x \in Adjacent(g) :
                  \/ x \in Adjacent(h) \/ x = b
                  \/ End(h, b) \in h.hdrs /\ h.is_free[End(h, b)]
             /\ g.used_heap_size = h.used_heap_size
             /\ g.free_heap_size = h.free_heap_size
             /\ g.num_allocations = h.num_allocations
             /\ g.num_frees = h.num_frees
<1> DEFINE g == split_block(h, b, n)
           rest == b + HDR + n
<1>a. h \in HeapRec /\ h.hdrs \subseteq Addr
  BY RecFacts DEF Layout
<1>b. /\ b \in Addr /\ b \in Nat /\ h.size[b] \in 0..HEAP_SIZE
      /\ End(h, b) \in Nat /\ End(h, b) <= HEAP_SIZE
  BY EndFacts
<1>c. /\ 0 \in h.hdrs
      /\ \A x \in h.hdrs : /\ x % 4 = 0
                           /\ End(h, x) \in h.hdrs \cup {HEAP_SIZE}
                           /\ \A y \in h.hdrs : x < y => End(h, x) <= y
  BY DEF Layout
<1>1. CASE ~(h.size[b] >= n + HDR + SPLIT_MIN)
  <2>1. g = h
    BY <1>1 DEF split_block
  <2> QED
    BY <2>1
<1>2. CASE h.size[b] >= n + HDR + SPLIT_MIN
  <2> DEFINE tail == h.size[b] - n - HDR
  <2>1. /\ rest \in Nat /\ b < rest /\ rest < End(h, b) /\ rest < HEAP_SIZE
        /\ rest + HDR + tail = End(h, b)
        /\ tail \in 0..HEAP_SIZE /\ n \in 0..HEAP_SIZE
    BY <1>2, <1>b, Sizes4 DEF End
  <2>2. rest \in Addr /\ rest # b /\ rest \notin h.hdrs
    BY <1>b, <1>c, <2>1, Sizes4 DEF Addr
  <2>3. rest % 4 = 0
    BY <1>b, <1>c, Sizes4
  <2> DEFINE sz == [h.size EXCEPT ![b] = n, ![rest] = tail]
             isf == [h.is_free EXCEPT ![rest] = TRUE]
             hd == h.hdrs \cup {rest}
  <2>4. g = [h EXCEPT !.hdrs = hd, !.size = sz, !.is_free = isf]
    BY <1>2, <1>a DEF split_block, HeapRec
  <2> HIDE DEF rest, tail
  <2>5. /\ hd \subseteq Addr
        /\ sz \in [Addr -> 0..HEAP_SIZE]
        /\ sz[b] = n /\ sz[rest] = tail
        /\ \A x \in Addr : x # b /\ x # rest => sz[x] = h.size[x]
    BY <1>a, <1>b, <2>1, <2>2, RecFacts
  <2>6. /\ isf \in [Addr -> BOOLEAN]
        /\ isf[rest] = TRUE
        /\ \A x \in Addr : x # rest => isf[x] = h.is_free[x]
    BY <1>a, <2>2, RecFacts
  <2>7. hd = h.hdrs \cup {rest}
    OBVIOUS
  <2> HIDE DEF sz, isf, hd, g
  <2>8. /\ g \in HeapRec
        /\ g.hdrs = hd /\ g.size = sz /\ g.is_free = isf
        /\ g.used_heap_size = h.used_heap_size
        /\ g.free_heap_size = h.free_heap_size
        /\ g.num_allocations = h.num_allocations
        /\ g.num_frees = h.num_frees
    BY <1>a, <2>4, <2>5, <2>6 DEF HeapRec
  <2>9. /\ End(g, b) = rest
        /\ End(g, rest) = End(h, b)
        /\ \A x \in h.hdrs : x # b => End(g, x) = End(h, x)
    BY <1>a, <2>1, <2>2, <2>5, <2>8 DEF End, rest
  <2>10. Layout(g)
    <3>1. ASSUME NEW x \in g.hdrs
          PROVE  /\ x % 4 = 0
                 /\ End(g, x) \in g.hdrs \cup {HEAP_SIZE}
                 /\ \A y \in g.hdrs : x < y => End(g, x) <= y
      <4>0. \A y \in h.hdrs : y \in Nat
        BY EndFacts
      <4>1. CASE x = b
        BY <1>b, <1>c, <2>1, <2>7, <2>8, <2>9, <4>0, <4>1
      <4>2. CASE x = rest
        <5>1. \A y \in h.hdrs : rest < y => End(h, b) <= y
          BY <1>b, <1>c, <2>1, <4>0
        <5> QED
          BY <1>c, <2>1, <2>3, <2>7, <2>8, <2>9, <4>2, <5>1
      <4>3. CASE x \in h.hdrs /\ x # b
        <5>1. x < rest => End(h, x) <= rest
          <6>1. x < b => End(h, x) <= b
            BY <1>c, <4>3
          <6>2. b < x => End(h, b) <= x
            BY <1>c, <4>3
          <6>3. x \in Nat /\ End(h, x) \in Nat
            BY <4>3, EndFacts
          <6> QED
            BY <1>b, <2>1, <4>3, <6>1, <6>2, <6>3
        <5> QED
          BY <1>c, <2>7, <2>8, <2>9, <4>3, <5>1
      <4> QED
        BY <2>7, <2>8, <4>1, <4>2, <4>3
    <3> QED
      BY <1>c, <2>7, <2>8, <3>1 DEF Layout
  <2>11. AllocSet(g) = AllocSet(h)
    BY <1>a, <2>2, <2>6, <2>7, <2>8 DEF AllocSet
  <2>12. \A x \in AllocSet(h) : g.size[x] = h.size[x]
    BY <1>a, <2>2, <2>5, <2>8 DEF AllocSet
  <2>13. ASSUME NEW x \in Adjacent(g)
         PROVE  \/ x \in Adjacent(h) \/ x = b
                \/ End(h, b) \in h.hdrs /\ h.is_free[End(h, b)]
    <3>1. x \in hd /\ isf[x] /\ End(g, x) \in hd /\ isf[End(g, x)]
      BY <2>8, <2>13 DEF Adjacent
    <3>2. CASE x = rest
      <4>1. End(h, b) \in h.hdrs
        BY <1>b, <2>1, <2>7, <2>9, <3>1, <3>2
      <4> QED
        BY <1>a, <2>2, <2>6, <2>9, <3>1, <3>2, <4>1
    <3>3. CASE x # rest /\ x # b
      <4>1. x \in h.hdrs /\ End(g, x) = End(h, x)
        BY <2>7, <2>9, <3>1, <3>3
      <4>2. End(h, x) # rest
        BY <1>c, <2>2, <2>1, <4>1, Sizes4
      <4> QED
        BY <1>a, <2>2, <2>6, <2>7, <3>1, <4>1, <4>2, <3>3 DEF Adjacent
    <3> QED
      BY <3>2, <3>3
  <2>14. g.size[b] >= n /\ b \in g.hdrs
    BY <2>5, <2>7, <2>8
  <2> QED
    BY <2>8, <2>10, <2>11, <2>12, <2>13, <2>14 DEF g
<1> QED
  BY <1>1, <1>2

(* rtos_malloc hands out one free block, large enough, and changes nothing *)
(* else that is allocated.                                                 *)
LEMMA AllocateFacts ==
  ASSUME NEW h, Sound(h), NEW n \in Nat, n % 4 = 0, Fits(h, n) # {}
  PROVE  LET b == find_best_fit(h, n)
             g == Allocate(h, n)
         IN  /\ b \in Addr /\ b \notin AllocSet(h)
             /\ Sound(g)
             /\ AllocSet(g) = AllocSet(h) \cup {b}
             /\ g.size[b] >= n
             /\ \A x \in AllocSet(h) : g.size[x] = h.size[x]
             /\ g.num_allocations = (h.num_allocations + 1) % COUNT_MOD
             /\ g.num_frees = h.num_frees
             /\ g.used_heap_size = (h.used_heap_size + (g.size[b] + HDR)) % SIZE_MOD
<1> DEFINE b == find_best_fit(h, n)
           s == split_block(h, b, n)
           cost == s.size[b] + HDR
           g == Allocate(h, n)
<1>1. Layout(h) /\ Adjacent(h) = {}
  BY DEF Sound
<1>2. b \in h.hdrs /\ h.is_free[b] /\ h.size[b] >= n
  BY <1>1, BestFitFacts DEF Fits
<1>3. b \in Addr /\ b \notin AllocSet(h)
  BY <1>1, <1>2, EndFacts DEF AllocSet
<1>4. g = [s EXCEPT !.is_free[b] = FALSE,
                    !.num_allocations = (@ + 1) % COUNT_MOD,
                    !.used_heap_size = (@ + cost) % SIZE_MOD,
                    !.free_heap_size = (@ - cost) % SIZE_MOD]
  BY DEF Allocate
<1> HIDE DEF b, g
<1>5. ~(End(h, b) \in h.hdrs /\ h.is_free[End(h, b)])
  BY <1>1, <1>2 DEF Adjacent
<1>6. /\ Layout(s) /\ b \in s.hdrs
      /\ s.size[b] >= n
      /\ AllocSet(s) = AllocSet(h)
      /\ \A x \in AllocSet(h) : s.size[x] = h.size[x]
      /\ \A x \in Adjacent(s) : x = b
      /\ s.used_heap_size = h.used_heap_size
      /\ s.num_allocations = h.num_allocations
      /\ s.num_frees = h.num_frees
  BY <1>1, <1>2, <1>5, SplitFacts
<1> HIDE DEF s
<1>7. s \in HeapRec /\ s.size[b] \in Nat /\ cost \in Int
  BY <1>6, EndFacts, Sizes4 DEF Layout
<1> DEFINE isf == [s.is_free EXCEPT ![b] = FALSE]
           allocs == (s.num_allocations + 1) % COUNT_MOD
           used == (s.used_heap_size + cost) % SIZE_MOD
           avail == (s.free_heap_size - cost) % SIZE_MOD
<1>8. g = [s EXCEPT !.is_free = isf, !.num_allocations = allocs,
                    !.used_heap_size = used, !.free_heap_size = avail]
  BY <1>4, <1>7 DEF HeapRec
<1>9. /\ isf \in [Addr -> BOOLEAN] /\ isf[b] = FALSE
      /\ \A x \in Addr : x # b => isf[x] = s.is_free[x]
  BY <1>3, <1>7, RecFacts
<1>10. /\ allocs \in 0..(COUNT_MOD - 1)
       /\ used \in 0..(SIZE_MOD - 1) /\ avail \in 0..(SIZE_MOD - 1)
  <2>1. /\ s.num_allocations + 1 \in Int
        /\ s.used_heap_size + cost \in Int /\ s.free_heap_size - cost \in Int
    <3> HIDE DEF cost
    <3> QED
      BY <1>7, RecFacts
  <2> QED
    BY <2>1, ModFacts, Sizes4
<1>11. /\ allocs = (h.num_allocations + 1) % COUNT_MOD
       /\ used = (h.used_heap_size + cost) % SIZE_MOD
  BY <1>6
<1> HIDE DEF isf, allocs, used, avail
<1>12. /\ g \in HeapRec
       /\ g.hdrs = s.hdrs /\ g.size = s.size /\ g.is_free = isf
       /\ g.num_allocations = allocs /\ g.num_frees = s.num_frees
       /\ g.used_heap_size = used
  BY <1>7, <1>8, <1>9, <1>10 DEF HeapRec
<1>13. Layout(g)
  BY <1>6, <1>12 DEF Layout, End
<1>14. Adjacent(g) = {}
  <2> SUFFICES ASSUME NEW x \in Adjacent(g) PROVE FALSE
    OBVIOUS
  <2>1. /\ x \in s.hdrs /\ isf[x] /\ End(s, x) \in s.hdrs /\ isf[End(s, x)]
    BY <1>12 DEF Adjacent, End
  <2>2. x \in Addr /\ End(s, x) \in Addr
    BY <1>7, <2>1, RecFacts
  <2>3. x # b /\ x \in Adjacent(s)
    BY <1>9, <2>1, <2>2 DEF Adjacent
  <2> QED
    BY <1>6, <2>3
<1>15. AllocSet(g) = AllocSet(h) \cup {b}
  <2>1. AllocSet(g) = AllocSet(s) \cup {b}
    BY <1>6, <1>7, <1>9, <1>12, RecFacts DEF AllocSet
  <2> QED
    BY <1>6, <2>1
<1> QED
  BY <1>3, <1>6, <1>11, <1>12, <1>13, <1>14, <1>15 DEF Sound, b, g, cost
-----------------------------------------------------------------------------
(* The statistics.  A sum of block sizes is counted as the bytes in them.  *)

Bytes(h) == {a \in Addr : \E b \in AllocSet(h) : b <= a /\ a < End(h, b)}

(* num_allocations and num_frees may both have wrapped, any number of      *)
(* times.                                                                  *)
Differ(n, f, c, m) == \E k \in Int : n - f = c + m * k

Counted(h) ==
  /\ h.used_heap_size = HDR + Cardinality(Bytes(h))
  /\ Differ(h.num_allocations, h.num_frees, Cardinality(AllocSet(h)), COUNT_MOD)

(* Counting one more allocation, modulo m.                                 *)
LEMMA CountUp ==
  ASSUME NEW m \in Nat \ {0}, NEW n \in Nat, NEW f \in Nat, NEW c \in Nat,
         Differ(n, f, c, m)
  PROVE  Differ((n + 1) % m, f, c + 1, m)
<1>0. PICK k \in Int : n - f = c + m * k
  BY DEF Differ
<1> DEFINE q == (n + 1) \div m
           r == (n + 1) % m
<1>1. q \in Int /\ r \in Int /\ n + 1 = q * m + r
  OBVIOUS
<1> HIDE DEF q, r
<1>2. r - f = c + 1 + m * (k - q)
  BY <1>0, <1>1
<1>3. k - q \in Int
  BY <1>1
<1>4. Differ(r, f, c + 1, m)
  BY <1>2, <1>3 DEF Differ
<1> QED
  BY <1>4 DEF r

(* Counting one more free, modulo m.                                       *)
LEMMA CountDown ==
  ASSUME NEW m \in Nat \ {0}, NEW n \in Nat, NEW f \in Nat, NEW c \in Nat,
         Differ(n, f, c, m)
  PROVE  Differ(n, (f + 1) % m, c - 1, m)
<1>0. PICK k \in Int : n - f = c + m * k
  BY DEF Differ
<1> DEFINE q == (f + 1) \div m
           r == (f + 1) % m
<1>1. q \in Int /\ r \in Int /\ f + 1 = q * m + r
  OBVIOUS
<1> HIDE DEF q, r
<1>2. n - r = c - 1 + m * (k + q)
  BY <1>0, <1>1
<1>3. k + q \in Int
  BY <1>1
<1>4. Differ(n, r, c - 1, m)
  BY <1>2, <1>3 DEF Differ
<1> QED
  BY <1>4 DEF r

(* What the counters tell, modulo m.                                       *)
LEMMA CountMod ==
  ASSUME NEW m \in Nat \ {0}, NEW d \in Int, NEW c \in Nat, NEW k \in Int,
         d = c + m * k
  PROVE  d % m = c % m
<1> DEFINE q == c \div m
           r == c % m
<1>1. q \in Int /\ r \in 0..(m - 1) /\ c = q * m + r
  OBVIOUS
<1> HIDE DEF q, r
<1>2. d = m * (q + k) + r
  BY <1>1
<1>3. \A x \in Int : (m * x + r) % m = r
  BY <1>1
<1>4. d % m = r
  BY <1>1, <1>2, <1>3
<1> QED
  BY <1>4 DEF r

(* One allocated block more, or less, is its size and header in bytes.     *)
LEMMA BytesOfBlock ==
  ASSUME NEW g, NEW h, Layout(g), NEW b \in AllocSet(g),
         AllocSet(h) = AllocSet(g) \ {b},
         \A x \in AllocSet(h) : g.size[x] = h.size[x]
  PROVE  /\ Cardinality(Bytes(h)) \in Nat
         /\ Cardinality(Bytes(g)) = Cardinality(Bytes(h)) + g.size[b] + HDR
         /\ Cardinality(Bytes(g)) <= HEAP_SIZE
         /\ Cardinality(AllocSet(h)) \in Nat
         /\ Cardinality(AllocSet(g)) = Cardinality(AllocSet(h)) + 1
<1> DEFINE I == b..(End(g, b) - 1)
<1>1. IsFiniteSet(Addr) /\ Cardinality(Addr) = HEAP_SIZE
  BY FS_Interval, Sizes4 DEF Addr
<1>2. /\ b \in g.hdrs /\ AllocSet(g) \subseteq g.hdrs
      /\ \A x \in g.hdrs : /\ x \in Nat /\ x \in Addr /\ g.size[x] \in Nat
                            /\ End(g, x) \in Nat /\ End(g, x) <= HEAP_SIZE
                            /\ End(g, x) > x
  BY EndFacts, Sizes4 DEF AllocSet
<1>3. \A x \in AllocSet(h) : End(h, x) = End(g, x) /\ x \in g.hdrs /\ x # b
  BY <1>2 DEF End
<1>4. End(g, b) = b + HDR + g.size[b]
  BY DEF End
<1>5. IsFiniteSet(I) /\ Cardinality(I) = g.size[b] + HDR
  <2> DEFINE z == End(g, b) - 1
  <2>1. b \in Int /\ z \in Int /\ b <= z /\ z - b + 1 = g.size[b] + HDR
    BY <1>2, <1>4, Sizes4
  <2> HIDE DEF z
  <2>2. IsFiniteSet(b..z) /\ Cardinality(b..z) = z - b + 1
    BY <2>1, FS_Interval
  <2> QED
    BY <2>1, <2>2 DEF z
<1>6. I \subseteq Addr
  <2>1. b \in Nat /\ End(g, b) \in Nat /\ End(g, b) <= HEAP_SIZE
    BY <1>2
  <2> QED
    BY <2>1, Sizes4 DEF Addr
<1>7. Bytes(g) = Bytes(h) \cup I
  <2>1. ASSUME NEW a \in Bytes(g) PROVE a \in Bytes(h) \cup I
    <3>1. PICK x \in AllocSet(g) : x <= a /\ a < End(g, x)
      BY DEF Bytes
    <3>2. a \in Int /\ a \in Addr
      BY DEF Bytes, Addr
    <3>3. CASE x = b
      BY <1>2, <3>1, <3>2, <3>3
    <3>4. CASE x # b
      BY <1>3, <3>1, <3>2, <3>4 DEF Bytes
    <3> QED
      BY <3>3, <3>4
  <2>2. ASSUME NEW a \in Bytes(h) PROVE a \in Bytes(g)
    BY <1>3 DEF Bytes
  <2>3. ASSUME NEW a \in I PROVE a \in Bytes(g)
    BY <1>2, <1>6 DEF Bytes
  <2> QED
    BY <2>1, <2>2, <2>3
<1>8. Bytes(h) \cap I = {}
  <2> SUFFICES ASSUME NEW a \in Bytes(h), a \in I PROVE FALSE
    OBVIOUS
  <2>1. PICK x \in AllocSet(h) : x <= a /\ a < End(h, x)
    BY DEF Bytes
  <2>2. a \in Int /\ b <= a /\ a < End(g, b)
    BY <1>2 DEF Bytes, Addr
  <2>3. x \in g.hdrs /\ x # b /\ End(h, x) = End(g, x)
    BY <1>3
  <2>4. (x < b => End(g, x) <= b) /\ (b < x => End(g, b) <= x)
    BY <1>2, <2>3 DEF Layout
  <2> QED
    BY <1>2, <2>1, <2>2, <2>3, <2>4
<1> HIDE DEF I
<1>9. /\ IsFiniteSet(Bytes(h)) /\ Cardinality(Bytes(h)) \in Nat
      /\ IsFiniteSet(Bytes(g)) /\ Cardinality(Bytes(g)) <= HEAP_SIZE
  <2>1. Bytes(h) \subseteq Addr /\ Bytes(g) \subseteq Addr
    BY DEF Bytes
  <2> QED
    BY <1>1, <2>1, FS_Subset, FS_CardinalityType
<1>10. Cardinality(Bytes(g)) = Cardinality(Bytes(h)) + Cardinality(I)
  <2>1. Cardinality(Bytes(h) \cup I)
          = Cardinality(Bytes(h)) + Cardinality(I) - Cardinality(Bytes(h) \cap I)
    BY <1>5, <1>9, FS_Union
  <2>2. Cardinality(Bytes(h) \cap I) = 0
    BY <1>8, FS_EmptySet
  <2>3. Cardinality(I) \in Nat
    BY <1>5, FS_CardinalityType
  <2> QED
    BY <1>7, <1>9, <2>1, <2>2, <2>3
<1>11. /\ IsFiniteSet(AllocSet(h)) /\ Cardinality(AllocSet(h)) \in Nat
       /\ Cardinality(AllocSet(g)) = Cardinality(AllocSet(h)) + 1
  <2>1. AllocSet(g) \subseteq Addr
    BY <1>2
  <2>2. IsFiniteSet(AllocSet(g)) /\ IsFiniteSet(AllocSet(h))
    BY <1>1, <2>1, FS_Subset
  <2>3. Cardinality(AllocSet(g)) \in Nat /\ Cardinality(AllocSet(h)) \in Nat
    BY <2>2, FS_CardinalityType
  <2>4. AllocSet(g) = AllocSet(h) \cup {b} /\ b \notin AllocSet(h)
    OBVIOUS
  <2>5. Cardinality(AllocSet(h) \cup {b}) = Cardinality(AllocSet(h)) + 1
    BY <2>2, <2>4, FS_AddElement
  <2> QED
    BY <2>2, <2>3, <2>4, <2>5
<1>12. g.size[b] \in Nat
  BY <1>2
<1> QED
  BY <1>5, <1>9, <1>10, <1>11, <1>12, Sizes4

(* rtos_malloc counts the block it hands out: no sum reaches SIZE_MOD.     *)
LEMMA AllocateCounted ==
  ASSUME NEW h, Sound(h), Counted(h), NEW n \in Nat, n % 4 = 0, Fits(h, n) # {}
  PROVE  Counted(Allocate(h, n))
<1> DEFINE b == find_best_fit(h, n)
           g == Allocate(h, n)
<1>1. /\ b \notin AllocSet(h) /\ Sound(g) /\ AllocSet(g) = AllocSet(h) \cup {b}
      /\ \A x \in AllocSet(h) : g.size[x] = h.size[x]
      /\ g.num_allocations = (h.num_allocations + 1) % COUNT_MOD
      /\ g.num_frees = h.num_frees
      /\ g.used_heap_size = (h.used_heap_size + (g.size[b] + HDR)) % SIZE_MOD
  BY AllocateFacts
<1> HIDE DEF b, g
<1>2. Layout(g) /\ Layout(h)
  BY <1>1 DEF Sound
<1>3. /\ Cardinality(Bytes(h)) \in Nat
      /\ Cardinality(Bytes(g)) = Cardinality(Bytes(h)) + g.size[b] + HDR
      /\ Cardinality(Bytes(g)) <= HEAP_SIZE
      /\ Cardinality(AllocSet(h)) \in Nat
      /\ Cardinality(AllocSet(g)) = Cardinality(AllocSet(h)) + 1
  <2>1. /\ AllocSet(h) = AllocSet(g) \ {b} /\ b \in AllocSet(g)
        /\ \A x \in AllocSet(h) : g.size[x] = h.size[x]
    BY <1>1
  <2> QED
    BY <1>2, <2>1, BytesOfBlock
<1>4. g.size[b] \in Nat
  <2>1. b \in g.hdrs
    BY <1>1 DEF AllocSet
  <2> QED
    BY <1>2, <2>1, EndFacts
<1>5. g.used_heap_size = HDR + Cardinality(Bytes(g))
  <2> DEFINE u == HDR + Cardinality(Bytes(g))
  <2>1. h.used_heap_size + (g.size[b] + HDR) = u
    BY <1>3, <1>4, Sizes4 DEF Counted
  <2>2. u \in Nat /\ u < SIZE_MOD
    BY <1>3, <1>4, Sizes4
  <2> HIDE DEF u
  <2>3. u % SIZE_MOD = u
    BY <2>2, SmallMod, Sizes4
  <2> QED
    BY <1>1, <2>1, <2>3 DEF u
<1>6. h.num_allocations \in Nat /\ h.num_frees \in Nat /\ COUNT_MOD \in Nat \ {0}
  BY <1>2, RecFacts, Sizes4 DEF Layout
<1>7. Differ(h.num_allocations, h.num_frees, Cardinality(AllocSet(h)), COUNT_MOD)
  BY DEF Counted
<1>8. Differ((h.num_allocations + 1) % COUNT_MOD, h.num_frees,
             Cardinality(AllocSet(h)) + 1, COUNT_MOD)
  BY <1>3, <1>6, <1>7, CountUp
<1> QED
  BY <1>1, <1>3, <1>5, <1>8 DEF Counted, g

(* rtos_free takes the block out of the statistics it was counted in.      *)
LEMMA ReleaseCounted ==
  ASSUME NEW h, Sound(h), Counted(h), NEW b \in AllocSet(h)
  PROVE  Counted(Release(h, b))
<1> DEFINE g == Release(h, b)
<1>1. /\ AllocSet(g) = AllocSet(h) \ {b}
      /\ \A x \in AllocSet(g) : g.size[x] = h.size[x]
      /\ g.num_allocations = h.num_allocations
      /\ g.num_frees = (h.num_frees + 1) % COUNT_MOD
      /\ g.used_heap_size = (h.used_heap_size - (h.size[b] + HDR)) % SIZE_MOD
  BY ReleaseFacts
<1> HIDE DEF g
<1>2. Layout(h)
  BY DEF Sound
<1>3. /\ Cardinality(Bytes(g)) \in Nat
      /\ Cardinality(Bytes(h)) = Cardinality(Bytes(g)) + h.size[b] + HDR
      /\ Cardinality(Bytes(h)) <= HEAP_SIZE
      /\ Cardinality(AllocSet(g)) \in Nat
      /\ Cardinality(AllocSet(h)) = Cardinality(AllocSet(g)) + 1
  <2>1. /\ AllocSet(g) = AllocSet(h) \ {b}
        /\ \A x \in AllocSet(g) : h.size[x] = g.size[x]
    BY <1>1
  <2> QED
    BY <1>2, <2>1, BytesOfBlock
<1>4. h.size[b] \in Nat
  <2>1. b \in h.hdrs
    BY DEF AllocSet
  <2> QED
    BY <1>2, <2>1, EndFacts
<1>5. g.used_heap_size = HDR + Cardinality(Bytes(g))
  <2> DEFINE u == HDR + Cardinality(Bytes(g))
  <2>1. h.used_heap_size - (h.size[b] + HDR) = u
    BY <1>3, <1>4, Sizes4 DEF Counted
  <2>2. u \in Nat /\ u < SIZE_MOD
    BY <1>3, <1>4, Sizes4
  <2> HIDE DEF u
  <2>3. u % SIZE_MOD = u
    BY <2>2, SmallMod, Sizes4
  <2> QED
    BY <1>1, <2>1, <2>3 DEF u
<1>6. h.num_allocations \in Nat /\ h.num_frees \in Nat /\ COUNT_MOD \in Nat \ {0}
  BY <1>2, RecFacts, Sizes4 DEF Layout
<1>7. Differ(h.num_allocations, h.num_frees, Cardinality(AllocSet(h)), COUNT_MOD)
  BY DEF Counted
<1>8. Differ(h.num_allocations, (h.num_frees + 1) % COUNT_MOD,
             Cardinality(AllocSet(h)) - 1, COUNT_MOD)
  <2>1. Cardinality(AllocSet(h)) \in Nat
    BY <1>3
  <2> QED
    BY <1>6, <1>7, <2>1, CountDown
<1>9. Cardinality(AllocSet(h)) - 1 = Cardinality(AllocSet(g))
  BY <1>3
<1> QED
  BY <1>1, <1>5, <1>8, <1>9 DEF Counted, g

(* The statistics in the terms of the property.                            *)
LEMMA CountedStats ==
  ASSUME Layout(heap), Counted(heap)
  PROVE  StatsExact
<1>1. Allocated = AllocSet(heap) /\ AllocatedBytes = Bytes(heap)
  BY DEF Allocated, AllocSet, AllocatedBytes, Bytes, BlockEnd, End
<1>2. PICK k \in Int : heap.num_allocations - heap.num_frees
                         = Cardinality(AllocSet(heap)) + COUNT_MOD * k
  BY DEF Counted, Differ
<1>3. heap.num_allocations - heap.num_frees \in Int /\ COUNT_MOD \in Nat \ {0}
  BY RecFacts, Sizes4 DEF Layout
<1>4. Cardinality(AllocSet(heap)) \in Nat
  <2>1. AllocSet(heap) \subseteq Addr
    BY RecFacts DEF Layout, AllocSet
  <2>2. IsFiniteSet(Addr)
    BY FS_Interval, Sizes4 DEF Addr
  <2> QED
    BY <2>1, <2>2, FS_Subset, FS_CardinalityType
<1>5. (heap.num_allocations - heap.num_frees) % COUNT_MOD
        = Cardinality(AllocSet(heap)) % COUNT_MOD
  BY <1>2, <1>3, <1>4, CountMod
<1> QED
  BY <1>1, <1>5 DEF StatsExact, Counted

-----------------------------------------------------------------------------
(* The application's view.  A heap h and a ledger a of what was asked for  *)
(* agree when the allocated blocks are the ones with an entry; the heap    *)
(* counts them besides.                                                    *)

Ledger(h, a) ==
  /\ Sound(h)
  /\ Counted(h)
  /\ a \in [Addr -> Nat]
  /\ AllocSet(h) = {b \in Addr : a[b] > 0}

Covered(h, a) == \A b \in AllocSet(h) : h.size[b] >= a[b]

(* The blocks of S stay allocated, at their size.                          *)
Keeps(g, h, S) == \A x \in S : x \in AllocSet(g) /\ g.size[x] = h.size[x]

(* An allocation takes a free block of sufficient size and leaves every other
   client alone. *)
LEMMA AllocateLedger ==
  ASSUME NEW h, NEW a, Ledger(h, a), NEW n \in Nat, n % 4 = 0,
         Fits(h, n) # {}, NEW w \in Nat \ {0}
  PROVE  LET b == find_best_fit(h, n)
             g == Allocate(h, n)
             e == [a EXCEPT ![b] = w]
         IN  /\ b \in Addr /\ a[b] = 0 /\ b \notin AllocSet(h)
             /\ Ledger(g, e) /\ AllocSet(g) = AllocSet(h) \cup {b}
             /\ g.size[b] >= n
             /\ Keeps(g, h, AllocSet(h))
             /\ Covered(h, a) /\ w <= n => Covered(g, e)
<1> DEFINE b == find_best_fit(h, n)
           g == Allocate(h, n)
           e == [a EXCEPT ![b] = w]
<1>1. /\ Sound(h) /\ Counted(h) /\ a \in [Addr -> Nat]
      /\ AllocSet(h) = {x \in Addr : a[x] > 0}
  BY DEF Ledger
<1>2. /\ b \in Addr /\ b \notin AllocSet(h)
      /\ Sound(g)
      /\ AllocSet(g) = AllocSet(h) \cup {b}
      /\ g.size[b] >= n
      /\ \A x \in AllocSet(h) : g.size[x] = h.size[x]
      /\ Counted(g)
  BY <1>1, AllocateFacts, AllocateCounted
<1> HIDE DEF b, g
<1>3. /\ e \in [Addr -> Nat] /\ e[b] = w
      /\ \A x \in Addr : x # b => e[x] = a[x]
  BY <1>1, <1>2
<1> HIDE DEF e
<1>4. a[b] = 0
  BY <1>1, <1>2
<1>5. AllocSet(g) = {x \in Addr : e[x] > 0}
  BY <1>1, <1>2, <1>3
<1>6. Ledger(g, e)
  BY <1>2, <1>3, <1>5 DEF Ledger
<1>7. Keeps(g, h, AllocSet(h))
  BY <1>2 DEF Keeps
<1>8. Covered(h, a) /\ w <= n => Covered(g, e)
  <2>1. g.size[b] \in Nat
    <3>1. Layout(g) /\ b \in g.hdrs
      BY <1>2 DEF Sound, AllocSet
    <3> QED
      BY <3>1, EndFacts
  <2> QED
    BY <1>1, <1>2, <1>3, <2>1 DEF Covered
<1> QED
  BY <1>2, <1>4, <1>6, <1>7, <1>8 DEF b, g, e

(* A release gives back that block only. *)
LEMMA ReleaseLedger ==
  ASSUME NEW h, NEW a, Ledger(h, a), NEW b \in AllocSet(h)
  PROVE  LET g == Release(h, b)
             e == [a EXCEPT ![b] = 0]
         IN  /\ b \in Addr /\ a[b] > 0
             /\ Ledger(g, e)
             /\ AllocSet(g) = AllocSet(h) \ {b}
             /\ Keeps(g, h, AllocSet(h) \ {b})
             /\ Covered(h, a) => Covered(g, e)
             /\ g.is_free = [h.is_free EXCEPT ![b] = TRUE]
<1> DEFINE g == Release(h, b)
           e == [a EXCEPT ![b] = 0]
<1>1. /\ Sound(h) /\ Counted(h) /\ a \in [Addr -> Nat]
      /\ AllocSet(h) = {x \in Addr : a[x] > 0}
  BY DEF Ledger
<1>2. /\ Sound(g)
      /\ AllocSet(g) = AllocSet(h) \ {b}
      /\ \A x \in AllocSet(g) : g.size[x] = h.size[x]
      /\ g.is_free = [h.is_free EXCEPT ![b] = TRUE]
      /\ Counted(g)
  BY <1>1, ReleaseFacts, ReleaseCounted
<1> HIDE DEF g
<1>3. b \in Addr /\ a[b] > 0
  BY <1>1
<1>4. /\ e \in [Addr -> Nat] /\ e[b] = 0
      /\ \A x \in Addr : x # b => e[x] = a[x]
  BY <1>1, <1>3
<1> HIDE DEF e
<1>5. AllocSet(g) = {x \in Addr : e[x] > 0}
  BY <1>1, <1>2, <1>3, <1>4
<1>6. Ledger(g, e)
  BY <1>2, <1>4, <1>5 DEF Ledger
<1>7. Keeps(g, h, AllocSet(h) \ {b})
  BY <1>2 DEF Keeps
<1>8. Covered(h, a) => Covered(g, e)
  BY <1>1, <1>2, <1>4 DEF Covered
<1> QED
  BY <1>2, <1>3, <1>6, <1>7, <1>8 DEF g, e

(* Asking for a block and giving it back leaves the ledger as it was.      *)
LEMMA AllocateRelease ==
  ASSUME NEW h, NEW a, Ledger(h, a), NEW n \in Nat, n % 4 = 0, Fits(h, n) # {}
  PROVE  LET b == find_best_fit(h, n)
             g == Release(Allocate(h, n), b)
         IN  /\ Ledger(g, a)
             /\ Keeps(g, h, AllocSet(h))
             /\ Covered(h, a) => Covered(g, a)
             /\ g.num_allocations = (h.num_allocations + 1) % COUNT_MOD
<1> DEFINE b == find_best_fit(h, n)
           f == Allocate(h, n)
           e == [a EXCEPT ![b] = 1]
           g == Release(f, b)
<1>1. /\ b \in Addr /\ a[b] = 0 /\ b \notin AllocSet(h)
      /\ Ledger(f, e) /\ b \in AllocSet(f)
      /\ Keeps(f, h, AllocSet(h))
  BY AllocateLedger
<1>2. f.num_allocations = (h.num_allocations + 1) % COUNT_MOD
  BY AllocateFacts DEF Ledger
<1>3. a \in [Addr -> Nat]
  BY DEF Ledger
<1> HIDE DEF b, f
<1>4. [e EXCEPT ![b] = 0] = a
  BY <1>1, <1>3
<1> HIDE DEF e
<1>5. /\ Ledger(g, [e EXCEPT ![b] = 0])
      /\ AllocSet(g) = AllocSet(f) \ {b}
      /\ Keeps(g, f, AllocSet(f) \ {b})
  BY <1>1, ReleaseLedger
<1>6. g.num_allocations = f.num_allocations
  BY <1>1, ReleaseFacts DEF Ledger
<1> HIDE DEF g
<1>7. Ledger(g, a)
  BY <1>4, <1>5
<1>8. Keeps(g, h, AllocSet(h))
  BY <1>1, <1>5 DEF Keeps
<1>9. AllocSet(g) = AllocSet(h)
  BY <1>7 DEF Ledger
<1>10. Covered(h, a) => Covered(g, a)
  BY <1>8, <1>9 DEF Covered, Keeps
<1> QED
  BY <1>2, <1>6, <1>7, <1>8, <1>10 DEF b, f, g
-----------------------------------------------------------------------------
(* The heap API.  The inductive invariant adds to the layout that a freed  *)
(* block is still marked free: the check of rtos_free rests on it.         *)

HeapInv ==
  /\ Ledger(heap, asked)
  /\ freed \subseteq Addr
  /\ \A b \in freed : heap.is_free[b]

(* What a call made by the owner of the blocks `mine' does to the heap.    *)
StepFacts(mine) ==
  /\ HeapInv'
  /\ Covered(heap, asked) => Covered(heap', asked')
  /\ Keeps(heap', heap, AllocSet(heap) \ mine)
  /\ asked' = asked => heap' = heap

(* A call that fails early does nothing. *)
LEMMA StutterFacts ==
  ASSUME HeapInv, UNCHANGED heapVars, NEW mine
  PROVE  StepFacts(mine)
<1>1. heap' = heap /\ asked' = asked /\ freed' = freed
  BY DEF heapVars
<1>2. HeapInv'
  BY <1>1 DEF HeapInv, Ledger, Sound, Layout, Adjacent, End, AllocSet
<1>3. Keeps(heap', heap, AllocSet(heap) \ mine)
  BY <1>1 DEF Keeps
<1> QED
  BY <1>1, <1>2, <1>3 DEF StepFacts

(* From a ledger of the new heap, however it came about.                   *)
LEMMA LedgerStep ==
  ASSUME NEW g, NEW e, Ledger(g, e), heap' = g, asked' = e,
         freed' \subseteq Addr, \A b \in freed' : g.is_free[b]
  PROVE  HeapInv'
<1>1. Ledger(heap', asked')
  OBVIOUS
<1> QED
  BY <1>1 DEF HeapInv, Ledger, Sound, Layout, Adjacent, End, AllocSet

(* What the application holds is what the list marks as allocated. *)
LEMMA HeldIsAllocSet ==
  ASSUME HeapInv
  PROVE  /\ Held = AllocSet(heap)
         /\ Allocated = AllocSet(heap)
         /\ Held \subseteq Addr
         /\ asked \in [Addr -> Nat]
         /\ \A b \in Addr : b \notin Held => asked[b] = 0
  BY DEF HeapInv, Ledger, Held, AllocSet, Allocated

(* rtos_malloc and rtos_calloc. *)
LEMMA MallocFacts ==
  ASSUME HeapInv, NEW n \in 0..HEAP_SIZE, NEW mine, MallocFor(n, n)
  PROVE  StepFacts(mine)
<1> DEFINE a == align_size(n)
           b == find_best_fit(heap, a)
           g == Allocate(heap, a)
           e == [asked EXCEPT ![b] = n]
<1>1. CASE UNCHANGED heapVars
  BY <1>1, StutterFacts
<1>2. CASE /\ n > 0 /\ Fits(heap, a) # {}
           /\ heap' = g /\ asked' = e /\ freed' = {}
  <2>1. n \in 0..(SIZE_MOD - 1) /\ n <= SIZE_MOD - 4
    BY Sizes4
  <2>2. a \in Nat /\ a % 4 = 0 /\ n <= a
    BY <2>1, AlignFacts
  <2> HIDE DEF a
  <2>3. Ledger(heap, asked) /\ n \in Nat \ {0}
    BY <1>2, Sizes4 DEF HeapInv
  <2>4. /\ b \in Addr /\ asked[b] = 0
        /\ Ledger(g, e) /\ Keeps(g, heap, AllocSet(heap))
        /\ Covered(heap, asked) /\ n <= a => Covered(g, e)
    BY <1>2, <2>2, <2>3, AllocateLedger
  <2>5. asked' # asked
    BY <1>2, <2>3, <2>4 DEF Ledger
  <2> HIDE DEF b, g, e
  <2>6. HeapInv'
    BY <1>2, <2>4, LedgerStep
  <2> QED
    BY <1>2, <2>2, <2>4, <2>5, <2>6 DEF StepFacts, Keeps
<1> QED
  BY <1>1, <1>2 DEF MallocFor

(* rtos_free, of a block held or of one freed before. *)
LEMMA FreeFacts ==
  ASSUME HeapInv, NEW mine, mine \subseteq Held, NEW b \in mine \cup freed,
         rtos_free(b)
  PROVE  StepFacts(mine)
<1> DEFINE g == Release(heap, b)
           e == [asked EXCEPT ![b] = 0]
<1>1. heap' = g /\ asked' = e /\ freed' = freed \cup {b}
  BY DEF rtos_free
<1>2. Ledger(heap, asked) /\ freed \subseteq Addr /\ \A x \in freed : heap.is_free[x]
  BY DEF HeapInv
<1>3. CASE b \in mine
  <2>1. b \in AllocSet(heap)
    BY <1>3, HeldIsAllocSet
  <2>2. /\ b \in Addr /\ asked[b] > 0
        /\ Ledger(g, e) /\ Keeps(g, heap, AllocSet(heap) \ {b})
        /\ Covered(heap, asked) => Covered(g, e)
        /\ g.is_free = [heap.is_free EXCEPT ![b] = TRUE]
    BY <1>2, <2>1, ReleaseLedger
  <2>3. asked' # asked
    BY <1>1, <2>2, HeldIsAllocSet
  <2>4. \A x \in freed' : g.is_free[x]
    <3>1. heap.is_free \in [Addr -> BOOLEAN]
      BY <1>2, RecFacts DEF Ledger, Sound, Layout
    <3> HIDE DEF g
    <3> QED
      BY <1>1, <1>2, <2>2, <3>1
  <2> HIDE DEF g, e
  <2>5. HeapInv'
    BY <1>1, <1>2, <2>2, <2>4, LedgerStep
  <2> QED
    BY <1>1, <1>3, <2>2, <2>3, <2>5 DEF StepFacts, Keeps
<1>4. CASE b \in freed
  <2>1. heap.is_free[b] /\ b \in Addr
    BY <1>2, <1>4
  <2>2. g = heap
    BY <2>1 DEF Release
  <2>3. asked[b] = 0
    BY <2>1, HeldIsAllocSet DEF AllocSet
  <2>4. e = asked
    BY <2>1, <2>3, HeldIsAllocSet
  <2>5. freed' = freed
    BY <1>1, <1>4
  <2>6. UNCHANGED heapVars
    BY <1>1, <2>2, <2>4, <2>5 DEF heapVars
  <2> QED
    BY <2>6, StutterFacts
<1> QED
  BY <1>3, <1>4

(* rtos_realloc: shrinking in place, moving, freeing for size 0, or failing.
   *)
LEMMA ReallocFacts ==
  ASSUME HeapInv, NEW mine, mine \subseteq Held, NEW b \in mine,
         NEW n \in 0..HEAP_SIZE, rtos_realloc(b, n)
  PROVE  StepFacts(mine)
<1> DEFINE a == align_size(n)
           c == find_best_fit(heap, a)
           f == Allocate(heap, a)
           e == [asked EXCEPT ![c] = n]
           g == Release(f, b)
           e2 == [e EXCEPT ![b] = 0]
<1>0. /\ b \in AllocSet(heap) /\ b \in Addr /\ asked[b] > 0
      /\ asked \in [Addr -> Nat]
      /\ Ledger(heap, asked) /\ freed \subseteq Addr
      /\ \A x \in freed : heap.is_free[x]
  BY HeldIsAllocSet DEF HeapInv, Held
<1>a. heap.size[b] \in Nat
  <2>1. Layout(heap) /\ b \in heap.hdrs
    BY <1>0 DEF Ledger, Sound, AllocSet
  <2> QED
    BY <2>1, EndFacts
<1>1. CASE rtos_free(b)
  BY <1>1, FreeFacts
<1>2. CASE UNCHANGED heapVars
  BY <1>2, StutterFacts
<1>3. CASE /\ n > 0 /\ n <= heap.size[b]
           /\ asked' = [asked EXCEPT ![b] = n] /\ UNCHANGED <<heap, freed>>
  <2> DEFINE d == [asked EXCEPT ![b] = n]
  <2>1. /\ d \in [Addr -> Nat] /\ d[b] = n
        /\ \A x \in Addr : x # b => d[x] = asked[x]
    BY <1>0, <1>3, Sizes4
  <2> HIDE DEF d
  <2>2. Ledger(heap, d)
    BY <1>0, <1>3, <2>1 DEF Ledger
  <2>3. asked' = d /\ heap' = heap /\ freed' = freed
    BY <1>3 DEF d
  <2>4. HeapInv'
    BY <1>0, <2>2, <2>3, LedgerStep
  <2>5. \A x \in AllocSet(heap) : x \in Addr
    BY <1>0 DEF Ledger
  <2>6. Covered(heap, asked) => Covered(heap', asked')
    BY <1>3, <2>1, <2>3, <2>5 DEF Covered
  <2> QED
    BY <2>3, <2>4, <2>6 DEF StepFacts, Keeps
<1>4. CASE /\ n > heap.size[b] /\ Fits(heap, a) # {}
           /\ heap' = g
           /\ asked' = [asked EXCEPT ![c] = n, ![b] = 0]
           /\ freed' = {b}
  <2>1. n \in 0..(SIZE_MOD - 1) /\ n <= SIZE_MOD - 4 /\ n \in Nat \ {0}
    BY <1>4, <1>a, Sizes4
  <2>2. a \in Nat /\ a % 4 = 0 /\ n <= a
    BY <2>1, AlignFacts
  <2> HIDE DEF a
  <2>3. /\ c \in Addr /\ c \notin AllocSet(heap)
        /\ Ledger(f, e) /\ Keeps(f, heap, AllocSet(heap))
        /\ Covered(heap, asked) /\ n <= a => Covered(f, e)
    BY <1>0, <1>4, <2>1, <2>2, AllocateLedger
  <2>4. b # c
    BY <1>0, <2>3
  <2>5. asked' = e2
    BY <1>0, <1>4, <2>3, <2>4
  <2> HIDE DEF c, f, e
  <2>6. b \in AllocSet(f)
    BY <1>0, <2>3 DEF Keeps
  <2>7. /\ Ledger(g, e2)
        /\ Keeps(g, f, AllocSet(f) \ {b})
        /\ Covered(f, e) => Covered(g, e2)
        /\ g.is_free = [f.is_free EXCEPT ![b] = TRUE]
    BY <2>3, <2>6, ReleaseLedger
  <2>8. \A x \in freed' : g.is_free[x]
    <3>1. f.is_free \in [Addr -> BOOLEAN]
      BY <2>3, RecFacts DEF Ledger, Sound, Layout
    <3> HIDE DEF g
    <3> QED
      BY <1>0, <1>4, <2>7, <3>1
  <2>9. e2[b] = 0
    BY <1>0, <2>3 DEF Ledger
  <2> HIDE DEF g, e2
  <2>10. HeapInv'
    BY <1>0, <1>4, <2>5, <2>7, <2>8, LedgerStep
  <2>11. Keeps(g, heap, AllocSet(heap) \ mine)
    BY <2>3, <2>7 DEF Keeps
  <2>12. asked' # asked
    BY <1>0, <2>5, <2>9
  <2> QED
    BY <1>4, <2>2, <2>3, <2>5, <2>7, <2>10, <2>11, <2>12 DEF StepFacts
<1> QED
  BY <1>1, <1>2, <1>3, <1>4 DEF rtos_realloc

(* Every call of the heap API, made with blocks the caller owns.           *)
LEMMA HeapStepFacts ==
  ASSUME HeapInv, NEW mine, mine \subseteq Held, HeapStep(mine)
  PROVE  StepFacts(mine)
<1>0. Sizes \subseteq 0..HEAP_SIZE
  BY HeapAssumption
<1>1. ASSUME NEW n \in Sizes, rtos_malloc(n)
      PROVE  StepFacts(mine)
  BY <1>0, <1>1, MallocFacts DEF rtos_malloc
<1>2. ASSUME NEW num \in Sizes, NEW n \in Sizes, num * n <= HEAP_SIZE,
             rtos_calloc(num, n)
      PROVE  StepFacts(mine)
  <2>1. num * n \in 0..HEAP_SIZE
    BY <1>0, <1>2, Sizes4
  <2> DEFINE k == num * n
  <2>2. MallocFor(k % SIZE_MOD, k)
    BY <1>2 DEF rtos_calloc
  <2>3. k \in 0..HEAP_SIZE
    BY <2>1
  <2> HIDE DEF k
  <2>4. k % SIZE_MOD = k
    BY <2>3, Sizes4
  <2>5. MallocFor(k, k)
    BY <2>2, <2>4
  <2> QED
    BY <2>3, <2>5, MallocFacts
<1>3. ASSUME NEW b \in mine \cup freed, rtos_free(b)
      PROVE  StepFacts(mine)
  BY <1>3, FreeFacts
<1>4. ASSUME NEW b \in mine, NEW n \in Sizes, rtos_realloc(b, n)
      PROVE  StepFacts(mine)
  BY <1>0, <1>4, ReallocFacts
<1> QED
  BY <1>1, <1>2, <1>3, <1>4 DEF HeapStep

(* memory_init leaves one free block that covers the heap.                 *)
LEMMA InitialHeapFacts ==
  ASSUME HeapInit
  PROVE  HeapInv /\ Covered(heap, asked)
<1> DEFINE h == InitialHeap
<1>1. heap = h /\ asked = [a \in Addr |-> 0] /\ freed = {}
  BY DEF HeapInit
<1>2. /\ h.hdrs = {0}
      /\ h.size = [a \in Addr |-> IF a = 0 THEN HEAP_SIZE - HDR ELSE 0]
      /\ h.is_free = [a \in Addr |-> TRUE]
  BY DEF InitialHeap
<1>3. 0 \in Addr
  BY Sizes4 DEF Addr
<1>4. h \in HeapRec
  <2>1. h.size \in [Addr -> 0..HEAP_SIZE]
    BY <1>2, Sizes4
  <2>2. HDR \in 0..(SIZE_MOD - 1) /\ HEAP_SIZE - HDR \in 0..(SIZE_MOD - 1)
        /\ 0 \in 0..(COUNT_MOD - 1)
    BY Sizes4
  <2> QED
    BY <1>2, <1>3, <2>1, <2>2 DEF InitialHeap, HeapRec
<1> HIDE DEF h
<1>5. End(h, 0) = HEAP_SIZE
  BY <1>2, <1>3, Sizes4 DEF End
<1>6. HEAP_SIZE # 0
  BY Sizes4
<1>7. Sound(h)
  BY <1>2, <1>4, <1>5, <1>6 DEF Sound, Layout, Adjacent
<1>8. AllocSet(h) = {}
  BY <1>2, <1>3 DEF AllocSet
<1>9. Counted(h)
  <2>1. /\ h.used_heap_size = HDR
        /\ h.num_allocations = 0 /\ h.num_frees = 0
    BY DEF h, InitialHeap
  <2>2. Bytes(h) = {}
    BY <1>8 DEF Bytes
  <2>3. Cardinality(Bytes(h)) = 0 /\ Cardinality(AllocSet(h)) = 0
    BY <1>8, <2>2, FS_EmptySet
  <2>4. h.num_allocations - h.num_frees = Cardinality(AllocSet(h)) + COUNT_MOD * 0
    BY <2>1, <2>3, Sizes4
  <2> QED
    BY <2>1, <2>3, <2>4, Sizes4 DEF Counted, Differ
<1>10. Ledger(heap, asked)
  BY <1>1, <1>7, <1>8, <1>9 DEF Ledger
<1> QED
  BY <1>1, <1>8, <1>10 DEF HeapInv, Covered

(* What the invariant says in the terms of the properties.                 *)
LEMMA HeapInvProperties ==
  ASSUME HeapInv
  PROVE  /\ Tiling
         /\ Coalesced
         /\ StatsExact
         /\ Covered(heap, asked) => HeapTypeOK /\ HeldIsAllocated
<1>1. Layout(heap) /\ Adjacent(heap) = {} /\ Counted(heap)
  BY DEF HeapInv, Ledger, Sound
<1>2. Tiling
  BY <1>1 DEF Layout, Tiling, End, BlockEnd
<1>3. Coalesced
  BY <1>1 DEF Adjacent, Coalesced, End, BlockEnd
<1>4. ASSUME Covered(heap, asked) PROVE HeapTypeOK
  <2>1. heap \in HeapRec /\ freed \subseteq Addr
    BY <1>1 DEF Layout, HeapInv
  <2>2. ASSUME NEW b \in Addr PROVE asked[b] \in 0..HEAP_SIZE
    <3>1. asked[b] \in Nat
      BY HeldIsAllocSet
    <3>2. CASE asked[b] > 0
      <4>1. b \in AllocSet(heap) /\ b \in heap.hdrs
        BY <3>2, HeldIsAllocSet DEF Held, AllocSet
      <4>2. heap.size[b] \in 0..HEAP_SIZE /\ heap.size[b] >= asked[b]
        BY <1>1, <1>4, <4>1, EndFacts DEF Covered
      <4> QED
        BY <3>1, <4>2, Sizes4
    <3> QED
      BY <3>1, <3>2, Sizes4
  <2>3. asked \in [Addr -> 0..HEAP_SIZE]
    BY <2>2, HeldIsAllocSet
  <2> QED
    BY <2>1, <2>3 DEF HeapTypeOK, HeapRec
<1>5. ASSUME Covered(heap, asked) PROVE HeldIsAllocated
  BY <1>5, HeldIsAllocSet DEF HeldIsAllocated, Covered
<1>6. StatsExact
  BY <1>1, CountedStats
<1> QED
  BY <1>2, <1>3, <1>4, <1>5, <1>6

-----------------------------------------------------------------------------
(* An application alone on the heap.                                       *)

(* The inductive invariant holds in every reachable state. *)
LEMMA HeapSpecInv == HeapSpec => [](HeapInv /\ Covered(heap, asked))
<1>1. HeapInit => HeapInv /\ Covered(heap, asked)
  BY InitialHeapFacts
<1>2. HeapInv /\ Covered(heap, asked) /\ [HeapNext]_heapVars =>
        HeapInv' /\ Covered(heap, asked)'
  <2> SUFFICES ASSUME HeapInv, Covered(heap, asked), [HeapNext]_heapVars
               PROVE  HeapInv' /\ Covered(heap', asked')
    BY DEF Covered, AllocSet
  <2>1. StepFacts(Held)
    BY StutterFacts, HeapStepFacts DEF HeapNext
  <2> QED
    BY <2>1 DEF StepFacts
<1> QED
  BY <1>1, <1>2, PTL DEF HeapSpec

-----------------------------------------------------------------------------
(* Theorems.                                                               *)

(* The heap's fields and counters keep their types through every sequence  *)
(* of calls.                                                               *)
THEOREM HeapTypeCorrect == HeapSpec => []HeapTypeOK
<1>1. HeapInv /\ Covered(heap, asked) => HeapTypeOK
  BY HeapInvProperties
<1> QED
  BY <1>1, HeapSpecInv, PTL

(* Whatever rtos_malloc splits and merge_free_blocks joins, in whatever    *)
(* order, the blocks cover the heap exactly, for any heap and header size. *)
THEOREM BlocksTile == HeapSpec => []Tiling
<1>1. HeapInv /\ Covered(heap, asked) => Tiling
  BY HeapInvProperties
<1> QED
  BY <1>1, HeapSpecInv, PTL

(* merge_free_blocks leaves no two free blocks side by side: joining with  *)
(* the next and the previous block is enough, whatever was freed before.   *)
THEOREM FreeBlocksMerged == HeapSpec => []Coalesced
<1>1. HeapInv /\ Covered(heap, asked) => Coalesced
  BY HeapInvProperties
<1> QED
  BY <1>1, HeapSpecInv, PTL

(* What is allocated is what the application holds, at the size it asked   *)
(* for: nothing leaks, and no free reaches another client's block.         *)
THEOREM HeldBlocksAllocated == HeapSpec => []HeldIsAllocated
<1>1. HeapInv /\ Covered(heap, asked) => HeldIsAllocated
  BY HeapInvProperties
<1> QED
  BY <1>1, HeapSpecInv, PTL

(* The statistics count exactly what is allocated, though size_t and the   *)
(* counters wrap and merges change the sizes of free blocks.               *)
THEOREM StatsCorrect == HeapSpec => []StatsExact
<1>1. HeapInv /\ Covered(heap, asked) => StatsExact
  BY HeapInvProperties
<1> QED
  BY <1>1, HeapSpecInv, PTL

(* A second rtos_free of a block changes nothing, also when the block was  *)
(* merged into its neighbour in between.                                   *)
THEOREM DoubleFreeHarmless == HeapSpec => DoubleFreeIgnored
<1>1. HeapInv /\ [HeapNext]_heapVars =>
        [(asked' = asked /\ heap'.num_allocations = heap.num_allocations)
           => heap' = heap]_heapVars
  <2> SUFFICES ASSUME HeapInv, HeapNext, asked' = asked
               PROVE  heap' = heap
    BY DEF heapVars
  <2>1. StepFacts(Held)
    BY HeapStepFacts DEF HeapNext
  <2> QED
    BY <2>1 DEF StepFacts
<1> QED
  BY <1>1, HeapSpecInv, PTL DEF HeapSpec, DoubleFreeIgnored
=============================================================================
