----------------------------- MODULE PoolProofs -----------------------------
(***************************************************************************)
(* Proofs about MemoryPool for every heap and every pool: bitmap, counter  *)
(* and the blocks handed out agree, and the pool keeps its heap blocks     *)
(* whatever the application does with the rest of the heap.                *)
(***************************************************************************)
EXTENDS MemoryPool, HeapProofs

(* memory_pool_create multiplies and rounds in size_t without a check.     *)
(* What it promises about sizes is promised for requests that do not wrap. *)
NoOverflow ==
  \A bs \in BlockSizes, n \in BlockCounts :
    bs <= SIZE_MOD - 4 /\ align_size(bs) * n <= SIZE_MOD - 4

PoolRec ==
  [pool_start : Int, free_list : Int, block_size : Nat, num_blocks : Nat,
   free_blocks : Nat, free : SUBSET Nat]

Bits ==
  /\ pool \in PoolRec
  /\ pool.free \subseteq 0..(pool.num_blocks - 1)
  /\ PoolExact

Owns(p, h) ==
  /\ p.block_size > 0
  /\ p.pool_start \in AllocSet(h) /\ p.free_list \in AllocSet(h)
  /\ p.pool_start # p.free_list
  /\ p.block_size * p.num_blocks <= h.size[p.pool_start]
  /\ p.num_blocks <= 8 * h.size[p.free_list]

PInv ==
  /\ HeapInv
  /\ Covered(heap, asked)
  /\ Bits
  /\ Created => Owns(pool, heap)

-----------------------------------------------------------------------------

(* Multiplication is monotone. *)
LEMMA TimesMonotone ==
  ASSUME NEW a \in Nat, NEW b \in Nat, NEW n \in Nat, a <= b
  PROVE  a * n <= b * n
<1>1. (b - a) * n \in Nat
  BY SMT
<1>2. b * n = a * n + (b - a) * n
  BY SMT
<1> QED
  BY <1>1, <1>2

(* The fields of a pool have their types. *)
LEMMA PoolFields ==
  ASSUME NEW p \in PoolRec
  PROVE  /\ p.pool_start \in Int /\ p.free_list \in Int
         /\ p.block_size \in Nat /\ p.num_blocks \in Nat
         /\ p.free_blocks \in Nat /\ p.free \subseteq Nat
  BY DEF PoolRec

(* The indices of n blocks are n. *)
LEMMA IntervalFacts ==
  ASSUME NEW n \in Nat
  PROVE  IsFiniteSet(0..(n - 1)) /\ Cardinality(0..(n - 1)) = n
<1>1. /\ IsFiniteSet(0..(n - 1))
      /\ Cardinality(0..(n - 1)) = IF 0 > n - 1 THEN 0 ELSE (n - 1) - 0 + 1
  BY FS_Interval
<1> QED
  BY <1>1

(* The bitmap is finite, so that taking a bit changes its cardinality by 1.*)
LEMMA BitsFinite ==
  ASSUME Bits
  PROVE  IsFiniteSet(pool.free) /\ Cardinality(pool.free) \in Nat
<1>1. pool.num_blocks \in Nat /\ pool.free \subseteq 0..(pool.num_blocks - 1)
  BY PoolFields DEF Bits
<1>2. IsFiniteSet(0..(pool.num_blocks - 1))
  BY <1>1, IntervalFacts
<1>3. IsFiniteSet(pool.free)
  BY <1>1, <1>2, FS_Subset
<1> QED
  BY <1>3, FS_CardinalityType

(* memory_pool_create with sizes that do not wrap.                         *)
LEMMA RequestFacts ==
  ASSUME NoOverflow, NEW bs \in BlockSizes, NEW n \in BlockCounts, bs > 0, n > 0
  PROVE  LET size == align_size(bs)
             total == (size * n) % SIZE_MOD
             bitmap == (n + 7) \div 8
         IN  /\ size \in Nat /\ size > 0 /\ n \in Nat /\ bs * n \in Nat \ {0}
             /\ total = size * n
             /\ align_size(total) \in Nat /\ align_size(total) % 4 = 0
             /\ size * n <= align_size(total) /\ bs * n <= align_size(total)
             /\ bitmap \in Nat \ {0} /\ n <= 8 * bitmap
             /\ align_size(bitmap) \in Nat /\ align_size(bitmap) % 4 = 0
             /\ bitmap <= align_size(bitmap)
<1> DEFINE size == align_size(bs)
           prod == size * n
           bitmap == (n + 7) \div 8
<1>1. bs \in Nat /\ n \in Nat /\ bs <= SIZE_MOD - 4 /\ prod <= SIZE_MOD - 4
  BY PoolAssumption DEF NoOverflow
<1>2. bs \in 0..(SIZE_MOD - 1)
  BY <1>1, Sizes4
<1>3. size \in Nat /\ bs <= size
  BY <1>1, <1>2, AlignFacts
<1> HIDE DEF size
<1>4. bs * n <= prod /\ 1 * n <= prod /\ 1 * n <= bs * n
  BY <1>1, <1>3, TimesMonotone
<1>5. prod \in Nat /\ bs * n \in Nat
  BY <1>1, <1>3
<1> HIDE DEF prod
<1>6. prod \in 0..(SIZE_MOD - 1) /\ prod % SIZE_MOD = prod
  BY <1>1, <1>5, Sizes4
<1>7. align_size(prod) \in Nat /\ align_size(prod) % 4 = 0 /\ prod <= align_size(prod)
  BY <1>1, <1>6, AlignFacts
<1>8. bs * n <= align_size(prod)
  BY <1>4, <1>5, <1>7
<1>9. n <= SIZE_MOD - 4
  BY <1>1, <1>4, <1>5, Sizes4
<1>10. bitmap \in Nat \ {0} /\ n <= 8 * bitmap /\ bitmap <= n
  BY <1>1
<1> HIDE DEF bitmap
<1>11. bitmap \in 0..(SIZE_MOD - 1) /\ bitmap <= SIZE_MOD - 4
  BY <1>1, <1>9, <1>10, Sizes4
<1>12. /\ align_size(bitmap) \in Nat /\ align_size(bitmap) % 4 = 0
       /\ bitmap <= align_size(bitmap)
  BY <1>11, AlignFacts
<1>13. bs * n > 0
  BY <1>1, <1>4, <1>5
<1>14. size > 0
  BY <1>1, <1>3
<1> QED
  BY <1>1, <1>3, <1>5, <1>6, <1>7, <1>8, <1>10, <1>12, <1>13, <1>14
     DEF size, prod, bitmap
-----------------------------------------------------------------------------
(* A pool keeps its blocks when the heap does.                             *)
LEMMA OwnsKept ==
  ASSUME NEW p, NEW g, NEW h, Owns(p, h),
         Keeps(g, h, {p.pool_start, p.free_list})
  PROVE  Owns(p, g)
  BY DEF Owns, Keeps

(* A step that leaves the pool alone.                                      *)
LEMMA PoolUntouched ==
  ASSUME PInv, UNCHANGED <<pool, taken>>, HeapInv', Covered(heap', asked'),
         Created => Keeps(heap', heap, {pool.pool_start, pool.free_list})
  PROVE  PInv'
<1>1. Bits'
  BY DEF PInv, Bits, PoolExact
<1>2. Covered(heap, asked)'
  BY DEF Covered, AllocSet
<1>3. Created => Owns(pool, heap')
  BY OwnsKept DEF PInv
<1>4. (Created => Owns(pool, heap))'
  BY <1>3 DEF Created, Owns, AllocSet
<1> QED
  BY <1>1, <1>2, <1>4 DEF PInv

(* The application's own heap calls do not touch the pool. *)
LEMMA HeapStepKeepsPool ==
  ASSUME PInv, HeapStep(Held \ PoolBlocks), UNCHANGED <<pool, taken>>
  PROVE  PInv'
<1>1. HeapInv /\ Covered(heap, asked) /\ (Created => Owns(pool, heap))
  BY DEF PInv
<1>2. StepFacts(Held \ PoolBlocks)
  BY <1>1, HeapStepFacts
<1>3. /\ HeapInv' /\ Covered(heap', asked')
      /\ Keeps(heap', heap, AllocSet(heap) \ (Held \ PoolBlocks))
  BY <1>1, <1>2 DEF StepFacts
<1>4. Created => {pool.pool_start, pool.free_list} \subseteq
                   AllocSet(heap) \ (Held \ PoolBlocks)
  BY <1>1 DEF Owns, PoolBlocks
<1>5. Created => Keeps(heap', heap, {pool.pool_start, pool.free_list})
  BY <1>3, <1>4 DEF Keeps
<1> QED
  BY <1>3, <1>5, PoolUntouched

(* A call that fails early does nothing. *)
LEMMA StutterKeepsPool ==
  ASSUME PInv, UNCHANGED poolVars
  PROVE  PInv'
<1>1. UNCHANGED heapVars /\ UNCHANGED <<pool, taken>> /\ heap' = heap
  BY DEF poolVars, heapVars
<1>2. StepFacts({})
  BY <1>1, StutterFacts DEF PInv
<1>3. HeapInv' /\ Covered(heap', asked')
  BY <1>2 DEF StepFacts, PInv
<1>4. Created => Keeps(heap', heap, {pool.pool_start, pool.free_list})
  BY <1>1 DEF Keeps, PInv, Owns
<1> QED
  BY <1>1, <1>3, <1>4, PoolUntouched

(* A step that takes or returns one bit and leaves the heap alone.         *)
LEMMA BitStep ==
  ASSUME PInv, UNCHANGED heapVars, Bits', pool' \in PoolRec,
         pool'.pool_start = pool.pool_start, pool'.free_list = pool.free_list,
         pool'.block_size = pool.block_size, pool'.num_blocks = pool.num_blocks
  PROVE  PInv'
<1>1. heap' = heap /\ asked' = asked
  BY DEF heapVars
<1>2. StepFacts({})
  BY StutterFacts DEF PInv
<1>3. HeapInv'
  BY <1>2 DEF StepFacts
<1>4. Covered(heap, asked)'
  BY <1>1 DEF PInv, Covered, AllocSet
<1>5. (Created => Owns(pool, heap))'
  BY <1>1 DEF PInv, Created, Owns, AllocSet
<1> QED
  BY <1>3, <1>4, <1>5 DEF PInv

(* memory_pool_alloc clears the bit it hands out and counts it. *)
LEMMA AllocKeepsPool ==
  ASSUME PInv, memory_pool_alloc
  PROVE  PInv'
<1>1. CASE UNCHANGED poolVars
  BY <1>1, StutterKeepsPool
<1>2. ASSUME NEW i \in pool.free,
             pool' = [pool EXCEPT !.free = @ \ {i}, !.free_blocks = @ - 1],
             taken' = taken \cup {i}, UNCHANGED heapVars
      PROVE  PInv'
  <2>1. /\ pool \in PoolRec /\ Bits
        /\ pool.free \subseteq 0..(pool.num_blocks - 1)
        /\ pool.free_blocks = Cardinality(pool.free)
        /\ taken = 0..(pool.num_blocks - 1) \ pool.free
    BY DEF PInv, Bits, PoolExact
  <2>2. /\ IsFiniteSet(pool.free) /\ Cardinality(pool.free) \in Nat
        /\ Cardinality(pool.free \ {i}) = Cardinality(pool.free) - 1
    BY <2>1, BitsFinite, FS_RemoveElement
  <2>3. Cardinality(pool.free \ {i}) \in Nat
    <3>1. IsFiniteSet(pool.free \ {i})
      BY <2>2, FS_RemoveElement
    <3> QED
      BY <3>1, FS_CardinalityType
  <2>4. pool.free_blocks - 1 \in Nat /\ pool.free \ {i} \subseteq Nat
    BY <2>1, <2>2, <2>3, PoolFields
  <2>5. /\ pool' \in PoolRec
        /\ pool'.pool_start = pool.pool_start /\ pool'.free_list = pool.free_list
        /\ pool'.block_size = pool.block_size /\ pool'.num_blocks = pool.num_blocks
        /\ pool'.free = pool.free \ {i}
        /\ pool'.free_blocks = pool.free_blocks - 1
    BY <1>2, <2>1, <2>4 DEF PoolRec
  <2>6. Bits'
    BY <1>2, <2>1, <2>2, <2>5 DEF Bits, PoolExact
  <2> QED
    BY <1>2, <2>5, <2>6, BitStep
<1> QED
  BY <1>1, <1>2 DEF memory_pool_alloc

(* memory_pool_free: a pointer outside, between two blocks, free already, or
   to a block in use. *)
LEMMA FreeKeepsPool ==
  ASSUME PInv, Created, NEW d \in Int, memory_pool_free(d)
  PROVE  PInv'
<1> DEFINE offset == d % SIZE_MOD
           i == offset \div pool.block_size
<1>1. CASE UNCHANGED poolVars
  BY <1>1, StutterKeepsPool
<1>2. CASE /\ i < pool.num_blocks /\ i \notin pool.free
           /\ pool' = [pool EXCEPT !.free = @ \cup {i}, !.free_blocks = @ + 1]
           /\ taken' = taken \ {i} /\ UNCHANGED heapVars
  <2>1. /\ pool \in PoolRec /\ Bits
        /\ pool.free \subseteq 0..(pool.num_blocks - 1)
        /\ pool.free_blocks = Cardinality(pool.free)
        /\ taken = 0..(pool.num_blocks - 1) \ pool.free
        /\ pool.block_size > 0
    BY DEF PInv, Bits, PoolExact, Owns
  <2>2. pool.block_size \in Nat /\ pool.num_blocks \in Nat /\ offset \in Nat
    BY <2>1, PoolFields, ModFacts, Sizes4
  <2> HIDE DEF offset
  <2>3. i \in Nat
    BY <2>1, <2>2
  <2>4. i \in 0..(pool.num_blocks - 1)
    BY <1>2, <2>2, <2>3
  <2> HIDE DEF i
  <2>5. /\ IsFiniteSet(pool.free) /\ Cardinality(pool.free) \in Nat
        /\ Cardinality(pool.free \cup {i}) = Cardinality(pool.free) + 1
    BY <1>2, <2>1, BitsFinite, FS_AddElement
  <2>6. pool.free_blocks + 1 \in Nat /\ pool.free \cup {i} \subseteq Nat
    BY <2>1, <2>3, <2>5, PoolFields
  <2>7. /\ pool' \in PoolRec
        /\ pool'.pool_start = pool.pool_start /\ pool'.free_list = pool.free_list
        /\ pool'.block_size = pool.block_size /\ pool'.num_blocks = pool.num_blocks
        /\ pool'.free = pool.free \cup {i}
        /\ pool'.free_blocks = pool.free_blocks + 1
    BY <1>2, <2>1, <2>6 DEF PoolRec
  <2>8. Bits'
    BY <1>2, <2>1, <2>4, <2>5, <2>7 DEF Bits, PoolExact
  <2> QED
    BY <1>2, <2>7, <2>8, BitStep
<1> QED
  BY <1>1, <1>2 DEF memory_pool_free

(* A pool that does not exist has no blocks and no bits.                   *)
LEMMA NoPool ==
  ASSUME PInv, ~Created
  PROVE  /\ pool \in PoolRec /\ pool.num_blocks = 0
         /\ pool.free = {} /\ pool.free_blocks = 0 /\ taken = {}
<1>1. pool \in PoolRec /\ pool.num_blocks \in Nat
  BY PoolFields DEF PInv, Bits
<1>2. pool.num_blocks = 0
  BY <1>1 DEF Created
<1>3. pool.free = {} /\ taken = {}
  BY <1>2 DEF PInv, Bits, PoolExact
<1> QED
  BY <1>1, <1>2, <1>3, FS_EmptySet DEF PInv, Bits, PoolExact

(* A failed creation leaves a struct without blocks.                       *)
LEMMA FailedCreation ==
  ASSUME PInv, ~Created, HeapInv', Covered(heap', asked'), taken' = taken,
         pool' \in PoolRec, pool'.num_blocks = pool.num_blocks,
         pool'.free = pool.free, pool'.free_blocks = pool.free_blocks
  PROVE  PInv'
<1>1. /\ pool'.num_blocks = 0 /\ pool'.free = {} /\ pool'.free_blocks = 0
      /\ taken' = {}
  BY NoPool
<1>2. Bits'
  BY <1>1, FS_EmptySet DEF Bits, PoolExact
<1>3. ~Created'
  BY <1>1 DEF Created
<1>4. Covered(heap, asked)'
  BY DEF Covered, AllocSet
<1> QED
  BY <1>2, <1>3, <1>4 DEF PInv

(* memory_pool_create: both allocations succeed, or everything is given back.
   *)
LEMMA CreateKeepsPool ==
  ASSUME PInv, NoOverflow, ~Created, NEW bs \in BlockSizes, NEW n \in BlockCounts,
         memory_pool_create(bs, n)
  PROVE  PInv' /\ (COUNT_MOD > 1 /\ asked' = asked
                     /\ heap'.num_allocations = heap.num_allocations => heap' = heap)
<1> DEFINE size   == align_size(bs)
           total  == (size * n) % SIZE_MOD
           bitmap == (n + 7) \div 8
           na     == align_size(total)
           nb     == align_size(bitmap)
           start  == find_best_fit(heap, na)
           grown  == Allocate(heap, na)
           list   == find_best_fit(grown, nb)
           final  == Allocate(grown, nb)
<1>0. Ledger(heap, asked) /\ Covered(heap, asked) /\ pool \in PoolRec
  BY DEF PInv, HeapInv, Bits
<1>1. CASE UNCHANGED poolVars
  BY <1>1, StutterKeepsPool DEF poolVars, heapVars
<1>2. CASE /\ pool' = [pool EXCEPT !.pool_start = NULL]
           /\ UNCHANGED <<heapVars, taken>>
  <2>1. StepFacts({}) /\ heap' = heap /\ taken' = taken
    BY <1>2, StutterFacts DEF PInv, heapVars
  <2>2. /\ pool' \in PoolRec /\ pool'.num_blocks = pool.num_blocks
        /\ pool'.free = pool.free /\ pool'.free_blocks = pool.free_blocks
    BY <1>0, <1>2 DEF PoolRec, NULL
  <2> QED
    BY <1>0, <2>1, <2>2, FailedCreation DEF StepFacts
<1> SUFFICES ASSUME bs > 0, n > 0, Fits(heap, na) # {},
                    \/ /\ heap' = Release(grown, start)
                       /\ freed' = {}
                       /\ pool' = [pool EXCEPT !.pool_start = start,
                                               !.free_list = NULL]
                       /\ UNCHANGED <<asked, taken>>
                    \/ /\ Fits(grown, nb) # {}
                       /\ heap' = final
                       /\ asked' = [asked EXCEPT ![start] = bs * n,
                                                 ![list] = bitmap]
                       /\ freed' = {}
                       /\ pool' = [pool_start |-> start, free_list |-> list,
                                   block_size |-> size, num_blocks |-> n,
                                   free_blocks |-> n, free |-> 0..(n - 1)]
                       /\ taken' = {}
             PROVE  PInv' /\ (COUNT_MOD > 1 /\ asked' = asked
                     /\ heap'.num_allocations = heap.num_allocations => heap' = heap)
  BY <1>1, <1>2 DEF memory_pool_create
<1>3. /\ size \in Nat /\ size > 0 /\ n \in Nat /\ bs * n \in Nat \ {0}
      /\ na \in Nat /\ na % 4 = 0 /\ size * n <= na /\ bs * n <= na
      /\ bitmap \in Nat \ {0} /\ n <= 8 * bitmap
      /\ nb \in Nat /\ nb % 4 = 0 /\ bitmap <= nb
  BY RequestFacts
<1> DEFINE bytes == bs * n
           e == [asked EXCEPT ![start] = bytes]
           e2 == [e EXCEPT ![list] = bitmap]
<1>3a. bytes \in Nat \ {0} /\ bytes <= na
  BY <1>3
<1> HIDE DEF size, bitmap, na, nb, bytes
<1>4. /\ start \in Addr /\ asked[start] = 0
      /\ Ledger(grown, e) /\ AllocSet(grown) = AllocSet(heap) \cup {start}
      /\ grown.size[start] >= na
      /\ Keeps(grown, heap, AllocSet(heap))
      /\ Covered(heap, asked) /\ bytes <= na => Covered(grown, e)
  BY <1>0, <1>3, <1>3a, AllocateLedger
<1>5. CASE /\ heap' = Release(grown, start)
           /\ freed' = {}
           /\ pool' = [pool EXCEPT !.pool_start = start, !.free_list = NULL]
           /\ UNCHANGED <<asked, taken>>
  <2>1. /\ Ledger(heap', asked)
        /\ Covered(heap, asked) => Covered(heap', asked)
        /\ heap'.num_allocations = (heap.num_allocations + 1) % COUNT_MOD
    BY <1>0, <1>3, <1>5, AllocateRelease
  <2>2. HeapInv'
    BY <1>5, <2>1, LedgerStep
  <2>3. start \in Int
    BY <1>4, Sizes4 DEF Addr
  <2> HIDE DEF start
  <2>4. /\ pool' \in PoolRec /\ pool'.num_blocks = pool.num_blocks
        /\ pool'.free = pool.free /\ pool'.free_blocks = pool.free_blocks
    <3>1. pool' = [pool EXCEPT !.pool_start = start, !.free_list = NULL]
      BY <1>5 DEF start
    <3>2. NULL \in Int
      BY DEF NULL
    <3> QED
      BY <1>0, <2>3, <3>1, <3>2 DEF PoolRec
  <2>5. PInv'
    BY <1>0, <1>5, <2>1, <2>2, <2>4, FailedCreation
  <2>6. COUNT_MOD > 1 => heap'.num_allocations # heap.num_allocations
    <3>1. heap.num_allocations \in 0..(COUNT_MOD - 1)
      BY <1>0, RecFacts DEF Ledger, Sound, Layout
    <3> DEFINE x == heap.num_allocations
    <3>2. x \in 0..(COUNT_MOD - 1) /\ heap'.num_allocations = (x + 1) % COUNT_MOD
      BY <2>1, <3>1
    <3>2a. SUFFICES COUNT_MOD > 1 => (x + 1) % COUNT_MOD # x
      BY <3>2 DEF x
    <3> HIDE DEF x
    <3>3. CASE x + 1 < COUNT_MOD
      <4>1. x + 1 \in Nat /\ COUNT_MOD \in Nat /\ x \in Nat
        BY <3>2, Sizes4
      <4>2. (x + 1) % COUNT_MOD = x + 1
        BY <3>3, <4>1, SmallMod
      <4> QED
        BY <4>1, <4>2
    <3>4. CASE x + 1 = COUNT_MOD
      <4>1. (x + 1) % COUNT_MOD = 0
        BY <3>2, <3>4, Sizes4
      <4> QED
        BY <3>2, <3>4, <4>1, Sizes4
    <3> QED
      BY <3>2, <3>3, <3>4, Sizes4
  <2> QED
    BY <2>5, <2>6
<1>6. CASE /\ Fits(grown, nb) # {}
           /\ heap' = final
           /\ asked' = [asked EXCEPT ![start] = bytes, ![list] = bitmap]
           /\ freed' = {}
           /\ pool' = [pool_start |-> start, free_list |-> list,
                       block_size |-> size, num_blocks |-> n,
                       free_blocks |-> n, free |-> 0..(n - 1)]
           /\ taken' = {}
  <2>1. asked' = e2
    BY <1>6
  <2> HIDE DEF start, grown, e
  <2>2. /\ list \in Addr /\ list \notin AllocSet(grown)
        /\ Ledger(final, e2) /\ AllocSet(final) = AllocSet(grown) \cup {list}
        /\ final.size[list] >= nb
        /\ Keeps(final, grown, AllocSet(grown))
        /\ Covered(grown, e) /\ bitmap <= nb => Covered(final, e2)
    BY <1>3, <1>4, <1>6, AllocateLedger
  <2> HIDE DEF list, final
  <2>3. /\ start # list /\ start \in AllocSet(final) /\ list \in AllocSet(final)
        /\ final.size[start] = grown.size[start]
    BY <1>4, <2>2 DEF Keeps
  <2>4. e2[start] # asked[start]
    <3>1. asked \in [Addr -> Nat]
      BY <1>0 DEF Ledger
    <3> QED
      BY <1>3a, <1>4, <2>2, <2>3, <3>1 DEF e
  <2> HIDE DEF e2
  <2>5. HeapInv'
    BY <1>6, <2>1, <2>2, LedgerStep
  <2>6. Covered(heap', asked')
    BY <1>0, <1>3, <1>3a, <1>4, <1>6, <2>1, <2>2
  <2>7. Covered(heap, asked)'
    BY <2>6 DEF Covered, AllocSet
  <2>8. start \in Int /\ list \in Int /\ 0..(n - 1) \subseteq Nat
    BY <1>3, <1>4, <2>2, Sizes4 DEF Addr
  <2>9. /\ pool' \in PoolRec /\ pool'.pool_start = start /\ pool'.free_list = list
        /\ pool'.block_size = size /\ pool'.num_blocks = n
        /\ pool'.free_blocks = n /\ pool'.free = 0..(n - 1)
    BY <1>3, <1>6, <2>8 DEF PoolRec
  <2>10. Bits'
    <3>1. Cardinality(0..(n - 1)) = n
      BY <1>3, IntervalFacts
    <3> QED
      BY <1>6, <2>9, <3>1 DEF Bits, PoolExact
  <2>11. /\ grown.size[start] \in Nat /\ final.size[list] \in Nat
    <3>1. Layout(grown) /\ start \in grown.hdrs
      BY <1>4 DEF Ledger, Sound, AllocSet
    <3>2. Layout(final) /\ list \in final.hdrs
      BY <2>2 DEF Ledger, Sound, AllocSet
    <3> QED
      BY <3>1, <3>2, EndFacts
  <2>12. size * n <= final.size[start]
    BY <1>3, <1>4, <2>3, <2>11
  <2>13. n <= 8 * final.size[list]
    BY <1>3, <2>2, <2>11
  <2>14. Owns(pool', heap')
    BY <1>3, <1>6, <2>3, <2>9, <2>12, <2>13 DEF Owns
  <2>15. (Created => Owns(pool, heap))'
    BY <2>14 DEF Owns, AllocSet
  <2> QED
    BY <2>1, <2>4, <2>5, <2>7, <2>10, <2>15 DEF PInv
<1> QED
  BY <1>5, <1>6 DEF bytes, size, bitmap, nb, na

(* memory_pool_destroy gives both blocks back. *)
LEMMA DestroyKeepsPool ==
  ASSUME PInv, Created, memory_pool_destroy
  PROVE  PInv' /\ asked' # asked
<1> DEFINE s == pool.pool_start
           l == pool.free_list
           g == Release(heap, s)
           e == [asked EXCEPT ![s] = 0]
           final == Release(g, l)
           e2 == [e EXCEPT ![l] = 0]
<1>1. /\ Ledger(heap, asked) /\ Covered(heap, asked)
      /\ freed \subseteq Addr /\ \A b \in freed : heap.is_free[b]
      /\ s \in AllocSet(heap) /\ l \in AllocSet(heap) /\ s # l
  BY DEF PInv, HeapInv, Owns
<1>2. /\ heap' = final /\ asked' = e2 /\ freed' = freed \cup {s, l}
      /\ pool' = ZeroPool /\ taken' = {}
  BY DEF memory_pool_destroy, PoolBlocks
<1> HIDE DEF s, l
<1>3. /\ s \in Addr /\ asked[s] > 0
      /\ Ledger(g, e) /\ AllocSet(g) = AllocSet(heap) \ {s}
      /\ Covered(g, e) /\ g.is_free = [heap.is_free EXCEPT ![s] = TRUE]
  BY <1>1, ReleaseLedger
<1>4. /\ heap.is_free \in [Addr -> BOOLEAN] /\ asked \in [Addr -> Nat]
  BY <1>1, RecFacts DEF Ledger, Sound, Layout
<1> HIDE DEF g, e
<1>5. l \in AllocSet(g)
  BY <1>1, <1>3
<1>6. /\ l \in Addr /\ Ledger(final, e2) /\ Covered(final, e2)
      /\ final.is_free = [g.is_free EXCEPT ![l] = TRUE]
  BY <1>3, <1>5, ReleaseLedger
<1> HIDE DEF final
<1>7. freed' \subseteq Addr /\ \A b \in freed' : final.is_free[b]
  BY <1>1, <1>2, <1>3, <1>4, <1>6
<1>8. e2[s] # asked[s]
  BY <1>1, <1>3, <1>4, <1>6 DEF e
<1> HIDE DEF e2
<1>9. HeapInv'
  BY <1>2, <1>6, <1>7, LedgerStep
<1>10. Covered(heap, asked)'
  BY <1>2, <1>6 DEF Covered, AllocSet
<1>11. /\ pool' \in PoolRec /\ pool'.num_blocks = 0 /\ pool'.free = {}
       /\ pool'.free_blocks = 0
  BY <1>2 DEF ZeroPool, PoolRec, NULL
<1>12. Bits'
  BY <1>2, <1>11, FS_EmptySet DEF Bits, PoolExact
<1>13. ~Created'
  BY <1>11 DEF Created
<1> QED
  BY <1>2, <1>8, <1>9, <1>10, <1>12, <1>13 DEF PInv

(* The invariant holds before the pool is created. *)
LEMMA PoolInitInv ==
  ASSUME PoolInit
  PROVE  PInv
<1>1. HeapInv /\ Covered(heap, asked)
  BY InitialHeapFacts DEF PoolInit
<1>2. /\ pool \in PoolRec /\ pool.num_blocks = 0 /\ pool.free = {}
      /\ pool.free_blocks = 0 /\ taken = {}
  BY DEF PoolInit, ZeroPool, PoolRec, NULL
<1>3. Bits
  BY <1>2, FS_EmptySet DEF Bits, PoolExact
<1>4. ~Created
  BY <1>2 DEF Created
<1> QED
  BY <1>1, <1>3, <1>4 DEF PInv

(* One step per call; the second part is what DoubleFreeIgnored says.      *)
LEMMA PoolStep ==
  ASSUME NoOverflow, PInv, [PoolNext]_poolVars
  PROVE  PInv' /\ (COUNT_MOD > 1 /\ asked' = asked
                     /\ heap'.num_allocations = heap.num_allocations => heap' = heap)
<1>1. CASE HeapStep(Held \ PoolBlocks) /\ UNCHANGED <<pool, taken>>
  <2>1. PInv'
    BY <1>1, HeapStepKeepsPool
  <2>2. StepFacts(Held \ PoolBlocks)
    BY <1>1, HeapStepFacts DEF PInv
  <2> QED
    BY <2>1, <2>2 DEF StepFacts
<1>2. ASSUME ~Created, NEW bs \in BlockSizes, NEW n \in BlockCounts,
             memory_pool_create(bs, n)
      PROVE  PInv' /\ (COUNT_MOD > 1 /\ asked' = asked
                     /\ heap'.num_allocations = heap.num_allocations => heap' = heap)
  BY <1>2, CreateKeepsPool
<1>3. CASE memory_pool_alloc
  <2>1. PInv'
    BY <1>3, AllocKeepsPool
  <2>2. heap' = heap
    BY <1>3 DEF memory_pool_alloc, poolVars, heapVars
  <2> QED
    BY <2>1, <2>2
<1>4. ASSUME Created, NEW d \in -MaxOffset..MaxOffset, memory_pool_free(d)
      PROVE  PInv' /\ heap' = heap
  <2>1. d \in Int
    BY PoolAssumption
  <2>2. PInv'
    BY <1>4, <2>1, FreeKeepsPool
  <2>3. heap' = heap
    BY <1>4 DEF memory_pool_free, poolVars, heapVars
  <2> QED
    BY <2>2, <2>3
<1>5. CASE Created /\ memory_pool_destroy
  BY <1>5, DestroyKeepsPool
<1>6. CASE UNCHANGED poolVars
  <2>1. heap' = heap
    BY <1>6 DEF poolVars, heapVars
  <2> QED
    BY <1>6, <2>1, StutterKeepsPool
<1> QED
  BY <1>1, <1>2, <1>3, <1>4, <1>5, <1>6 DEF PoolNext

(* The invariant implies the properties. *)
LEMMA PInvProperties ==
  ASSUME PInv
  PROVE  /\ HeapTypeOK /\ Tiling /\ Coalesced /\ HeldIsAllocated /\ StatsExact
         /\ PoolExact /\ PoolInsideHeap
<1>1. HeapTypeOK /\ Tiling /\ Coalesced /\ HeldIsAllocated /\ StatsExact
  BY HeapInvProperties DEF PInv
<1>2. Allocated = AllocSet(heap)
  BY HeldIsAllocSet DEF PInv
<1>3. PoolInsideHeap
  BY <1>2 DEF PInv, Owns, PoolInsideHeap, PoolBlocks
<1> QED
  BY <1>1, <1>3 DEF PInv, Bits

(* The inductive invariant holds in every reachable state. *)
LEMMA PoolSpecInv ==
  ASSUME NoOverflow
  PROVE  PoolSpec => []PInv
<1>1. PoolInit => PInv
  BY PoolInitInv
<1>2. PInv /\ [PoolNext]_poolVars => PInv'
  BY PoolStep
<1> QED
  BY <1>1, <1>2, PTL DEF PoolSpec

-----------------------------------------------------------------------------
(* The pool's counter, its bitmap and the blocks handed out agree for      *)
(* every pool, through every sequence of calls, double frees and frees of  *)
(* foreign pointers.                                                       *)
THEOREM PoolBitmapExact ==
  ASSUME NoOverflow
  PROVE  PoolSpec => []PoolExact
<1>1. PInv => PoolExact
  BY PInvProperties
<1> QED
  BY <1>1, PoolSpecInv, PTL

(* Whatever the application does with the rest of the heap, a pool lies in *)
(* two allocated blocks that are large enough for it and for its bitmap.   *)
THEOREM PoolKeepsMemory ==
  ASSUME NoOverflow
  PROVE  PoolSpec => []PoolInsideHeap
<1>1. PInv => PoolInsideHeap
  BY PInvProperties
<1> QED
  BY <1>1, PoolSpecInv, PTL

(* The heap under a pool is as sound as the heap alone, also after a       *)
(* creation that fails half way.                                           *)
THEOREM PoolHeapSafe ==
  ASSUME NoOverflow
  PROVE  PoolSpec => [](/\ HeapTypeOK /\ Tiling /\ Coalesced
                       /\ HeldIsAllocated /\ StatsExact)
<1>1. PInv => HeapTypeOK /\ Tiling /\ Coalesced /\ HeldIsAllocated /\ StatsExact
  BY PInvProperties
<1> QED
  BY <1>1, PoolSpecInv, PTL

(* Double frees change nothing next to a pool either.  The property tells  *)
(* a call that allocates by its counter, which takes two values at least.  *)
THEOREM PoolDoubleFreeHarmless ==
  ASSUME NoOverflow, COUNT_MOD > 1
  PROVE  PoolSpec => DoubleFreeIgnored
<1>1. PInv /\ [PoolNext]_poolVars =>
        [(asked' = asked /\ heap'.num_allocations = heap.num_allocations)
           => heap' = heap]_heapVars
  BY PoolStep
<1> QED
  BY <1>1, PoolSpecInv, PTL DEF PoolSpec, DoubleFreeIgnored
=============================================================================
