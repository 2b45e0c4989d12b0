----------------------------- MODULE MemoryPool -----------------------------
(***************************************************************************)
(* Fixed-size pools of src/kernel/memory.c on top of the heap: a pool      *)
(* takes one heap block for its memory and one for its bitmap of free      *)
(* blocks.  The bitmap is the set of the indices whose bit is 1.  One pool *)
(* is modelled, next to an application that uses the heap directly.        *)
(***************************************************************************)
EXTENDS Heap

CONSTANTS
  BlockSizes,  \* block sizes passed to memory_pool_create
  BlockCounts, \* numbers of blocks passed to memory_pool_create
  MaxOffset    \* bound: pointers passed to memory_pool_free lie within this
               \* distance of pool_start

ASSUME PoolAssumption ==
  /\ BlockSizes \subseteq Nat /\ BlockCounts \subseteq Nat /\ MaxOffset \in Nat

VARIABLES
  pool,   \* the memory_pool_t
  taken   \* the application's view: indices of the pool blocks it holds

poolVars == <<heapVars, pool, taken>>

NULL == -1

(* The struct as memory_pool_destroy leaves it.                             *)
ZeroPool == [pool_start |-> NULL, free_list |-> NULL, block_size |-> 0,
             num_blocks |-> 0, free_blocks |-> 0, free |-> {}]

Created == pool.num_blocks > 0
PoolBlocks == IF Created THEN {pool.pool_start, pool.free_list} ELSE {}

PoolInit == HeapInit /\ pool = ZeroPool /\ taken = {}

CreateLeaksOnFailure(bs, n) ==
  LET total == align_size(align_size(bs) * n)
  IN  /\ bs > 0 /\ n > 0
      /\ Fits(heap, total) # {}
      /\ Fits(Allocate(heap, total), align_size((n + 7) \div 8)) = {}
      /\ heap' = Allocate(heap, total)
      /\ UNCHANGED <<asked, freed, pool, taken>>

CreateUnaligned(bs, n) ==
  LET total == align_size(bs * n)
      start == find_best_fit(heap, total)
      grown == Allocate(heap, total)
      list  == find_best_fit(grown, 4)
  IN  /\ bs > 0 /\ n > 0
      /\ Fits(heap, total) # {} /\ Fits(grown, 4) # {}
      /\ heap' = Allocate(grown, 4)
      /\ asked' = [asked EXCEPT ![start] = bs * n, ![list] = 1]
      /\ freed' = {}
      /\ pool' = [pool_start |-> start, free_list |-> list,
                  block_size |-> align_size(bs), num_blocks |-> n,
                  free_blocks |-> n, free |-> 0..(n - 1)]
      /\ taken' = {}

memory_pool_create(bs, n) ==
  LET size   == align_size(bs)
      total  == (size * n) % SIZE_MOD
      bitmap == (n + 7) \div 8
      start  == find_best_fit(heap, align_size(total))
      grown  == Allocate(heap, align_size(total))
      list   == find_best_fit(grown, align_size(bitmap))
  IN  \/ /\ bs = 0 \/ n = 0                        \* RTOS_ERROR_INVALID_PARAM
         /\ UNCHANGED poolVars
      \/ /\ bs > 0 /\ n > 0                        \* RTOS_ERROR_NO_MEMORY
         /\ total = 0 \/ Fits(heap, align_size(total)) = {}
         /\ pool' = [pool EXCEPT !.pool_start = NULL]
         /\ UNCHANGED <<heapVars, taken>>
      \/ /\ bs > 0 /\ n > 0 /\ total > 0           \* RTOS_ERROR_NO_MEMORY
         /\ Fits(heap, align_size(total)) # {}
         /\ Fits(grown, align_size(bitmap)) = {}
         /\ heap' = Release(grown, start)
         /\ freed' = {}
         /\ pool' = [pool EXCEPT !.pool_start = start, !.free_list = NULL]
         /\ UNCHANGED <<asked, taken>>
      \/ /\ bs > 0 /\ n > 0 /\ total > 0
         /\ Fits(heap, align_size(total)) # {}
         /\ Fits(grown, align_size(bitmap)) # {}
         /\ heap' = Allocate(grown, align_size(bitmap))
         /\ asked' = [asked EXCEPT ![start] = bs * n, ![list] = bitmap]
         /\ freed' = {}
         /\ pool' = [pool_start |-> start, free_list |-> list,
                     block_size |-> size, num_blocks |-> n, free_blocks |-> n,
                     free |-> 0..(n - 1)]
         /\ taken' = {}

AllocKeepsBit ==
  /\ pool.free_blocks > 0
  /\ \E i \in pool.free :
       /\ pool' = [pool EXCEPT !.free_blocks = @ - 1]
       /\ taken' = taken \cup {i}
  /\ UNCHANGED heapVars

memory_pool_alloc ==
  \/ /\ pool.free_blocks = 0                       \* NULL
     /\ UNCHANGED poolVars
  \/ /\ pool.free_blocks > 0
     /\ \E i \in pool.free :
          /\ \A j \in pool.free : i <= j
          /\ pool' = [pool EXCEPT !.free = @ \ {i}, !.free_blocks = @ - 1]
          /\ taken' = taken \cup {i}
     /\ UNCHANGED heapVars

(* ptr = pool_start + distance; the offset is an unsigned difference.       *)
memory_pool_free(distance) ==
  LET offset == distance % SIZE_MOD
      i      == offset \div pool.block_size
  IN  \/ /\ \/ offset % pool.block_size # 0        \* RTOS_ERROR_INVALID_PARAM
            \/ i >= pool.num_blocks
            \/ i \in pool.free                     \* RTOS_ERROR
         /\ UNCHANGED poolVars
      \/ /\ offset % pool.block_size = 0 /\ i < pool.num_blocks
         /\ i \notin pool.free
         /\ pool' = [pool EXCEPT !.free = @ \cup {i}, !.free_blocks = @ + 1]
         /\ taken' = taken \ {i}
         /\ UNCHANGED heapVars

memory_pool_destroy ==
  /\ heap' = Release(Release(heap, pool.pool_start), pool.free_list)
  /\ asked' = [asked EXCEPT ![pool.pool_start] = 0, ![pool.free_list] = 0]
  /\ freed' = freed \cup PoolBlocks
  /\ pool' = ZeroPool
  /\ taken' = {}

(* The application creates a pool when it has none, uses and destroys it    *)
(* only after a successful create, and leaves the pool's own heap blocks    *)
(* alone.                                                                   *)
PoolNext ==
  \/ HeapStep(Held \ PoolBlocks) /\ UNCHANGED <<pool, taken>>
  \/ ~Created /\ \E bs \in BlockSizes, n \in BlockCounts : memory_pool_create(bs, n)
  \/ memory_pool_alloc
  \/ Created /\ \E d \in -MaxOffset..MaxOffset : memory_pool_free(d)
  \/ Created /\ memory_pool_destroy

PoolSpec == PoolInit /\ [][PoolNext]_poolVars

-----------------------------------------------------------------------------
(* Properties.                                                              *)

(* The pool's counter, its bitmap and the blocks handed out always agree,   *)
(* through double frees and frees of foreign pointers: no block is handed   *)
(* out twice and none is lost.                                              *)
PoolExact ==
  /\ pool.free_blocks = Cardinality(pool.free)
  /\ taken = 0..(pool.num_blocks - 1) \ pool.free

(* Every block of the pool lies inside an allocated heap block, and the     *)
(* bitmap has a bit for each: heap calls never take the pool's memory away. *)
PoolInsideHeap ==
  Created =>
    /\ PoolBlocks \subseteq Allocated
    /\ pool.pool_start # pool.free_list
    /\ pool.block_size * pool.num_blocks <= heap.size[pool.pool_start]
    /\ pool.num_blocks <= 8 * heap.size[pool.free_list]
=============================================================================
