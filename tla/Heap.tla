-------------------------------- MODULE Heap --------------------------------
(***************************************************************************)
(* The best-fit heap of src/kernel/memory.c: rtos_malloc, rtos_calloc,     *)
(* rtos_realloc and rtos_free with splitting, merging, the double-free     *)
(* check and the statistics.                                               *)
(*                                                                         *)
(* A block is the offset of its header in heap_memory.  The list from      *)
(* heap_head is in address order (splitting links the rest behind its      *)
(* block, merging unlinks the successor), so it is the set of linked       *)
(* headers.  Header fields are kept for every offset: the header of a      *)
(* merged block stays in memory and a double free reads it.  The contents  *)
(* of the blocks are left out.                                             *)
(***************************************************************************)
EXTENDS Integers, FiniteSets, FiniteSetsExt

CONSTANTS
  HEAP_SIZE,   \* bytes of heap_memory
  HDR,         \* sizeof(memory_block_t)
  SPLIT_MIN,   \* least payload worth splitting off (32 in the code)
  SIZE_MOD,    \* size_t is modulo SIZE_MOD
  COUNT_MOD,   \* the uint32_t counters are modulo COUNT_MOD
  Sizes        \* the sizes the application asks for

ASSUME HeapAssumption ==
  /\ HDR \in Nat \ {0} /\ SPLIT_MIN \in Nat \ {0}
  /\ HEAP_SIZE \in Nat /\ HEAP_SIZE > HDR
  /\ SIZE_MOD \in Nat /\ SIZE_MOD > 2 * HEAP_SIZE /\ SIZE_MOD % 4 = 0
  /\ COUNT_MOD \in Nat \ {0}
  /\ HEAP_SIZE % 4 = 0 /\ HDR % 4 = 0
  /\ Sizes \subseteq 0..HEAP_SIZE

VARIABLES
  heap,    \* headers and global_stats
  asked,   \* the application's view: bytes asked for in the block it holds at
           \* an offset, 0 if it holds none there
  freed    \* blocks freed since memory was last handed out

Addr == 0..(HEAP_SIZE - 1)

(* memory_init: one free block.                                             *)
InitialHeap ==
  [hdrs     |-> {0},
   size     |-> [a \in Addr |-> IF a = 0 THEN HEAP_SIZE - HDR ELSE 0],
   is_free  |-> [a \in Addr |-> TRUE],
   used_heap_size  |-> HDR,
   free_heap_size  |-> HEAP_SIZE - HDR,
   num_allocations |-> 0,
   num_frees       |-> 0]

-----------------------------------------------------------------------------
(* Allocation.                                                              *)

align_size(n) == (4 * ((n + 3) \div 4)) % SIZE_MOD

Fits(h, n) == {b \in h.hdrs : h.is_free[b] /\ h.size[b] >= n}

(* The smallest free block of at least n bytes, the first if several.       *)
find_best_fit(h, n) ==
  CHOOSE b \in Fits(h, n) : \A c \in Fits(h, n) :
    h.size[b] < h.size[c] \/ (h.size[b] = h.size[c] /\ b <= c)

SplitTooEager(h, b, n) ==
  LET rest == b + HDR + n
  IN  IF h.size[b] >= n
      THEN [h EXCEPT !.hdrs = @ \cup {rest},
                     !.size = [@ EXCEPT ![b] = n,
                                        ![rest] = h.size[b] - n - HDR],
                     !.is_free[rest] = TRUE]
      ELSE h

SplitWithoutHeader(h, b, n) ==
  LET rest == b + HDR + n
  IN  IF h.size[b] >= n + HDR + SPLIT_MIN
      THEN [h EXCEPT !.hdrs = @ \cup {rest},
                     !.size = [@ EXCEPT ![b] = n, ![rest] = h.size[b] - n],
                     !.is_free[rest] = TRUE]
      ELSE h

split_block(h, b, n) ==
  LET rest == b + HDR + n
  IN  IF h.size[b] >= n + HDR + SPLIT_MIN
      THEN [h EXCEPT !.hdrs = @ \cup {rest},
                     !.size = [@ EXCEPT ![b] = n,
                                        ![rest] = h.size[b] - n - HDR],
                     !.is_free[rest] = TRUE]
      ELSE h

(* rtos_malloc of n aligned bytes when some block fits, in the block it     *)
(* returns.                                                                 *)
Allocate(h, n) ==
  LET b     == find_best_fit(h, n)
      split == split_block(h, b, n)
      cost  == split.size[b] + HDR
  IN  [split EXCEPT
         !.is_free[b] = FALSE,
         !.num_allocations = (@ + 1) % COUNT_MOD,
         !.used_heap_size = (@ + cost) % SIZE_MOD,
         !.free_heap_size = (@ - cost) % SIZE_MOD]

-----------------------------------------------------------------------------
(* Release.                                                                 *)

Successor(h, b, c) == c \in h.hdrs /\ b < c /\ \A d \in h.hdrs : d <= b \/ c <= d
Mergeable(h) ==
  {b \in h.hdrs : h.is_free[b] /\
                  \E c \in h.hdrs : Successor(h, b, c) /\ h.is_free[c]}

(* One merge of the loop: the first free block with a free successor takes  *)
(* it in.                                                                   *)
MergeOne(h) ==
  LET b == Min(Mergeable(h))
      c == CHOOSE c \in h.hdrs : Successor(h, b, c)
  IN  IF Mergeable(h) = {} THEN h
      ELSE [h EXCEPT !.hdrs = @ \ {c}, !.size[b] = @ + HDR + h.size[c]]

(* The loop merges at most twice, because no two free blocks were adjacent  *)
(* before one was freed: Coalesced fails if two merges are not enough.      *)
merge_free_blocks(h) == MergeOne(MergeOne(h))

MarkFreeUncounted(h, b) ==
  [h EXCEPT !.is_free[b] = TRUE, !.num_frees = (@ + 1) % COUNT_MOD]

MarkFree(h, b) ==
  LET cost == h.size[b] + HDR
  IN  [h EXCEPT
         !.is_free[b] = TRUE,
         !.num_frees = (@ + 1) % COUNT_MOD,
         !.used_heap_size = (@ - cost) % SIZE_MOD,
         !.free_heap_size = (@ + cost) % SIZE_MOD]

ReleaseForwardOnly(h, b) ==
  IF h.is_free[b] THEN h
  ELSE LET g == MarkFree(h, b)
           N == {c \in g.hdrs : Successor(g, b, c) /\ g.is_free[c]}
       IN  IF N = {} THEN g
           ELSE [g EXCEPT !.hdrs = @ \ N,
                          !.size[b] = @ + HDR + g.size[Min(N)]]

ReleaseUnchecked(h, b) == merge_free_blocks(MarkFree(h, b))

(* rtos_free of block b: a header that says free is a double free.          *)
Release(h, b) ==
  IF h.is_free[b] THEN h ELSE merge_free_blocks(MarkFree(h, b))

-----------------------------------------------------------------------------
(* The heap API.  A call that returns NULL or finds an error changes        *)
(* nothing.  The application frees blocks it holds, or frees once more a    *)
(* block it has freed and that has not been handed out since.               *)

heapVars == <<heap, asked, freed>>

HeapInit ==
  /\ heap = InitialHeap
  /\ asked = [a \in Addr |-> 0]
  /\ freed = {}

Held == {b \in Addr : asked[b] > 0}

(* rtos_malloc(n) for a caller that wants `want' bytes.                     *)
MallocFor(n, want) ==
  LET a == align_size(n)
  IN  \/ /\ n = 0 \/ Fits(heap, a) = {}
         /\ UNCHANGED heapVars
      \/ /\ n > 0 /\ Fits(heap, a) # {}
         /\ heap' = Allocate(heap, a)
         /\ asked' = [asked EXCEPT ![find_best_fit(heap, a)] = want]
         /\ freed' = {}

rtos_malloc(n) == MallocFor(n, n)

rtos_calloc(num, n) == MallocFor((num * n) % SIZE_MOD, num * n)

rtos_free(b) ==
  /\ heap' = Release(heap, b)
  /\ asked' = [asked EXCEPT ![b] = 0]
  /\ freed' = freed \cup {b}

(* A null pointer makes it rtos_malloc.                                     *)
rtos_realloc(b, n) ==
  LET a == align_size(n)
  IN  \/ n = 0 /\ rtos_free(b)
      \/ /\ n > 0 /\ n <= heap.size[b]
         /\ asked' = [asked EXCEPT ![b] = n]
         /\ UNCHANGED <<heap, freed>>
      \/ /\ n > heap.size[b] /\ Fits(heap, a) = {}
         /\ UNCHANGED heapVars
      \/ /\ n > heap.size[b] /\ Fits(heap, a) # {}
         /\ heap' = Release(Allocate(heap, a), b)
         /\ asked' = [asked EXCEPT ![find_best_fit(heap, a)] = n, ![b] = 0]
         /\ freed' = {b}

(* Calls by an application that holds the blocks `mine'.                    *)
HeapStep(mine) ==
  \/ \E n \in Sizes : rtos_malloc(n)
  \/ \E num, n \in Sizes : num * n <= HEAP_SIZE /\ rtos_calloc(num, n)
  \/ \E b \in mine \cup freed : rtos_free(b)
  \/ \E b \in mine, n \in Sizes : rtos_realloc(b, n)

HeapNext == HeapStep(Held)

HeapSpec == HeapInit /\ [][HeapNext]_heapVars

-----------------------------------------------------------------------------
(* Properties.                                                              *)

Allocated == {b \in heap.hdrs : ~heap.is_free[b]}

HeapTypeOK ==
  /\ heap \in [hdrs : SUBSET Addr, size : [Addr -> 0..HEAP_SIZE],
               is_free : [Addr -> BOOLEAN],
               used_heap_size : 0..(SIZE_MOD - 1),
               free_heap_size : 0..(SIZE_MOD - 1),
               num_allocations : 0..(COUNT_MOD - 1),
               num_frees : 0..(COUNT_MOD - 1)]
  /\ asked \in [Addr -> 0..HEAP_SIZE]
  /\ freed \subseteq Addr

(* After any sequence of malloc, calloc, realloc and free the blocks cover  *)
(* the heap exactly: each ends where the next begins or where the heap      *)
(* ends, so no two overlap and no byte is lost, and headers stay aligned.   *)
BlockEnd(b) == b + HDR + heap.size[b]
Tiling ==
  /\ 0 \in heap.hdrs
  /\ \A b \in heap.hdrs :
       /\ b % 4 = 0
       /\ BlockEnd(b) \in heap.hdrs \cup {HEAP_SIZE}
       /\ \A c \in heap.hdrs : b < c => BlockEnd(b) <= c

(* merge_free_blocks leaves no free block next to another, whatever was     *)
(* freed in whatever order.                                                 *)
Coalesced ==
  \A b \in heap.hdrs :
    heap.is_free[b] /\ BlockEnd(b) \in heap.hdrs => ~heap.is_free[BlockEnd(b)]

(* Every block the application holds is a linked allocated block of at      *)
(* least the size it asked for, and no other block is allocated: nothing    *)
(* leaks in a failed or moving realloc, and a double free frees nobody      *)
(* else's block.                                                            *)
HeldIsAllocated ==
  /\ Held = Allocated
  /\ \A b \in Held : heap.size[b] >= asked[b]

(* The statistics count what is allocated: used_heap_size is one header     *)
(* plus the bytes that lie in allocated blocks, their headers included, and *)
(* the numbers of allocations and frees differ by the blocks allocated.     *)
AllocatedBytes ==
  {a \in Addr : \E b \in Allocated : b <= a /\ a < BlockEnd(b)}
StatsExact ==
  /\ heap.used_heap_size = HDR + Cardinality(AllocatedBytes)
  /\ (heap.num_allocations - heap.num_frees) % COUNT_MOD
       = Cardinality(Allocated) % COUNT_MOD

(* Freeing a block twice changes nothing: rtos_free finds the header marked *)
(* free even after it was merged away.                                      *)
DoubleFreeIgnored ==
  [][(asked' = asked /\ heap'.num_allocations = heap.num_allocations)
       => heap' = heap]_heapVars
=============================================================================
