----------------------------- MODULE UartProofs -----------------------------
(***************************************************************************)
(* Proofs about Uart for every heap, any number of instances and rings of  *)
(* any size: each initialized instance owns two heap blocks and nothing    *)
(* leaks.                                                                  *)
(***************************************************************************)
EXTENDS Uart, HeapProofs

RingRec ==
  [buffer : Int, size : Nat, head : Nat, tail : Nat, count : Nat]

HandleRec == [initialized : BOOLEAN, rx : RingRec, tx : RingRec]

(* Initialized instances own two blocks each, the others none.             *)
Owned(inst, h) ==
  /\ inst \in [Uarts -> HandleRec]
  /\ \A u \in Uarts : inst[u].initialized =>
       /\ inst[u].rx.buffer \in AllocSet(h) /\ inst[u].tx.buffer \in AllocSet(h)
       /\ inst[u].rx.buffer # inst[u].tx.buffer
       /\ inst[u].rx.size <= h.size[inst[u].rx.buffer]
       /\ inst[u].tx.size <= h.size[inst[u].tx.buffer]
  /\ \A u \in Uarts : ~inst[u].initialized =>
       inst[u].rx.buffer = NoBuffer /\ inst[u].tx.buffer = NoBuffer
  /\ \A u, v \in Uarts :
       u # v /\ inst[u].initialized /\ inst[v].initialized =>
         /\ inst[u].rx.buffer # inst[v].rx.buffer
         /\ inst[u].rx.buffer # inst[v].tx.buffer
         /\ inst[u].tx.buffer # inst[v].tx.buffer

(* Nothing enters a receive ring, and a transmit ring is never overfull.   *)
RingsInv(inst) ==
  \A u \in Uarts : inst[u].initialized =>
    /\ inst[u].rx.count = 0
    /\ inst[u].tx.size > 0 /\ inst[u].tx.count <= inst[u].tx.size

UInv ==
  /\ HeapInv /\ Covered(heap, asked)
  /\ Owned(uart_instances, heap)
  /\ RingsInv(uart_instances)

-----------------------------------------------------------------------------
(* Ownership.                                                              *)

(* Ready instances keep their buffers while the heap keeps those blocks. *)
LEMMA OwnedKept ==
  ASSUME NEW inst, NEW h, NEW g, Owned(inst, h),
         \A u \in Uarts : inst[u].initialized =>
           Keeps(g, h, {inst[u].rx.buffer, inst[u].tx.buffer})
  PROVE  Owned(inst, g)
  BY DEF Owned, Keeps

(* An instance whose handle keeps its flag, buffers and sizes.             *)
LEMMA OwnedUpdated ==
  ASSUME NEW inst, NEW h, Owned(inst, h), NEW u \in Uarts, NEW x \in HandleRec,
         x.initialized = inst[u].initialized,
         x.rx.buffer = inst[u].rx.buffer, x.tx.buffer = inst[u].tx.buffer,
         x.rx.size = inst[u].rx.size, x.tx.size = inst[u].tx.size
  PROVE  Owned([inst EXCEPT ![u] = x], h)
<1> DEFINE e == [inst EXCEPT ![u] = x]
<1>1. inst \in [Uarts -> HandleRec]
  BY DEF Owned
<1>2. /\ e \in [Uarts -> HandleRec] /\ e[u] = x
      /\ \A v \in Uarts : v # u => e[v] = inst[v]
  BY <1>1
<1> HIDE DEF e
<1>3. \A v \in Uarts : /\ e[v].initialized = inst[v].initialized
                       /\ e[v].rx.buffer = inst[v].rx.buffer
                       /\ e[v].tx.buffer = inst[v].tx.buffer
                       /\ e[v].rx.size = inst[v].rx.size
                       /\ e[v].tx.size = inst[v].tx.size
  BY <1>2
<1>4. Owned(e, h)
  BY <1>2, <1>3 DEF Owned
<1> QED
  BY <1>4 DEF e

(* An instance that gets two new blocks shares them with no other. *)
LEMMA OwnedAdded ==
  ASSUME NEW inst, NEW h, NEW g, Owned(inst, h), NEW u \in Uarts,
         NEW x \in HandleRec, x.initialized,
         x.rx.buffer \in AllocSet(g) \ AllocSet(h),
         x.tx.buffer \in AllocSet(g) \ AllocSet(h),
         x.rx.buffer # x.tx.buffer,
         x.rx.size <= g.size[x.rx.buffer], x.tx.size <= g.size[x.tx.buffer],
         Keeps(g, h, AllocSet(h))
  PROVE  Owned([inst EXCEPT ![u] = x], g)
<1> DEFINE e == [inst EXCEPT ![u] = x]
<1>1. inst \in [Uarts -> HandleRec]
  BY DEF Owned
<1>2. /\ e \in [Uarts -> HandleRec] /\ e[u] = x
      /\ \A v \in Uarts : v # u => e[v] = inst[v]
  BY <1>1
<1> HIDE DEF e
<1>3. ASSUME NEW v \in Uarts, v # u, e[v].initialized
      PROVE  /\ e[v].rx.buffer \in AllocSet(h) /\ e[v].tx.buffer \in AllocSet(h)
             /\ e[v].rx.buffer \in AllocSet(g) /\ e[v].tx.buffer \in AllocSet(g)
             /\ e[v].rx.buffer # e[v].tx.buffer
             /\ e[v].rx.size <= g.size[e[v].rx.buffer]
             /\ e[v].tx.size <= g.size[e[v].tx.buffer]
  BY <1>2, <1>3 DEF Owned, Keeps
<1>4. ASSUME NEW v \in Uarts, e[v].initialized
      PROVE  /\ e[v].rx.buffer \in AllocSet(g) /\ e[v].tx.buffer \in AllocSet(g)
             /\ e[v].rx.buffer # e[v].tx.buffer
             /\ e[v].rx.size <= g.size[e[v].rx.buffer]
             /\ e[v].tx.size <= g.size[e[v].tx.buffer]
  BY <1>2, <1>3, <1>4
<1>5. ASSUME NEW v \in Uarts, ~e[v].initialized
      PROVE  e[v].rx.buffer = NoBuffer /\ e[v].tx.buffer = NoBuffer
  BY <1>2, <1>5 DEF Owned
<1>6. ASSUME NEW v \in Uarts, NEW w \in Uarts, v # w, e[v].initialized,
             e[w].initialized
      PROVE  /\ e[v].rx.buffer # e[w].rx.buffer
             /\ e[v].rx.buffer # e[w].tx.buffer
             /\ e[v].tx.buffer # e[w].tx.buffer
  <2>1. CASE v # u /\ w # u
    BY <1>2, <1>6, <2>1 DEF Owned
  <2>2. CASE v = u
    BY <1>2, <1>3, <1>6, <2>2
  <2>3. CASE w = u
    BY <1>2, <1>3, <1>6, <2>3
  <2> QED
    BY <2>1, <2>2, <2>3
<1>7. Owned(e, g)
  BY <1>2, <1>4, <1>5, <1>6 DEF Owned
<1> QED
  BY <1>7 DEF e

(* An instance that is closed leaves the others their buffers. *)
LEMMA OwnedRemoved ==
  ASSUME NEW inst, NEW h, NEW g, Owned(inst, h), NEW u \in Uarts,
         NEW x \in HandleRec, ~x.initialized,
         x.rx.buffer = NoBuffer, x.tx.buffer = NoBuffer,
         \A v \in Uarts : v # u /\ inst[v].initialized =>
           Keeps(g, h, {inst[v].rx.buffer, inst[v].tx.buffer})
  PROVE  Owned([inst EXCEPT ![u] = x], g)
<1> DEFINE e == [inst EXCEPT ![u] = x]
<1>1. inst \in [Uarts -> HandleRec]
  BY DEF Owned
<1>2. /\ e \in [Uarts -> HandleRec] /\ e[u] = x
      /\ \A v \in Uarts : v # u => e[v] = inst[v]
  BY <1>1
<1> HIDE DEF e
<1>3. ASSUME NEW v \in Uarts, e[v].initialized
      PROVE  /\ v # u /\ e[v] = inst[v]
             /\ e[v].rx.buffer \in AllocSet(g) /\ e[v].tx.buffer \in AllocSet(g)
             /\ e[v].rx.buffer # e[v].tx.buffer
             /\ e[v].rx.size <= g.size[e[v].rx.buffer]
             /\ e[v].tx.size <= g.size[e[v].tx.buffer]
  BY <1>2, <1>3 DEF Owned, Keeps
<1>4. ASSUME NEW v \in Uarts, ~e[v].initialized
      PROVE  e[v].rx.buffer = NoBuffer /\ e[v].tx.buffer = NoBuffer
  BY <1>2, <1>4 DEF Owned
<1>5. ASSUME NEW v \in Uarts, NEW w \in Uarts, v # w, e[v].initialized,
             e[w].initialized
      PROVE  /\ e[v].rx.buffer # e[w].rx.buffer
             /\ e[v].rx.buffer # e[w].tx.buffer
             /\ e[v].tx.buffer # e[w].tx.buffer
  BY <1>3, <1>5 DEF Owned
<1>6. Owned(e, g)
  BY <1>2, <1>3, <1>4, <1>5 DEF Owned
<1> QED
  BY <1>6 DEF e

(* Two blocks per initialized instance.                                    *)
LEMMA InjectiveImage ==
  ASSUME NEW S, IsFiniteSet(S), NEW f, f \in [S -> Int],
         \A u, v \in S : u # v => f[u] # f[v]
  PROVE  LET T == {f[u] : u \in S}
         IN  IsFiniteSet(T) /\ Cardinality(T) = Cardinality(S)
<1> DEFINE T == {f[u] : u \in S}
<1>1. f \in [S -> T] /\ \A t \in T : \E u \in S : f[u] = t
  OBVIOUS
<1> HIDE DEF T
<1>2. f \in Injection(S, T)
  BY <1>1 DEF Injection, IsInjective
<1>3. f \in Surjection(S, T)
  BY <1>1 DEF Surjection
<1>4. ExistsBijection(S, T)
  BY <1>2, <1>3 DEF ExistsBijection, Bijection
<1>5. IsFiniteSet(T) /\ Cardinality(T) = Cardinality(S)
  BY <1>4, FS_Bijection
<1> QED
  BY <1>5 DEF T

(* Distinct buffers: twice as many blocks as ready instances. *)
LEMMA TwoBlocksEach ==
  ASSUME Owned(uart_instances, heap), HeapInv
  PROVE  LET Ready == {u \in Uarts : uart_instances[u].initialized}
         IN  Cardinality(UartBlocks) = 2 * Cardinality(Ready)
<1> DEFINE inst == uart_instances
           Ready == {u \in Uarts : inst[u].initialized}
           f == [u \in Ready |-> inst[u].rx.buffer]
           g == [u \in Ready |-> inst[u].tx.buffer]
           R == {f[u] : u \in Ready}
           T == {g[u] : u \in Ready}
<1>1. IsFiniteSet(Ready)
  BY UartAssumption, FS_Subset
<1>2. \A u \in Ready : /\ inst[u].rx.buffer \in Addr /\ inst[u].tx.buffer \in Addr
                       /\ inst[u].rx.buffer # inst[u].tx.buffer
  BY RecFacts DEF Owned, HeapInv, Ledger, Sound, Layout, AllocSet
<1>3. \A u \in Ready : /\ inst[u].rx.buffer \in Int /\ inst[u].rx.buffer # NoBuffer
                       /\ inst[u].tx.buffer \in Int /\ inst[u].tx.buffer # NoBuffer
  BY <1>2, Sizes4 DEF Addr, NoBuffer
<1>4. \A u, v \in Ready : u # v => f[u] # f[v] /\ g[u] # g[v] /\ f[u] # g[v]
  BY DEF Owned
<1>5. f \in [Ready -> Int] /\ g \in [Ready -> Int] /\ \A u \in Ready : f[u] # g[u]
  BY <1>2, <1>3
<1>6. UartBlocks = R \cup T
  <2>1. \A u \in Uarts : u \notin Ready =>
          inst[u].rx.buffer = NoBuffer /\ inst[u].tx.buffer = NoBuffer
    BY DEF Owned
  <2>2. ASSUME NEW b \in UartBlocks PROVE b \in R \cup T
    <3>1. PICK u \in Uarts : b = inst[u].rx.buffer \/ b = inst[u].tx.buffer
      BY DEF UartBlocks
    <3>2. b # NoBuffer
      BY DEF UartBlocks
    <3>3. u \in Ready
      <4> HIDE DEF Ready, inst
      <4> QED
        BY <2>1, <3>1, <3>2
    <3>4. f[u] = inst[u].rx.buffer /\ g[u] = inst[u].tx.buffer
      BY <3>3
    <3>5. f[u] \in R /\ g[u] \in T
      BY <3>3
    <3> QED
      BY <3>1, <3>4, <3>5
  <2>3. ASSUME NEW u \in Ready PROVE f[u] \in UartBlocks /\ g[u] \in UartBlocks
    <3> DEFINE B == {inst[u].rx.buffer, inst[u].tx.buffer}
               K == {{inst[v].rx.buffer, inst[v].tx.buffer} : v \in Uarts}
    <3>1. f[u] \in B /\ g[u] \in B /\ f[u] # NoBuffer /\ g[u] # NoBuffer
      BY <1>3
    <3>2. B \in K
      OBVIOUS
    <3>3. UartBlocks = (UNION K) \ {NoBuffer}
      BY DEF UartBlocks
    <3> HIDE DEF B, K
    <3> QED
      BY <3>1, <3>2, <3>3
  <2> QED
    BY <2>2, <2>3
<1>7. R \cap T = {}
  BY <1>4, <1>5
<1> HIDE DEF Ready, f, g
<1>8. /\ IsFiniteSet(R) /\ Cardinality(R) = Cardinality(Ready)
      /\ IsFiniteSet(T) /\ Cardinality(T) = Cardinality(Ready)
  BY <1>1, <1>4, <1>5, InjectiveImage
<1> HIDE DEF R, T
<1>9. Cardinality(R \cup T) = Cardinality(R) + Cardinality(T) - Cardinality({})
  BY <1>7, <1>8, FS_Union
<1>10. Cardinality(Ready) \in Nat /\ Cardinality({}) = 0
  BY <1>1, FS_CardinalityType, FS_EmptySet
<1>11. Cardinality(UartBlocks) = 2 * Cardinality(Ready)
  BY <1>6, <1>8, <1>9, <1>10
<1> QED
  BY <1>11 DEF Ready

-----------------------------------------------------------------------------
(* Rings.                                                                  *)

(* The fields of a ring have their types. *)
LEMMA RingFields ==
  ASSUME NEW r \in RingRec
  PROVE  /\ r.buffer \in Int /\ r.size \in Nat /\ r.head \in Nat
         /\ r.tail \in Nat /\ r.count \in Nat
  BY DEF RingRec

(* The fields of an instance have their types. *)
LEMMA HandleFields ==
  ASSUME NEW x \in HandleRec
  PROVE  x.initialized \in BOOLEAN /\ x.rx \in RingRec /\ x.tx \in RingRec
  BY DEF HandleRec

(* circ_buf_init makes an empty ring. *)
LEMMA NewRingFacts ==
  ASSUME NEW b \in Int, NEW n \in Nat
  PROVE  LET r == NewRing(b, n)
         IN  r \in RingRec /\ r.buffer = b /\ r.size = n /\ r.count = 0
  BY DEF NewRing, RingRec

(* The memset leaves an instance without buffers. *)
LEMMA ZeroHandleFacts ==
  /\ ZeroHandle \in HandleRec /\ ZeroHandle.initialized = FALSE
  /\ ZeroHandle.rx.buffer = NoBuffer /\ ZeroHandle.tx.buffer = NoBuffer
<1> DEFINE z == NewRing(NoBuffer, 0)
<1>1. z \in RingRec /\ z.buffer = NoBuffer
  <2>1. NoBuffer \in Int /\ 0 \in Nat
    BY DEF NoBuffer
  <2> QED
    BY <2>1, NewRingFacts
<1>2. ZeroHandle = [initialized |-> FALSE, rx |-> z, tx |-> z]
  BY DEF ZeroHandle
<1> HIDE DEF z
<1> QED
  BY <1>1, <1>2 DEF HandleRec

(* circ_buf_flush resets the indices and the count, nothing else. *)
LEMMA FlushFacts ==
  ASSUME NEW r \in RingRec
  PROVE  LET f == circ_buf_flush(r)
         IN  /\ f \in RingRec /\ f.buffer = r.buffer /\ f.size = r.size
             /\ f.count = 0
  BY DEF circ_buf_flush, RingRec

(* The smaller of two numbers. *)
LEMMA MinPair ==
  ASSUME NEW a \in Nat, NEW b \in Nat
  PROVE  /\ Min({a, b}) \in {a, b} /\ Min({a, b}) <= a /\ Min({a, b}) <= b
<1>1. \E x \in {a, b} : \A y \in {a, b} : x <= y
  <2>1. CASE a <= b
    BY <2>1
  <2>2. CASE b <= a
    BY <2>2
  <2> QED
    BY <2>1, <2>2
<1> QED
  BY <1>1 DEF Min

(* Nothing is read from an empty ring.                                     *)
LEMMA GetNothing ==
  ASSUME NEW r \in RingRec, r.count = 0
  PROVE  GetUpTo(r, 1) = r
<1>1. Min({1, r.count}) = 0
  BY MinPair
<1> QED
  BY <1>1 DEF GetUpTo

(* circ_buf_put stops at a full ring. *)
LEMMA PutFacts ==
  ASSUME NEW r \in RingRec, r.size > 0, r.count <= r.size, NEW n \in Nat
  PROVE  LET p == PutAll(r, n)
         IN  /\ p \in RingRec /\ p.buffer = r.buffer /\ p.size = r.size
             /\ p.count <= p.size
<1> DEFINE m == Min({n, r.size - r.count})
           h == (r.head + m) % r.size
<1>1. /\ r.size \in Nat /\ r.count \in Nat /\ r.head \in Nat
      /\ r.size - r.count \in Nat
  BY RingFields
<1>2. m \in Nat /\ r.count + m <= r.size
  <2>1. m \in {n, r.size - r.count} /\ m <= r.size - r.count
    BY <1>1, MinPair
  <2> HIDE DEF m
  <2> QED
    BY <1>1, <2>1
<1>3. PutAll(r, n) = [r EXCEPT !.head = h, !.count = r.count + m]
  BY DEF PutAll
<1> HIDE DEF m
<1>4. h \in Nat
  BY <1>1, <1>2
<1> HIDE DEF h
<1>5. r.count + m \in Nat
  BY <1>1, <1>2
<1> DEFINE p == PutAll(r, n)
<1>6. /\ p \in RingRec /\ p.buffer = r.buffer /\ p.size = r.size
      /\ p.count = r.count + m
  BY <1>3, <1>4, <1>5 DEF RingRec
<1> QED
  BY <1>2, <1>6

-----------------------------------------------------------------------------
(* What changes one instance and leaves the heap alone.                    *)
LEMMA InstanceStep ==
  ASSUME UInv, NEW u \in Uarts, NEW x \in HandleRec,
         uart_instances' = [uart_instances EXCEPT ![u] = x],
         Owned([uart_instances EXCEPT ![u] = x], heap'),
         HeapInv', Covered(heap', asked'),
         x.initialized =>
           x.rx.count = 0 /\ x.tx.size > 0 /\ x.tx.count <= x.tx.size
  PROVE  UInv'
<1> DEFINE e == [uart_instances EXCEPT ![u] = x]
<1>1. uart_instances \in [Uarts -> HandleRec]
  BY DEF UInv, Owned
<1>2. e[u] = x /\ \A v \in Uarts : v # u => e[v] = uart_instances[v]
  BY <1>1
<1>3. uart_instances' = e /\ Owned(e, heap')
  OBVIOUS
<1> HIDE DEF e
<1>4. RingsInv(e)
  BY <1>2 DEF UInv, RingsInv
<1>5. RingsInv(uart_instances)'
  <2>1. RingsInv(uart_instances')
    BY <1>3, <1>4
  <2> QED
    BY <2>1 DEF RingsInv
<1>6. Owned(uart_instances, heap)'
  BY <1>3 DEF Owned, AllocSet
<1>7. Covered(heap, asked)'
  BY DEF Covered, AllocSet
<1> QED
  BY <1>5, <1>6, <1>7 DEF UInv

(* A step that leaves the instances alone.                                 *)
LEMMA InstancesKept ==
  ASSUME UInv, UNCHANGED uart_instances, HeapInv', Covered(heap', asked'),
         Owned(uart_instances, heap')
  PROVE  UInv'
<1>1. uart_instances' = uart_instances
  OBVIOUS
<1>2. RingsInv(uart_instances)'
  BY <1>1 DEF UInv, RingsInv
<1>3. Owned(uart_instances, heap)'
  BY <1>1 DEF Owned, AllocSet
<1>4. Covered(heap, asked)'
  BY DEF Covered, AllocSet
<1> QED
  BY <1>2, <1>3, <1>4 DEF UInv

(* A call that touches no memory keeps the heap's invariant. *)
LEMMA HeapUntouched ==
  ASSUME UInv, UNCHANGED heapVars
  PROVE  HeapInv' /\ Covered(heap', asked') /\ heap' = heap
<1>1. StepFacts({})
  BY StutterFacts DEF UInv
<1> QED
  BY <1>1 DEF StepFacts, UInv, heapVars

(* A call that fails early does nothing. *)
LEMMA UartStutter ==
  ASSUME UInv, UNCHANGED allVars
  PROVE  UInv'
<1>1. UNCHANGED heapVars /\ UNCHANGED uart_instances
  BY DEF allVars
<1>2. HeapInv' /\ Covered(heap', asked') /\ heap' = heap
  BY <1>1, HeapUntouched
<1> QED
  BY <1>1, <1>2, InstancesKept DEF UInv

(* The application's own heap calls leave the buffers alone. *)
LEMMA HeapStepKeepsRings ==
  ASSUME UInv, HeapStep(Held \ UartBlocks), UNCHANGED uart_instances
  PROVE  UInv'
<1> DEFINE inst == uart_instances
<1>1. HeapInv /\ Covered(heap, asked) /\ Owned(inst, heap)
  BY DEF UInv
<1>2. StepFacts(Held \ UartBlocks)
  BY <1>1, HeapStepFacts
<1>3. /\ HeapInv' /\ Covered(heap', asked')
      /\ Keeps(heap', heap, AllocSet(heap) \ (Held \ UartBlocks))
  BY <1>1, <1>2 DEF StepFacts
<1>4. ASSUME NEW u \in Uarts, inst[u].initialized
      PROVE  Keeps(heap', heap, {inst[u].rx.buffer, inst[u].tx.buffer})
  <2> DEFINE B == {inst[u].rx.buffer, inst[u].tx.buffer}
             M == {{inst[v].rx.buffer, inst[v].tx.buffer} : v \in Uarts}
  <2>1. B \subseteq AllocSet(heap)
    BY <1>1, <1>4 DEF Owned
  <2>2. NoBuffer \notin AllocSet(heap)
    <3>1. AllocSet(heap) \subseteq Addr
      BY <1>1, RecFacts DEF HeapInv, Ledger, Sound, Layout, AllocSet
    <3> QED
      BY <3>1, Sizes4 DEF Addr, NoBuffer
  <2>3. B \in M
    OBVIOUS
  <2>4. UartBlocks = (UNION M) \ {NoBuffer}
    BY DEF UartBlocks
  <2> HIDE DEF B, M
  <2>5. B \subseteq UartBlocks
    BY <2>1, <2>2, <2>3, <2>4
  <2>6. Keeps(heap', heap, B)
    BY <1>3, <2>1, <2>5 DEF Keeps
  <2> QED
    BY <2>6 DEF B
<1>5. Owned(inst, heap')
  BY <1>1, <1>4, OwnedKept
<1> QED
  BY <1>3, <1>5, InstancesKept

(* uart_write puts what fits into the ring. *)
LEMMA WriteKeepsRings ==
  ASSUME UInv, NEW u \in Uarts, NEW len \in Lengths, uart_write(u, len)
  PROVE  UInv'
<1> DEFINE r == uart_instances[u].tx
           p == PutAll(r, len)
           x == [uart_instances[u] EXCEPT !.tx = p]
<1>1. /\ uart_instances[u].initialized /\ UNCHANGED heapVars
      /\ uart_instances' = [uart_instances EXCEPT ![u].tx = p]
  BY DEF uart_write
<1>2. /\ uart_instances[u] \in HandleRec /\ r \in RingRec
      /\ uart_instances[u].rx.count = 0 /\ r.size > 0 /\ r.count <= r.size
      /\ uart_instances \in [Uarts -> HandleRec]
      /\ len \in Nat
  BY <1>1, HandleFields, UartAssumption DEF UInv, Owned, RingsInv
<1>3. /\ p \in RingRec /\ p.buffer = r.buffer /\ p.size = r.size
      /\ p.count <= p.size
  BY <1>2, PutFacts
<1> HIDE DEF p
<1>4. /\ x \in HandleRec /\ x.initialized = uart_instances[u].initialized
      /\ x.rx = uart_instances[u].rx /\ x.tx = p
      /\ uart_instances' = [uart_instances EXCEPT ![u] = x]
  BY <1>1, <1>2, <1>3 DEF HandleRec
<1> HIDE DEF x
<1>5. HeapInv' /\ Covered(heap', asked') /\ heap' = heap
  BY <1>1, HeapUntouched
<1>6. Owned([uart_instances EXCEPT ![u] = x], heap')
  <2>1. Owned([uart_instances EXCEPT ![u] = x], heap)
    BY <1>3, <1>4, OwnedUpdated DEF UInv
  <2> QED
    BY <1>5, <2>1
<1>7. x.rx.count = 0 /\ x.tx.size > 0 /\ x.tx.count <= x.tx.size
  BY <1>2, <1>3, <1>4
<1> QED
  BY <1>4, <1>5, <1>6, <1>7, InstanceStep

(* uart_read finds an empty ring. *)
LEMMA ReadKeepsRings ==
  ASSUME UInv, NEW u \in Uarts, uart_read(u, 1)
  PROVE  UInv'
<1>1. /\ uart_instances[u].initialized /\ UNCHANGED heapVars
      /\ uart_instances' = [uart_instances EXCEPT ![u].rx = GetUpTo(@, 1)]
  BY DEF uart_read
<1>2. /\ uart_instances[u].rx \in RingRec /\ uart_instances[u].rx.count = 0
      /\ uart_instances \in [Uarts -> HandleRec]
      /\ uart_instances[u] \in HandleRec
  BY <1>1, HandleFields DEF UInv, Owned, RingsInv
<1>3. GetUpTo(uart_instances[u].rx, 1) = uart_instances[u].rx
  BY <1>2, GetNothing
<1>4. uart_instances' = [uart_instances EXCEPT ![u].rx = uart_instances[u].rx]
  BY <1>1, <1>3
<1>5. uart_instances' = uart_instances
  BY <1>2, <1>4 DEF HandleRec
<1> QED
  BY <1>1, <1>5, UartStutter DEF allVars

(* uart_flush empties the transmit ring. *)
LEMMA FlushKeepsRings ==
  ASSUME UInv, NEW u \in Uarts, uart_flush(u)
  PROVE  UInv'
<1> DEFINE o == uart_instances[u]
           r == circ_buf_flush(o.rx)
           t == circ_buf_flush(o.tx)
           x == [initialized |-> o.initialized, rx |-> r, tx |-> t]
<1>1. /\ o.initialized /\ UNCHANGED heapVars
      /\ uart_instances' = [uart_instances EXCEPT ![u].rx = circ_buf_flush(@),
                                                  ![u].tx = circ_buf_flush(@)]
  BY DEF uart_flush
<1>2. /\ o \in HandleRec /\ o.rx \in RingRec /\ o.tx \in RingRec
      /\ o.tx.size > 0
      /\ uart_instances \in [Uarts -> HandleRec]
  BY <1>1, HandleFields DEF UInv, Owned, RingsInv
<1>3. /\ r \in RingRec /\ r.buffer = o.rx.buffer /\ r.size = o.rx.size
      /\ r.count = 0
      /\ t \in RingRec /\ t.buffer = o.tx.buffer /\ t.size = o.tx.size
      /\ t.count = 0
  BY <1>2, FlushFacts
<1>4. uart_instances' = [uart_instances EXCEPT ![u] = x]
  <2> DEFINE y == [[uart_instances EXCEPT ![u].rx = r] EXCEPT ![u].tx = t]
  <2>1. uart_instances' = y
    <3>1. [uart_instances EXCEPT ![u].rx = r][u].tx = o.tx
      BY <1>2 DEF HandleRec
    <3> HIDE DEF r
    <3> QED
      BY <1>1, <3>1 DEF r
  <2> HIDE DEF r, t
  <2>2. y[u] = x /\ \A v \in Uarts : v # u => y[v] = uart_instances[v]
    BY <1>2 DEF HandleRec
  <2>3. y = [v \in Uarts |-> y[v]]
    BY <1>2
  <2> HIDE DEF y, x
  <2> QED
    BY <1>2, <2>1, <2>2, <2>3
<1> HIDE DEF r, t
<1>5. x \in HandleRec /\ x.initialized = o.initialized /\ x.rx = r /\ x.tx = t
  BY <1>2, <1>3 DEF HandleRec
<1> HIDE DEF x
<1>6. HeapInv' /\ Covered(heap', asked') /\ heap' = heap
  BY <1>1, HeapUntouched
<1>7. Owned([uart_instances EXCEPT ![u] = x], heap')
  <2>1. Owned([uart_instances EXCEPT ![u] = x], heap)
    BY <1>3, <1>5, OwnedUpdated DEF UInv
  <2> QED
    BY <1>6, <2>1
<1>8. x.rx.count = 0 /\ x.tx.size > 0 /\ x.tx.count <= x.tx.size
  <2>1. o.tx.size \in Nat
    BY <1>2, RingFields
  <2> QED
    BY <1>2, <1>3, <1>5, <2>1
<1> QED
  BY <1>1, <1>4, <1>5, <1>6, <1>7, <1>8, InstanceStep

-----------------------------------------------------------------------------
(* Initialization.                                                         *)

(* rtos_malloc that succeeds.                                              *)
LEMMA ObtainFacts ==
  ASSUME NEW h, NEW a, Ledger(h, a), Covered(h, a),
         NEW n \in 0..(SIZE_MOD - 4), Allocates(h, n)
  PROVE  LET b == Obtained(h, n)
             g == AfterMalloc(h, n)
             e == [a EXCEPT ![b] = n]
         IN  /\ b \in Addr /\ b \notin AllocSet(h) /\ n > 0
             /\ Ledger(g, e) /\ AllocSet(g) = AllocSet(h) \cup {b}
             /\ g.size[b] >= n
             /\ Keeps(g, h, AllocSet(h)) /\ Covered(g, e)
<1> DEFINE s == align_size(n)
           b == find_best_fit(h, s)
           g == Allocate(h, s)
           e == [a EXCEPT ![b] = n]
<1>1. n > 0 /\ Fits(h, s) # {} /\ Obtained(h, n) = b /\ AfterMalloc(h, n) = g
  BY DEF Allocates, Obtained, AfterMalloc
<1>2. n \in 0..(SIZE_MOD - 1) /\ n <= SIZE_MOD - 4 /\ n \in Nat \ {0}
  BY <1>1, Sizes4
<1>3. s \in Nat /\ s % 4 = 0 /\ n <= s
  BY <1>2, AlignFacts
<1> HIDE DEF s
<1>4. /\ b \in Addr /\ b \notin AllocSet(h)
      /\ Ledger(g, e) /\ AllocSet(g) = AllocSet(h) \cup {b}
      /\ g.size[b] >= s
      /\ Keeps(g, h, AllocSet(h))
      /\ Covered(h, a) /\ n <= s => Covered(g, e)
  <2>1. Fits(h, s) # {}
    BY <1>1
  <2> QED
    BY <1>2, <1>3, <2>1, AllocateLedger
<1>5. g.size[b] >= n
  <2> HIDE DEF b, g
  <2>1. Layout(g) /\ b \in g.hdrs
    BY <1>4 DEF Ledger, Sound, AllocSet
  <2>2. g.size[b] \in Nat
    BY <2>1, EndFacts
  <2> QED
    BY <1>2, <1>3, <1>4, <2>2
<1> HIDE DEF b, g
<1> QED
  BY <1>1, <1>3, <1>4, <1>5

(* rtos_malloc whose block is given back at once.                          *)
LEMMA ObtainReleased ==
  ASSUME NEW h, NEW a, Ledger(h, a), Covered(h, a),
         NEW n \in 0..(SIZE_MOD - 4), Allocates(h, n)
  PROVE  LET g == Release(AfterMalloc(h, n), Obtained(h, n))
         IN  Ledger(g, a) /\ Keeps(g, h, AllocSet(h)) /\ Covered(g, a)
<1> DEFINE s == align_size(n)
<1>1. n > 0 /\ Fits(h, s) # {} /\ Obtained(h, n) = find_best_fit(h, s)
      /\ AfterMalloc(h, n) = Allocate(h, s)
  BY DEF Allocates, Obtained, AfterMalloc
<1>2. n \in 0..(SIZE_MOD - 1)
  BY Sizes4
<1>3. s \in Nat /\ s % 4 = 0
  BY <1>2, AlignFacts
<1> HIDE DEF s
<1> DEFINE g == Release(Allocate(h, s), find_best_fit(h, s))
<1>4. Fits(h, s) # {}
  BY <1>1
<1>5. /\ Ledger(g, a) /\ Keeps(g, h, AllocSet(h))
      /\ Covered(h, a) => Covered(g, a)
  BY <1>3, <1>4, AllocateRelease
<1>6. Release(AfterMalloc(h, n), Obtained(h, n)) = g
  BY <1>1
<1> HIDE DEF g
<1> QED
  BY <1>5, <1>6

(* A failed allocation returns NULL and leaves the heap. *)
LEMMA NotObtained ==
  ASSUME NEW h, NEW n, ~Allocates(h, n)
  PROVE  Obtained(h, n) = NoBuffer /\ AfterMalloc(h, n) = h
  BY DEF Obtained, AfterMalloc

(* No block is at NULL. *)
LEMMA AddrIsNotNull ==
  ASSUME NEW b \in Addr
  PROVE  b \in Int /\ b # NoBuffer
  BY Sizes4 DEF Addr, NoBuffer

(* uart_init that fails leaves the heap's blocks as they were.             *)
LEMMA FailedInit ==
  ASSUME UInv, NEW m \in 0..(SIZE_MOD - 4), NEW n \in 0..(SIZE_MOD - 4),
         NEW rx, NEW one, NEW tx, NEW two,
         rx = Obtained(heap, m), one = AfterMalloc(heap, m),
         tx = Obtained(one, n), two = AfterMalloc(one, n),
         rx = NoBuffer \/ tx = NoBuffer,
         heap' = AfterFree(AfterFree(two, rx), tx),
         freed' = (IF two = heap THEN freed ELSE {}), asked' = asked
  PROVE  /\ HeapInv' /\ Covered(heap', asked')
         /\ Keeps(heap', heap, AllocSet(heap))
<1>0. /\ HeapInv /\ Ledger(heap, asked) /\ Covered(heap, asked)
      /\ freed \subseteq Addr /\ \A b \in freed : heap.is_free[b]
  BY DEF UInv, HeapInv
<1>1. CASE ~Allocates(heap, m) /\ ~Allocates(one, n)
  <2>1. rx = NoBuffer /\ tx = NoBuffer /\ two = heap
    BY <1>1, NotObtained
  <2>2. heap' = heap /\ freed' = freed
    BY <2>1 DEF AfterFree
  <2>3. UNCHANGED heapVars
    BY <2>2 DEF heapVars
  <2> QED
    BY <2>2, <2>3, HeapUntouched DEF Keeps
<1>2. CASE Allocates(heap, m)
  <2>1. rx \in Addr /\ rx \notin AllocSet(heap) /\ rx \in AllocSet(one)
        /\ Ledger(one, [asked EXCEPT ![rx] = m])
        /\ Covered(one, [asked EXCEPT ![rx] = m])
    BY <1>0, <1>2, ObtainFacts
  <2>2. rx # NoBuffer /\ tx = NoBuffer
    BY <2>1, AddrIsNotNull
  <2>3. ~Allocates(one, n)
    <3>1. ASSUME Allocates(one, n) PROVE tx \in Addr
      BY <2>1, <3>1, ObtainFacts
    <3> QED
      BY <2>2, <3>1, AddrIsNotNull
  <2>4. two = one /\ two # heap
    BY <2>1, <2>3, NotObtained
  <2>5. heap' = Release(AfterMalloc(heap, m), Obtained(heap, m)) /\ freed' = {}
    BY <2>2, <2>4 DEF AfterFree
  <2> DEFINE g == Release(AfterMalloc(heap, m), Obtained(heap, m))
  <2>6. Ledger(g, asked) /\ Keeps(g, heap, AllocSet(heap)) /\ Covered(g, asked)
    BY <1>0, <1>2, ObtainReleased
  <2>7. heap' = g
    BY <2>5
  <2> HIDE DEF g
  <2>8. HeapInv'
    BY <2>5, <2>6, <2>7, LedgerStep
  <2> QED
    BY <2>6, <2>7, <2>8
<1>3. CASE ~Allocates(heap, m) /\ Allocates(one, n)
  <2>1. rx = NoBuffer /\ one = heap
    BY <1>3, NotObtained
  <2>2. tx \in Addr /\ tx \notin AllocSet(heap) /\ tx \in AllocSet(two)
    <3>1. tx = Obtained(heap, n) /\ two = AfterMalloc(heap, n) /\ Allocates(heap, n)
      BY <1>3, <2>1
    <3>2. /\ Obtained(heap, n) \in Addr /\ Obtained(heap, n) \notin AllocSet(heap)
          /\ AllocSet(AfterMalloc(heap, n)) = AllocSet(heap) \cup {Obtained(heap, n)}
      BY <1>0, <3>1, ObtainFacts
    <3> QED
      BY <3>1, <3>2
  <2>3. tx # NoBuffer /\ two # heap
    BY <2>2, AddrIsNotNull
  <2>4. heap' = Release(AfterMalloc(heap, n), Obtained(heap, n)) /\ freed' = {}
    BY <2>1, <2>3 DEF AfterFree
  <2> DEFINE g == Release(AfterMalloc(heap, n), Obtained(heap, n))
  <2>5. Ledger(g, asked) /\ Keeps(g, heap, AllocSet(heap)) /\ Covered(g, asked)
    BY <1>0, <1>3, <2>1, ObtainReleased
  <2>6. heap' = g
    BY <2>4
  <2> HIDE DEF g
  <2>7. HeapInv'
    BY <2>4, <2>5, <2>6, LedgerStep
  <2> QED
    BY <2>5, <2>6, <2>7
<1> QED
  BY <1>1, <1>2, <1>3

(* uart_init: both buffers, or the first given back when the second fails. *)
LEMMA InitKeepsRings ==
  ASSUME UInv, NEW u \in Uarts, NEW cfg \in Configs, uart_init(u, cfg)
  PROVE  UInv'
<1> DEFINE m   == cfg.rx
           n   == cfg.tx
           rx  == Obtained(heap, m)
           one == AfterMalloc(heap, m)
           tx  == Obtained(one, n)
           two == AfterMalloc(one, n)
           o   == uart_instances[u]
<1>0. /\ HeapInv /\ Ledger(heap, asked) /\ Covered(heap, asked)
      /\ Owned(uart_instances, heap)
  BY DEF UInv, HeapInv
<1>1. m \in 0..(SIZE_MOD - 4) /\ n \in 0..(SIZE_MOD - 4) /\ m \in Nat /\ n \in Nat
  BY UartAssumption, Sizes4
<1>2. \/ UNCHANGED allVars
      \/ /\ ~o.initialized /\ (rx = NoBuffer \/ tx = NoBuffer)
         /\ heap' = AfterFree(AfterFree(two, rx), tx)
         /\ freed' = IF two = heap THEN freed ELSE {}
         /\ uart_instances' = [uart_instances EXCEPT ![u] =
              [ZeroHandle EXCEPT !.rx = NewRing(NoBuffer, m),
                                 !.tx = NewRing(NoBuffer, n)]]
         /\ asked' = asked
      \/ /\ ~o.initialized /\ rx # NoBuffer /\ tx # NoBuffer
         /\ heap' = two
         /\ asked' = [asked EXCEPT ![rx] = m, ![tx] = n]
         /\ freed' = {}
         /\ uart_instances' = [uart_instances EXCEPT ![u] =
              [initialized |-> TRUE,
               rx |-> NewRing(rx, m), tx |-> NewRing(tx, n)]]
  BY DEF uart_init
<1> HIDE DEF m, n
<1>3. CASE UNCHANGED allVars
  BY <1>3, UartStutter
<1>4. CASE /\ ~o.initialized /\ (rx = NoBuffer \/ tx = NoBuffer)
           /\ heap' = AfterFree(AfterFree(two, rx), tx)
           /\ freed' = IF two = heap THEN freed ELSE {}
           /\ uart_instances' = [uart_instances EXCEPT ![u] =
                [ZeroHandle EXCEPT !.rx = NewRing(NoBuffer, m),
                                   !.tx = NewRing(NoBuffer, n)]]
           /\ asked' = asked
  <2> DEFINE r == NewRing(NoBuffer, m)
             t == NewRing(NoBuffer, n)
             x == [ZeroHandle EXCEPT !.rx = r, !.tx = t]
  <2>1. /\ HeapInv' /\ Covered(heap', asked')
        /\ Keeps(heap', heap, AllocSet(heap))
    <3> HIDE DEF rx, one, tx, two
    <3> QED
      BY <1>1, <1>4, FailedInit DEF rx, one, tx, two
  <2>2. uart_instances' = [uart_instances EXCEPT ![u] = x]
    BY <1>4
  <2>3. /\ r \in RingRec /\ r.buffer = NoBuffer
        /\ t \in RingRec /\ t.buffer = NoBuffer
    <3>1. NoBuffer \in Int
      BY DEF NoBuffer
    <3> QED
      BY <1>1, <3>1, NewRingFacts
  <2> HIDE DEF r, t
  <2>4. ZeroHandle \in HandleRec /\ ZeroHandle.initialized = FALSE
    BY ZeroHandleFacts
  <2>5. x \in HandleRec /\ x.initialized = FALSE /\ x.rx = r /\ x.tx = t
    BY <2>3, <2>4 DEF HandleRec
  <2> HIDE DEF x
  <2>6. Owned([uart_instances EXCEPT ![u] = x], heap')
    <3>1. \A v \in Uarts : v # u /\ uart_instances[v].initialized =>
            Keeps(heap', heap, {uart_instances[v].rx.buffer,
                                uart_instances[v].tx.buffer})
      BY <1>0, <2>1 DEF Owned, Keeps
    <3> QED
      BY <1>0, <2>3, <2>5, <3>1, OwnedRemoved
  <2> QED
    BY <2>1, <2>2, <2>5, <2>6, InstanceStep
<1>5. CASE /\ ~o.initialized /\ rx # NoBuffer /\ tx # NoBuffer
           /\ heap' = two
           /\ asked' = [asked EXCEPT ![rx] = m, ![tx] = n]
           /\ freed' = {}
           /\ uart_instances' = [uart_instances EXCEPT ![u] =
                [initialized |-> TRUE,
                 rx |-> NewRing(rx, m), tx |-> NewRing(tx, n)]]
  <2> DEFINE r == NewRing(rx, m)
             t == NewRing(tx, n)
             x == [initialized |-> TRUE, rx |-> r, tx |-> t]
             e == [asked EXCEPT ![rx] = m]
             e2 == [e EXCEPT ![tx] = n]
  <2>1. Allocates(heap, m) /\ Allocates(one, n)
    BY <1>5, NotObtained
  <2>2. /\ rx \in Addr /\ rx \notin AllocSet(heap) /\ m > 0
        /\ Ledger(one, e) /\ AllocSet(one) = AllocSet(heap) \cup {rx}
        /\ one.size[rx] >= m
        /\ Keeps(one, heap, AllocSet(heap)) /\ Covered(one, e)
    BY <1>0, <1>1, <2>1, ObtainFacts
  <2>3. heap' = two /\ asked' = e2 /\ freed' = {}
    BY <1>5
  <2>4. uart_instances' = [uart_instances EXCEPT ![u] = x]
    BY <1>5
  <2> HIDE DEF rx, one, e
  <2>5. /\ tx \in Addr /\ tx \notin AllocSet(one) /\ n > 0
        /\ Ledger(two, e2) /\ AllocSet(two) = AllocSet(one) \cup {tx}
        /\ two.size[tx] >= n
        /\ Keeps(two, one, AllocSet(one)) /\ Covered(two, e2)
    BY <1>1, <2>1, <2>2, ObtainFacts
  <2> HIDE DEF tx, two, e2
  <2>6. HeapInv' /\ Covered(heap', asked')
    BY <2>3, <2>5, LedgerStep
  <2>7. /\ r \in RingRec /\ r.buffer = rx /\ r.size = m /\ r.count = 0
        /\ t \in RingRec /\ t.buffer = tx /\ t.size = n /\ t.count = 0
    BY <1>1, <2>2, <2>5, AddrIsNotNull, NewRingFacts
  <2> HIDE DEF r, t
  <2>8. x \in HandleRec /\ x.initialized /\ x.rx = r /\ x.tx = t
    BY <2>7 DEF HandleRec
  <2> HIDE DEF x
  <2>9. /\ rx \in AllocSet(two) \ AllocSet(heap) /\ tx \in AllocSet(two) \ AllocSet(heap)
        /\ rx # tx /\ m <= two.size[rx] /\ n <= two.size[tx]
        /\ Keeps(two, heap, AllocSet(heap))
    <3>1. two.size[rx] = one.size[rx] /\ rx \in AllocSet(two)
      BY <2>2, <2>5 DEF Keeps
    <3>2. one.size[rx] \in Nat /\ two.size[tx] \in Nat
      <4>1. Layout(one) /\ rx \in one.hdrs /\ Layout(two) /\ tx \in two.hdrs
        BY <2>2, <2>5 DEF Ledger, Sound, AllocSet
      <4> QED
        BY <4>1, EndFacts
    <3>3. m <= two.size[rx] /\ n <= two.size[tx]
      BY <1>1, <2>2, <2>5, <3>1, <3>2
    <3>4. Keeps(two, heap, AllocSet(heap))
      BY <2>2, <2>5 DEF Keeps
    <3> QED
      BY <2>2, <2>5, <3>1, <3>3, <3>4
  <2>10. Owned([uart_instances EXCEPT ![u] = x], two)
    <3>1. /\ x.rx.buffer = rx /\ x.tx.buffer = tx
          /\ x.rx.size = m /\ x.tx.size = n
      BY <2>7, <2>8
    <3> QED
      BY <1>0, <2>8, <2>9, <3>1, OwnedAdded
  <2>11. x.rx.count = 0 /\ x.tx.size > 0 /\ x.tx.count <= x.tx.size
    BY <1>1, <2>5, <2>7, <2>8
  <2>12. Owned([uart_instances EXCEPT ![u] = x], heap')
    BY <2>3, <2>10
  <2> QED
    BY <2>4, <2>6, <2>8, <2>11, <2>12, InstanceStep
<1> QED
  BY <1>2, <1>3, <1>4, <1>5

(* uart_deinit frees both buffers and clears the instance. *)
LEMMA DeinitKeepsRings ==
  ASSUME UInv, NEW u \in Uarts, uart_deinit(u)
  PROVE  UInv'
<1> DEFINE o == uart_instances[u]
           b == o.rx.buffer
           c == o.tx.buffer
           g == Release(heap, b)
           e == [asked EXCEPT ![b] = 0]
           final == Release(g, c)
           e2 == [e EXCEPT ![c] = 0]
           r == [o.rx EXCEPT !.buffer = NoBuffer]
           t == [o.tx EXCEPT !.buffer = NoBuffer]
           x == [initialized |-> FALSE, rx |-> r, tx |-> t]
<1>1. CASE UNCHANGED allVars
  BY <1>1, UartStutter
<1>2. CASE ~UNCHANGED allVars
  <2>1. /\ o.initialized
        /\ heap' = final /\ asked' = e2 /\ freed' = freed \cup {b, c}
        /\ uart_instances' = [uart_instances EXCEPT
              ![u].initialized = FALSE, ![u].rx.buffer = NoBuffer,
              ![u].tx.buffer = NoBuffer]
    BY <1>2 DEF uart_deinit
  <2>2. /\ Ledger(heap, asked) /\ Covered(heap, asked) /\ freed \subseteq Addr
        /\ \A y \in freed : heap.is_free[y]
        /\ Owned(uart_instances, heap) /\ uart_instances \in [Uarts -> HandleRec]
        /\ o \in HandleRec /\ b \in AllocSet(heap) /\ c \in AllocSet(heap) /\ b # c
    BY <2>1 DEF UInv, HeapInv, Owned
  <2>3. o.rx \in RingRec /\ o.tx \in RingRec
    BY <2>2, HandleFields
  <2>4. uart_instances' = [uart_instances EXCEPT ![u] = x]
    <3> DEFINE y == [uart_instances EXCEPT
                      ![u].initialized = FALSE, ![u].rx.buffer = NoBuffer,
                      ![u].tx.buffer = NoBuffer]
    <3>1. y[u] = x
      BY <2>2, <2>3 DEF HandleRec, RingRec
    <3>2. /\ \A v \in Uarts : v # u => y[v] = uart_instances[v]
          /\ y = [v \in Uarts |-> y[v]]
      BY <2>2
    <3>3. uart_instances' = y
      BY <2>1
    <3> HIDE DEF y, x
    <3> QED
      BY <2>2, <3>1, <3>2, <3>3
  <2>5. r \in RingRec /\ r.buffer = NoBuffer /\ t \in RingRec /\ t.buffer = NoBuffer
    <3>1. NoBuffer \in Int
      BY DEF NoBuffer
    <3> DEFINE p == o.rx
               q == o.tx
    <3>2. p \in RingRec /\ q \in RingRec
      BY <2>3
    <3>3. r = [p EXCEPT !.buffer = NoBuffer] /\ t = [q EXCEPT !.buffer = NoBuffer]
      OBVIOUS
    <3> HIDE DEF p, q, r, t
    <3>4. r \in RingRec /\ r.buffer = NoBuffer
      BY <3>1, <3>2, <3>3 DEF RingRec
    <3>5. t \in RingRec /\ t.buffer = NoBuffer
      BY <3>1, <3>2, <3>3 DEF RingRec
    <3> QED
      BY <3>4, <3>5
  <2> HIDE DEF r, t
  <2>6. x \in HandleRec /\ x.initialized = FALSE /\ x.rx = r /\ x.tx = t
    BY <2>5 DEF HandleRec
  <2> HIDE DEF x, b, c
  <2>7. /\ b \in Addr /\ Ledger(g, e) /\ AllocSet(g) = AllocSet(heap) \ {b}
        /\ Keeps(g, heap, AllocSet(heap) \ {b}) /\ Covered(g, e)
        /\ g.is_free = [heap.is_free EXCEPT ![b] = TRUE]
    BY <2>2, ReleaseLedger
  <2>8. heap.is_free \in [Addr -> BOOLEAN]
    BY <2>2, RecFacts DEF Ledger, Sound, Layout
  <2> HIDE DEF g, e
  <2>9. c \in AllocSet(g)
    BY <2>2, <2>7
  <2>10. /\ c \in Addr /\ Ledger(final, e2) /\ AllocSet(final) = AllocSet(g) \ {c}
         /\ Keeps(final, g, AllocSet(g) \ {c}) /\ Covered(final, e2)
         /\ final.is_free = [g.is_free EXCEPT ![c] = TRUE]
    BY <2>7, <2>9, ReleaseLedger
  <2> HIDE DEF final, e2
  <2>11. freed' \subseteq Addr /\ \A y \in freed' : final.is_free[y]
    BY <2>1, <2>2, <2>7, <2>8, <2>10
  <2>12. HeapInv' /\ Covered(heap', asked')
    BY <2>1, <2>10, <2>11, LedgerStep
  <2>13. Keeps(final, heap, AllocSet(heap) \ {b, c})
    BY <2>7, <2>10 DEF Keeps
  <2>14. Owned([uart_instances EXCEPT ![u] = x], final)
    <3>1. ASSUME NEW v \in Uarts, v # u, uart_instances[v].initialized
          PROVE  Keeps(final, heap, {uart_instances[v].rx.buffer,
                                     uart_instances[v].tx.buffer})
      <4>1. {uart_instances[v].rx.buffer, uart_instances[v].tx.buffer}
              \subseteq AllocSet(heap) \ {b, c}
        BY <2>1, <2>2, <3>1 DEF Owned, b, c
      <4> QED
        BY <2>13, <4>1 DEF Keeps
    <3> QED
      BY <2>2, <2>5, <2>6, <3>1, OwnedRemoved
  <2>15. Owned([uart_instances EXCEPT ![u] = x], heap')
    BY <2>1, <2>14
  <2> QED
    BY <2>1, <2>4, <2>6, <2>12, <2>15, InstanceStep
<1> QED
  BY <1>1, <1>2

-----------------------------------------------------------------------------

(* The invariant holds before any instance is initialised. *)
LEMMA UartInitInv ==
  ASSUME UartInit
  PROVE  UInv
<1>1. HeapInv /\ Covered(heap, asked)
  BY InitialHeapFacts DEF UartInit
<1>2. uart_instances = [u \in Uarts |-> ZeroHandle]
  BY DEF UartInit
<1>3. Owned(uart_instances, heap)
  BY <1>2, ZeroHandleFacts DEF Owned
<1>4. RingsInv(uart_instances)
  BY <1>2, ZeroHandleFacts DEF RingsInv
<1> QED
  BY <1>1, <1>3, <1>4 DEF UInv

(* The inductive invariant holds in every reachable state. *)
LEMMA UartSpecInv == UartSpec => []UInv
<1>1. UartInit => UInv
  BY UartInitInv
<1>2. UInv /\ [UartNext]_allVars => UInv'
  BY UartStutter, HeapStepKeepsRings, InitKeepsRings, DeinitKeepsRings,
     WriteKeepsRings, ReadKeepsRings, FlushKeepsRings DEF UartNext
<1> QED
  BY <1>1, <1>2, PTL DEF UartSpec

-----------------------------------------------------------------------------
(* Each initialized instance owns two blocks large enough for its rings,   *)
(* and nothing else stays allocated, whichever allocation of uart_init     *)
(* fails: for any number of instances, any heap and any sizes.             *)
THEOREM UartBuffersOwned == UartSpec => []UartOwnsBuffers
<1>1. ASSUME UInv PROVE UartOwnsBuffers
  <2>1. HeapInv /\ Owned(uart_instances, heap)
    BY <1>1 DEF UInv
  <2>2. Allocated = AllocSet(heap) /\ Held = AllocSet(heap)
    BY <2>1, HeldIsAllocSet
  <2> DEFINE Ready == {u \in Uarts : uart_instances[u].initialized}
  <2>3. Cardinality(UartBlocks) = 2 * Cardinality(Ready)
    BY <2>1, TwoBlocksEach
  <2>4. \A u \in Ready : \A r \in {uart_instances[u].rx, uart_instances[u].tx} :
          r.buffer \in Allocated /\ r.size <= heap.size[r.buffer]
    BY <2>1, <2>2 DEF Owned
  <2> QED
    BY <2>2, <2>3, <2>4 DEF UartOwnsBuffers
<1> QED
  BY <1>1, UartSpecInv, PTL
=============================================================================
