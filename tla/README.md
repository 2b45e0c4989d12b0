# TLA+ specifications of the RTOS driver framework

A verification project for the small RTOS under `src/`: modules that model its
components, TLC runs that check them on small instances, and TLAPS proofs of the
results that matter most for every size. Source paths below are relative to the
repository.

## 1. The system

| Component | State | Operations | Uses |
|---|---|---|---|
| Task manager `src/kernel/task.c` | `task_pool`, `current_task`, `next_task_id` | create, delete, suspend, resume, delay, yield | scheduler |
| Scheduler `src/kernel/scheduler.c` | `ready_lists`, `delayed_list`, `current_tcb`, tick count | schedule, yield, tick, start | TCBs, `task_set_current` |
| Heap `src/kernel/memory.c` | block list, `global_stats` | malloc, calloc, realloc, free | |
| Pools `src/kernel/memory.c` | `memory_pool_t` | create, alloc, free, destroy | heap |
| Message queue, mutex, semaphore `src/ipc/*.c` | one struct each | create, send/receive, lock/unlock, take/give, destroy | heap, current task id |
| Device framework `src/driver_framework.c` | two registries | register, look up, `device_init_all` | driver callbacks |
| Interrupt dispatcher `src/hal/interrupt_dispatcher.c` | handler table, ISR flag, PRIMASK | register, unregister, dispatch, mask | hardware |
| HAL `src/hal/arm_cortex_m4.c` | tick counter | SysTick set-up and handler | `scheduler_tick` |
| UART, I2C, SPI drivers `src/drivers/*.c` | instance tables, ring buffers, busy flags | init, deinit, transfer | heap, device framework |
| Bootloader, startup, demo, tests | none of their own | | |

What is hard here:

* *Order of calls.* Any task may suspend or delete any other, or itself; TCBs
  are recycled; a tick can fall between any two calls. The ready lists, the two
  copies of "current task" and the handles have to agree after all of it.
* *Allocation failing half-way*: in `memory_pool_create`, `mq_create`,
  `rtos_realloc`, and a device whose driver fails in the middle of
  `device_init_all`.
* *Concurrency.* `RTOS_ENTER_CRITICAL` expands to nothing
  (`include/rtos_types.h:58`, `:61`), the Windows SysTick is a thread, and
  `context_switch` only prints. Tasks therefore do not interleave inside a call,
  but the tick (or any other interrupt) does with whatever runs. The kernel, the
  interrupt dispatcher and the bus drivers are modelled store by store for that
  reason; `Kernel` in addition has atomic calls, and `KernelStores` shows when
  that view is right.
* *Boundaries*: full and empty rings, full tables, splitting a block exactly,
  unsigned statistics.

What makes each part correct is stated by the properties of section 3.

## 2. Modules and how they correspond to the code

An operation keeps the name of its C function; helpers that have no name in the
code are named for what they do. Error returns are disjuncts that change nothing,
with the status in a comment. Operators without a place in `Next` that stand
before an operation (`CreateOffByOne`, `SplitTooEager`, ...) are mutants: faulty
variants of the operation that follows, used to confirm that a property can fail.

* **`Kernel`**: task manager and scheduler, one state machine because they share
  the TCBs. A TCB is its slot number, `NULL` is 0, a list linked through
  `tcb->next` is a sequence. `schedule`, `scheduler_yield` and the list operations
  are operators on the task states and lists they are entered with, since the C
  functions call them after having changed both. `task_delay` does what the code
  does: it blocks the task and puts it on no list. `MCKernel` instantiates it.
* **`KernelStores`**: the same two files at the grain of their stores. Ready lists
  are heads and `next` pointers; a call is the sequence of the steps it has left
  (`code`), and a step decides what comes next or makes one group of stores. The
  critical sections are no steps, because the macros are empty. Through
  `K == INSTANCE Kernel`, with each chain of pointers read as a sequence, the
  properties of `Kernel` are asked of the pointers. `MCKernelStores` adds the
  history variable `rest`, the kernel as the last call left it, and with it the
  refinement `ImplementsKernel`: all the stores of a call together are the one
  action of `Kernel`. Wake times are left out, because nothing reads them.
* **`KernelIsr`** extends it with interrupts: a SysTick, or a handler that calls
  `task_resume`, may come before any step of a call, `scheduler_start` included.
  Nothing masks them in the code, and nothing does in the module.
* **`Heap`**: a block is the offset of its header. The list is in address order,
  so it is a set of offsets; header fields exist for every offset because a
  double free reads the header of a block that was merged away. `asked` is the
  application's view of what it holds, `freed` the pointers it may free again.
  `merge_free_blocks` is written as at most two merges; `Coalesced` would fail
  if that were not enough.
* **`MemoryPool`** extends `Heap` with one pool that competes with the
  application for memory. The bitmap is the set of its 1 bits.
* **`BoundedFifo`** is the abstract specification of a queue: a sequence of at
  most `capacity` messages. **`MessageQueue`** is the ring buffer with `head`,
  `tail` and `count`, and `ImplementsFifo` the refinement, in which the contents
  are the `count` slots from `tail` on. **`Mutex`** has lock and unlock; **`Ipc`**
  composes queue, mutex and semaphore with `Heap`, so that every creation can
  fail.
* **`DeviceFramework`**: registries as sequences; `device_init_all` takes one
  step per iteration of its loop, and each callback may succeed or fail.
* **`IrqDispatcher`**: a stack of the thread and the dispatches above it; only
  the top runs. Each store to the handler table and each load of the dispatch is
  an action, and an interrupt may arrive before each unless PRIMASK is set. The
  hardware's part (`interrupt`, the stack) is external to the repository. Thread
  code calls `irq_register` and `irq_unregister` with interrupts on or off, as it
  likes; handlers do not call them. `irq_enable_global` may be called anywhere,
  and `opened` counts the critical sections it has ended in effect. A dispatch
  that calls a NULL handler ends in `default_fault_handler`, which never returns.
* **`Drivers`** extends `IrqDispatcher` with the instance tables of I2C, SPI and
  the DMA path of UART. Thread code and handlers call the drivers; a call is
  check, claim (`busy = true`), transfer, release, or for initialisation check,
  `memset`, ready, and an interrupt may come before each. `calls` is the stack
  of calls in progress, each tied to the frame that made it. `i2c_scan_bus` and
  the SPI transfers do not touch `busy`, and no deinit looks at it. A transfer is
  `stale` once its instance was deinitialised and initialised again under it; it
  goes on (it is still among the `Holders`) without `busy`.
* **`Uart`** extends `Heap` with the table of UART instances. A ring keeps its
  indices and count; the bytes themselves are left out. Each call is one step. In
  this simulation no byte is received and only `uart_flush` empties a transmit
  ring, so a full ring answers BUSY until then.
* **`KernelProofs`**, **`KernelStoresProofs`**, **`HeapProofs`**, **`PoolProofs`**,
  **`IpcProofs`**, **`DeviceProofs`**, **`DriversProofs`** and **`UartProofs`** hold
  the theorems (section 4).

## 3. Model-checking runs

| Run | Instance | Shows |
|---|---|---|
| `kernel` | 3 slots, 2 priorities, 4 ids, ticks modulo 2 | types; ready lists hold exactly the READY tasks; one RUNNING task; handles unique; a switch dispatches the highest task; a tick ends every priority inversion; equal priorities are served in order |
| `kernel_stores` | 3 slots, 2 priorities, 4 ids | the stores of each call add up to the atomic kernel; after each call the pointers form lists of exactly the READY tasks and one task runs at most; no walk of a list is endless |
| `memory` | 32-byte heap with 4-byte headers, one pool | blocks tile the heap, free ones are merged, clients hold what is allocated, counters are exact, a double free does nothing, the pool's bitmap, count and memory agree |
| `ipc` | 28-byte heap, capacity up to 2, three callers | the queue implements the FIFO; mutual exclusion; permits conserved; no failed creation leaks |
| `devices` | tables of 3, four driver and four device names, priorities 0, 1, 255 | lookup finds what was registered; order of initialisation; OK means initialised (below priority 255) |
| `uart` | two instances, 32-byte heap, rings of one and two bytes | no failed or repeated initialisation leaks or shares a buffer |
| `drivers` | a thread and two nesting interrupts, one handler, critical sections two deep, one instance of each driver | ISR flag exact; masks nest; one claimed transfer per instance unless it is reset under way; no instance is left busy |

Bounds. Three tasks and two priorities give a current task two rivals, one of
them of equal rank, and a fourth id recycles a slot. The heap holds three
blocks, so a free can merge with both neighbours, and in `ipc` a queue needs two
allocations of which either can fail, as does `uart_init` in `uart`. Ring capacities 1 and 2 make head and tail
wrap. Three devices let one fail, be retried and block another. Counters are
kept modulo small numbers (`TICK_MOD`, `SIZE_MOD`, `COUNT_MOD`), with the wrap of
the C types. `SIZE_MOD` exceeds twice the heap, as `size_t` does. Symmetry is used in
`devices` and `drivers`, which check invariants only. In `kernel_stores` a
task is first, last and in the middle of a list, and a creation with all TCBs
taken is tried as well. In `drivers` each of thread, first and second interrupt
can be at any step of a driver call while another one resets or claims the same
instance; one handler is enough there, because no property of that run asks which
handler runs.

Fairness. `FairSpec` assumes weak fairness of `scheduler_tick`: SysTick is a
periodic interrupt (a thread that sleeps 1 ms on Windows), always enabled, that
no code here stops. `YieldingSpec` adds that the task holding the CPU keeps
calling `task_yield`. `StoresSpec` assumes that a call that has begun goes on
(weak fairness of its steps): `CallsEnd` says that it then also ends. No fairness
is assumed of any other call. On Windows the tick thread always comes. On the
QEMU target the assumption needs an application that enables interrupts: see
section 5.

### Runs that show a disagreement

Each states what a comment or a document says of the code, and the run refutes it.

* `kernel_delay`: a delayed task never wakes. `task_delay` leaves it off
  `delayed_list`; `add_to_delayed_list` has no caller.
* `kernel_round_robin`: "Round-robin for equal priorities"
  (`docs/ARCHITECTURE.md:14`) fails. After a yield that found no rival the
  current task is READY at the head of its own list, and `schedule` returns at
  once while it is; a peer that becomes ready later waits through all yields.
* `kernel_isr`: `RTOS_ENTER_CRITICAL` does not "Disable interrupts for thread
  safety" (`drivers/uart_driver.c:94`). A handler that resumes a task in the middle
  of its own suspension links it before it is unlinked: the task is READY and in
  no list, where no tick and no yield finds it.
* `devices_blocked`: `device_init_all` does not call init "for each device"; a
  device that fails is picked again in every iteration that is left.
* `irq_torn`: a dispatch between the stores of `irq_register` calls the new handler
  with the old context (and between those of `irq_unregister`, NULL).

### Other disagreements

Met while modelling and plain from the code, so that no run is spent on them:

* When a task stops itself with nothing READY, `schedule` leaves `current_tcb` on it
  (`scheduler.c:95-98`) and the tick compares priorities with *that* task
  (`:193`): a task created or resumed later, of the same or a lower priority, waits
  until somebody yields, although nothing else can run.
* `free_heap_size` wraps below zero when the last free block is handed out whole:
  `memory.c:35` and `:130` count the header differently.
* `device_init_all` never picks a device of priority 255 (`driver_framework.c:152`)
  and returns OK all the same; `OkMeansInitialised` leaves that priority out.
* `handler_count` is never incremented (`interrupt_dispatcher.c:71`).
* No deinit asks for `busy`; an instance that is deinitialised and initialised again
  during a transfer is free while the transfer goes on (`i2c_driver.c:75`, `:193`).
  `OneTransfer` is stated for the other transfers.
* `uart_write` is "blocking" and "transmits via UART" (`uart_driver.c:343-345`), yet
  what it has accepted stays in the transmit ring, and after `tx_buffer_size` bytes
  every write fails with BUSY until `uart_flush` throws them away.
* `sem_create` accepts an initial count above the maximum; products of sizes are not
  checked for wrapping in `rtos_calloc` and `memory_pool_create`.

## 4. Proofs

Every invariant and action property of the passing runs is also a theorem, for
every value of the constants that satisfies the `ASSUME`s of its module; of
`kernel_stores` the refinement and the termination of calls are only checked. Each proof has the same
shape: an inductive invariant, one lemma per action that it is kept, and the
properties as its consequences.

| Module | Inductive invariant | Theorems |
|---|---|---|
| `KernelProofs` | `IInv` | `TypeOK`, `ReadyListsExact`, `OneRunning`, `UniqueIds`, `DispatchIsHighest`, `TickPreempts`, `NoOvertaking` |
| `KernelStoresProofs` | `StoresInv` | `ListsIntact`, `OneRunningAtRest`, of `StoresSpec` |
| `HeapProofs` | `HeapInv`, `Covered` | `HeapTypeOK`, `Tiling`, `Coalesced`, `HeldIsAllocated`, `StatsExact`, `DoubleFreeIgnored`, of `HeapSpec` |
| `PoolProofs` | `PInv` | `PoolExact`, `PoolInsideHeap`, and the heap's properties of `PoolSpec` |
| `IpcProofs` | `QInv` | `ImplementsFifo`, `QueueTypeOK`, of `QueueSpec` |
| `IpcProofs` | `IInv` | `MutexExclusive`, `PermitsConserved`, `ObjectsOwnBlocks`, `IpcSpec => QueueSpec`, and with it `ImplementsFifo`, `QueueTypeOK` |
| `DeviceProofs` | `DInv` | `TypeOK`, `LookupFindsDevice`, `TriedInOrder`, `OkMeansInitialised` |
| `DriversProofs` | `IrqInv`, `DriversInv` | `IsrFlagExact`, `MaskedInCritical`, `OneTransfer`, `NoneLeftBusy` |
| `UartProofs` | `UInv` | `UartOwnsBuffers` |

**Kernel.** No invariant is inductive alone: that a new task is not linked yet
needs `UniqueIds` and the exactness of the lists; that removing a task empties
its list of it needs that it occurs once; that the task leaving the CPU is in no
list needs `OneRunning`. `IInv` is their conjunction with `delayed_list = <<>>`,
which also proves that `process_delayed_tasks` has nothing to do. The proof
characterises appending to and removing from a duplicate-free sequence
(`AppendFacts`, `RemoveFacts`), lifts both to the lists (`AddExact`,
`RemoveExact`), then follows the code. For the three action properties every
action is first reduced to one of five kinds of step (`StepCase`: a task is
linked, a task is unlinked, a tick does nothing, `schedule` or `scheduler_yield`
is entered with adjusted lists, nothing changes), and the properties are shown of
those.

**Kernel, store by store.** Between two stores of a call most of what the
properties say is false: a task is RUNNING and still linked, a list has lost its
head, the two files disagree about the current task. `StoresInv` therefore has two
parts beside the types. `Standing` is what no store disturbs: the current task is
a task, and the scheduler runs if there is one. `Point` says, for each step that
can be next, what holds before it and which steps are left: the lists are exact,
or exact but for one task (`But`, `Without`); one task runs, or none, or the one
being dispatched (`OneRuns`, `NoneRuns`, `OnlyRuns`). Two arguments carry it:

* Lists. `List` follows pointers, a recursion over data. `Linked` says instead that
  a sequence without repetition is linked by `next` from its first element;
  `ChainLinked` shows, by the least counterexample, that the chain of pointers is
  then that sequence, so each store to `next` or to a list head is a statement
  about one sequence (`AppendLinked`, `DropLinked`).
* Continuations. The steps a call has left are a sequence that grows at its head
  when `yield` or `schedule` is entered. `Point` names the few sequences that
  occur, so each action is shown to lead from one named point to another.

No idle task is assumed: when nothing is READY the current task stays what it was,
stopped or not, which both properties allow.

**Heap.** The lemmas are about one heap record `h`, not about the variable, so
that calls that allocate twice can use them twice. `Layout` is the tiling;
`MergeFacts` shows that two merges restore `Coalesced` when the only adjacent
pairs involve the freed block, which is why `merge_free_blocks` may be written as
two. `Ledger` joins the block list with what the application holds, and `Counted`
with the statistics. A sum over blocks would need induction; `StatsExact` counts
the *bytes that lie in* allocated blocks instead, which is the same number because
blocks do not overlap, and finite-set theorems suffice. The counters wrap, so
`Counted` says that their difference is the number of blocks up to a multiple of
`COUNT_MOD`. `HeapInv` adds that a block in `freed` is still marked free, on which
the double-free check rests.

**Pools.** The theorems have the hypothesis `NoOverflow`: that `block_size *
num_blocks` and its rounding do not wrap a `size_t`. `memory_pool_create` does not
check it (`memory.c:243`), and without it the pool's blocks need not lie in its
memory. `DoubleFreeIgnored` tells an allocating call by its counter, so for pools
it also needs `COUNT_MOD > 1`: a creation that fails half-way allocates and frees.

**Queue.** The strengthening is `head = (tail + count) % max_msgs`; the arithmetic
of the modulus is in `RingIndex`, `NextHead` and `NextTail`, and `AppendAt` and
`TailAt` turn a changed slot into `Append` and `Tail` of the contents.
`IpcImplementsQueue` shows that the queue on the heap is that queue, so
`ImplementsFifo` carries over to `Ipc`.

**IPC.** `Placement` says that the objects' blocks are allocated and distinct,
`QueuePlaced` that struct, buffer and queue come and go together: without it a
send could reach a queue whose buffer failed. `IpcAssumption` asks that the
sizes of the structs are sizes, below `SIZE_MOD`.

**Devices.** `TriedFirst` says that what was tried comes before all that is still
pending, in the order of `Earlier`; from it each iteration extends `attempts` in
order. `OkMeansInitialised` needs `Progress`: as long as nothing has failed, every
iteration has initialised another device, so the loop's bound on iterations is
enough.

**Dispatcher and drivers.** `FlagInv` says of every frame that the flag it saved
is the one the frames below it left; `MaskInv` that only the top frame can be in
a critical section that still masks, and that each section nested in such a one
was entered masked, so that leaving it cannot unmask. `OneTransfer` and
`NoneLeftBusy` rest on `FreeBelow`: a call that has found its instance free, or has
reset it, has no undisturbed holder of the instance beneath it, because what
interrupted it has ended by the time it goes on. That is the reason why the test
and the store of `busy` may be two steps under interrupts that nest, and would not
be with tasks that preempt each other. Transfers that were reset under way are
outside `OneTransfer`: they may meet another transfer.

**UART.** `Owned` is the table's claim on the heap. The sizes of a configuration
are `uint16_t` in the code and far below the wrap of `size_t`; `UartAssumption`
says so as `rx, tx <= SIZE_MOD - 4`.

Only model-checked:

* liveness, which is out of the prover's reach: `CallsEnd`, and the temporal
  properties that the runs of section 3 refute;
* the refinement `ImplementsKernel`, whose abstract state is a history variable;
* that the code does *not* do what a comment, a document or a test says of it,
  which is what the other runs of section 3 that end in a violation show.

## 5. Not modelled

* Stack frames, task names, console output, message and block contents beyond
  what the properties tell apart; `memory_check_stack_overflow`, fragmentation.
* Interrupts inside heap, pool and IPC calls, none of which has a critical
  section: a handler that allocates or sends while the same call is in progress
  is outside the models. No handler in the repository does.
* The preemption of one kernel call by a tick that runs in parallel to it rather
  than on top of it (the Windows thread on another core).
* Handle 0 and the wrap of `next_task_id` after 2^32 creations.
* A handler that registers or unregisters handlers, for example one that calls
  `irq_unregister` between the check and the call of a
  dispatch it preempted (`interrupt_dispatcher.c:114-125`), which would call NULL;
  no handler in the repository does.
* The wrap of the tick count in `process_delayed_tasks` (`scheduler.c:170`): no
  task is ever put on the delayed list, which is what run `kernel_delay` shows.
* UART callbacks (the receive callback is never called, the transmit one never
  set), and two tasks inside one `uart_write`.
* The lengths of SPI transfers; `spi_write` and `spi_read` have a scratch buffer
  of 256 bytes and so the precondition `len <= 256`.
* The start of the system. `reset_handler` (`hal/stm32f429_startup.c:264`) masks
  interrupts, and nothing in the repository calls `hal_enable_interrupts` or
  `irq_enable_global`, so the SysTick that `examples/demo_app.c` sets up stays
  pending on that target. In the demo the handles of `main` (lines 197, 198)
  hide the file's variables that its tasks use, which stay NULL; their driver
  calls return INVALID_PARAM.
* Bootloader, demo and tests, which keep no state to model.

## 6. Plan

1. Handle 0 in `Kernel`, and a message queue used by a handler.
