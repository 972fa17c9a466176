# Arm64OS: a TLA+ model of the kernel

Arm64OS is a small kernel for the Raspberry Pi (one core, EL1) with preemptive
kernel threads, a fork-based task model, a page allocator, an identity mapping
and a GICv2 / generic timer interrupt path. This directory holds TLA+ modules
translated from its source, TLC configurations for small instances, and proofs
checked by TLAPS.

## 1. Inventory

| Part | Source | State | Operations |
|---|---|---|---|
| tasks, fork | `kernel/fork.c`, `include/sched.h` | `g_task`, task ring, `task_struct` fields | `kernel_thread`, `do_fork`, `copy_thread`, `move_to_user_space` |
| scheduler core | `kernel/sched.c` | run queue, `preempt_count`, `need_resched` | `schedule`, `preempt_schedule_irq`, `__schedule`, `schedule_tail`, `wake_up_process` |
| scheduling class | `kernel/sched_nop.c` | `counter`, `nr_running` | tick, pick, reset, enqueue |
| lists | `include/list.h`, `SET_LINKS` | `next`/`prev`, `next_task`/`prev_task` | `list_add`, `list_for_each`, `for_each_task` |
| entry and exit | `arch/arm64/kernel/entry.S` | stacks, `elr_el1`, interrupt mask | `el1_irq`, `el0_irq`, `el0_sync`, `ret_to_user`, `ret_from_fork`, `cpu_switch_to` |
| system calls | `arch/arm64/kernel/syscall.c` | none of their own | `malloc`, `clone`, stubs |
| page allocator | `mm/page_alloc.c` | `mem_map` | `get_free_page`, `free_page` |
| interrupt core, GIC, timer | `kernel/irq.c`, `drivers/irqchip/gicv2.c`, `mach-rpi/timer.c` | descriptors, controller registers | `gic_init`, `request_irq`, `gic_handle_irq`, `generic_handle_irq`, `timer_init` |
| identity mapping | `mach-rpi/mmu.c`, `asm/pgtable.h` | page tables | `paging_init` |
| page table dump | `mach-rpi/dump_pgtable.c` | the tables above | `dump_pgtable`, `walk_pgd` ... `walk_pte`, `test_walk_pgtable` |
| printk | `lib/printk.c` | `print_buf`, `log_buf`, `g_record`, the status | `printk`, `init_printk_done`, `myprintf`, `number` |
| console and shell | `mach-rpi/pl_uart.c`, `start_kernel` | the line buffer | `putchar`, `uart_send_string`, `uart_recv_string` |
| strings | `lib/string.c` | the memory it fills | `memset`, `memcpy`, `strlen` |
| cache info, boot code, user stubs | `cacheinfo.c`, `head.S`, `usr/` | none | see "Not modelled" |

How they interact. The timer interrupt calls `tick_handle_periodic` on the
interrupted task; `el1_irq` or `ret_to_user` then calls the scheduler, which
walks the run queue and, when all slices are used up, the task ring. `do_fork`
takes a page from the allocator and writes both structures. `start_kernel`
calls it with interrupts enabled, `clone` with interrupts masked. The
allocator also feeds `paging_init` and the interrupt domain. Everything prints
through `printk`, threads and the tick alike, with one buffer between them.

What is hard here is preemption: nothing in `do_fork` or `get_free_page` is
protected against the timer, the scheduler switches inside interrupt frames,
and the exit paths enable and mask interrupts in several places. The list of
hazards, with the line where each bites and the property that covers it, is in
`PROJECT.json`.

What makes each part correct:

* scheduler: no nested preemption, balanced `preempt_count`, the right
  interrupt mask everywhere, every pick ends, every queued task runs;
* tasks: one pid per task, every queued task on the ring, queue and counter
  agree;
* allocator: no page with two owners, none lost on an error path;
* lists: a reader that interrupts an update still sees a well formed list;
* interrupt path: an acknowledged line is always completed, the tick never
  stops, provided firmware hands the controller over in a state the driver
  copes with;
* mapping: exactly the requested addresses, each to itself; the dump shows it;
* printk: a format comes out as its directives mean, a call that nobody
  overlaps comes out whole, messages of the early boot are kept;
* shell: a line comes back as it was typed.

## 2. Modules

| Module | Models | Role |
|---|---|---|
| `PageMap` | `mm/page_alloc.c` | operators on a page map, shared by `Kernel` and `PageTable` |
| `SchedNop` | `kernel/sched_nop.c` | operators: tick, goodness, pick, reset, enqueue |
| `PickNext` | `pick_next_task_nop` | the loop statement by statement, checked against `SchedNop` |
| `Kernel` | `sched.c`, `fork.c`, `entry.S`, `syscall.c`, `start_kernel` | the composition of scheduler, tasks, allocator and entry paths |
| `RunQueue` | what a queue promises | abstract specification |
| `RunList` | `list.h`, `SET_LINKS` | store by store, implements `RunQueue` |
| `Gic` | `irq.c`, `gicv2.c`, `timer.c` | from firmware's state to the periodic tick |
| `PageTable` | `mmu.c`, `pgtable.h`, `walk_pgtable` | `paging_init`, then allocation with the MMU on |
| `Memset` | `lib/string.c` | `__memset`, byte by byte and block by block |
| `DumpTable` | `dump_pgtable.c` | extends `PageTable`: the dumps and the patch of `readonly_page` after `paging_init` |
| `Console` | `printk`, `pl_uart.c`, the shell loop | the shared buffers under preemption |
| `Printf` | `myprintf`, `number` | the formatter, character by character, against what a directive means |
| `MCKernel`, `MCPageTable`, `MCDumpTable`, `MCConsole`, `MCPrintf` | | instances for TLC |
| `PickNextProofs`, `KernelProofs`, `RunListProofs`, `GicProofs`, `PageTableProofs`, `ConsoleProofs`, `PrintfProofs`, `MemsetProofs` | | theorems |

### Kernel

A task is named by the page of its `task_struct`; `init_task` is 0. The kernel
stack of a task is reduced to where it stands: `at`, the point outside the
interrupt path; `depth`, the number of `el1_irq` frames above it that called
`preempt_schedule_irq`; `frame`, the point of the innermost. The CPU is
`current`, `irq` (PSTATE.I) and `elr`, whose user context `ELR_EL1`/`SPSR_EL1`
hold. `held` is a history variable: the pages each task got. `BootPages` is the
set of numbers of pages that the boot may have used up before.

| Action | Code |
|---|---|
| `El1IrqReturn`, `El1IrqPreempt`, `El0Irq` | `el1_irq`, `el1_preempt` to the `raw_local_irq_enable` of `preempt_schedule_irq`, `el0_irq`; each with `irq_handler` and the tick |
| `ScheduleSame`, `ScheduleSwitch`, `ScheduleGarbage` | `__schedule` from `raw_local_irq_disable` on: same task, another task, uninitialised `next` on an empty queue |
| `FinishSwitch`, `PreemptReturn`, `SchedReturn` | return from `cpu_switch_to`, ends of `preempt_schedule_irq` and `schedule` |
| `RetFromFork`, `RetToUser`, `RetToUserSchedule`, `RestoreElr`, `Eret` | `ret_from_fork`, `ret_to_user`, `need_sched`, `kernel_context_res 0` up to and after the `msr` of ELR and SPSR |
| `ForkNoPage` ... `ForkAccount` | `do_fork` called by `kernel_thread`: get_free_page's scan, its store, the child, `current->counter >>= 1`, `g_task`, `SET_LINKS`, `list_add`, `nr_running++` |
| `MoveToUserNoPage`, `MoveToUserScan`, `MoveToUserTake` | `user_thread`, `move_to_user_space` |
| `SysOther`, `SysMalloc`, `SysClone`, `SysCloneFails` | `el0_sync`, one step each: interrupts are masked |
| `Panic` | a wild jump or `bad_mode`, for ever |

`do_fork` is one step under `clone` because `el0_sync` runs with interrupts
masked, and many steps under `start_kernel`. A C statement is one step where a
tick inside it makes no difference; `SET_LINKS` is one step in `Kernel` and
four in `RunList`, `list_add` likewise. `ScheduleGarbage` is the undefined
behaviour of returning the uninitialised `next`: prev itself
(`ScheduleSame`) or anything else (`lost`).

### RunList and RunQueue

`RunList` executes the four stores of `SET_LINKS` and the four of `__list_add`
one by one. `Preempt` stops `start_kernel` before any of them for good (that
it never returns is the theorem `InitLosesCpuForGood` of `KernelProofs`), after
which `Clone` adds tasks to what it left. The refinement mapping is the
sequence `list_for_each` visits; `EnqueueIsAtomic` says that this sequence
behaves as `RunQueue`. A task whose ring entry was left half done can be
dropped from the ring by a later clone; it is not on the queue then, so the
scheduler never needs it, which is what `QueuedTasksOnRing` shows.

### Gic

The controller and the timer are external. The distributor has the enabled and
active lines and the pending SGIs; the CPU interface has the lines it has
acknowledged and that lack their EOI (`running`), and signals nothing while
there is one, as all lines that can be enabled have one priority. The two are
apart because `gic_dist_init` writes to the first only: `GIC_DIST_ACTIVE_CLEAR`
is no EOI. The stages of `irq_handler` are separate steps, and so are the
statements of `timer_init`: the timer may expire between any two of them, or be
expired, running or routed already when `timer_init` starts. Other devices move
their lines at any time.

`Init` lets firmware leave any line enabled, active or acknowledged, any SGI
pending, any line asserted and the timer in any state. The driver copes with all
of that but two things, which the history variable `left` records: it enables the
SGIs without clearing the pending ones, and `gic_handle_irq` drops numbers up to
15 without an EOI; and it never completes a line that firmware acknowledged. In
either case the tick never comes. `TicksForever` states both halves: it ticks for
ever if `left` is empty, and never if it is not. Nothing in the repository sends
an SGI, and the sources promise nothing about the state firmware hands over.

### PageTable

Addresses are page numbers, a table has `PTRS` entries at each of four levels.
`MapPmd` is one iteration of the loop of `alloc_init_pmd` with the tables
allocated on the way down; the outer loops only cut the range at multiples of
a section. A descent through a section or a null page, which the code does not
test for, sets `wild`.

### DumpTable

Built with `DEBUG_DUMP_PGTABLE`, `start_kernel` prints the mapping of the memory
and of the devices, rewrites the descriptor of `readonly_page` (the last page of
the text, `linker.ld`) and prints that page. `WalkPgd` is an iteration of the
loop of `walk_pgd`; `walk_pmd` and `walk_pte` give the set of lines they print.
`walk_pud` computes the next boundary from its `start`: if its range does not
end there, the loop goes on for ever at the same address, and the model is in
`runaway`. Both boards' ranges stay behind one pud of each pgd entry, which
`OnePudEach` requires. The text of a line is left out; a line is its range
and its descriptor. `test_walk_pgtable` patches a section if the page lies in one, and
then everything the section spans becomes writable (`MappedSoFar` says so).

### Console

`print_buf` is written and sent one character per step, so that `Tick`, which
prints a line of its own in the interrupt handler and gives the CPU to another
thread, comes between any two. A call that is overlapped shows a mixture;
`overlapped` remembers which calls were. `RecvChar` is one round of the loop of
`uart_recv_string`. The UART sends and receives every byte in order; the shell
runs until the first preemption of `start_kernel`, as in `Kernel`. Texts are
sequences of characters, every one short enough for the buffer
(`ConsoleAssumption`): `myprintf` ignores its size argument. What is typed may
hold a NUL: `uart_send_string` stops there, and `EchoesLine` promises the line
up to it (`Line`).

### Printf

A format is a sequence of pieces, characters and directives, spelled out as
characters; `myprintf` sees the characters only. One action is one part of the
loop body: the flags, the width, the precision, the qualifier, the
conversion, the number. The reference (`Meaning`) starts from the pieces and
their arguments and never scans. The C types have `CHAR`, `SHORT`, `INT` and `LONG`
bits, and values wrap and sign-extend at these widths.

The meaning is that of the comment above `myprintf`, and of C's printf where the
comment says nothing. The code departs from it in two places, which
`RendersFormat` leaves out (`Departs`): `#` puts `0` before an octal number, while
the comment says that it adds `0x` for o, x and X (`printk.c:132`, code at line
107); and the minus of a negative number is not taken off `size`, so that its
field is a character too wide (line 73). No format in the kernel has a
`#`, and the signed numbers with a width are sizes, never negative.
`%n` stores a `char` through its `int *` (line 262): the model keeps the rest of the
int, and `RendersFormat` promises the count only if it fits a `char` and the caller
has cleared the int.

Other things the code does and the model keeps:
`*` is not skipped, so `%*d` prints `%*` and then a number; `%%` and any
unknown conversion print themselves and then also format an argument, in
whatever base the last directive (or the uninitialised local, `StaleBases`)
left, and with a base out of range `number` returns a null pointer (`lost`).
Such formats are not `WellFormed`; `StopsAtNul` holds for them too.

### Memset

One call of `__memset` on an object inside a memory of `MEM` bytes: the bytes
up to `address & 15`, the `stp` loop, the tail. Memory is the set of bytes
written. The length is unsigned and wraps at `SIZE_MOD` (2^32 in the code) when
the object is shorter than its head; the stores then run out of memory into
`abort`. No caller in the kernel passes such an object (`LongEnough`).

### Not modelled

* Cache information (`cacheinfo.c`): compiled only with `INIT_CACHE_INFO`; it
  reads registers, prints them and keeps nothing. That `CSSELR_EL1` is written
  without an `isb` before `CCSIDR_EL1` is read is listed as a hazard.
* Boot code (`head.S`, `mm.S`, `utils.S`): straight-line register set-up with
  interrupts masked; its result is the initial state of `Gic` and `Kernel`.
* User stubs (`usr/`): register moves before `svc`; `Kernel` lets a user
  program make any call at any time.
* What `bad_mode` prints (`traps.c`, `esr.h`): tables of text on the way to
  `panic`, which is the point `lost`.
* Attribute bits (`pgtable_prot.h`, most of `pgtable_hwdef.h`), the TLB and the
  caches: a descriptor has one protection per kind of region.

Smaller things.
`rq->curr`, `nr_switches` and `total_forks` are written and never read.
`dequeue_task`, `list_del`, `irq_disable`, `free_irq` have no live caller.
`clone` with `PF_KTHREAD` and negative system call numbers are issued by no
program in `usr/`. The kernel sends no SGI (the other cores stay in
`hang_proc`). The first page allocation, of the interrupt domain, does not
fail; the CPU supports 4KB pages; the controller has at most `NR_IRQS` lines.
A thread that calls `user_thread` is created once, as in `start_kernel`
(`ThreadsAssumption`).

## 3. Runs

| Run | Checks | Bounds |
|---|---|---|
| `shipped` | liveness and scheduling of the kernel as shipped, and that it is lost only on an empty queue | 4 pages, 3 slots, slice 6+2: both threads are created or cut off at every statement, slices expire during every step of `do_fork` |
| `user_thread` | all safety properties and the inductive invariant, with the user thread `start_kernel` has commented out, and one thread more than there are slots | 7 pages, of which the boot has taken 1 or 5; 4 slots: clone succeeds several times, `kernel_thread` and clone run out of slots, or threads, user stack and clone run out of pages; slice 4+1 |
| `eret_race` | violation: `EretToOwnContext` | 4 pages, 2 slots |
| `pick_next` | the pick loop equals its definition and ends | all queues of up to 3 tasks, counters 0..3 |
| `run_list` | lists under preemption, refinement of `RunQueue` | 4 tasks, so that clone adds two behind a half-done update |
| `gic` | the interrupt path from every state firmware may leave: what is completed, and exactly when the tick runs for ever | 4 lines: two SGIs, so that one pending SGI shuts out the other as well as the timer; the timer; a device. Every combination of enabled, active, acknowledged and pending lines and of the timer's state: 524288 initial states |
| `page_table` | the mapping for every placement of the text, the dumps of it and the patch | 16 pages, 4 sections behind one pud, as in the code; five device regions: aligned and not, ending with a pud, across a pgd boundary, across a pud boundary |
| `beyond_memory` | violation: `AllocatedPagesMapped` | 32 pages, 8 sections |
| `console` | printk under preemption, the early log with two messages, the shell | 2 threads and `start_kernel`, texts of 2 to 4 characters, lines of up to 4, with and without a NUL: shorter, longer and equal to what the buffer held |
| `early_log` | violation: `EarlyLogReplayed` | three early messages |
| `printf` | the formatter against the meaning of its directives, and that it stops at the NUL | all single directives of 11 flag strings, 3 widths, 3 precisions, 5 qualifiers and 10 conversions; all sequences of up to 3 of 11 pieces, cut-off directives among them; types of 2, 3, 5 and 8 bits, so that a count exceeds a `char`; arguments at zero, at sign changes and at the maximum |
| `memset` | `__memset` against what memset must do | every address and length within 72 bytes, blocks of 16: up to four blocks with every head and tail; lengths wrap at 2^16 |

The instances are small but each boundary is inside them: slices reach 0 and
are reset, a task is preempted at each point, slots and pages run out, two
regions share a section. A counter is at most one slice, so a longer slice
adds only repetitions; page numbers matter only through "first free", and
tasks only through queue order.

What the three violations show:

* `eret_race`: `need_sched` calls `schedule()`, which returns with interrupts
  enabled, and falls into `no_work_pending`. A tick between the `msr elr_el1`
  and the `eret` leaves a kernel address in `ELR_EL1`; the task continues
  there, not in its saved user context (`asm/system.h`: pt_regs saves "pc",
  "pstate").
* `beyond_memory`: `mem_map` counts all of `TOTAL_MEMORY` but starts at
  `LOW_MEMORY`, so the last pages lie above `TOTAL_MEMORY`, where
  `create_identity_mapping` ("512M") and `test_access_unmap_address` say
  nothing is mapped.
* `early_log`: `printk` sets the record pointer to the length of its message
  instead of advancing it, so a third message before `init_printk_done` is
  written over the second, while the comment says "record it into logbuffer".
  Two messages come out whole (`console`); `start_kernel` as shipped prints none
  that early.

Three more behaviours are in the model without being stated as a violation,
because the repository promises nothing about them: an early tick may switch
on an empty queue (`LostOnlyByEmptyQueue` states that nothing else goes wrong that way); `start_kernel`, hence the shell, stops for good at its
first preemption (`InitNeverReturns` states it as the code's behaviour); and
`__memset` leaves a rest of 1 to 16 bytes unwritten (`FillsObject` states for
which objects it does its work; the kernel's callers pass no other).

### Fairness

`Kernel`: weak fairness of the timer interrupt (the timer is periodic and is
reloaded by every tick, which `Gic` checks as `TicksForever`, if firmware left no
SGI pending and nothing acknowledged) and of the
program's own steps (the CPU executes). Nothing forces a user program to make
system calls. `Gic`: the CPU boots and takes signalled interrupts, the timer
counts up to its compare value; nothing is assumed of other devices. `DumpTable` (the mapping and the
dumps), `PickNext`, `Memset`: the CPU executes. The violations are of invariants and need no fairness.

`CHECK_DEADLOCK FALSE` stands where a run really ends: when `paging_init` and
the dumps are over and memory is used up or a walk has run away, when the loop has returned, when no task is left
to add. `Kernel` and `Gic` never stop.

## 4. Proofs

All theorems hold for every value of the constants that satisfies the named
assumptions of the modules:

| Assumption | What it says |
|---|---|
| `NrPagesAssumption`, `TasksAssumption`, `HardirqAssumption`, `SliceAssumption` | positive sizes and slice; the priority a natural number |
| `BootPagesAssumption` | the boot has taken at most all pages |
| `ThreadsAssumption` | at most one thread calls `user_thread`, as in `start_kernel` |
| `PickAssumption` | no task is the null pointer |
| `ListAssumption` | finitely many tasks; `rq_head` and `init_task` are none of those forked |
| `GicAssumption` | the timer line exists and is no SGI; every line has a descriptor |
| `PageTableAssumption` | tables of at least two entries; device regions above the memory, inside the address space |
| `ConsoleAssumption` | every text fits its buffer, the early messages together fit `log_buf`; tasks and the tick print something |
| `PrintfAssumption` | a format is a sequence of pieces; each C type is narrower than the next, from `char` to `long` |
| `MemsetAssumption` | the block size divides the modulus of `size_t`, which exceeds the memory |

Four theorems have a hypothesis of their own. `NoStoreAstray`,
`IdentityMapping` and `DumpTrue` assume `EnoughMemory`: pages for three tables
per section that a region meets, which are 820 of the boards' 131072
pages. `EarlyLogKept` assumes at most two early messages; the run `early_log`
shows why.

| Module | Theorems | Invariant |
|---|---|---|
| `PickNextProofs` | `LoopCorrect`: the loop computes that pick | `LoopInv` |
| `KernelProofs`, first half | `PickNext`: if every queued task is on the ring, the pick ends with a queued task that has ticks left; `KernelInvariant`, `TypeCorrect`, `PreemptionNeverNests`, `PreemptCountExact`, `OffCpuTasksParked`, `InterruptMaskCorrect`, `PickTerminates`, `TaskPagesStayInUse`, `RunQueueOnRing`, and the action properties `SwitchesGiveTime` and `InitLosesCpuForGood` | `KernelInv` |
| `KernelProofs`, second half | `OwnershipInvariant`, `PagesGivenOnce`, `NoPageLeaks`, `PidsNameOneTask`, `NrRunningExact`, `OnlyEmptyQueueLoses` | `InductiveInv`, that is `KernelInv`, `OwnershipInv` and `LostInv` |
| `RunListProofs` | `ListsInvariant`, `SchedulerWalksEnd`, `QueuedTasksGetTicks`, `ListDelFindsNeighbours`, and the refinement `EnqueueAtomic` | `ListInv` |
| `GicProofs` | `GicInvariant`, `GicTypeCorrect`, `NothingStaysActive`, `AcknowledgedHandled`, `NoTickAfterLeftover` | `GicInv` |
| `PageTableProofs`, tables | `TablesNeverShared`, and with the dumps `TablesNeverSharedDump` | `PagingInv` |
| `PageTableProofs`, mapping | `IdentityMapped`, `AstrayOnlyWithoutMemory` | `BuildInv`, that is `PagingInv`, `CursorInv` and, unless `wild`, `MapsInv` |
| `PageTableProofs`, memory | `NoStoreAstray`, `IdentityMapping` | `BuildInv` and `MemoryInv` |
| `PageTableProofs`, dump | `DumpIsMapping`, `DumpTrue` | `BuildInv` and `DumpInv` |
| `ConsoleProofs` | `ConsoleInvariant`, `UndisturbedPrintk`, `ShellEchoes`, `EarlyLogKept` | `ConsoleInv`, and `LogInv` for the last |
| `PrintfProofs` | `NeverPastTerminator` | `ScanInv` |
| `MemsetProofs` | `MemsetInvariant`, `NeverBeyondObject`, `FilledExactlyWhen` | `MemsetInv` |

`InductiveInv` and `GicInv` are defined in the modules they are about and
checked by TLC in `user_thread` and `gic`; the others, which need names for the
intermediate states only a proof looks at, are in the proof modules. Each proof
has one lemma per action.

### Why the invariants need what they say

*Scheduler.* `preempt_count` only protects `__schedule` if every frame lies
above a point where preemption was enabled (`StackShape`). That every queued
task is on the ring depends on what the locals of an interrupted `do_fork` mean
(`ForkLocals`), and these stay meaningful only because nobody else forks while
init runs: no other task has run yet, and once init is preempted it is never
picked again (`InitRunsFirst`). A page that holds a task stays in use since
`free_page` is only called on a page that `do_fork` has taken and not yet built
a task in.

*Ownership.* `get_free_page` finds a page in one step and marks it in the next,
with ticks between them. A page found by an interrupted `do_fork` is safe because
init never comes back (above). A page found by `move_to_user_space` could be
given away by another task's `malloc` or `clone`, which run in EL0: it is safe
because there is one user thread (`OneUserThread`) and no task is in EL0 until
that thread has left `move_to_user_space` (`UserAfterMove`). With two user
threads the argument, and the property, would fail. `ForkOwns` adds what the
slot chosen by an interrupted fork still is.

*A lost CPU.* `LostInv` says that a frame with a wild continuation is init's and
sits on an empty queue. The other way to get lost, `eret` to the wrong context,
needs a task in user space; a kernel of spinning threads has none.

*Pick loop.* `BestOfFirst(n)`: what the variables hold after `n` tasks is the
first best of those; with it, the counters are the initial ones or have been
reset once.

*Lists.* `ListsInv(q, r)` says that the pointers represent a queue `q` and a ring
`r` (`IsChain`), and for each store at which `start_kernel` may have been stopped,
which pointers do not fit yet. The hard case is a clone on top of a half-done
update: it uses `prev_task` of `init_task`, which one of the unfinished stores
would have changed, and so may cut the unfinished task off the ring, but never
a queued one. The refinement maps `q` to `RunQueue`'s queue: three stores of
`list_add` stutter and one enqueues.

*Interrupt path.* `Outstanding` carries the argument: outside the handling of the
timer, the pending SGIs and the lines without EOI together are what firmware
left, no more and no less; the timer is in hand only if that is nothing. It
needs that a pending SGI is enabled and has a lower number than the timer, so
that it is acknowledged first (`WhatIsAcknowledged`), and that the CPU interface
signals nothing while a line lacks its EOI. `OnlyTimerEnabled` adds that no other
line can be signalled, and that the timer's handler and chip are there before
it can.

*Page tables.* `Tree`: every table descriptor leads to a page in use and no two
to the same one. A new table is a page that was free, hence on no
descriptor. When the walk meets something that is not a table (`wild`) the model
stops mapping, since what the code stores from then on depends on what it takes
for a table; the theorems say nothing about the code after that point.

*The mapping.* `At(tab, n, a, f)` says that the walk for address `a` reaches
table `f` at level `n`, and `Leaf(tab, a, d)` that it ends at descriptor `d`. In a
tree a table has one position: one level and, above it, the same indices for
all addresses that reach it (`AtPosition`). So linking an empty table keeps every
leaf (`LinkLeaf`), and a store into a table changes the leaves of those addresses
only whose index it is (`StoreLeaf`). That these are the addresses from `addr` to
`next` is arithmetic on the digits of an address: an iteration never leaves a
section (`NextAddr`), and a section descriptor is stored only if the iteration
spans all of it. `MapsInv` is then `MappedSoFar` in terms of leaves, with `Shape`:
which kinds of descriptor occur at which level. It is also why the walk never
meets a section: a section translates all of its addresses, and the ones being
mapped now are not covered yet. So only an allocation that fails leads it astray
(`AstrayOnlyWithoutMemory`).

*Memory for the tables.* `get_free_page` takes the lowest free page and
`paging_init` frees none, so the pages in use are the first `m` (`FirstPages`), and
`m` grows by at most three an iteration. The iterations done so far are the
sections between the start of a region and the cursor (`Done`), which at the end
are the sections of the three regions (`Before(4)`).

*The dump.* `Exact(lines, lo, hi)` says that lines show the mapping of the
addresses from `lo` to `hi` and lie between them. It holds for what each walker
prints of its range, from `walk_pte` up (`WalkPteExact` ... `WalkPgdExact`), because
an iteration stays within one index of its level (`SpanAddrEnd`, `PmdAddrEnd`);
for `walk_pud` only if the range ends within one index, which is what
`runaway` is about. `DumpInv`: the lines of a call are exact from its start to
where it stands. The store of `test_walk_pgtable` changes descriptors that
earlier calls have printed, so from then on it is said of the third call only,
as in `DumpShowsMapping`.

*Console.* `CallInv`: what a call that nobody has overlapped has stored is still
in `print_buf`, and what it has sent is the translation of a prefix of its text.
`ShellInv`: the buffer begins with what was typed and, once the line ends, has a
NUL behind it, whatever longer line it held before. `LogInv`: `log_buf` begins with
the messages so far. `printk` sets `g_record` to the length of a message, which
is where the first one ends, so the second goes to the right place; no
invariant of this kind holds with a third.

*Format.* `ScanInv`: inside a directive the position is behind its `%`, so the step
back at the end of a cut-off directive stays in the format; and when `number` is
called, the character that `fmt++` is about to pass is not the NUL. A step that
moves on has seen a character other than NUL (`BeforeEnd`), and `scan_number`
stops at the NUL at the latest.

*Memset.* All bytes between the start and the pointer have been written, and the
pointer plus what the current loop still has to write is the end of that loop's
part; during the blocks that amount is a multiple of the block size.

The walks of `RunList` (`Visit`) and the flattening of a sequence in `Console` and
`Printf` are recursive functions. That they are total and satisfy their equations is
proved from the least counterexample (`LeastNat`, by well-foundedness of the
natural numbers), and so is what they compute on a list that the pointers
represent.

### Only model-checked

* Liveness under fairness, which is out of the prover's reach: `EveryTaskRuns`,
  `TicksForever`, `PagingEnds`, `DumpEnds`, `LoopReturns`, `Returns`.
* `RendersFormat`: what `do_div`, `scan_number` and the reference `Numeral` and
  `Decimal` compute is an induction over digits, with powers of the base, for
  which the provers have no arithmetic.

Every other invariant and action property of the runs is a theorem. Two are
theorems under the hypotheses above, because they are not true for all
constants: a third early message is lost (`early_log`), and with too little
memory for the tables `paging_init` walks through a null page.

## 5. What is left

1. `RendersFormat`: the part that needs no numerals (characters, `%c`, `%s` and
   `%n`, and that no flag or width reaches the next directive) could be proved
   with `number` left uninterpreted on both sides.
2. A tighter `EnoughMemory`: a table of pages per section, and one table of
   sections per pud, instead of three tables for each.
3. The TLB between `set_pte` and the store that follows it, which needs a model of
   when the hardware may still use an old descriptor.
