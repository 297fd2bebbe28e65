# TLA+ verification of the JOS lab 4 kernel

The repository is JOS, a small x86 teaching kernel, at the point where lab 4
(multiprocessing) starts. The modules here model the parts of it that carry
state and are hard to test. Wherever a definition has the name of a C function,
it translates that function; `PROJECT.json` maps every definition to the lines
it stands for.

## The state of the code

The kernel at this commit is unfinished, and does not get through its own boot:
`check_page_free_list` asserts that the page at
`MPENTRY_PADDR` is not free, `mmio_map_region` and `syscall` start with a
`panic`, `sched_yield` only halts, and `lock_kernel` is called only on the way out
of a halt (`trap.c:277`), not at boot, in `mp_main` or on a trap from user mode. The
components below are written, and it is their code that is modelled, one
component at a time, under every sequence of calls their interfaces allow. Where
a caller is missing, the model makes the calls that the comments and the
existing callers in `user/` describe; those few definitions are marked
`external` in the map (`SchedRun`, `SysExofork`, `SysEnvSetStatus`, `ApStart`,
`KernelFree`).

## Inventory

| component | state | operations | interacts through | what makes it correct |
|---|---|---|---|---|
| big kernel lock (`spinlock.c`) | `locked`, `cpu` | `spin_lock`, `spin_unlock`, `holding` | shared memory between CPUs | exclusion; self-checks that are right although they race; the lock is passed on |
| physical pages (`pmap.c`) | `pages[].pp_ref`, `page_free_list` | `page_alloc`, `page_free`, `page_decref` | called by page tables and `env.c` | every page in exactly one place, `pp_ref` exact |
| page tables (`pmap.c`) | the directories and tables, the TLB | `pgdir_walk`, `page_lookup`, `page_insert`, `page_remove`, `tlb_invalidate` | pages; the MMU reads them behind the kernel's back | one mapping changes at a time, no user mapping of a table, no stale translation |
| environments (`env.c`) | `envs[]`, `env_free_list`, `curenv` and `cr3` per CPU | `env_alloc`, `env_free`, `env_destroy`, `env_run`, `envid2env`, `env_create` | traps, system calls, the scheduler on all CPUs | an environment runs on one CPU, is freed on no other, ids are not confused |
| traps and system calls (`trap.c`, `syscall.c`) | `last_tf`, saved frames | `trap`, `trap_dispatch`, `page_fault_handler`, `sys_*` | environments, scheduler | only its maker or itself destroys an environment |
| scheduler (`sched.c`) | CPU status | `sched_yield`, `sched_halt` | environments, kernel lock | the monitor is entered only when nothing runs |
| multiprocessor start (`mpconfig.c`, `lapic.c`, `mpentry.S`, `init.c`) | `cpus[]`, `ncpu`, `bootcpu`, `mpentry_kstack` | `mp_init`, `boot_aps`, `lapic_startap`, `mp_main` | BIOS table, inter-processor interrupts, shared variables | own stack for each CPU, one start at a time, all come up |
| console (`console.c`, `lib/readline.c`) | ring buffer, screen, edited line | `cons_intr`, `cons_getc`, `cga_putc`, `readline` | devices, polled | input is a queue; the screen shows the line |
| boot-time memory (`pmap.c`, `entrypgdir.c`) | `nextfree`, `npages`, the first free list | `i386_detect_memory`, `boot_alloc`, `page_init`, the self-tests | the page allocator and the page tables | no page in use is on the free list; only mapped memory is written |
| debug information (`kdebug.c`) | read-only stabs | `stab_binsearch`, `debuginfo_eip` | the monitor, lock reports | the search finds the stab that contains the address |
| trap entry (`trapentry.S`, `trap_init`, `env_pop_tf`, `lib/syscall.c`) | the IDT, the frame on the stack, `env_tf` | the stubs, `_alltraps`, `trap`, `env_pop_tf` | processor, environments | a program resumes with the registers it had |
| keyboard (`console.c`) | `shift` | `kbd_proc_data` | the keyboard controller, the input ring | no modifier sticks |
| formatted output (`printfmt.c`, `lib/printf.c`, `kern/printf.c`) | buffer and counts of a call | `vprintfmt`, `printnum`, `vsnprintf`, `vcprintf` | console, `sys_cputs` | nothing lost, nothing past the buffer, numbers right |
| monitor (`monitor.c`) | the command line | `runcmd` | `readline` | a command gets the words of the line |
| boot loader (`boot/main.c`) | memory being loaded | `bootmain`, `readseg` | disk, the kernel's ELF file | the image is in memory when the kernel is entered |
| 8259A, clock, boot.S, entry.S | device registers | straight-line set-up | ports | not modelled |

The hard behaviours are: accesses of several CPUs to the lock word and its
owner field, with store buffers; an environment destroyed from one CPU while
another executes it; the MMU and user code working on page tables while the
kernel edits them; reference counts over long histories of sharing and
teardown; running out of pages in the middle of an operation; processors
started through shared variables; ids whose generation overflows; ring, line,
screen and buffers at their limits; a search that changes its own key; frames
built by three parties, word by word; code that runs before memory is mapped. `PROJECT.json` lists each at its line under `hazards`.

## Modules

**LockSpec, SpinLock, MCSpinLock.** `LockSpec` says what callers may rely on: a
set `inside` of at most one CPU. `SpinLock` is `spinlock.c` with
`DEBUG_SPINLOCK`, one memory access per step: the two reads of `holding()`, the
exchange, the store of `lk->cpu`. `lk->cpu` is written by ordinary stores, which
wait in a store buffer (`sbuf`) until a locked instruction; each CPU sees its own
pending stores (x86-TSO). Any CPU may call either function at any time, also
wrongly. The history variable `has` marks the CPU between the two exchanges.
The abstract lock is implemented with `inside <- {c : has[c]}`.

**PageTables, Pmap, MCPmap.** `PageTables` holds the functions of `pmap.c` as
operators from memory to memory; the contents of every page are part of memory,
so a page that is reused without clearing still has its old words. `Pmap` is
the machine: the calls that `env.c` makes, with `env_free` one loop turn at a
time, next to the TLB being filled and user code storing through it. The free
list is a sequence in place of `pp_link` pointers; the two agree while no page
is on the list twice, which `FramesAccounted` checks, and `Linked` keeps the
blind spot of the null `pp_link` of the last page. Directories are modelled
below UTOP; above it all of them copy `kern_pgdir`.

**Envs, MCEnvs.** The environments on several CPUs. Between a trap and the
return to user mode a CPU is alone in the kernel (the theorem on the lock,
and the calls of `lock_kernel` the comments in `trap` and `mp_main` ask for), so
that a trap is one step up to `sched_yield`, which is the next. The monitor does
not give the lock back. `sched_yield` as it stands always halts, also when
`sys_yield` calls it for an environment that could go on; `SchedHalt` may therefore
happen whatever the CPU was running, next to `SchedRun`, the search its comments
ask for. The environment left behind stays `ENV_RUNNING` with no CPU to run it.
The history variable `left` keeps it; `history` and `parent` record the
ids given out and who made whom. `NENV`, `ENVGEN` and `INTLIM` are the sizes the
arithmetic of `env_alloc` works with (1024, 4096 and 2^31). `Redestroy` says whether callers destroy an
environment that is already dying: see the findings.

**SmpBoot, MCSmpBoot.** The boot processor walks the table entry by entry, then
starts processors through `mpentry_kstack`; each started processor takes two
steps, reading its stack and announcing itself. `cpu_status` has one slot past
the end, as `bootcpu` may point there. Hardware ids and positions in `cpus[]` are
kept apart: `cpunum()` is the former. `InOrder` describes the tables on which
the two agree (finding 2 is about the others).

**Console, MCConsole.** Two devices, the ring, `readline` and the screen. A step
of the reader is one character; `unread` is a history variable with the
characters taken in, not yet returned and not lost. `cons_intr` does not check for
room: the character that fills the last slot makes the ring look empty, and `Kept`,
which says what `unread` becomes, has all of it lost then and nothing at any other
time. `MaxPending` bounds what waits in the two devices, not what is in the ring.
Keys are given as the characters `kbd_proc_data` makes of them, `"none"` being its 0.

**Routine, MCRoutines and the modules of one routine each.** The rest of the
kernel that is modelled runs on one processor from a call to its return, and
nothing else touches its data. `Routine` has the two variables these modules
share: `job`, which of them runs, and `st`, a record of the routine's locals and
data with its place `pc`. A behaviour of `MCRoutines` picks one routine and one
input for it and runs it, one turn of its loop per step.

- `BootMem` (on `PageTables`): `mem_init` up to the panic in `mmio_map_region`. A
  machine is what the clock chip reports, the end of the kernel's bss and the
  place of `MPENTRY_PADDR`. `check_page_free_list`, `check_page_alloc` and
  `check_page` are translated with all of their assertions, the last in the four
  parts its comments divide it into (`CheckMap`, `CheckAgain`, `CheckReplace`,
  `CheckTable`); `touched` collects the pages written, which must be ones
  `entry_pgdir` maps. `page_init` links the pages from 0 up (`FreePages`), and
  `check_page_free_list` sorts them by what is mapped (`LowFirst`).
- `StabSearch`: `stab_binsearch` turn by turn, and the three searches and the
  code between them of `debuginfo_eip`. The loop over `m` inside a turn is the
  maximum of a set. Addresses wrap at `StabMod`.
- `UserMem`: `user_mem_check` as `sys_cputs` uses it, with addresses of
  `AddrMod` values that wrap around.
- `Keyboard`: a person who presses and releases keys, the controller's queue of
  scan codes, and `kbd_proc_data` with its static `shift`.
- `Traps`: user code that faults, executes `int n` or makes a system call; the
  processor's pushes, the stub's and `_alltraps`'s, word by word; the stack read
  as a `struct Trapframe`; `env_pop_tf`, which pops the words in the order of its
  five instructions (`PopOrder`). A breakpoint ends in the monitor, which no
  command leaves at this commit; a system call is taken to return, past the
  panic in `syscall`, so that the way back is checked. The processor (which vectors push an
  error code, what a gate with DPL 0 does to `int n`) is marked external.
- `Printing`: `vprintfmt` a format character at a time, into `vsnprintf`, the
  kernel's console or the buffer of user programs, a character at a time.
  `ArgsFit` is what a call owes: an argument that is read as a number is there
  and is one.
- `Monitor`: `runcmd`, which cuts the line in place; its two loops with `strchr`
  are `SkipSpace` and `FirstOf`.
- `BootLoader`: `bootmain`, sector by sector, for the images `WellFormed` and
  `Separate` describe, which say nothing of empty headers that `readseg` reads
  nothing for, like the one at address 0 linkers put last; and `load_icode` with `region_alloc`, page by page, for
  the programs `Untouching` describes. That is the assumption of env.c:337-339,
  where an empty segment counts too unless it is aligned: `region_alloc` rounds
  its end up, so it takes the place of the page an earlier segment filled.

**SpinLockProofs, EnvsProofs, SmpBootProofs, PmapProofs, ConsoleProofs,
BootMemProofs, RoutineProofs.** The theorems on the modules of the same names;
`RoutineProofs` has those on `UserMem`, `Traps`, `BootLoader`, `Keyboard`,
`StabSearch`, `Monitor` and `Printing`. `Induction` has the lemmas on induction
and recursion over natural numbers that three of them use.

Operators whose comment starts with "Mutant" are wrong variants of the
definition that follows them; no specification uses them. Each is a bug under
which one property fails, which shows that the property depends on that code.

## Runs

| run | config | result | bounds |
|---|---|---|---|
| `spinlock` | `MCSpinLock.cfg` | holds, 5076 states | 3 CPUs: a holder, one that spins and one that misuses the lock |
| `pmap` | `MCPmap.cfg` | holds, 120894 states up to symmetry | 5 pages: a directory, both of its tables and two pages of data, or two environments that share a page, and memory runs out in each; at most 3 mappings of a page, below the wrap of the counter |
| `region_alloc` | `MCPmapRegion.cfg` | violated | 3 pages |
| `envs` | `MCEnvs.cfg` | holds, 481073 states up to symmetry | 3 CPUs, 4 slots, 3 pages for directories, 2 environments per slot, so slots are reused |
| `env_ids` | `MCEnvIds.cfg` | holds, 2359 states | an int that ends at 16 with generations of 4: the generation overflows after 3 of the 5 environments in a slot |
| `env_redestroy` | `MCEnvRedestroy.cfg` | violated | 2 CPUs, 2 slots |
| `smp_boot` | `MCSmpBoot.cfg` | holds, 377 states | every table of up to 4 processors in the order of their ids, any of them the boot processor, for a `cpus[]` of 3, with and without other, unknown or no entries |
| `smp_reordered` | `MCSmpReordered.cfg` | violated | one table of 3 processors |
| `console` | `MCConsole.cfg` | holds, 727560 states | ring of 4, line of 4, screen of 3 rows of 2, 2 characters waiting in the devices, so that the ring overflows |
| `routines` | `MCRoutines.cfg` | holds, 355084 states | see below |
| `stab_contains` | `MCStabContains.cfg` | violated | tables of 4 stabs |
| `eip_line` | `MCEipLine.cfg` | violated | one table of 11 stabs as a compiler makes them |

Inputs of `routines`: 144 machines of up to 16 pages of 8 bytes, of which the 100
that the kernel supports are run, around the sizes at which the arrays take
another page, with all of memory mapped by `entry_pgdir` or not; all tables of
four stabs of three types that are ordered by type, and all their addresses; four pages of
two bytes with every permission, every `va` and `len`; seven keys (both Ctrl, a
Shift, an `0xE0` Alt, Del and its twin without `0xE0`, Caps Lock) in every order
with up to four bytes waiting; every vector but 7 and 8 (see the observations);
18 calls of printf with buffers of 0 to 8 bytes; all lines of up to six
characters over two letters and a blank, with room for two words; images of up
to two segments, in every position relative to sectors of four bytes, and of one
with an empty header at address 0 before or after it; programs
of up to two segments in either order, to be loaded or not, aligned to pages of
four bytes or not.

What the properties say:

- lock: `MutualExclusion`; `PanicIsJustified` and `MisuseIsCaught` (the racy
  checks accuse nobody wrongly and let nobody through); `ImplementsLock`;
  `LockIsPassedOn`.
- memory: `RefCountExact` (`pp_ref` is the number of pointers to the page),
  `FramesAccounted` (each page in one place, once), `TablesPrivate`,
  `TlbCoherent`, `PageFreeNeverPanics`, and `OneMappingAtATime` over steps.
- environments: `RunningOwned` (an environment is running or dying exactly while
  one CPU has it as `curenv`, or halted with it), `Cr3Live`, `FreeListExact`, `IdleMeansNobody`,
  `IdsValid`, `IdsUnique`, and `DestroyAuthorised` over steps.
- start: `OwnStack`, `OneAtATime`, `BootcpuIsSelf` (`bootcpu` and the STARTED
  marks, and for which tables they go past the end of `cpus[]`), and eventually
  `AllComeUp`.
- console: `RingIsQueue` (a queue that loses all it holds when its last slot is
  filled, and nothing otherwise), `ScreenShowsLine`.
- boot-time memory: `ReservedNeverFree`; `EarlyAccessMapped` (what is written
  before the kernel has its own directory is mapped); `SelfTestsExact` (the
  self-tests reject nothing but the free page at `MPENTRY_PADDR`, and leave
  counts, free list and directory as they found them).
- routines against reference definitions: `StabFound`; `UserMemExact` (an approval
  vouches for what the call looked at, a refusal names the first bad byte; what it
  looks at, `CheckedTo`, is the whole range unless the rounded end wraps around);
  `PrintedExactly`, `ArgvIsWords`, `ImageLoaded`.
- over several steps of several parties: `ModifiersHeld` (keyboard and kernel),
  `TrapTransparent` (user code, processor, stubs, `trap`, `env_pop_tf`).
- `RoutineEnds`: the routines with loops return.

**Fairness.** `SpinLock`: a CPU inside one of the functions keeps executing, a
store buffer drains, and code that holds the lock reaches `unlock_kernel`; no
fairness is assumed between CPUs that compete for the exchange, so no CPU is
promised the lock. `SmpBoot`: the boot processor and the started processors keep
executing. `MCRoutines`: the processor goes on executing a routine (`LoopStep`);
nothing is assumed of the person at the keyboard or of user code. The other
specifications have no liveness property and no fairness.

**Symmetry and views.** Pages in `Pmap` and directory pages in `Envs` are
interchangeable: no action compares or orders them. `MCConsole` identifies states
that differ in bytes nobody reads any more. None of these runs checks liveness.

**Deadlock** is not checked where the system may stop: a CPU that panicked stays
in the monitor, CPUs halt for good, all processors are up. The console run
and the `routines` run, where `Idle` stands for a routine that has returned,
check it.

## Findings

1. `env_destroy` called again on an environment that is dying on another CPU
   frees it there and then, page directory included (`env_redestroy`), against
   its comment. `RunningOwned` and `Cr3Live` are checked for callers that do not
   do this (`Redestroy = FALSE`).
2. `mp_init` uses positions in the table where `boot_aps` and `thiscpu` use APIC
   ids. For a boot processor whose position is not its id, `boot_aps` does not
   wait for one of the processors it starts (`smp_reordered`).
3. `region_alloc` does not notice that `page_insert` failed (`region_alloc`).
4. `stab_binsearch` returns the wrong one of two stabs that are one byte apart
   when it is asked for the first (`stab_contains`): after the exact match it
   goes on with `addr++`. `StabFound` leaves those tables out.
5. `debuginfo_eip` reads the line number with the right end of the region the
   search found instead of the left one (`eip_line`).

Observations made on the way. The first three are cases that a passing property
states as the code has them; for the others there is no run.

- `mp_init` points `bootcpu` past the end of `cpus[]`, and stores `CPU_STARTED`
  there, exactly when the boot processor is listed after `NCPU` others
  (`mpconfig.c:185`; `BootcpuIsSelf`). `cpu.h:31` calls `bootcpu` "The boot-strap
  processor (BSP)", which has no entry then.
- `cons_intr` stores the character that fills the ring (`console.c:408`): the ring
  looks empty, and `cons_getc` returns 0 although its comment (`console.c:414`) says
  "or 0 if none waiting". All that was unread is lost (`Kept`, `RingIsQueue`). It
  takes several characters per call of `cons_getc` to get there.
- `user_mem_check` looks at the first page at most, and mostly at nothing, of a
  range that passes the end of the address space or ends in its last page, and
  approves the rest unseen (`pmap.c:652`; `CheckedTo`, `UserMemExact`), against "Returns 0 if the user
  program can access this range of addresses" (`pmap.c:645`).
- `page_init` also frees pages between the end of base memory and `IOPHYSMEM`,
  if there are any, which is memory the machine did not report.
- `boot_alloc` does not panic when memory runs out, against its comment;
  `Supported` leaves out the machines on which it would.
- The stubs `handler7` and `handler8` use the macro for the other kind of trap:
  vector 7 pushes no error code, vector 8 does. Neither is raised by a user
  program: `mem_init` clears `CR0_TS` and `CR0_EM`, and `int 7` and `int 8` are
  general protection faults.
- `debuginfo_eip` passes `user_mem_check` the number of stabs, not of bytes.
- The kernel's `cprintf` always returns 0, since `*cnt++` moves the pointer.
- `runcmd` accepts one word fewer than its message says.
- For an address below the first stab of a type, `stab_binsearch` leaves a
  region that is not empty, against its comment.
- `sched_yield` halts the CPU even when the environment that called `sys_yield` is
  the only one, and nothing takes that environment up again.

## Proofs

The theorems hold for every value of the constants that the modules' named
assumptions allow. `PROJECT.json` lists them; what follows is the argument of
each group. The inductive invariants were checked with TLC on the runs' instances
before they were proved, all but `TrapInv`, whose words mix names and numbers.

**The lock** (`SpinLockProofs`, from `NULLAssumption` alone): `LockTypeCorrect`,
`LockExcludes`, `LockPanicsJustified`, `LockMisuseCaught`, `LockImplements`.

None of the properties is inductive. The invariant `IInv` adds: `locked` is 0
exactly when no CPU has the lock; at which places of the code a CPU has it and at
which it has not (`PlaceMatches`); what the holder's store buffer and `lk->cpu`
can be at each place (`HolderRecord`: nothing before it records itself, then its
own address, in memory or pending, then the clearing store behind it or drained);
and that a CPU without the lock has an empty buffer and is not the value of
`lk->cpu` in memory. The last two parts are what makes the racy checks right:
whatever another CPU's stores do meanwhile, a CPU that does not hold the lock
never reads its own address, and a holder always does (`LoadTellsHolder`).
The refinement maps the two exchanges to `Acquire` and `Release` and everything
else to a stutter.

**Environments** (`EnvsProofs`). `EnvsTypeCorrect`, `EnvsIdsValid` and
`EnvsIdsUnique` need no hypothesis. Their invariant `IdInv` says that the k-th
environment of a slot has the id of generation `((k - 1) % Generations) + 1`, and
that `env_id` is the latest; `NewIdNext` shows that `env_alloc`'s expression goes
from one to the next, through the overflow of the sum and the test for a negative
result. It uses of the sizes only that each divides the next.

`EnvsRunningOwned`, `EnvsCr3Live`, `EnvsIdleMeansNobody` and `EnvsFreeListExact`
assume `~Redestroy`: without it they are false, which is finding 1. Their
invariant `OwnInv` adds that one CPU at a time is in the kernel
(`KernelExclusive`), where a CPU with a `curenv` can be (`CurenvPlace`), that a CPU
has left an environment behind only if it halted (`LeftPlace`), and the free list as an injective sequence. `EnvsZombieFreed` and
`EnvsDestroyAuthorised` are action properties from the same invariants. The latter
also assumes `MaxBirths <= Generations`: `envid2env` compares ids, so that once a
slot has gone through all its generations a new environment can pass for the
maker that had the same id (`env_parent_id`).

**Multiprocessor start** (`SmpBootProofs`): `BootTypeCorrect`, `BootOwnStack`,
`BootOneAtATime`, `BootBootcpuIsSelf`, for tables of any length that are `InOrder`;
for others they are false (finding 2). A table in order may list the boot processor
where `cpus[]` has no room for it. `BootInv` ties `ncpu`, `bootcpu` and
`cpu_id` to the entries read so far (`TableInv`). In the loop of `boot_aps`
(`LoopInv`) a processor that was started and has not announced itself is the one
the loop waits for, `mpentry_kstack` is its stack, and neither its index nor a
later one has the `CPU_STARTED` mark, so that the loop cannot go on before it.

**Pages and page tables** (`PmapProofs`): `PmapTypeCorrect`, `PmapRefCountExact`,
`PmapFramesAccounted`, `PmapTablesPrivate`, `PmapTlbCoherent`,
`PmapPageFreeNeverPanics` and the action property `PmapOneMapping`. The hypothesis
is `MaxMaps < RefMod`: `pp_ref` is 16 bits wide, and the 65536th mapping of a page
would bring it to zero. The functions of `pmap.c` call each other, and between
two calls counts and pointers disagree: `page_insert` counts before it maps,
`pgdir_walk` has a page that is nowhere yet. `MemOK(m, D, H, X)` is the invariant
in the middle: the pages in `H` are in hand, and page `p` is counted `X[p]` times
more than it is pointed to. There is a lemma for each function in these terms, one
for each kind of pointer added or erased, and the steps of `Pmap` put them
together. `PmapInv` adds that the directory in `cr3` is `curenv`'s or nobody runs
(`AddressSpace`), and that `env_free` has left the address space it takes apart
and emptied it up to where it stands (`FreeingInv`), which is why the table and
the directory it gives back hold no mapping.

**Console** (`ConsoleProofs`): `ConsoleTypeCorrect`, `ConsoleRingIsQueue`,
`ConsoleScreenShowsLine`, for any sizes and any input. The loops of `cons_intr` and
`Kept` are recursive functions. `Induction` derives induction from the
well-foundedness of `<` with the property as a set, and the existence of the
recursive function with its steps as a function; with that, a ring that holds a
queue (`Holds`) holds after any poll what `Kept` says: the queue with the new
characters at its end (`StoredOK`), or nothing when the last slot is taken
(`StoredFull`). The screen: a line of `BUFLEN` fits the screen less one row, so
scrolling never takes its start.

**Routines** (`RoutineProofs`).
`UserMemCorrect` (`UserMemExact`, no hypothesis): in the loop all pages from the first
one of the range up to `begin` may be accessed (`PagesPassed`), and `end` is not below
`CheckedTo`, nor a page above it unless it is below the first page, in which case no page
is looked at (`EndOf`). A refused page is then the first bad one, whether the end
wrapped or not; `RangeEnd` has the cases of the rounding.
`TrapsTransparent` (`TrapTransparent`): the invariant `TrapInv` says what lies on the
stack, word by word, at each of the four stages. It assumes `StubsAgree`: for every
vector that is raised, the stub pushes a word in place of the error code exactly
when the processor pushes none. The source violates this for 7 and 8 (see the
observations), so the theorem is about machines where these two are not raised.
`BootmainLoads` and `IcodeLoads` (both `ImageLoaded`): the segments before the
current one are loaded and stay so, since a sector that reaches into one of them
holds the same bytes (`Separate`) and nothing is read for a header out of order
(`Reads`), and no page of `region_alloc` belongs to two
(`Untouching`); for `load_icode`, what is mapped is exactly the pages of the segments
passed and those `region_alloc` has got to.
`KeyboardNeverSticks` (`ModifiersHeld`): the bytes waiting are whole codes of keys
after at most one prefix that was read; a press among them is of a key that is
down or is followed by its release; and each modifier in `shift` has a key that is
down or whose release is waiting.

`StabSearchCorrect` (`StabFound`, and that only stabs of the table are read): what
the bisection keeps between two turns is `Bisected`: stabs of the type before `l`
are below the key and `left` is the last of them, those after `r` are above it and
the first of them is at `r + 1`. It holds for the regions whose stabs of the type
are in order, and the key moves on by one only at an exact match. That the regions
the three searches hand on to each other lie in the table needs no order.
`StabAssumption` leaves out stabs at the last address, where `addr + 1` wraps.
`MonitorCorrect` (`ArgvIsWords`): up to `p` the whitespace of the line is cleared
and `argv` lists, in order, where words start before `p` (`CmdPhase`); a word read
from the buffer is then the one of the line. A line holds no terminator.
`PrintnumRight` (`NumberRight` of what `printnum` returns): the digits have the
number as their value, by strong induction over the recursion.
`PrintDelivered` (`Delivered`, no hypothesis on the call): what was sent and what
the buffer holds make up what was put out, and the buffer has room for one more
(`Carried`). `PrintCorrect` (`PrintedExactly`) adds the numbers, whose width may come
from the arguments: its hypothesis is `[]ArgsFit`, which C leaves to the caller of a
function with variable arguments. The calls of the run satisfy it: TLC would stop
at the head of an empty sequence, or at arithmetic on what is no number.
An escape also has its `%` before it, so that going back to it after an unknown
one stays inside the format (`FormatOK`).

**Boot-time memory** (`BootMemProofs`): `BootReservedPages`, `BootAccessesMapped`,
`BootSelfTests`, for every machine that is `Supported`, from
`BootMemAssumption` on the memory map. `BootPhase` says what memory is at each
place of `mem_init`. From `page_init` on it is `AsMade`: the counts are those of
`page_init`, the free list has the pages `page_init` freed, each once, and the
directory is empty. The order of the list is what changes: it is from high to low,
then the mapped ones first, then with the pages of the self-tests in front. The
self-tests are followed call by call with the operators of `PageTables`; that they
find what they assert, with the free list taken away, needs that base memory has
three pages to take.

Only model-checked is liveness (`LockIsPassedOn`, `AllComeUp`, `RoutineEnds`), which
is beyond the proof system.

## Not modelled

- Port I/O, LAPIC and 8259A programming, the mode switches of `boot.S`,
  `entry.S` and the segment set-up: straight-line code that only writes device
  and processor registers.
- Code that this commit cannot reach: what follows the panic of
  `mmio_map_region` in `mem_init`, and the calls of `lib/` and `syscall.c` that
  only panic (fork, IPC, page fault upcalls).
- The text of messages, `mon_backtrace` (it walks raw stack memory), the
  task state segment, `mpsearch` and the checksums of the BIOS tables, the
  string functions that no modelled routine uses, user programs, and compiled
  output in `obj/`.

Assumptions made for the models: a page mapped fewer than 65536 times, no mouse,
no key of scan code 0x60 (its release would read as 0xE0), stab tables that do
not start with an `N_SO` beyond the address asked for, and ELF images as a linker
makes them.

## Plan

1. Done: lock, pages and page tables, environments, multiprocessor start,
   console; boot-time memory, debug information, memory checks, keyboard, trap
   entry, formatted output, monitor, boot loader and the loading of programs; the
   theorems on all of these.
2. Models that remain worth writing: `mpsearch` and `mpconfig` with their
   checksums; the system calls and the scheduler of lab 4 when they are written.
