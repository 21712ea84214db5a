# A TLA+ verification of xv7-riscv

xv7-riscv is a teaching kernel for 64-bit RISC-V multiprocessors, derived from
xv6: a Unix-like process model, a file system with a redo log, pipes, and a few
additions of its own (a lottery scheduler, `alarm`, `readcount`, `getpinfo`).
The modules in this directory model its concurrent and crash-prone parts,
check them with TLC on small instances, and prove some of them with TLAPS for
every instance. All source references are to `src/kernel/` unless a path says
otherwise.

## The system and what can go wrong in it

| Part | State | Operations | Talks to | What is hard |
|---|---|---|---|---|
| Log (`log.c`) | on-disk header and log blocks, in-memory header, `outstanding`, `committing` | `begin_op`, `log_write`, `end_op`, `commit`, `recover_from_log` | buffer cache, sleep/wakeup | crash between any two disk writes and during recovery; group commit of concurrent calls; space reservation; waiters |
| Process table (`proc.c`, `trap.c`) | `proc[]` slots, `c->proc`, `p->lock`, `wait_lock` | `fork`, `exit`, `wait`, `kill`, `sleep`, `wakeup`, `yield`, `scheduler` | everything | lost wakeups, hand-over of `p->lock` through `swtch`, freeing a stack in use, slot reuse, reparenting |
| Scheduler choice (`proc.c`, `rand.h`) | `tickets[]`, `total_tickets` per CPU | the lottery in `scheduler` | process table | starvation, stale sums, truncation |
| Pipes (`pipe.c`) | ring, counters, open flags | `pipewrite`, `piperead`, `pipeclose` | file table, kill | wraparound, sleep in the middle of a write, killed callers, last close |
| Per-CPU state (`spinlock.c`, `proc.c`) | `noff`, `intena`, `tp` | `push_off`, `pop_off`, `myproc` | interrupts | migration between two reads |
| Buffer cache, sleep locks (`buffer-io.c`, `sleeplock.c`) | buffers, reference counts, LRU list | `bufcache_get/read/write/release/pin` | disk, log | one buffer per block; recycling; exhaustion |
| Disk driver (`virtio_disk.c`) | descriptors, rings, in-flight table | `rw`, `intr` | device | descriptor exhaustion, out-of-order completion |
| Inodes and directories (`fs.c`, `sysfile.c`) | in-memory inode table, disk inodes, link counts, bitmap | `iget`, `ilock`, `iput`, `create`, `link`, `unlink` | log, buffer cache | reference counts against link counts; lock order; crash between transactions |
| File table (`file.c`, `sysfile.c`) | `file[]`, `ofile[]` | `file_alloc/dup/close`, `fdalloc` | pipes, inodes | last reference |
| Clock and system calls (`trap.c`, `sysproc.c`) | `ticks`, alarm fields, `readcount` | `clockintr`, `sys_sleep`, `sys_alarm` | process table | unlocked counters, slot reuse, signed/unsigned |
| Memory (`kalloc.c`, `vm.c`, `exec.c`) | free list, page tables | `kalloc`, `kfree`, `uvm_*`, `exec` | process table | exhaustion in the middle of an operation |
| Console, UART (`console.c`, `uart.c`) | two rings | read, write, interrupts | process table | full rings, wakeups |

`PROJECT.json` lists every component with its status, and the hazards with the
source line where each bites and the properties that would catch it.

## Modules

### Log and TxnDisk

`TxnDisk` is the promise of the logging layer: blocks have a volatile and a
durable value, system calls write the volatile one between `Begin` and `End`,
`Commit` copies volatile to durable only when no call is active, and `Crash`
falls back to the durable value. A crash can therefore not expose part of a
call.

`Log` is `log.c`. Its variables are the disk (`disk`, `logdata`, `head`), the
memory (`cache` and `pin` for the buffer cache, `lh`, `outstanding`,
`committing`), and where each process is (`pc`, `wrote`, `tail`). Actions carry
the names of the C functions. Each critical section of `log.lock` is one step,
and each step writes at most one disk block, so that `Crash`, enabled at every
step, meets every intermediate disk. Recovery (`read_head`, `recover_install`,
`recover_clear`) is made of such steps too and can itself be cut short.
`panic` is a state that nothing leaves.

The refinement mapping of `CrashAtomic` takes `durable` to be what recovery
would install now (`Durable`), and `volatile` to be what `bufcache_read` shows
(`Volatile`).

### ProcTable

The process table with several CPUs. A lock is owned by a CPU as in
`struct spinlock`, because `sleep`, `yield` and `exit` acquire `p->lock` and the
scheduler on the other side of `swtch` releases it. `pc` is the position of each
process's kernel thread; `exit_wake` visits the slots one at a time as
`wakeup` does. `fork_fail` is a fork that finds no memory for the trap frame or
the page table. `yield` is possible wherever interrupts are on. Which RUNNABLE
process a CPU takes is left open (the lottery is a matter of its own). `asked`
is a history variable: the pids that `kill` was called with, or whose process
faulted.

### Pipe and Fifo

`Pipe` is `pipe.c` with the references of `file.c` that decide who closes last.
`pi->lock` is state because a call holds it over many bytes, while a kill may
land between any two. `nread` and `nwrite` wrap at `UMOD`. A copy from or to
user memory may fail at any byte. `Fifo` is a bounded queue of bytes; `Pipe`
implements it (`IsFifo`), with the queue read off `data` between `nread` and
`nwrite`.

### PerCpu

`spinlock.c`, the parts of `proc.c` that carry a thread from one hart to another,
and `myproc`. `push_off` and `pop_off` are functions on the state of a hart
(`intr`, `noff`, `intena`). Locks are the numbered ones and each thread's
`p->lock`, all owned by a hart as in `struct spinlock`. The code of a kernel
thread is any sequence of acquire, release, sleep, exit and `myproc` between
entering and leaving the kernel, with two restrictions that `spinlock.c` leaves to
its callers: locks are taken in increasing order, and released by who took them
(`has`). Whether the hart agrees (`lock`) is what the assertions of `acquire`,
`release`, `pop_off` and `sched` test, and a failed one stops the hart.

A thread sleeps or exits in a system call, with interrupts on (mode `call`), or in
the `exit(-1)` of a `usertrap` that found the process killed before it turned
interrupts on (mode `exit`): closing files and `begin_op` sleep there with
interrupts off. `yield`, `sleep` and `exit` are two steps, up to the call of
`sched` and from it on; `scheduler` takes only RUNNABLE threads whose `p->lock` is
free. Interrupts arrive wherever they are on: in user mode (`usertrap`, and then
the steps of mode `trap`), in kernel code and in `scheduler()` (`devintr` for
handlers that return, `timer` for the one that yields). `myproc` is two steps, the
read of `tp` and the load of `cpus[tp].proc`. The alarm callback of `devintr`, and
the panics of `kerneltrap` for exceptions in kernel code, are left out.

### Lottery

`Lottery` is the choice in `scheduler()`: the unlocked scan that adds up tickets,
one slot per step, the draw, the search of `tickets[]`, and the second look at
the state under `p->lock`. `tickets[]` starts with whatever the stack holds
(`Garbage`), the sum is stored in an `int` (`IMOD`), and the remainder by zero is
the dividend, as the hardware computes it. `counted` and `written` are history
variables. `rand()` is any number from 1 to `RMAX`; the shift register behind it
is not modelled. Its successor of a non-zero value is non-zero, also when two CPUs
load the same value.

### BufCache

`buffer-io.c` with the sleep lock of each buffer (`sleeplock.c`). The critical
sections of `bcache.lock` and of the sleep lock's spinlock are steps. Callers
use one buffer at a time and save a change with `bufcache_write` or `log_write`
before they let go; `current` is a history variable, the last change made to
each block. `Log` uses the simpler view that this module supports: one cached
copy per block, recycled only when nobody has it and the log has not pinned it.

## Runs

| Run | Instance | Shows |
|---|---|---|
| `log_crash` | 2 processes, 2 blocks, 2 values, calls of 2 blocks, header for 5, 2 crashes | `CrashAtomic` (refinement of `TxnDisk`), `WriteAhead`, `NoLostWakeup`, `ReservationHolds`, `CommitAlone`; `RecoveryEnds` under fairness |
| `log_capacity` | 3 processes, sizes of `param.h` scaled to `MAXOPBLOCKS = 1` | **violated**: `NoPanic` |
| `proc_table` | 2 CPUs, 3 slots, 3 pids after init's | `OneCpu`, `FreedOffCpu`, `NoLostExit`, `ParentAlive`, `KilledWasAsked` |
| `proc_kill_zero` | the same with `kill(0)` | **violated**: `KilledWasAsked` |
| `pipe` | 1 reader, 2 writers, 2-byte ring, counters modulo 4, calls of up to 3 bytes | `IsFifo`, `WritersAwake`, `ReadersAwakeOrKill`, `FreedUnused` |
| `pipe_killed_writer` | the same, only a writer can be killed | **violated**: `ReadersAwake` |
| `percpu` | 2 harts, 3 threads, 2 locks beside their `p->lock`s, both also taken by handlers | `NoPanic`, `IntrRestored`, `NestingExact`, `HolderStays` |
| `percpu_myproc` | the same | **violated**: `MyprocIsSelf` |
| `lottery` | 2 CPUs, 2 slots, tickets 1 or 2, sums up to one more than the largest draw | `ChanceToWin`, `DispatchOnce` |
| `lottery_long` | 1 CPU, 3 slots, sums beyond the largest draw | **violated**: `EveryTicketCounts` |
| `lottery_stale` | 2 CPUs, 2 slots, sums up to the largest draw | **violated**: `EveryTicketCounts` |
| `bufcache` | 3 processes, 3 blocks, 2 buffers, 2 values | `OneBufferPerBlock`, `Exclusive`, `Coherent`, `SleepersHaveOwner`, `RefsExact` |

Bounds. Two crashes let the second hit recovery from the first. Two processes
with two-block calls reach both ways of waiting in `begin_op` (commit in
progress, no space) and absorption of a block by two calls; a header for five
admits a call beside a block that an ended call of the group has left. Three slots are
init, a parent and a child, which init adopts when the parent exits first;
three pids force the reuse of a slot. A ring of two
bytes and counters modulo four make the counters wrap within one call, and a
three-byte call must sleep in the middle. Three threads on two harts let a
thread come back to a hart on which another has run, or to the other hart. Three
blocks in two buffers force recycling. `MaxTotal` bounds `total_tickets`, which
only grows; a CPU that reaches it stops, so deadlock is not checked in the
lottery runs. CPUs are symmetric in `ProcTable` and `Lottery`, threads in
`PerCpu`, processes and values in `BufCache`; only invariants are checked with
symmetry.

Fairness (`log_crash`): only recovery is assumed to take its next step. It runs in
the first process, when there is no other, so that the lottery has nobody else to
choose. Nothing is assumed of processes that make system calls. That a process
asleep in `begin_op` is woken in the end would need the process that commits to be
scheduled again, and the scheduler does not guarantee that: `lottery_long` and
`lottery_stale` show a RUNNABLE process that cannot win. What `log.c` itself
contributes, that somebody is at work who will call `wakeup`, is `NoLostWakeup`.

### What the violated runs show

- `log_capacity`: `param.h:10` calls LOGSIZE the "max data blocks in on-disk
  log", and `begin_op` admits calls until `lh.n + reservations` reaches LOGSIZE.
  `mkfs.c:24` however gives the whole log, header block included, LOGSIZE
  blocks, and `log_write` panics at `lh.n >= log.size - 1`. Three calls that each
  keep to MAXOPBLOCKS fill the log and the last `log_write` panics.
- `proc_kill_zero`: free slots have pid 0, so `kill(0)` marks the first free
  slot, `allocproc` does not clear the mark, and the next process created
  there dies at its first trap.
- `pipe_killed_writer`: `pipewrite` returns -1 for a killed caller without the
  `wakeup` for the bytes it has already stored; a reader sleeps on a pipe with
  data while another writer keeps it open.
- `percpu_myproc`: `proc.c:60` and `proc.c:66` require interrupts off for `cpuid`
  and `mycpu`, `myproc` does not turn them off, and `usertrap` turns them on
  before `syscall()`. A thread that is preempted between the read of `tp` and the
  load, and resumed on another hart, gets the process of the hart it left, or a null
  pointer. Under a spinlock it cannot happen (`HolderStays`).
- `lottery_long`: `total_tickets` is never reset, and `tickets[]` keeps the
  entries of earlier rounds. Once the first entry exceeds what `rand()` can
  return, its slot wins every lottery and the processes after it hold tickets
  that cannot win. In the code the largest draw is 65535. `ChanceToWin` says what
  holds before that point.
- `lottery_stale`: `tickets[]` is not initialised, and a CPU reads the entries of
  slots it has never found RUNNABLE. If such an entry is beyond every draw, the
  slots after it cannot win on that CPU until it has been written.

## Proofs

Every theorem holds for all values of the constants that satisfy the named
assumptions of the module. Each `*Proofs` module states an inductive invariant
and has one lemma per action.

**Log** (`LogProofs`, `LogRefines`). `Safety`: `TypeOK`, `NoLostWakeup` and
`CommitAlone`. `CrashAtomicity`: `Log` implements `TxnDisk`, for every number of
processes, blocks, crashes and every log size. `WriteAheadRule`: home blocks are
written only with what the on-disk header promises. None of these is inductive.
`LogInv` adds: headers name distinct blocks and fit (`HeaderInv`); recovery runs
alone on clean buffers and the blocks before `tail` are installed (`BootInv`);
`outstanding` is the number of calls in progress and a commit excludes them
(`CountInv`); and, while the system is up, the on-disk header is empty except
during installation, a buffer differs from the disk only if it is pinned, and the
log blocks copied so far hold the current contents (`UpInv`). The refinement then
goes action by action: `write_head` is the step in which `durable` changes, every
other disk write leaves it alone because the header decides which blocks count.

**ProcTable** (`ProcProofs`). `Safety`: `TypeOK`, `OneCpu`, `FreedOffCpu`,
`NoLostExit`, `ParentAlive`. `KilledSafety`: `KilledWasAsked` if no program calls
`kill(0)`, which is what `proc_kill_zero` violates. `ProcInv` says what each
position of a kernel thread implies about the slot's state and locks (`CpuInv`,
`LockInv`), what a half-made child looks like (`ForkInv`), that children have a
living parent (`FamilyInv`), and that a parent asleep in `wait` either has no
zombie or an exiting child that still has its wakeup ahead (`SleepInv`).

**Pipe** (`PipeProofs`). `Safety`: `TypeOK`, `WritersAwake`,
`ReadersAwakeOrKill`, `FreedUnused`, for every ring size, every counter width
that is a multiple of it (as 2^32 is of 512) and all sets of readers and writers.
`ReadersAwakeUnlessKilled`: `ReadersAwake` if no writer can be killed. The wakeup
invariants speak of states with the lock free and are not inductive; `PipeInv`
adds who holds the lock (`LockInv`), what a caller has established before it
sleeps (`BodyInv`), that a sleeper's condition either holds or was changed by a
process that still has the lock and its wakeup ahead (`SleepInv`), and how closed
ends, open references and the freed page relate (`CloseInv`).

Only model-checked: liveness (`RecoveryEnds`), which is out of
the prover's reach; `ReservationHolds`; the refinement `IsFifo`; and all of
`PerCpu`, `Lottery` and `BufCache`.

## What is not modelled

- Formatting, string routines, device set-up, boot code and assembly, apart from
  `swtch` and the trap paths above: no state that interleavings can break.
- `ramdisk.c` is not built.
- User programs appear as the system calls they make.
- The contents of blocks and pages, beyond the values that tell writes apart.

The rest of the kernel is planned, in this order.

| Module | Source | Questions |
|---|---|---|
| VirtioDisk | `virtio_disk.c` | three descriptors per request, sleepers on `free[0]`, out-of-order completion, `b->disk` handshake; liveness of a request under a device that answers |
| Inode | `fs.c`, `sysfile.c` | `iget`/`iput` races on the last reference, one in-memory inode per number, link counts against directory entries, lock order in `namex` and `create`; composed with `TxnDisk` for crashes between transactions |
| FileTable | `file.c`, `sysfile.c` | last close, `dup` against `close`, descriptors shared over `fork` |
| Clock | `trap.c`, `sysproc.c` | `ticks` and `sleep(n)`, wraparound and signs, `alarm` fields over slot reuse, `readcount` updated without its lock |
| Kalloc, Vm | `kalloc.c`, `vm.c`, `exec.c` | every page free or owned once, also when an allocation fails half-way through `fork`, `sbrk` or `exec` |
| Console, Uart | `console.c`, `uart.c` | input ring with line editing, transmit ring, wakeups |
| Umalloc, mkfs, path names | `umalloc.c`, `mkfs.c`, `fs.c` | free-list coalescing, disjoint areas of the image, `skipelem` against a reference definition |

Planned theorems: the inductive invariants of `PerCpu` (`IntrRestored`,
`NestingExact`) and `BufCache` (`OneBufferPerBlock`, `Coherent`, `RefsExact`);
`ChanceToWin` for every table size while the sums stay below the largest draw;
`IsFifo` for every pipe; that `BufCache` implements the cache that `Log` assumes;
and the reference-count invariants of `Inode` and `FileTable`.
