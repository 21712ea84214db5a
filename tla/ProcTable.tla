----------------------------- MODULE ProcTable -----------------------------
(***************************************************************************)
(* The process table of src/kernel/proc.c: fork, exit, wait, kill, yield,  *)
(* sleep and wakeup, run by several CPUs under p->lock and wait_lock, with *)
(* timer preemption wherever interrupts are on.                            *)
(*                                                                         *)
(* A lock is owned by a CPU, as in struct spinlock, so that p->lock can be *)
(* handed from a process to the scheduler across swtch.  A critical        *)
(* section that takes no second lock is one step; p->lock is state because *)
(* sleep, exit and yield hold it into the scheduler.  Which RUNNABLE       *)
(* process a CPU picks is left open here; module Lottery has the choice.   *)
(***************************************************************************)
EXTENDS Naturals, FiniteSets

CONSTANTS NPROC,    \* slots in the table
          CPU,      \* CPUs running scheduler()
          NoCpu,    \* owner of a free lock
          MaxPid,   \* bound: fork is not called once pids reach this
          KillPid   \* pids that programs pass to kill

ASSUME NprocAssumption == NPROC \in Nat \ {0}
ASSUME NoCpuAssumption == NoCpu \notin CPU
ASSUME MaxPidAssumption == MaxPid \in Nat
\* Killing init makes it exit, which is panic("init exiting").
ASSUME KillPidAssumption == KillPid \subseteq Nat \ {1}

Procs == 1 .. NPROC
NoProc == 0
initproc == 1

VARIABLES state,      \* p->state
          channel,    \* p->channel
          killed,     \* p->killed
          pid,        \* p->pid
          parent,     \* p->parent, protected by wait_lock
          plock,      \* p->lock
          wait_lock,
          cproc,      \* c->proc
          pc,         \* where the kernel thread of p is
          np,         \* the child that fork is creating
          scan,       \* slots that the wakeups of exit have not visited
          wake,       \* channels that the wakeups of exit are for
          nextpid,
          asked       \* history: pids passed to kill, or whose process faulted

procVars == <<state, channel, killed, pid, parent>>
lockVars == <<plock, wait_lock>>
threadVars == <<pc, np, scan, wake>>
vars == <<procVars, lockVars, cproc, threadVars, nextpid, asked>>

States == {"UNUSED", "USED", "SLEEPING", "RUNNABLE", "RUNNING", "ZOMBIE"}
Pcs == {"user", "fork_parent", "fork_run", "wait", "wait_scan", "sleep",
        "sleep_locked", "exit_wake", "exit"}

TypeOK == /\ state \in [Procs -> States]
          /\ channel \in [Procs -> Procs \cup {NoProc}]
          /\ killed \in [Procs -> BOOLEAN]
          /\ pid \in [Procs -> Nat]
          /\ parent \in [Procs -> Procs \cup {NoProc}]
          /\ plock \in [Procs -> CPU \cup {NoCpu}]
          /\ wait_lock \in CPU \cup {NoCpu}
          /\ cproc \in [CPU -> Procs \cup {NoProc}]
          /\ pc \in [Procs -> Pcs]
          /\ np \in [Procs -> Procs \cup {NoProc}]
          /\ scan \in [Procs -> SUBSET Procs]
          /\ wake \in [Procs -> SUBSET (Procs \cup {NoProc})]
          /\ nextpid \in Nat
          /\ asked \in SUBSET Nat

\* After user_init: init is RUNNABLE, every CPU is in scheduler().
Init == /\ state = [p \in Procs |-> IF p = initproc THEN "RUNNABLE" ELSE "UNUSED"]
        /\ channel = [p \in Procs |-> NoProc]
        /\ killed = [p \in Procs |-> FALSE]
        /\ pid = [p \in Procs |-> IF p = initproc THEN 1 ELSE 0]
        /\ parent = [p \in Procs |-> NoProc]
        /\ plock = [p \in Procs |-> NoCpu]
        /\ wait_lock = NoCpu
        /\ cproc = [c \in CPU |-> NoProc]
        /\ pc = [p \in Procs |-> "user"]
        /\ np = [p \in Procs |-> NoProc]
        /\ scan = [p \in Procs |-> {}]
        /\ wake = [p \in Procs |-> {}]
        /\ nextpid = 2
        /\ asked = {}

\* p's kernel thread executes on c.
Runs(c, p) == cproc[c] = p /\ state[p] = "RUNNING"

Goto(p, l) == pc' = [pc EXCEPT ![p] = l]

Children(p) == {q \in Procs : parent[q] = p}
Zombies(p) == {q \in Children(p) : state[q] = "ZOMBIE"}
----------------------------------------------------------------------------
(* The scheduler and the ways into it.                                     *)

\* Mutant: the scheduler does not take p->lock.
scheduler_unlocked(c, p) ==
  /\ cproc[c] = NoProc
  /\ state[p] = "RUNNABLE"
  /\ state' = [state EXCEPT ![p] = "RUNNING"]
  /\ channel' = [channel EXCEPT ![p] = NoProc]
  /\ cproc' = [cproc EXCEPT ![c] = p]
  /\ UNCHANGED <<killed, pid, parent, lockVars, threadVars, nextpid, asked>>

\* scheduler() picks p; p returns from sched() or enters forkret, clears its
\* channel if it slept, and releases p->lock.
scheduler(c, p) ==
  /\ cproc[c] = NoProc
  /\ plock[p] = NoCpu
  /\ state[p] = "RUNNABLE"
  /\ state' = [state EXCEPT ![p] = "RUNNING"]
  /\ channel' = [channel EXCEPT ![p] = NoProc]
  /\ cproc' = [cproc EXCEPT ![c] = p]
  /\ UNCHANGED <<killed, pid, parent, lockVars, threadVars, nextpid, asked>>

\* sched() has switched to the scheduler's stack, which clears c->proc and
\* releases the p->lock that p acquired.
sched(c, p) ==
  /\ cproc[c] = p
  /\ plock[p] = c
  /\ state[p] # "RUNNING"
  /\ cproc' = [cproc EXCEPT ![c] = NoProc]
  /\ plock' = [plock EXCEPT ![p] = NoCpu]
  /\ UNCHANGED <<procVars, wait_lock, threadVars, nextpid, asked>>

\* A timer interrupt, from user space or from kernel code with interrupts on.
yield(c, p) ==
  /\ Runs(c, p)
  /\ pc[p] \in {"user", "fork_parent", "fork_run", "wait"}
  /\ plock[p] = NoCpu
  /\ plock' = [plock EXCEPT ![p] = c]
  /\ state' = [state EXCEPT ![p] = "RUNNABLE"]
  /\ UNCHANGED <<channel, killed, pid, parent, wait_lock, cproc, threadVars,
                 nextpid, asked>>
----------------------------------------------------------------------------
(* fork                                                                    *)

\* allocproc and the copying, all under np->lock.  The scan of the table locks
\* one slot at a time, so n is any slot that is UNUSED when it gets there.
fork(c, p, n) ==
  /\ Runs(c, p)
  /\ pc[p] = "user"
  /\ ~killed[p]
  /\ nextpid <= MaxPid
  /\ state[n] = "UNUSED"
  /\ plock[n] = NoCpu
  /\ state' = [state EXCEPT ![n] = "USED"]
  /\ pid' = [pid EXCEPT ![n] = nextpid]
  /\ nextpid' = nextpid + 1
  /\ np' = [np EXCEPT ![p] = n]
  /\ pc' = [pc EXCEPT ![p] = "fork_parent", ![n] = "user"]
  /\ UNCHANGED <<channel, killed, parent, lockVars, cproc, scan, wake, asked>>

\* Out of memory, in allocproc or in uvm_copy: the pid is used up and freeproc
\* clears the slot.
fork_fail(c, p, n) ==
  /\ Runs(c, p)
  /\ pc[p] = "user"
  /\ ~killed[p]
  /\ nextpid <= MaxPid
  /\ state[n] = "UNUSED"
  /\ plock[n] = NoCpu
  /\ nextpid' = nextpid + 1
  /\ pid' = [pid EXCEPT ![n] = 0]
  /\ parent' = [parent EXCEPT ![n] = NoProc]
  /\ channel' = [channel EXCEPT ![n] = NoProc]
  /\ killed' = [killed EXCEPT ![n] = FALSE]
  /\ UNCHANGED <<state, lockVars, cproc, threadVars, asked>>

fork_parent(c, p) ==
  /\ Runs(c, p)
  /\ pc[p] = "fork_parent"
  /\ wait_lock = NoCpu
  /\ parent' = [parent EXCEPT ![np[p]] = p]
  /\ Goto(p, "fork_run")
  /\ UNCHANGED <<state, channel, killed, pid, lockVars, cproc, np, scan, wake,
                 nextpid, asked>>

fork_run(c, p) ==
  /\ Runs(c, p)
  /\ pc[p] = "fork_run"
  /\ plock[np[p]] = NoCpu
  /\ state' = [state EXCEPT ![np[p]] = "RUNNABLE"]
  /\ np' = [np EXCEPT ![p] = NoProc]
  /\ Goto(p, "user")
  /\ UNCHANGED <<channel, killed, pid, parent, lockVars, cproc, scan, wake,
                 nextpid, asked>>
----------------------------------------------------------------------------
(* exit                                                                    *)

\* Mutants of exit: the loop of wakeup runs one slot too far; the parent is not
\* woken; reparent does not wake init; there is no reparent.
exit_overrun(c, p) ==
  /\ Runs(c, p) /\ pc[p] = "user" /\ p # initproc /\ wait_lock = NoCpu
  /\ wait_lock' = c
  /\ parent' = [q \in Procs |-> IF parent[q] = p THEN initproc ELSE parent[q]]
  /\ scan' = [scan EXCEPT ![p] = (1 .. NPROC + 1) \ {p}]
  /\ wake' = [wake EXCEPT ![p] = {parent[p], initproc}]
  /\ Goto(p, "exit_wake")
  /\ UNCHANGED <<state, channel, killed, pid, plock, cproc, np, nextpid, asked>>

exit_silent(c, p) ==
  /\ Runs(c, p) /\ pc[p] = "user" /\ p # initproc /\ wait_lock = NoCpu
  /\ wait_lock' = c
  /\ parent' = [q \in Procs |-> IF parent[q] = p THEN initproc ELSE parent[q]]
  /\ scan' = [scan EXCEPT ![p] = Procs \ {p}]
  /\ wake' = [wake EXCEPT ![p] = IF Children(p) = {} THEN {} ELSE {initproc}]
  /\ Goto(p, "exit_wake")
  /\ UNCHANGED <<state, channel, killed, pid, plock, cproc, np, nextpid, asked>>

exit_orphans(c, p) ==
  /\ Runs(c, p) /\ pc[p] = "user" /\ p # initproc /\ wait_lock = NoCpu
  /\ wait_lock' = c
  /\ scan' = [scan EXCEPT ![p] = Procs \ {p}]
  /\ wake' = [wake EXCEPT ![p] = {parent[p]}]
  /\ Goto(p, "exit_wake")
  /\ UNCHANGED <<procVars, plock, cproc, np, nextpid, asked>>

\* The exit system call, or a trap that finds p killed: take wait_lock and
\* give p's children to init.  The wakeups of reparent and of exit follow in
\* exit_wake; wait_lock is held across all of them.
exit(c, p) ==
  /\ Runs(c, p)
  /\ pc[p] = "user"
  /\ p # initproc
  /\ wait_lock = NoCpu
  /\ wait_lock' = c
  /\ parent' = [q \in Procs |-> IF parent[q] = p THEN initproc ELSE parent[q]]
  /\ scan' = [scan EXCEPT ![p] = Procs \ {p}]
  /\ wake' = [wake EXCEPT ![p] = {parent[p]} \cup
                                 (IF Children(p) = {} THEN {} ELSE {initproc})]
  /\ Goto(p, "exit_wake")
  /\ UNCHANGED <<state, channel, killed, pid, plock, cproc, np, nextpid, asked>>

\* wakeup() visits slot q.
exit_wake(c, p, q) ==
  /\ Runs(c, p)
  /\ pc[p] = "exit_wake"
  /\ q \in scan[p]
  /\ \A r \in scan[p] : q <= r
  /\ plock[q] = NoCpu
  /\ state' = [state EXCEPT ![q] = IF @ = "SLEEPING" /\ channel[q] \in wake[p]
                                   THEN "RUNNABLE" ELSE @]
  /\ scan' = [scan EXCEPT ![p] = @ \ {q}]
  /\ UNCHANGED <<channel, killed, pid, parent, lockVars, cproc, pc, np, wake,
                 nextpid, asked>>

\* acquire(&p->lock), ZOMBIE, release(&wait_lock), on the way into sched().
exit_zombie(c, p) ==
  /\ Runs(c, p)
  /\ pc[p] = "exit_wake"
  /\ scan[p] = {}
  /\ plock[p] = NoCpu
  /\ plock' = [plock EXCEPT ![p] = c]
  /\ state' = [state EXCEPT ![p] = "ZOMBIE"]
  /\ wait_lock' = NoCpu
  /\ wake' = [wake EXCEPT ![p] = {}]
  /\ Goto(p, "exit")
  /\ UNCHANGED <<channel, killed, pid, parent, cproc, np, scan, nextpid, asked>>
----------------------------------------------------------------------------
(* wait and sleep                                                          *)

wait_call(c, p) ==
  /\ Runs(c, p)
  /\ pc[p] = "user"
  /\ ~killed[p]
  /\ Goto(p, "wait")
  /\ UNCHANGED <<procVars, lockVars, cproc, np, scan, wake, nextpid, asked>>

\* acquire(&wait_lock), on entry and when sleep returns.
wait_acquire(c, p) ==
  /\ Runs(c, p)
  /\ pc[p] = "wait"
  /\ wait_lock = NoCpu
  /\ wait_lock' = c
  /\ Goto(p, "wait_scan")
  /\ UNCHANGED <<procVars, plock, cproc, np, scan, wake, nextpid, asked>>

\* The scan takes the lock of every child that it looks at.  No child can
\* become ZOMBIE meanwhile: exit would need wait_lock.
Scanned(p) == \A q \in Children(p) : plock[q] = NoCpu

\* The scan stops at q, the first child that is ZOMBIE.
Found(p, q) == /\ q \in Zombies(p)
               /\ \A r \in Zombies(p) : q <= r
               /\ \A r \in Children(p) : r <= q => plock[r] = NoCpu

\* Mutants of the reaping: pp->lock is not taken; freeproc keeps p->killed.
wait_reap_unlocked(c, p, q) ==
  /\ Runs(c, p)
  /\ pc[p] = "wait_scan"
  /\ q \in Zombies(p)
  /\ state' = [state EXCEPT ![q] = "UNUSED"]
  /\ pid' = [pid EXCEPT ![q] = 0]
  /\ parent' = [parent EXCEPT ![q] = NoProc]
  /\ channel' = [channel EXCEPT ![q] = NoProc]
  /\ killed' = [killed EXCEPT ![q] = FALSE]
  /\ wait_lock' = NoCpu
  /\ Goto(p, "user")
  /\ UNCHANGED <<plock, cproc, np, scan, wake, nextpid, asked>>

wait_reap_killed(c, p, q) ==
  /\ Runs(c, p)
  /\ pc[p] = "wait_scan"
  /\ q \in Zombies(p)
  /\ Scanned(p)
  /\ state' = [state EXCEPT ![q] = "UNUSED"]
  /\ pid' = [pid EXCEPT ![q] = 0]
  /\ parent' = [parent EXCEPT ![q] = NoProc]
  /\ channel' = [channel EXCEPT ![q] = NoProc]
  /\ wait_lock' = NoCpu
  /\ Goto(p, "user")
  /\ UNCHANGED <<killed, plock, cproc, np, scan, wake, nextpid, asked>>

\* The first ZOMBIE child is freed; its slot is UNUSED again.
wait_reap(c, p, q) ==
  /\ Runs(c, p)
  /\ pc[p] = "wait_scan"
  /\ Found(p, q)
  /\ state' = [state EXCEPT ![q] = "UNUSED"]
  /\ pid' = [pid EXCEPT ![q] = 0]
  /\ parent' = [parent EXCEPT ![q] = NoProc]
  /\ channel' = [channel EXCEPT ![q] = NoProc]
  /\ killed' = [killed EXCEPT ![q] = FALSE]
  /\ wait_lock' = NoCpu
  /\ Goto(p, "user")
  /\ UNCHANGED <<plock, cproc, np, scan, wake, nextpid, asked>>

\* Return -1: no ZOMBIE found and no children or killed, or a ZOMBIE whose
\* status cannot be copied to the caller's address.
wait_fail(c, p) ==
  /\ Runs(c, p)
  /\ pc[p] = "wait_scan"
  /\ \/ Scanned(p) /\ Zombies(p) = {} /\ (Children(p) = {} \/ killed[p])
     \/ \E q \in Procs : Found(p, q)
  /\ wait_lock' = NoCpu
  /\ Goto(p, "user")
  /\ UNCHANGED <<procVars, plock, cproc, np, scan, wake, nextpid, asked>>

\* Children, none of them ZOMBIE, and killed(p) was false: call sleep.
wait_sleep(c, p) ==
  /\ Runs(c, p)
  /\ pc[p] = "wait_scan"
  /\ Scanned(p)
  /\ Children(p) # {} /\ Zombies(p) = {}
  /\ ~killed[p]
  /\ Goto(p, "sleep")
  /\ UNCHANGED <<procVars, lockVars, cproc, np, scan, wake, nextpid, asked>>

\* sleep: acquire(&p->lock) ...
sleep_acquire(c, p) ==
  /\ Runs(c, p)
  /\ pc[p] = "sleep"
  /\ plock[p] = NoCpu
  /\ plock' = [plock EXCEPT ![p] = c]
  /\ Goto(p, "sleep_locked")
  /\ UNCHANGED <<procVars, wait_lock, cproc, np, scan, wake, nextpid, asked>>

\* ... then release(lk), and only then SLEEPING, on the way into sched().
sleep_switch(c, p) ==
  /\ Runs(c, p)
  /\ pc[p] = "sleep_locked"
  /\ wait_lock' = NoCpu
  /\ channel' = [channel EXCEPT ![p] = p]
  /\ state' = [state EXCEPT ![p] = "SLEEPING"]
  /\ Goto(p, "wait")
  /\ UNCHANGED <<killed, pid, parent, plock, cproc, np, scan, wake, nextpid,
                 asked>>
----------------------------------------------------------------------------
(* kill                                                                    *)

kill(c, p, k, q) ==
  /\ Runs(c, p)
  /\ pc[p] = "user"
  /\ ~killed[p]
  /\ pid[q] = k
  /\ plock[q] = NoCpu
  /\ killed' = [killed EXCEPT ![q] = TRUE]
  /\ state' = [state EXCEPT ![q] = IF @ = "SLEEPING" THEN "RUNNABLE" ELSE @]
  /\ asked' = asked \cup {k}
  /\ UNCHANGED <<channel, pid, parent, lockVars, cproc, threadVars, nextpid>>

\* An unexpected trap from user space; usertrap goes on to exit(-1).
setkilled(c, p) ==
  /\ Runs(c, p)
  /\ pc[p] = "user"
  /\ p # initproc
  /\ ~killed[p]
  /\ plock[p] = NoCpu
  /\ killed' = [killed EXCEPT ![p] = TRUE]
  /\ asked' = asked \cup {pid[p]}
  /\ UNCHANGED <<state, channel, pid, parent, lockVars, cproc, threadVars,
                 nextpid>>
----------------------------------------------------------------------------
Step(c, p) ==
  \/ sched(c, p)
  \/ yield(c, p)
  \/ fork_parent(c, p)
  \/ fork_run(c, p)
  \/ exit(c, p)
  \/ exit_zombie(c, p)
  \/ wait_call(c, p)
  \/ wait_acquire(c, p)
  \/ wait_fail(c, p)
  \/ wait_sleep(c, p)
  \/ sleep_acquire(c, p)
  \/ sleep_switch(c, p)
  \/ setkilled(c, p)
  \/ \E q \in Procs : \/ fork(c, p, q)
                      \/ fork_fail(c, p, q)
                      \/ exit_wake(c, p, q)
                      \/ wait_reap(c, p, q)
                      \/ \E k \in KillPid : kill(c, p, k, q)

Next == \E c \in CPU, p \in Procs : scheduler(c, p) \/ Step(c, p)

Spec == Init /\ [][Next]_vars
----------------------------------------------------------------------------
(* Properties.                                                             *)

\* A kernel thread is on one CPU at a time, and RUNNING means exactly that it
\* is there: scheduler() takes p->lock before it tests and changes p->state.
OneCpu == /\ \A c, d \in CPU : cproc[c] = cproc[d] /\ cproc[c] # NoProc => c = d
          /\ \A p \in Procs : state[p] = "RUNNING" => \E c \in CPU : cproc[c] = p

\* wait() frees a child only after it has left exit() and swtch() on its own
\* kernel stack (proc.c:359).
FreedOffCpu == \A p \in Procs, c \in CPU : state[p] = "UNUSED" => cproc[c] # p

\* No lost wakeup: whenever wait_lock is free, a process asleep in wait has a
\* child to wait for and no exited one that it missed, adopted children of
\* init included.
NoLostExit == wait_lock = NoCpu =>
                \A p \in Procs : state[p] = "SLEEPING" =>
                                   Children(p) # {} /\ Zombies(p) = {}

\* Every process but init has a parent that can still reap it: reparent runs
\* before the parent becomes ZOMBIE.  (fork fills in the parent before it
\* makes the child RUNNABLE.)
ParentAlive == \A q \in Procs \ {initproc} :
                 state[q] \notin {"UNUSED", "USED"} =>
                   /\ parent[q] # NoProc
                   /\ state[parent[q]] \notin {"UNUSED", "USED", "ZOMBIE"}

\* A process is marked killed only if kill was called with its own pid ("Kill
\* the process", proc.c:525) or it faulted, however its slot was used before.
KilledWasAsked == \A p \in Procs : state[p] # "UNUSED" /\ killed[p] => pid[p] \in asked
=============================================================================
