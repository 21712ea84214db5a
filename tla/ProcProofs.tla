---------------------------- MODULE ProcProofs ----------------------------
(***************************************************************************)
(* Safety of module ProcTable for every number of slots, CPUs and pids.    *)
(* The inductive invariant ProcInv says who is on which CPU, who holds     *)
(* which lock there, how families stay connected, and why a process asleep *)
(* in wait() has missed no exit.                                           *)
(***************************************************************************)
EXTENDS ProcTable, TLAPS

\* A CPU runs one process, which is RUNNING or on its way through sched()
\* with its own lock; a p->lock held between two steps is held there.
CpuInv == /\ \A c, d \in CPU : cproc[c] = cproc[d] /\ cproc[c] # NoProc => c = d
          /\ \A p \in Procs : state[p] = "RUNNING" => \E c \in CPU : cproc[c] = p
          /\ \A c \in CPU, p \in Procs : cproc[c] = p =>
               /\ state[p] \notin {"UNUSED", "USED"}
               /\ state[p] = "RUNNING" \/ plock[p] = c
          /\ \A c \in CPU, p \in Procs : plock[p] = c => cproc[c] = p

\* Where a thread holds wait_lock.
InWait == {"wait_scan", "sleep", "sleep_locked", "exit_wake"}

\* A thread inside wait_lock is RUNNING on the CPU that owns the lock, so
\* there is only one; sleep() holds p->lock when it gives wait_lock up.
LockInv == /\ \A p \in Procs : pc[p] \in InWait => /\ state[p] = "RUNNING"
                                                   /\ wait_lock \in CPU
                                                   /\ cproc[wait_lock] = p
           /\ \A p \in Procs : pc[p] = "sleep_locked" => plock[p] # NoCpu

\* The child that fork is creating is USED, has one creator, and gets its
\* parent before it can run.
ForkInv == /\ \A p \in Procs : pc[p] \in {"fork_parent", "fork_run"} =>
                /\ np[p] \in Procs
                /\ state[np[p]] = "USED"
                /\ parent[np[p]] = IF pc[p] = "fork_run" THEN p ELSE NoProc
           /\ \A p, q \in Procs :
                /\ pc[p] \in {"fork_parent", "fork_run"}
                /\ pc[q] \in {"fork_parent", "fork_run"}
                /\ np[p] = np[q]
                => p = q

\* init lives for ever; an exiting process has given its children away and
\* has its parent among those it wakes.
FamilyInv == /\ state[initproc] \notin {"UNUSED", "USED", "ZOMBIE"}
             /\ pc[initproc] # "exit_wake"
             /\ parent[initproc] = NoProc
             /\ \A p \in Procs : state[p] = "UNUSED" => parent[p] = NoProc
             /\ \A p \in Procs : parent[p] # p
             /\ \A p \in Procs : pc[p] = "exit_wake" => /\ parent[p] \in wake[p]
                                                        /\ Children(p) = {}
             /\ ParentAlive

\* A sleeper has children and has seen the exited ones, unless the process
\* that holds wait_lock has still to wake it.
SleepInv == /\ \A p \in Procs : state[p] = "SLEEPING" =>
                 channel[p] = p /\ Children(p) # {}
            /\ \A p \in Procs : pc[p] \in {"sleep", "sleep_locked"} =>
                 Children(p) # {} /\ Zombies(p) = {}
            /\ \A p, q \in Procs :
                 state[p] = "SLEEPING" /\ parent[q] = p /\ state[q] = "ZOMBIE" =>
                   \E x \in Procs : /\ pc[x] = "exit_wake"
                                    /\ p \in scan[x] /\ p \in wake[x]
            /\ \A x, p \in Procs :
                 pc[x] = "exit_wake" /\ p \in wake[x] \ scan[x] /\ p # x =>
                   state[p] # "SLEEPING"

ProcInv == TypeOK /\ CpuInv /\ LockInv /\ ForkInv /\ FamilyInv /\ SleepInv

\* Without kill(0) a free slot carries no mark.
KillInv == /\ \A p \in Procs : state[p] = "UNUSED" => pid[p] = 0 /\ ~killed[p]
           /\ KilledWasAsked
\* Slots and CPUs are not confused with NoProc and NoCpu, and init has a slot.
LEMMA Consts == initproc \in Procs /\ NoProc \notin Procs /\ NoCpu \notin CPU
  BY NprocAssumption, NoCpuAssumption DEF Procs, initproc, NoProc

\* ProcInv holds after user_init.
LEMMA InitInv == Init => ProcInv
  <1> SUFFICES ASSUME Init PROVE ProcInv
    OBVIOUS
  <1>1. TypeOK
    BY Consts DEF Init, TypeOK, States, Pcs
  <1>2. CpuInv
    BY Consts DEF Init, CpuInv
  <1>3. LockInv
    BY Consts DEF Init, LockInv, InWait
  <1>4. ForkInv
    BY Consts DEF Init, ForkInv
  <1>5. FamilyInv
    BY Consts DEF Init, FamilyInv, ParentAlive, Children
  <1>6. SleepInv
    BY Consts DEF Init, SleepInv, Children, Zombies
  <1> QED BY <1>1, <1>2, <1>3, <1>4, <1>5, <1>6 DEF ProcInv

\* scheduler() finds p->lock free, so p is on no other CPU.
LEMMA schedulerInv ==
  ASSUME ProcInv, NEW c \in CPU, NEW p \in Procs,
         scheduler(c, p)
  PROVE  ProcInv'
  <1>1. TypeOK'
    BY Consts
    DEF ProcInv, TypeOK, States, Pcs, scheduler, Runs, Goto, procVars,
        lockVars, threadVars
  <1>2. CpuInv'
    BY Consts
    DEF ProcInv, TypeOK, CpuInv, LockInv, ForkInv, scheduler, Runs, Goto,
        procVars, lockVars, threadVars
  <1>3. LockInv'
    BY Consts
    DEF ProcInv, TypeOK, CpuInv, LockInv, ForkInv, InWait, scheduler, Runs,
        Goto, procVars, lockVars, threadVars
  <1>4. ForkInv'
    BY Consts
    DEF ProcInv, TypeOK, CpuInv, LockInv, ForkInv, FamilyInv, InWait,
        scheduler, Runs, Goto, procVars, lockVars, threadVars
  <1>5. FamilyInv'
    BY Consts
    DEF ProcInv, TypeOK, CpuInv, LockInv, ForkInv, FamilyInv, InWait,
        ParentAlive, Children, Zombies, scheduler, Runs, Goto, procVars,
        lockVars, threadVars
  <1>6. SleepInv'
    BY Consts
    DEF ProcInv, TypeOK, CpuInv, LockInv, ForkInv, FamilyInv, SleepInv,
        InWait, Children, Zombies, scheduler, Runs, Goto, procVars, lockVars,
        threadVars
  <1> QED BY <1>1, <1>2, <1>3, <1>4, <1>5, <1>6 DEF ProcInv

\* The scheduler's side of swtch clears c->proc before it releases p->lock.
LEMMA schedInv ==
  ASSUME ProcInv, NEW c \in CPU, NEW p \in Procs,
         sched(c, p)
  PROVE  ProcInv'
  <1>1. TypeOK'
    BY Consts
    DEF ProcInv, TypeOK, States, Pcs, sched, Runs, Goto, procVars,
        lockVars, threadVars
  <1>2. CpuInv'
    BY Consts
    DEF ProcInv, TypeOK, CpuInv, LockInv, ForkInv, sched, Runs, Goto,
        procVars, lockVars, threadVars
  <1>3. LockInv'
    BY Consts
    DEF ProcInv, TypeOK, CpuInv, LockInv, ForkInv, InWait, sched, Runs,
        Goto, procVars, lockVars, threadVars
  <1>4. ForkInv'
    BY Consts
    DEF ProcInv, TypeOK, CpuInv, LockInv, ForkInv, FamilyInv, InWait,
        sched, Runs, Goto, procVars, lockVars, threadVars
  <1>5. FamilyInv'
    BY Consts
    DEF ProcInv, TypeOK, CpuInv, LockInv, ForkInv, FamilyInv, InWait,
        ParentAlive, Children, Zombies, sched, Runs, Goto, procVars, lockVars,
        threadVars
  <1>6. SleepInv'
    BY Consts
    DEF ProcInv, TypeOK, CpuInv, LockInv, ForkInv, FamilyInv, SleepInv,
        InWait, Children, Zombies, sched, Runs, Goto, procVars, lockVars,
        threadVars
  <1> QED BY <1>1, <1>2, <1>3, <1>4, <1>5, <1>6 DEF ProcInv

\* yield keeps p->lock until the switch, so a RUNNABLE p is not picked early.
LEMMA yieldInv ==
  ASSUME ProcInv, NEW c \in CPU, NEW p \in Procs,
         yield(c, p)
  PROVE  ProcInv'
  <1>1. TypeOK'
    BY Consts
    DEF ProcInv, TypeOK, States, Pcs, yield, Runs, Goto, procVars,
        lockVars, threadVars
  <1>2. CpuInv'
    BY Consts
    DEF ProcInv, TypeOK, CpuInv, LockInv, ForkInv, yield, Runs, Goto,
        procVars, lockVars, threadVars
  <1>3. LockInv'
    BY Consts
    DEF ProcInv, TypeOK, CpuInv, LockInv, ForkInv, InWait, yield, Runs,
        Goto, procVars, lockVars, threadVars
  <1>4. ForkInv'
    BY Consts
    DEF ProcInv, TypeOK, CpuInv, LockInv, ForkInv, FamilyInv, InWait,
        yield, Runs, Goto, procVars, lockVars, threadVars
  <1>5. FamilyInv'
    BY Consts
    DEF ProcInv, TypeOK, CpuInv, LockInv, ForkInv, FamilyInv, InWait,
        ParentAlive, Children, Zombies, yield, Runs, Goto, procVars, lockVars,
        threadVars
  <1>6. SleepInv'
    BY Consts
    DEF ProcInv, TypeOK, CpuInv, LockInv, ForkInv, FamilyInv, SleepInv,
        InWait, Children, Zombies, yield, Runs, Goto, procVars, lockVars,
        threadVars
  <1> QED BY <1>1, <1>2, <1>3, <1>4, <1>5, <1>6 DEF ProcInv

\* allocproc takes a slot that no CPU runs and no other fork has taken.
LEMMA forkInv ==
  ASSUME ProcInv, NEW c \in CPU, NEW p \in Procs, NEW n \in Procs,
         fork(c, p, n)
  PROVE  ProcInv'
  <1>1. TypeOK'
    BY Consts
    DEF ProcInv, TypeOK, States, Pcs, fork, Runs, Goto, procVars, lockVars,
        threadVars
  <1>2. CpuInv'
    BY Consts
    DEF ProcInv, TypeOK, CpuInv, LockInv, ForkInv, fork, Runs, Goto,
        procVars, lockVars, threadVars
  <1>3. LockInv'
    BY Consts
    DEF ProcInv, TypeOK, CpuInv, LockInv, ForkInv, InWait, fork, Runs,
        Goto, procVars, lockVars, threadVars
  <1>4. ForkInv'
    BY Consts
    DEF ProcInv, TypeOK, CpuInv, LockInv, ForkInv, FamilyInv, InWait, fork,
        Runs, Goto, procVars, lockVars, threadVars
  <1>5. FamilyInv'
    BY Consts
    DEF ProcInv, TypeOK, CpuInv, LockInv, ForkInv, FamilyInv, InWait,
        ParentAlive, Children, Zombies, fork, Runs, Goto, procVars, lockVars,
        threadVars
  <1>6. SleepInv'
    <2>1. \A r \in Procs : pc[r] \in InWait => r # n /\ pc'[r] = pc[r]
      BY DEF ProcInv, TypeOK, LockInv, InWait, Runs, fork
    <2>2. \A r \in Procs : state'[r] = "SLEEPING" => state[r] = "SLEEPING"
      BY DEF ProcInv, TypeOK, fork
    <2>3. \A r \in Procs : state'[r] = "ZOMBIE" => state[r] = "ZOMBIE"
      BY DEF ProcInv, TypeOK, fork
    <2>4. \A r \in Procs : pc'[r] \in InWait => pc[r] = pc'[r]
      BY DEF ProcInv, TypeOK, InWait, fork
    <2>5. UNCHANGED <<channel, parent, scan, wake>>
      BY DEF fork
    <2> QED
      BY <2>1, <2>2, <2>3, <2>4, <2>5
      DEF ProcInv, SleepInv, InWait, Children, Zombies
  <1> QED BY <1>1, <1>2, <1>3, <1>4, <1>5, <1>6 DEF ProcInv

\* A fork that runs out of memory leaves the slot as it was.
LEMMA fork_failInv ==
  ASSUME ProcInv, NEW c \in CPU, NEW p \in Procs, NEW n \in Procs,
         fork_fail(c, p, n)
  PROVE  ProcInv'
  <1>1. TypeOK'
    BY Consts
    DEF ProcInv, TypeOK, States, Pcs, fork_fail, Runs, Goto, procVars,
        lockVars, threadVars
  <1>2. CpuInv'
    BY Consts
    DEF ProcInv, TypeOK, CpuInv, LockInv, ForkInv, fork_fail, Runs, Goto,
        procVars, lockVars, threadVars
  <1>3. LockInv'
    BY Consts
    DEF ProcInv, TypeOK, CpuInv, LockInv, ForkInv, InWait, fork_fail, Runs,
        Goto, procVars, lockVars, threadVars
  <1>4. ForkInv'
    BY Consts
    DEF ProcInv, TypeOK, CpuInv, LockInv, ForkInv, FamilyInv, InWait,
        fork_fail, Runs, Goto, procVars, lockVars, threadVars
  <1>5. FamilyInv'
    BY Consts
    DEF ProcInv, TypeOK, CpuInv, LockInv, ForkInv, FamilyInv, InWait,
        ParentAlive, Children, Zombies, fork_fail, Runs, Goto, procVars,
        lockVars, threadVars
  <1>6. SleepInv'
    BY Consts
    DEF ProcInv, TypeOK, CpuInv, LockInv, ForkInv, FamilyInv, SleepInv,
        InWait, Children, Zombies, fork_fail, Runs, Goto, procVars, lockVars,
        threadVars
  <1> QED BY <1>1, <1>2, <1>3, <1>4, <1>5, <1>6 DEF ProcInv

\* fork sets the parent of a child that had none.
LEMMA fork_parentInv ==
  ASSUME ProcInv, NEW c \in CPU, NEW p \in Procs,
         fork_parent(c, p)
  PROVE  ProcInv'
  <1>1. TypeOK'
    BY ZenonT(60), Consts
    DEF ProcInv, TypeOK, States, Pcs, fork_parent, Runs, Goto, procVars,
        lockVars, threadVars
  <1>2. CpuInv'
    BY Consts
    DEF ProcInv, TypeOK, CpuInv, LockInv, ForkInv, fork_parent, Runs, Goto,
        procVars, lockVars, threadVars
  <1>3. LockInv'
    BY Consts
    DEF ProcInv, TypeOK, CpuInv, LockInv, ForkInv, InWait, fork_parent,
        Runs, Goto, procVars, lockVars, threadVars
  <1>4. ForkInv'
    BY Consts
    DEF ProcInv, TypeOK, CpuInv, LockInv, ForkInv, FamilyInv, InWait,
        fork_parent, Runs, Goto, procVars, lockVars, threadVars
  <1>5. FamilyInv'
    BY Consts
    DEF ProcInv, TypeOK, CpuInv, LockInv, ForkInv, FamilyInv, InWait,
        ParentAlive, Children, Zombies, fork_parent, Runs, Goto, procVars,
        lockVars, threadVars
  <1>6. SleepInv'
    BY Consts
    DEF ProcInv, TypeOK, CpuInv, LockInv, ForkInv, FamilyInv, SleepInv,
        InWait, Children, Zombies, fork_parent, Runs, Goto, procVars, lockVars,
        threadVars
  <1> QED BY <1>1, <1>2, <1>3, <1>4, <1>5, <1>6 DEF ProcInv

\* The child has a living parent when it becomes RUNNABLE.
LEMMA fork_runInv ==
  ASSUME ProcInv, NEW c \in CPU, NEW p \in Procs,
         fork_run(c, p)
  PROVE  ProcInv'
  <1>1. TypeOK'
    BY ZenonT(60), Consts
    DEF ProcInv, TypeOK, States, Pcs, fork_run, Runs, Goto, procVars,
        lockVars, threadVars
  <1>2. CpuInv'
    BY Consts
    DEF ProcInv, TypeOK, CpuInv, LockInv, ForkInv, fork_run, Runs, Goto,
        procVars, lockVars, threadVars
  <1>3. LockInv'
    BY Consts
    DEF ProcInv, TypeOK, CpuInv, LockInv, ForkInv, InWait, fork_run, Runs,
        Goto, procVars, lockVars, threadVars
  <1>4. ForkInv'
    BY Consts
    DEF ProcInv, TypeOK, CpuInv, LockInv, ForkInv, FamilyInv, InWait,
        fork_run, Runs, Goto, procVars, lockVars, threadVars
  <1>5. FamilyInv'
    BY Consts
    DEF ProcInv, TypeOK, CpuInv, LockInv, ForkInv, FamilyInv, InWait,
        ParentAlive, Children, Zombies, fork_run, Runs, Goto, procVars,
        lockVars, threadVars
  <1>6. SleepInv'
    BY Consts
    DEF ProcInv, TypeOK, CpuInv, LockInv, ForkInv, FamilyInv, SleepInv,
        InWait, Children, Zombies, fork_run, Runs, Goto, procVars, lockVars,
        threadVars
  <1> QED BY <1>1, <1>2, <1>3, <1>4, <1>5, <1>6 DEF ProcInv

\* reparent: adopted zombies are covered by the wakeup of init that follows.
LEMMA exitInv ==
  ASSUME ProcInv, NEW c \in CPU, NEW p \in Procs,
         exit(c, p)
  PROVE  ProcInv'
  <1>1. TypeOK'
    BY Consts
    DEF ProcInv, TypeOK, States, Pcs, exit, Runs, Goto, procVars, lockVars,
        threadVars
  <1>2. CpuInv'
    BY Consts
    DEF ProcInv, TypeOK, CpuInv, LockInv, ForkInv, exit, Runs, Goto,
        procVars, lockVars, threadVars
  <1>3. LockInv'
    BY Consts
    DEF ProcInv, TypeOK, CpuInv, LockInv, ForkInv, InWait, exit, Runs,
        Goto, procVars, lockVars, threadVars
  <1>4. ForkInv'
    BY Consts
    DEF ProcInv, TypeOK, CpuInv, LockInv, ForkInv, FamilyInv, InWait, exit,
        Runs, Goto, procVars, lockVars, threadVars
  <1>5. FamilyInv'
    BY SMTT(40), Consts
    DEF ProcInv, TypeOK, CpuInv, LockInv, ForkInv, FamilyInv, InWait,
        ParentAlive, Children, Zombies, exit, Runs, Goto, procVars, lockVars,
        threadVars
  <1>6. SleepInv'
    BY Consts
    DEF ProcInv, TypeOK, CpuInv, LockInv, ForkInv, FamilyInv, SleepInv,
        InWait, Children, Zombies, exit, Runs, Goto, procVars, lockVars,
        threadVars
  <1> QED BY <1>1, <1>2, <1>3, <1>4, <1>5, <1>6 DEF ProcInv

\* One slot of the wakeups of exit: whoever has been visited is not asleep.
LEMMA exit_wakeInv ==
  ASSUME ProcInv, NEW c \in CPU, NEW p \in Procs, NEW q \in Procs,
         exit_wake(c, p, q)
  PROVE  ProcInv'
  <1>1. TypeOK'
    BY Consts
    DEF ProcInv, TypeOK, States, Pcs, exit_wake, Runs, Goto, procVars,
        lockVars, threadVars
  <1>2. CpuInv'
    BY Consts
    DEF ProcInv, TypeOK, CpuInv, LockInv, ForkInv, exit_wake, Runs, Goto,
        procVars, lockVars, threadVars
  <1>3. LockInv'
    BY SMTT(40), Consts
    DEF ProcInv, TypeOK, CpuInv, LockInv, ForkInv, InWait, exit_wake, Runs,
        Goto, procVars, lockVars, threadVars
  <1>4. ForkInv'
    BY SMTT(40), Consts
    DEF ProcInv, TypeOK, CpuInv, LockInv, ForkInv, FamilyInv, InWait,
        exit_wake, Runs, Goto, procVars, lockVars, threadVars
  <1>5. FamilyInv'
    BY SMTT(40), Consts
    DEF ProcInv, TypeOK, CpuInv, LockInv, ForkInv, FamilyInv, InWait,
        ParentAlive, Children, Zombies, exit_wake, Runs, Goto, procVars,
        lockVars, threadVars
  <1>6. SleepInv'
    BY Consts
    DEF ProcInv, TypeOK, CpuInv, LockInv, ForkInv, FamilyInv, SleepInv,
        InWait, Children, Zombies, exit_wake, Runs, Goto, procVars, lockVars,
        threadVars
  <1> QED BY <1>1, <1>2, <1>3, <1>4, <1>5, <1>6 DEF ProcInv

\* When exit sets ZOMBIE the parent has been visited, so it is not asleep.
LEMMA exit_zombieInv ==
  ASSUME ProcInv, NEW c \in CPU, NEW p \in Procs,
         exit_zombie(c, p)
  PROVE  ProcInv'
  <1>1. TypeOK'
    BY Consts
    DEF ProcInv, TypeOK, States, Pcs, exit_zombie, Runs, Goto, procVars,
        lockVars, threadVars
  <1>2. CpuInv'
    BY Consts
    DEF ProcInv, TypeOK, CpuInv, LockInv, ForkInv, exit_zombie, Runs, Goto,
        procVars, lockVars, threadVars
  <1>3. LockInv'
    BY Consts
    DEF ProcInv, TypeOK, CpuInv, LockInv, ForkInv, InWait, exit_zombie,
        Runs, Goto, procVars, lockVars, threadVars
  <1>4. ForkInv'
    BY Consts
    DEF ProcInv, TypeOK, CpuInv, LockInv, ForkInv, FamilyInv, InWait,
        exit_zombie, Runs, Goto, procVars, lockVars, threadVars
  <1>5. FamilyInv'
    BY Consts
    DEF ProcInv, TypeOK, CpuInv, LockInv, ForkInv, FamilyInv, InWait,
        ParentAlive, Children, Zombies, exit_zombie, Runs, Goto, procVars,
        lockVars, threadVars
  <1>6. SleepInv'
    BY Consts
    DEF ProcInv, TypeOK, CpuInv, LockInv, ForkInv, FamilyInv, SleepInv,
        InWait, Children, Zombies, exit_zombie, Runs, Goto, procVars, lockVars,
        threadVars
  <1> QED BY <1>1, <1>2, <1>3, <1>4, <1>5, <1>6 DEF ProcInv

\* Entering wait changes no shared state.
LEMMA wait_callInv ==
  ASSUME ProcInv, NEW c \in CPU, NEW p \in Procs,
         wait_call(c, p)
  PROVE  ProcInv'
  <1>1. TypeOK'
    BY Consts
    DEF ProcInv, TypeOK, States, Pcs, wait_call, Runs, Goto, procVars,
        lockVars, threadVars
  <1>2. CpuInv'
    BY Consts
    DEF ProcInv, TypeOK, CpuInv, LockInv, ForkInv, wait_call, Runs, Goto,
        procVars, lockVars, threadVars
  <1>3. LockInv'
    BY Consts
    DEF ProcInv, TypeOK, CpuInv, LockInv, ForkInv, InWait, wait_call, Runs,
        Goto, procVars, lockVars, threadVars
  <1>4. ForkInv'
    BY Consts
    DEF ProcInv, TypeOK, CpuInv, LockInv, ForkInv, FamilyInv, InWait,
        wait_call, Runs, Goto, procVars, lockVars, threadVars
  <1>5. FamilyInv'
    BY SMTT(40), Consts
    DEF ProcInv, TypeOK, CpuInv, LockInv, ForkInv, FamilyInv, InWait,
        ParentAlive, Children, Zombies, wait_call, Runs, Goto, procVars,
        lockVars, threadVars
  <1>6. SleepInv'
    BY Consts
    DEF ProcInv, TypeOK, CpuInv, LockInv, ForkInv, FamilyInv, SleepInv,
        InWait, Children, Zombies, wait_call, Runs, Goto, procVars, lockVars,
        threadVars
  <1> QED BY <1>1, <1>2, <1>3, <1>4, <1>5, <1>6 DEF ProcInv

\* Whoever takes wait_lock is RUNNING on the CPU that owns it.
LEMMA wait_acquireInv ==
  ASSUME ProcInv, NEW c \in CPU, NEW p \in Procs,
         wait_acquire(c, p)
  PROVE  ProcInv'
  <1>1. TypeOK'
    BY Consts
    DEF ProcInv, TypeOK, States, Pcs, wait_acquire, Runs, Goto, procVars,
        lockVars, threadVars
  <1>2. CpuInv'
    BY Consts
    DEF ProcInv, TypeOK, CpuInv, LockInv, ForkInv, wait_acquire, Runs,
        Goto, procVars, lockVars, threadVars
  <1>3. LockInv'
    BY Consts
    DEF ProcInv, TypeOK, CpuInv, LockInv, ForkInv, InWait, wait_acquire,
        Runs, Goto, procVars, lockVars, threadVars
  <1>4. ForkInv'
    BY Consts
    DEF ProcInv, TypeOK, CpuInv, LockInv, ForkInv, FamilyInv, InWait,
        wait_acquire, Runs, Goto, procVars, lockVars, threadVars
  <1>5. FamilyInv'
    BY SMTT(40), Consts
    DEF ProcInv, TypeOK, CpuInv, LockInv, ForkInv, FamilyInv, InWait,
        ParentAlive, Children, Zombies, wait_acquire, Runs, Goto, procVars,
        lockVars, threadVars
  <1>6. SleepInv'
    BY Consts
    DEF ProcInv, TypeOK, CpuInv, LockInv, ForkInv, FamilyInv, SleepInv,
        InWait, Children, Zombies, wait_acquire, Runs, Goto, procVars,
        lockVars, threadVars
  <1> QED BY <1>1, <1>2, <1>3, <1>4, <1>5, <1>6 DEF ProcInv

\* A ZOMBIE whose lock is free is on no CPU and has no children.
LEMMA wait_reapInv ==
  ASSUME ProcInv, NEW c \in CPU, NEW p \in Procs, NEW q \in Procs,
         wait_reap(c, p, q)
  PROVE  ProcInv'
  <1>1. TypeOK'
    BY Consts
    DEF ProcInv, TypeOK, States, Pcs, wait_reap, Found, Runs, Goto,
        procVars, lockVars, threadVars
  <1>2. CpuInv'
    BY Consts
    DEF ProcInv, TypeOK, CpuInv, LockInv, ForkInv, wait_reap, Found, Children, Zombies, Runs,
        Goto, procVars, lockVars, threadVars
  <1>3. LockInv'
    BY SMTT(40), Consts
    DEF ProcInv, TypeOK, CpuInv, LockInv, ForkInv, InWait, wait_reap,
        Found, Runs, Goto, procVars, lockVars, threadVars
  <1>4. ForkInv'
    BY SMTT(40), Consts
    DEF ProcInv, TypeOK, CpuInv, LockInv, ForkInv, FamilyInv, InWait,
        wait_reap, Found, Children, Zombies, Runs, Goto, procVars, lockVars, threadVars
  <1>5. FamilyInv'
    BY SMTT(40), Consts
    DEF ProcInv, TypeOK, CpuInv, LockInv, ForkInv, FamilyInv, InWait,
        ParentAlive, Children, Zombies, wait_reap, Found, Runs, Goto, procVars,
        lockVars, threadVars
  <1>6. SleepInv'
    BY Consts
    DEF ProcInv, TypeOK, CpuInv, LockInv, ForkInv, FamilyInv, SleepInv,
        InWait, Children, Zombies, wait_reap, Found, Runs, Goto, procVars,
        lockVars, threadVars
  <1> QED BY <1>1, <1>2, <1>3, <1>4, <1>5, <1>6 DEF ProcInv

\* A failing wait only gives wait_lock up.
LEMMA wait_failInv ==
  ASSUME ProcInv, NEW c \in CPU, NEW p \in Procs,
         wait_fail(c, p)
  PROVE  ProcInv'
  <1>1. TypeOK'
    BY Consts
    DEF ProcInv, TypeOK, States, Pcs, wait_fail, Runs, Goto, procVars,
        lockVars, threadVars
  <1>2. CpuInv'
    BY Consts
    DEF ProcInv, TypeOK, CpuInv, LockInv, ForkInv, wait_fail, Runs, Goto,
        procVars, lockVars, threadVars
  <1>3. LockInv'
    BY SMTT(40), Consts
    DEF ProcInv, TypeOK, CpuInv, LockInv, ForkInv, InWait, wait_fail, Runs,
        Goto, procVars, lockVars, threadVars
  <1>4. ForkInv'
    BY SMTT(40), Consts
    DEF ProcInv, TypeOK, CpuInv, LockInv, ForkInv, FamilyInv, InWait,
        wait_fail, Runs, Goto, procVars, lockVars, threadVars
  <1>5. FamilyInv'
    BY SMTT(40), Consts
    DEF ProcInv, TypeOK, CpuInv, LockInv, ForkInv, FamilyInv, InWait,
        ParentAlive, Children, Zombies, wait_fail, Runs, Goto, procVars,
        lockVars, threadVars
  <1>6. SleepInv'
    BY Consts
    DEF ProcInv, TypeOK, CpuInv, LockInv, ForkInv, FamilyInv, SleepInv,
        InWait, Children, Zombies, wait_fail, Runs, Goto, procVars, lockVars,
        threadVars
  <1> QED BY <1>1, <1>2, <1>3, <1>4, <1>5, <1>6 DEF ProcInv

\* wait goes to sleep only with children and no ZOMBIE among them.
LEMMA wait_sleepInv ==
  ASSUME ProcInv, NEW c \in CPU, NEW p \in Procs,
         wait_sleep(c, p)
  PROVE  ProcInv'
  <1>1. TypeOK'
    BY Consts
    DEF ProcInv, TypeOK, States, Pcs, wait_sleep, Runs, Goto, procVars,
        lockVars, threadVars
  <1>2. CpuInv'
    BY Consts
    DEF ProcInv, TypeOK, CpuInv, LockInv, ForkInv, wait_sleep, Runs, Goto,
        procVars, lockVars, threadVars
  <1>3. LockInv'
    BY SMTT(40), Consts
    DEF ProcInv, TypeOK, CpuInv, LockInv, ForkInv, InWait, wait_sleep,
        Runs, Goto, procVars, lockVars, threadVars
  <1>4. ForkInv'
    BY SMTT(40), Consts
    DEF ProcInv, TypeOK, CpuInv, LockInv, ForkInv, FamilyInv, InWait,
        wait_sleep, Runs, Goto, procVars, lockVars, threadVars
  <1>5. FamilyInv'
    BY SMTT(40), Consts
    DEF ProcInv, TypeOK, CpuInv, LockInv, ForkInv, FamilyInv, InWait,
        ParentAlive, Children, Zombies, wait_sleep, Runs, Goto, procVars,
        lockVars, threadVars
  <1>6. SleepInv'
    BY Consts
    DEF ProcInv, TypeOK, CpuInv, LockInv, ForkInv, FamilyInv, SleepInv,
        InWait, Children, Zombies, wait_sleep, Runs, Goto, procVars, lockVars,
        threadVars
  <1> QED BY <1>1, <1>2, <1>3, <1>4, <1>5, <1>6 DEF ProcInv

\* sleep has p->lock before it gives wait_lock up.
LEMMA sleep_acquireInv ==
  ASSUME ProcInv, NEW c \in CPU, NEW p \in Procs,
         sleep_acquire(c, p)
  PROVE  ProcInv'
  <1>1. TypeOK'
    BY Consts
    DEF ProcInv, TypeOK, States, Pcs, sleep_acquire, Runs, Goto, procVars,
        lockVars, threadVars
  <1>2. CpuInv'
    BY Consts
    DEF ProcInv, TypeOK, CpuInv, LockInv, ForkInv, sleep_acquire, Runs,
        Goto, procVars, lockVars, threadVars
  <1>3. LockInv'
    BY Consts
    DEF ProcInv, TypeOK, CpuInv, LockInv, ForkInv, InWait, sleep_acquire,
        Runs, Goto, procVars, lockVars, threadVars
  <1>4. ForkInv'
    BY SMTT(40), Consts
    DEF ProcInv, TypeOK, CpuInv, LockInv, ForkInv, FamilyInv, InWait,
        sleep_acquire, Runs, Goto, procVars, lockVars, threadVars
  <1>5. FamilyInv'
    BY SMTT(40), Consts
    DEF ProcInv, TypeOK, CpuInv, LockInv, ForkInv, FamilyInv, InWait,
        ParentAlive, Children, Zombies, sleep_acquire, Runs, Goto, procVars,
        lockVars, threadVars
  <1>6. SleepInv'
    BY Consts
    DEF ProcInv, TypeOK, CpuInv, LockInv, ForkInv, FamilyInv, SleepInv,
        InWait, Children, Zombies, sleep_acquire, Runs, Goto, procVars,
        lockVars, threadVars
  <1> QED BY <1>1, <1>2, <1>3, <1>4, <1>5, <1>6 DEF ProcInv

\* What wait saw is still true when p becomes SLEEPING.
LEMMA sleep_switchInv ==
  ASSUME ProcInv, NEW c \in CPU, NEW p \in Procs,
         sleep_switch(c, p)
  PROVE  ProcInv'
  <1>1. TypeOK'
    BY SMTT(40), Consts
    DEF ProcInv, TypeOK, States, Pcs, sleep_switch, Runs, Goto, procVars,
        lockVars, threadVars
  <1>2. CpuInv'
    BY Consts
    DEF ProcInv, TypeOK, CpuInv, LockInv, ForkInv, sleep_switch, Runs,
        Goto, procVars, lockVars, threadVars
  <1>3. LockInv'
    BY SMTT(40), Consts
    DEF ProcInv, TypeOK, CpuInv, LockInv, ForkInv, InWait, sleep_switch,
        Runs, Goto, procVars, lockVars, threadVars
  <1>4. ForkInv'
    BY SMTT(40), Consts
    DEF ProcInv, TypeOK, CpuInv, LockInv, ForkInv, FamilyInv, InWait,
        sleep_switch, Runs, Goto, procVars, lockVars, threadVars
  <1>5. FamilyInv'
    BY SMTT(40), Consts
    DEF ProcInv, TypeOK, CpuInv, LockInv, ForkInv, FamilyInv, InWait,
        ParentAlive, Children, Zombies, sleep_switch, Runs, Goto, procVars,
        lockVars, threadVars
  <1>6. SleepInv'
    BY Consts
    DEF ProcInv, TypeOK, CpuInv, LockInv, ForkInv, FamilyInv, SleepInv,
        InWait, Children, Zombies, sleep_switch, Runs, Goto, procVars,
        lockVars, threadVars
  <1> QED BY <1>1, <1>2, <1>3, <1>4, <1>5, <1>6 DEF ProcInv

\* kill may end a sleep but changes no family.
LEMMA killInv ==
  ASSUME ProcInv, NEW c \in CPU, NEW p \in Procs, NEW k \in KillPid, NEW q \in Procs,
         kill(c, p, k, q)
  PROVE  ProcInv'
  <1>1. TypeOK'
    <2>1. asked' \in SUBSET Nat
      BY KillPidAssumption DEF ProcInv, TypeOK, kill
    <2>2. killed' \in [Procs -> BOOLEAN] /\ state' \in [Procs -> States]
      BY DEF ProcInv, TypeOK, States, kill
    <2> QED BY <2>1, <2>2 DEF ProcInv, TypeOK, kill, lockVars, threadVars
  <1>2. CpuInv'
    BY SMTT(40), Consts
    DEF ProcInv, TypeOK, CpuInv, LockInv, ForkInv, kill, Runs, Goto,
        procVars, lockVars, threadVars
  <1>3. LockInv'
    BY SMTT(40), Consts
    DEF ProcInv, TypeOK, CpuInv, LockInv, ForkInv, InWait, kill, Runs,
        Goto, procVars, lockVars, threadVars
  <1>4. ForkInv'
    BY SMTT(40), Consts
    DEF ProcInv, TypeOK, CpuInv, LockInv, ForkInv, FamilyInv, InWait, kill,
        Runs, Goto, procVars, lockVars, threadVars
  <1>5. FamilyInv'
    BY SMTT(40), Consts
    DEF ProcInv, TypeOK, CpuInv, LockInv, ForkInv, FamilyInv, InWait,
        ParentAlive, Children, Zombies, kill, Runs, Goto, procVars, lockVars,
        threadVars
  <1>6. SleepInv'
    BY Consts
    DEF ProcInv, TypeOK, CpuInv, LockInv, ForkInv, FamilyInv, SleepInv,
        InWait, Children, Zombies, kill, Runs, Goto, procVars, lockVars,
        threadVars
  <1> QED BY SMTT(40), <1>1, <1>2, <1>3, <1>4, <1>5, <1>6 DEF ProcInv

\* A fault marks the running process only.
LEMMA setkilledInv ==
  ASSUME ProcInv, NEW c \in CPU, NEW p \in Procs,
         setkilled(c, p)
  PROVE  ProcInv'
  <1>1. TypeOK'
    <2>1. asked' \in SUBSET Nat
      <3>1. pid[p] \in Nat /\ asked \in SUBSET Nat
        BY DEF ProcInv, TypeOK
      <3>2. asked' = asked \cup {pid[p]}
        BY DEF setkilled
      <3> QED BY ZenonT(60), <3>1, <3>2
    <2>2. killed' \in [Procs -> BOOLEAN]
      BY DEF ProcInv, TypeOK, setkilled
    <2> QED BY <2>1, <2>2 DEF ProcInv, TypeOK, setkilled, lockVars, threadVars
  <1>2. CpuInv'
    BY Consts
    DEF ProcInv, TypeOK, CpuInv, LockInv, ForkInv, setkilled, Runs, Goto,
        procVars, lockVars, threadVars
  <1>3. LockInv'
    BY Consts
    DEF ProcInv, TypeOK, CpuInv, LockInv, ForkInv, InWait, setkilled, Runs,
        Goto, procVars, lockVars, threadVars
  <1>4. ForkInv'
    BY SMTT(40), Consts
    DEF ProcInv, TypeOK, CpuInv, LockInv, ForkInv, FamilyInv, InWait,
        setkilled, Runs, Goto, procVars, lockVars, threadVars
  <1>5. FamilyInv'
    BY SMTT(40), Consts
    DEF ProcInv, TypeOK, CpuInv, LockInv, ForkInv, FamilyInv, InWait,
        ParentAlive, Children, Zombies, setkilled, Runs, Goto, procVars,
        lockVars, threadVars
  <1>6. SleepInv'
    BY Consts
    DEF ProcInv, TypeOK, CpuInv, LockInv, ForkInv, FamilyInv, SleepInv,
        InWait, Children, Zombies, setkilled, Runs, Goto, procVars, lockVars,
        threadVars
  <1> QED BY <1>1, <1>2, <1>3, <1>4, <1>5, <1>6 DEF ProcInv

\* ProcInv is inductive: every step of every CPU preserves it.
THEOREM Inductive == ProcInv /\ [Next]_vars => ProcInv'
  <1> SUFFICES ASSUME ProcInv, [Next]_vars PROVE ProcInv'
    OBVIOUS
  <1>1. CASE UNCHANGED vars
    <2> USE <1>1 DEF vars, procVars, lockVars, threadVars, ProcInv
    <2>1. TypeOK' /\ CpuInv'
      BY DEF TypeOK, CpuInv
    <2>2. LockInv' /\ ForkInv'
      BY SMTT(40) DEF LockInv, ForkInv
    <2>3. FamilyInv' /\ SleepInv'
      BY DEF FamilyInv, SleepInv, ParentAlive, Children, Zombies
    <2> QED BY SMTT(40), <2>1, <2>2, <2>3
  <1>2. ASSUME NEW c \in CPU, NEW p \in Procs, scheduler(c, p) \/ Step(c, p)
        PROVE  ProcInv'
    <2>1. CASE scheduler(c, p)
      BY <2>1, schedulerInv
    <2>2. CASE sched(c, p)
      BY <2>2, schedInv
    <2>3. CASE yield(c, p)
      BY <2>3, yieldInv
    <2>4. CASE fork_parent(c, p)
      BY <2>4, fork_parentInv
    <2>5. CASE fork_run(c, p)
      BY <2>5, fork_runInv
    <2>6. CASE exit(c, p)
      BY <2>6, exitInv
    <2>7. CASE exit_zombie(c, p)
      BY <2>7, exit_zombieInv
    <2>8. CASE wait_call(c, p)
      BY <2>8, wait_callInv
    <2>9. CASE wait_acquire(c, p)
      BY <2>9, wait_acquireInv
    <2>10. CASE wait_fail(c, p)
      BY <2>10, wait_failInv
    <2>11. CASE wait_sleep(c, p)
      BY <2>11, wait_sleepInv
    <2>12. CASE sleep_acquire(c, p)
      BY <2>12, sleep_acquireInv
    <2>13. CASE sleep_switch(c, p)
      BY <2>13, sleep_switchInv
    <2>14. CASE setkilled(c, p)
      BY <2>14, setkilledInv
    <2>15. ASSUME NEW q \in Procs, fork(c, p, q) PROVE ProcInv'
      BY <2>15, forkInv
    <2>16. ASSUME NEW q \in Procs, fork_fail(c, p, q) PROVE ProcInv'
      BY <2>16, fork_failInv
    <2>17. ASSUME NEW q \in Procs, exit_wake(c, p, q) PROVE ProcInv'
      BY <2>17, exit_wakeInv
    <2>18. ASSUME NEW q \in Procs, wait_reap(c, p, q) PROVE ProcInv'
      BY <2>18, wait_reapInv
    <2>19. ASSUME NEW q \in Procs, NEW k \in KillPid, kill(c, p, k, q)
          PROVE  ProcInv'
      BY <2>19, killInv
    <2> QED
      BY <1>2, <2>1, <2>2, <2>3, <2>4, <2>5, <2>6, <2>7, <2>8, <2>9, <2>10,
         <2>11, <2>12, <2>13, <2>14, <2>15, <2>16, <2>17, <2>18, <2>19
      DEF Step
  <1> QED BY <1>1, <1>2 DEF Next

\* The process table is safe: a thread is on one CPU, wait() frees no slot
\* that is still on a CPU, a sleeper in wait() misses no exit, and every
\* process has a parent that can reap it.
THEOREM Safety ==
  Spec => [](TypeOK /\ OneCpu /\ FreedOffCpu /\ NoLostExit /\ ParentAlive)
  <1>1. ProcInv => TypeOK /\ OneCpu /\ FreedOffCpu /\ ParentAlive
    BY SMTT(40) DEF ProcInv, CpuInv, FamilyInv, OneCpu, FreedOffCpu
  <1>2. ProcInv => NoLostExit
    BY Consts
    DEF ProcInv, TypeOK, LockInv, InWait, SleepInv, NoLostExit, Children,
        Zombies
  <1> QED BY InitInv, Inductive, <1>1, <1>2, PTL DEF Spec

\* Where no program calls kill(0), killed means that kill was called with this
\* process's pid, or that it faulted: no mark survives from an earlier use of
\* the slot.
THEOREM KilledSafety ==
  ASSUME 0 \notin KillPid
  PROVE  Spec => []KilledWasAsked
  <1>1. Init => KillInv
    BY SMTT(40), Consts DEF Init, KillInv, KilledWasAsked
  <1>2. ASSUME ProcInv, KillInv, NEW c \in CPU, NEW p \in Procs,
               scheduler(c, p) \/ Step(c, p)
        PROVE  KillInv'
    <2> USE DEF KillInv, KilledWasAsked, ProcInv, TypeOK, Runs, procVars
    <2>1. CASE scheduler(c, p)
      BY SMTT(40), <1>2, <2>1 DEF scheduler
    <2>2. CASE sched(c, p)
      BY <1>2, <2>2 DEF sched, CpuInv, LockInv
    <2>3. CASE yield(c, p)
      BY <1>2, <2>3 DEF yield
    <2>4. CASE fork_parent(c, p)
      BY SMTT(40), <1>2, <2>4 DEF fork_parent
    <2>5. CASE fork_run(c, p)
      BY SMTT(40), <1>2, <2>5 DEF fork_run, ForkInv
    <2>6. CASE exit(c, p)
      BY SMTT(40), <1>2, <2>6 DEF exit
    <2>7. CASE exit_zombie(c, p)
      BY SMTT(40), <1>2, <2>7 DEF exit_zombie
    <2>8. CASE wait_call(c, p)
      BY SMTT(40), <1>2, <2>8 DEF wait_call
    <2>9. CASE wait_acquire(c, p)
      BY SMTT(40), <1>2, <2>9 DEF wait_acquire
    <2>10. CASE wait_fail(c, p)
      BY SMTT(40), <1>2, <2>10 DEF wait_fail
    <2>11. CASE wait_sleep(c, p)
      BY SMTT(40), <1>2, <2>11 DEF wait_sleep
    <2>12. CASE sleep_acquire(c, p)
      BY SMTT(40), <1>2, <2>12 DEF sleep_acquire
    <2>13. CASE sleep_switch(c, p)
      BY SMTT(40), <1>2, <2>13 DEF sleep_switch
    <2>14. CASE setkilled(c, p)
      BY SMTT(40), <1>2, <2>14 DEF setkilled
    <2>15. ASSUME NEW q \in Procs, fork(c, p, q) PROVE KillInv'
      BY SMTT(40), <1>2, <2>15 DEF fork
    <2>16. ASSUME NEW q \in Procs, fork_fail(c, p, q) PROVE KillInv'
      BY SMTT(40), <1>2, <2>16 DEF fork_fail
    <2>17. ASSUME NEW q \in Procs, exit_wake(c, p, q) PROVE KillInv'
      BY SMTT(40), <1>2, <2>17 DEF exit_wake
    <2>18. ASSUME NEW q \in Procs, wait_reap(c, p, q) PROVE KillInv'
      BY SMTT(40), <1>2, <2>18 DEF wait_reap
    <2>19. ASSUME NEW q \in Procs, NEW k \in KillPid, kill(c, p, k, q)
          PROVE  KillInv'
      BY SMTT(40), <1>2, <2>19 DEF kill
    <2> HIDE DEF KillInv, KilledWasAsked, ProcInv, TypeOK, Runs, procVars
    <2> QED
      BY SMTT(40), <1>2, <2>1, <2>2, <2>3, <2>4, <2>5, <2>6, <2>7, <2>8,
         <2>9, <2>10,
         <2>11, <2>12, <2>13, <2>14, <2>15, <2>16, <2>17, <2>18, <2>19
      DEF Step
  <1>3. KillInv /\ UNCHANGED vars => KillInv'
    BY ZenonT(60) DEF KillInv, KilledWasAsked, vars, procVars
  <1>4. ProcInv /\ KillInv /\ [Next]_vars => KillInv'
    BY SMTT(40), <1>2, <1>3 DEF Next
  <1>5. KillInv => KilledWasAsked
    BY DEF KillInv
  <1> QED BY InitInv, Inductive, <1>1, <1>4, <1>5, PTL DEF Spec
=============================================================================
