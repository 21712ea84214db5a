------------------------------- MODULE PerCpu -------------------------------
(***************************************************************************)
(* Per-CPU interrupt state of xv7: push_off, pop_off and the spinlocks     *)
(* (spinlock.c), yield, sleep, exit, sched and scheduler as far as they    *)
(* move a thread between CPUs with p->lock held, mycpu and myproc          *)
(* (proc.c), and the interrupts that arrive meanwhile (trap.c).            *)
(*                                                                         *)
(* The kernel code of a thread is abstracted to what these parts see.      *)
(* Between usertrap and usertrapret it takes and releases spinlocks,       *)
(* sleeps, yields, exits and calls myproc in any order, except that it     *)
(* takes locks in increasing order and releases only what it took: has is  *)
(* what the code believes it holds, lock what lk->cpu says.                *)
(***************************************************************************)
EXTENDS Integers, FiniteSets

CONSTANTS CPU,      \* the harts
          Hart0,    \* the one whose timer interrupts run clockintr
          Thread,   \* the processes' kernel threads; also their p->lock
          Lock,     \* the other spinlocks, numbers
          Irq,      \* those that interrupt handlers take: tickslock,
                    \* console.lock, the uart's and vdisk_lock
          Tick,     \* the one clockintr takes, tickslock
          None

ASSUME ConstantAssumption ==
  /\ Lock \subseteq Nat
  /\ IsFiniteSet(Lock) /\ IsFiniteSet(Thread)
  /\ Irq \subseteq Lock /\ Tick \in Irq /\ Hart0 \in CPU
  /\ Lock \cap Thread = {}
  /\ None \notin CPU \cup Thread \cup Lock

VARIABLES cpu,    \* struct cpu's noff and intena, and the hart's SIE bit
          cproc,  \* c->proc: the thread on each hart, None in the scheduler
          lock,   \* lk->cpu: the hart that holds each lock
          has,    \* the locks a thread has taken and not released
          state,  \* p->state
          mode,   \* where a thread is: user mode, usertrap before intr_on
                  \* ("trap"), a system call ("call"), or the exit(-1) of a
                  \* usertrap that never turned interrupts on ("exit")
          pc,     \* what its kernel code is doing
          intrap, \* whether it is inside kerneltrap
          want,   \* the lock it spins for or must retake after sleep
          saved,  \* sched's local intena
          tp,     \* the hart id myproc has read and not yet used
          panicked \* the harts that panic() has stopped

vars == <<cpu, cproc, lock, has, state, mode, pc, intrap, want, saved, tp,
          panicked>>

CpuState == [intr : BOOLEAN, noff : Nat, intena : BOOLEAN]

SpinLock == Lock \cup Thread

\* The program is well typed.
TypeOK ==
  /\ cpu \in [CPU -> CpuState]
  /\ cproc \in [CPU -> Thread \cup {None}]
  /\ lock \in [SpinLock -> CPU \cup {None}]
  /\ has \in [Thread -> SUBSET SpinLock]
  /\ state \in [Thread -> {"RUNNABLE", "RUNNING", "SLEEPING", "ZOMBIE"}]
  /\ mode \in [Thread -> {"new", "user", "trap", "call", "exit"}]
  /\ pc \in [Thread -> {"run", "spin", "asleep", "relock"}]
  /\ intrap \in [Thread -> BOOLEAN]
  /\ want \in [Thread -> Lock \cup {None}]
  /\ saved \in [Thread -> BOOLEAN]
  /\ tp \in [Thread -> CPU \cup {None}]
  /\ panicked \subseteq CPU

\* Every hart is in scheduler(), interrupts on; the threads are RUNNABLE and
\* start in forkret.
Init ==
  /\ cpu = [c \in CPU |-> [intr |-> TRUE, noff |-> 0, intena |-> FALSE]]
  /\ cproc = [c \in CPU |-> None]
  /\ lock = [l \in SpinLock |-> None]
  /\ has = [t \in Thread |-> {}]
  /\ state = [t \in Thread |-> "RUNNABLE"]
  /\ mode = [t \in Thread |-> "new"]
  /\ pc = [t \in Thread |-> "run"]
  /\ intrap = [t \in Thread |-> FALSE]
  /\ want = [t \in Thread |-> None]
  /\ saved = [t \in Thread |-> FALSE]
  /\ tp = [t \in Thread |-> None]
  /\ panicked = {}

-----------------------------------------------------------------------------
(* push_off and pop_off on the state of one hart.                          *)

\* mutant: interrupts stay on under the lock
push_off_enabled(r) ==
  [intr |-> r.intr, noff |-> r.noff + 1,
   intena |-> IF r.noff = 0 THEN r.intr ELSE r.intena]

push_off(r) ==
  [intr |-> FALSE, noff |-> r.noff + 1,
   intena |-> IF r.noff = 0 THEN r.intr ELSE r.intena]

\* mutant: the count is taken down twice
pop_off_twice(r) ==
  [r EXCEPT !.noff = @ - 2, !.intr = r.intr \/ (r.noff <= 2 /\ r.intena)]

pop_off(r) ==
  [r EXCEPT !.noff = @ - 1, !.intr = r.intr \/ (r.noff = 1 /\ r.intena)]

\* pop_off's own panics: interrupts on, or no push_off to undo.
Unmatched(r) == r.intr \/ r.noff < 1

\* The hart has entered a trap handler, or executed intr_off.
Off(r) == [r EXCEPT !.intr = FALSE]

\* The hart has executed intr_on, or sret to code that had interrupts on.
On(r) == [r EXCEPT !.intr = TRUE]

holding(c, l) == lock[l] = c

\* acquire(l) can pass on hart c at once: the lock is free, or the panic
\* "acquire" is due.
Passes(c, l) == lock[l] \in {None, c}

Held(c) == {l \in SpinLock : holding(c, l)}

\* A failed assertion stops hart c, and only that.
Stops(c, failed) == panicked' = IF failed THEN panicked \cup {c} ELSE panicked

\* t runs on c, outside kerneltrap and not on its way into sched.
Runs(c, t) == cproc[c] = t /\ ~intrap[t] /\ t \notin has[t]
              /\ c \notin panicked

\* It is not in the middle of acquire, sleep or myproc.
At(c, t) == Runs(c, t) /\ pc[t] = "run" /\ tp[t] = None

Kernel(t) == mode[t] \in {"trap", "call", "exit"}

-----------------------------------------------------------------------------
(* Spinlocks.                                                              *)

\* acquire: interrupts go off, then the hart spins.  Taking a lock the hart
\* already holds is the panic "acquire".
acquire(c, t, l) ==
  /\ At(c, t) /\ Kernel(t)
  /\ \A k \in has[t] : k < l
  /\ cpu' = [cpu EXCEPT ![c] = push_off(@)]
  /\ pc' = [pc EXCEPT ![t] = "spin"]
  /\ want' = [want EXCEPT ![t] = l]
  /\ Stops(c, holding(c, l))
  /\ UNCHANGED <<cproc, lock, has, state, mode, intrap, saved, tp>>

\* The atomic swap succeeds.
acquire_swap(c, t) ==
  /\ Runs(c, t) /\ pc[t] = "spin"
  /\ lock[want[t]] = None
  /\ lock' = [lock EXCEPT ![want[t]] = c]
  /\ has' = [has EXCEPT ![t] = @ \cup {want[t]}]
  /\ pc' = [pc EXCEPT ![t] = "run"]
  /\ want' = [want EXCEPT ![t] = None]
  /\ UNCHANGED <<cpu, cproc, state, mode, intrap, saved, tp, panicked>>

\* release of a lock this thread took, wherever it runs now; a hart that does
\* not hold it panics.
release(c, t, l) ==
  /\ At(c, t) /\ l \in has[t]
  /\ lock' = [lock EXCEPT ![l] = None]
  /\ has' = [has EXCEPT ![t] = @ \ {l}]
  /\ cpu' = [cpu EXCEPT ![c] = pop_off(@)]
  /\ Stops(c, ~holding(c, l) \/ Unmatched(cpu[c]))
  /\ UNCHANGED <<cproc, state, mode, pc, intrap, want, saved, tp>>

-----------------------------------------------------------------------------
(* Giving up the CPU: the part before sched.                               *)

\* yield, as usertrap calls it after a timer interrupt: acquire(&p->lock),
\* then the state.
yield(c, t) ==
  /\ At(c, t) /\ mode[t] = "trap" /\ has[t] = {}
  /\ Passes(c, t)
  /\ cpu' = [cpu EXCEPT ![c] = push_off(@)]
  /\ lock' = [lock EXCEPT ![t] = c]
  /\ has' = [has EXCEPT ![t] = {t}]
  /\ state' = [state EXCEPT ![t] = "RUNNABLE"]
  /\ Stops(c, holding(c, t))
  /\ UNCHANGED <<cproc, mode, pc, intrap, want, saved, tp>>

\* mutant: l is not released
GiveUp_keeps(c, t, l, s) ==
  /\ At(c, t) /\ has[t] = {l}
  /\ Passes(c, t)
  /\ cpu' = [cpu EXCEPT ![c] = push_off(@)]
  /\ lock' = [lock EXCEPT ![t] = c]
  /\ has' = [has EXCEPT ![t] = @ \cup {t}]
  /\ state' = [state EXCEPT ![t] = s]
  /\ Stops(c, holding(c, t))
  /\ UNCHANGED <<cproc, mode, intrap, saved, tp>>

\* acquire(&p->lock), p->state = s and release(l): the order the two last
\* have in sleep is the other one, which nobody without p->lock can see.
GiveUp(c, t, l, s) ==
  /\ At(c, t) /\ has[t] = {l}
  /\ Passes(c, t)
  /\ cpu' = [cpu EXCEPT ![c] = pop_off(push_off(@))]
  /\ lock' = [lock EXCEPT ![t] = c, ![l] = None]
  /\ has' = [has EXCEPT ![t] = {t}]
  /\ state' = [state EXCEPT ![t] = s]
  /\ Stops(c, holding(c, t) \/ ~holding(c, l) \/ Unmatched(push_off(cpu[c])))
  /\ UNCHANGED <<cproc, mode, intrap, saved, tp>>

\* sleep(chan, l).  When the thread is woken it releases p->lock and takes l
\* again.  exit(-1) of a killed process sleeps too, in file_close, begin_op
\* and iput, with interrupts off.
sleep(c, t, l) ==
  /\ mode[t] \in {"call", "exit"}
  /\ GiveUp(c, t, l, "SLEEPING")
  /\ pc' = [pc EXCEPT ![t] = "asleep"]
  /\ want' = [want EXCEPT ![t] = l]

\* The end of exit, which holds wait_lock; the thread does not come back.
exit(c, t, l) ==
  /\ mode[t] \in {"call", "exit"}
  /\ GiveUp(c, t, l, "ZOMBIE")
  /\ UNCHANGED <<pc, want>>

\* wakeup or kill, by some other thread or an interrupt handler, which takes
\* p->lock for it.
wakeup(t) ==
  /\ state[t] = "SLEEPING" /\ lock[t] = None
  /\ state' = [state EXCEPT ![t] = "RUNNABLE"]
  /\ UNCHANGED <<cpu, cproc, lock, has, mode, pc, intrap, want, saved, tp,
                 panicked>>

\* The parent has waited for it, and its slot is that of a new process.
fork(t) ==
  /\ state[t] = "ZOMBIE" /\ lock[t] = None
  /\ state' = [state EXCEPT ![t] = "RUNNABLE"]
  /\ mode' = [mode EXCEPT ![t] = "new"]
  /\ UNCHANGED <<cpu, cproc, lock, has, pc, intrap, want, saved, tp,
                 panicked>>

-----------------------------------------------------------------------------
(* Switching between threads.                                              *)

\* sched's four panics.
Unswitchable(c, t) ==
  \/ ~holding(c, t)
  \/ cpu[c].noff # 1
  \/ state[t] = "RUNNING"
  \/ cpu[c].intr

\* mutant: intena is not saved
sched_unsaved(c, t) ==
  /\ c \notin panicked /\ cproc[c] = t /\ t \in has[t]
  /\ cproc' = [cproc EXCEPT ![c] = None]
  /\ lock' = [lock EXCEPT ![t] = None]
  /\ has' = [has EXCEPT ![t] = @ \ {t}]
  /\ cpu' = [cpu EXCEPT ![c] = On(pop_off(@))]
  /\ Stops(c, Unswitchable(c, t) \/ Unmatched(cpu[c]))
  /\ UNCHANGED <<state, mode, pc, intrap, want, saved, tp>>

\* sched: the assertions, the saving of intena and swtch to scheduler(),
\* which clears c->proc, releases p->lock and turns interrupts on for its
\* next round.
sched(c, t) ==
  /\ c \notin panicked /\ cproc[c] = t /\ t \in has[t]
  /\ saved' = [saved EXCEPT ![t] = cpu[c].intena]
  /\ cproc' = [cproc EXCEPT ![c] = None]
  /\ lock' = [lock EXCEPT ![t] = None]
  /\ has' = [has EXCEPT ![t] = @ \ {t}]
  /\ cpu' = [cpu EXCEPT ![c] = On(pop_off(@))]
  /\ Stops(c, Unswitchable(c, t) \/ Unmatched(cpu[c]))
  /\ UNCHANGED <<state, mode, pc, intrap, want, tp>>

\* What a thread's hart looks like when scheduler() has taken p->lock and
\* switched to it, up to the thread's own release of p->lock.
Resumed(c, t) == pop_off([push_off(cpu[c]) EXCEPT !.intena = saved[t]])

\* scheduler() takes p->lock of a RUNNABLE thread and switches to it: a new
\* one leaves forkret for user mode, one that yielded is back in its handler,
\* one that slept goes on to retake its lock.
scheduler(c, t) ==
  /\ c \notin panicked /\ cproc[c] = None
  /\ Passes(c, t) /\ state[t] = "RUNNABLE"
  /\ cproc' = [cproc EXCEPT ![c] = t]
  /\ state' = [state EXCEPT ![t] = "RUNNING"]
  /\ \/ /\ mode[t] = "new"
        /\ cpu' = [cpu EXCEPT ![c] = On(Off(pop_off(push_off(@))))]
        /\ mode' = [mode EXCEPT ![t] = "user"]
        /\ UNCHANGED pc
     \/ /\ mode[t] # "new"
        /\ cpu' = [cpu EXCEPT ![c] = Resumed(c, t)]
        /\ pc' = [pc EXCEPT ![t] = IF @ = "asleep" THEN "relock" ELSE @]
        /\ UNCHANGED mode
  /\ Stops(c, holding(c, t))
  /\ UNCHANGED <<lock, has, intrap, want, saved, tp>>

\* mutant: the lock is retaken without push_off
relock_bare(c, t) ==
  /\ Runs(c, t) /\ pc[t] = "relock"
  /\ pc' = [pc EXCEPT ![t] = "spin"]
  /\ UNCHANGED <<cpu, cproc, lock, has, state, mode, intrap, want, saved,
                 tp, panicked>>

\* sleep's acquire(lk) after the thread was woken.
relock(c, t) ==
  /\ Runs(c, t) /\ pc[t] = "relock"
  /\ cpu' = [cpu EXCEPT ![c] = push_off(@)]
  /\ pc' = [pc EXCEPT ![t] = "spin"]
  /\ Stops(c, holding(c, want[t]))
  /\ UNCHANGED <<cproc, lock, has, state, mode, intrap, want, saved, tp>>

-----------------------------------------------------------------------------
(* Interrupts taken in supervisor mode.                                    *)

\* A handler's acquire(d) and release(d), and the p->locks that wakeup takes
\* and releases in between, on the state of its hart.
Section(r) == pop_off(push_off(r))

\* The handler's lock is one its hart holds: it would spin for good, were it
\* not for the panic "acquire".
Recurses(c, d) == holding(c, d) \/ Unmatched(push_off(Off(cpu[c])))

\* An interrupt that does not switch threads, from the first instruction of
\* kernelvec to its sret: a device interrupt of the uart or the disk, taken
\* by kernel code or in scheduler(), and the timer's in scheduler().
devintr(c, d) ==
  /\ c \notin panicked /\ cpu[c].intr /\ d \in Irq
  /\ \/ cproc[c] = None
     \/ d # Tick /\ cproc[c] # None /\ Kernel(cproc[c])
  /\ d = Tick => c = Hart0
  /\ Passes(c, d)
  /\ cpu' = [cpu EXCEPT ![c] = On(Section(Off(@)))]
  /\ Stops(c, Recurses(c, d))
  /\ UNCHANGED <<cproc, lock, has, state, mode, pc, intrap, want, saved, tp>>

\* A timer interrupt in kernel code: on hart 0 clockintr takes and releases
\* tickslock; then yield takes p->lock.
timer(c, t) ==
  LET r == Off(cpu[c]) IN
  /\ c \notin panicked /\ cproc[c] = t /\ cpu[c].intr /\ Kernel(t)
  /\ state[t] = "RUNNING"
  /\ c = Hart0 => Passes(c, Tick)
  /\ Passes(c, t)
  /\ cpu' = [cpu EXCEPT ![c] = push_off(IF c = Hart0 THEN Section(r) ELSE r)]
  /\ intrap' = [intrap EXCEPT ![t] = TRUE]
  /\ lock' = [lock EXCEPT ![t] = c]
  /\ has' = [has EXCEPT ![t] = @ \cup {t}]
  /\ state' = [state EXCEPT ![t] = "RUNNABLE"]
  /\ Stops(c, holding(c, t) \/ (c = Hart0 /\ Recurses(c, Tick)))
  /\ UNCHANGED <<cproc, mode, pc, want, saved, tp>>

\* kerneltrap restores sstatus and kernelvec executes sret.
kerneltrap(c, t) ==
  /\ c \notin panicked /\ cproc[c] = t /\ intrap[t] /\ t \notin has[t]
  /\ cpu' = [cpu EXCEPT ![c] = On(@)]
  /\ intrap' = [intrap EXCEPT ![t] = FALSE]
  /\ UNCHANGED <<cproc, lock, has, state, mode, pc, want, saved, tp,
                 panicked>>

-----------------------------------------------------------------------------
(* Entering and leaving the kernel, and myproc.                            *)

\* A system call, an exception or an interrupt, taken in user mode.  What
\* the handler of an interrupt does next, take locks and yield, are the steps
\* of mode "trap".
usertrap(c, t) ==
  /\ At(c, t) /\ mode[t] = "user"
  /\ cpu' = [cpu EXCEPT ![c] = Off(@)]
  /\ mode' = [mode EXCEPT ![t] = "trap"]
  /\ UNCHANGED <<cproc, lock, has, state, pc, intrap, want, saved, tp,
                 panicked>>

\* usertrap's intr_on before syscall().
syscall(c, t) ==
  /\ At(c, t) /\ mode[t] = "trap" /\ has[t] = {}
  /\ cpu' = [cpu EXCEPT ![c] = On(@)]
  /\ mode' = [mode EXCEPT ![t] = "call"]
  /\ UNCHANGED <<cproc, lock, has, state, pc, intrap, want, saved, tp,
                 panicked>>

\* usertrap finds the process killed before it has turned interrupts on, and
\* calls exit(-1).
exit_killed(c, t) ==
  /\ At(c, t) /\ mode[t] = "trap" /\ has[t] = {}
  /\ mode' = [mode EXCEPT ![t] = "exit"]
  /\ UNCHANGED <<cpu, cproc, lock, has, state, pc, intrap, want, saved, tp,
                 panicked>>

\* usertrapret: intr_off, then sret with SPIE set.
usertrapret(c, t) ==
  /\ At(c, t) /\ mode[t] \in {"trap", "call"} /\ has[t] = {}
  /\ cpu' = [cpu EXCEPT ![c] = On(Off(@))]
  /\ mode' = [mode EXCEPT ![t] = "user"]
  /\ UNCHANGED <<cproc, lock, has, state, pc, intrap, want, saved, tp,
                 panicked>>

\* myproc reads tp, ...
myproc_tp(c, t) ==
  /\ At(c, t) /\ Kernel(t)
  /\ tp' = [tp EXCEPT ![t] = c]
  /\ UNCHANGED <<cpu, cproc, lock, has, state, mode, pc, intrap, want, saved,
                 panicked>>

\* ... then loads cpus[tp].proc, and returns it.
Loaded(t) == cproc[tp[t]]

myproc_load(c, t) ==
  /\ Runs(c, t) /\ tp[t] # None
  /\ tp' = [tp EXCEPT ![t] = None]
  /\ UNCHANGED <<cpu, cproc, lock, has, state, mode, pc, intrap, want, saved,
                 panicked>>

Next ==
  \/ \E c \in CPU, t \in Thread :
       \/ \E l \in Lock : \/ acquire(c, t, l) \/ release(c, t, l)
                          \/ sleep(c, t, l) \/ exit(c, t, l)
       \/ acquire_swap(c, t) \/ relock(c, t)
       \/ yield(c, t) \/ sched(c, t) \/ scheduler(c, t)
       \/ timer(c, t) \/ kerneltrap(c, t)
       \/ usertrap(c, t) \/ syscall(c, t) \/ exit_killed(c, t)
       \/ usertrapret(c, t)
       \/ myproc_tp(c, t) \/ myproc_load(c, t)
  \/ \E c \in CPU, d \in Irq : devintr(c, d)
  \/ \E t \in Thread : wakeup(t) \/ fork(t)

Spec == Init /\ [][Next]_vars

-----------------------------------------------------------------------------

\* None of the assertions of acquire, release, pop_off and sched fails: no
\* hart takes a lock it holds (an interrupt handler included), a thread
\* releases its locks on the hart that took them, every pop_off undoes a
\* push_off with interrupts off, and a thread enters sched with p->lock, only
\* p->lock, and a state other than RUNNING.
NoPanic == panicked = {}

\* spinlock.c, above push_off: "it takes two pop_off()s to undo two
\* push_off()s.  Also, if interrupts are initially off, then push_off,
\* pop_off leaves them off."  A running thread that holds no lock has
\* interrupts on, unless it is in usertrap before intr_on, in the exit(-1)
\* such a usertrap calls or in an interrupt handler; it has them off while it
\* holds one.  So whatever the threads and the handlers that ran on the hart
\* in between did to intena.
IntrRestored ==
  \A c \in CPU : \A t \in Thread :
    cproc[c] = t /\ pc[t] # "spin" =>
      cpu[c].intr = (has[t] = {} /\ mode[t] \in {"user", "call"} /\ ~intrap[t])

\* No two locks of one hart are lost track of: noff counts the locks the hart
\* holds or is spinning for, also after the thread has moved.
NestingExact ==
  \A c \in CPU :
    cpu[c].noff = Cardinality(Held(c)) +
                  Cardinality({t \in Thread : cproc[c] = t /\ pc[t] = "spin"})

\* A thread does not leave its hart between taking a spinlock and releasing
\* it: lk->cpu, which acquire sets from mycpu(), is the hart the thread is on,
\* and so is the hart whose proc its myproc is about to load.
HolderStays ==
  \A t \in Thread :
    /\ \A l \in has[t] : lock[l] # None /\ cproc[lock[l]] = t
    /\ has[t] \cap Lock # {} /\ tp[t] # None => Loaded(t) = t

\* proc.c, above myproc: "Return the current struct proc *".
MyprocIsSelf ==
  \A c \in CPU, t \in Thread : cproc[c] = t /\ tp[t] # None => Loaded(t) = t

=============================================================================
