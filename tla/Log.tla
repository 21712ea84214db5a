-------------------------------- MODULE Log --------------------------------
(***************************************************************************)
(* The redo log of src/kernel/log.c: group commit by concurrent file       *)
(* system calls, the buffer cache's copies of home blocks and their pins,  *)
(* the on-disk header and log blocks, a crash at any instant (one step     *)
(* writes at most one disk block), and recovery, which may crash in turn.  *)
(*                                                                         *)
(* Each critical section of log.lock is one step.  sleep(&log, &log.lock)  *)
(* is atomic with it, which is what module ProcTable establishes for       *)
(* sleep/wakeup.                                                           *)
(***************************************************************************)
EXTENDS Naturals, Sequences, FiniteSets

CONSTANTS Block,        \* home block numbers
          Val,          \* block contents
          NoVal,        \* "no buffer caches this block"
          Proc,         \* processes that make file system calls
          MAXOPBLOCKS,  \* most blocks one system call writes (param.h)
          LOGSIZE,      \* capacity of logheader.block (param.h)
          NLog,         \* sb.nlog: header block plus data blocks (mkfs.c)
          MaxCrashes    \* bound on crashes in a behaviour

ASSUME BlockAssumption == IsFiniteSet(Block) /\ Block # {}
ASSUME ProcAssumption == IsFiniteSet(Proc)
ASSUME NoValAssumption == NoVal \notin Val
ASSUME SizeAssumption == /\ MAXOPBLOCKS \in Nat \ {0}
                         /\ LOGSIZE \in Nat
                         /\ MAXOPBLOCKS <= LOGSIZE
                         /\ NLog \in Nat \ {0}
                         /\ MaxCrashes \in Nat

VARIABLES disk,         \* home blocks on the disk
          logdata,      \* log data blocks on the disk
          head,         \* header block on the disk: the blocks it names
          cache,        \* buffer cache copies of home blocks
          pin,          \* reference counts that log_write added to buffers
          lh,           \* log.lh, the header in memory
          outstanding,  \* log.outstanding
          committing,   \* log.committing
          tail,         \* loop index of write_log and install_trans
          pc,           \* where each process is in its system call
          wrote,        \* distinct blocks the current call of a process logged
          phase,        \* boot, install (recovery), up or panic
          crashes       \* crashes so far

diskVars == <<disk, logdata, head>>
logVars == <<lh, outstanding, committing, tail>>
bufVars == <<cache, pin>>
procVars == <<pc, wrote>>
sysVars == <<phase, crashes>>
vars == <<diskVars, logVars, bufVars, procVars, sysVars>>

Slot == 1 .. (NLog - 1)
CommitPc == {"write_log", "write_head", "install", "clear", "done"}

Logged == {lh[i] : i \in 1 .. Len(lh)}

\* What bufcache_read(b) returns: the cached copy, else the disk block.
View(b) == IF cache[b] = NoVal THEN disk[b] ELSE cache[b]

\* wakeup(&log): every process asleep in begin_op tests its condition again.
Woken == [p \in Proc |-> IF pc[p] = "asleep" THEN "begin" ELSE pc[p]]

\* Mutants of MustWait: the new call's own blocks are not counted; a commit in
\* progress is not waited for.
MustWaitOffByOne == \/ committing
                    \/ Len(lh) + outstanding * MAXOPBLOCKS > LOGSIZE

MustWaitNoCommit == Len(lh) + (outstanding + 1) * MAXOPBLOCKS > LOGSIZE

\* begin_op's condition to wait.
MustWait == \/ committing
            \/ Len(lh) + (outstanding + 1) * MAXOPBLOCKS > LOGSIZE

TypeOK == /\ disk \in [Block -> Val]
          /\ logdata \in [Slot -> Val]
          /\ head \in Seq(Block)
          /\ cache \in [Block -> Val \cup {NoVal}]
          /\ pin \in [Block -> Nat]
          /\ lh \in Seq(Block)
          /\ outstanding \in Nat
          /\ committing \in BOOLEAN
          /\ tail \in Nat
          /\ pc \in [Proc -> {"idle", "begin", "asleep", "op"} \cup CommitPc]
          /\ wrote \in [Proc -> SUBSET Block]
          /\ phase \in {"boot", "install", "up", "panic"}
          /\ crashes \in Nat

\* A freshly made file system (mkfs), about to be booted.  The log data
\* blocks may hold anything: an empty header names none of them.
Init == /\ disk \in [Block -> Val]
        /\ logdata \in [Slot -> Val]
        /\ head = <<>>
        /\ cache = [b \in Block |-> NoVal]
        /\ pin = [b \in Block |-> 0]
        /\ lh = <<>>
        /\ outstanding = 0
        /\ committing = FALSE
        /\ tail = 1
        /\ pc = [p \in Proc |-> "idle"]
        /\ wrote = [p \in Proc |-> {}]
        /\ phase = "boot"
        /\ crashes = 0
----------------------------------------------------------------------------
(* Recovery: initlog, run by the first process before any system call.     *)

read_head == /\ phase = "boot"
             /\ lh' = head
             /\ tail' = 1
             /\ phase' = "install"
             /\ UNCHANGED <<diskVars, bufVars, outstanding, committing,
                            procVars, crashes>>

\* One iteration of the loop of install_trans, without the unpin.
Install == /\ tail <= Len(lh)
           /\ disk' = [disk EXCEPT ![lh[tail]] = logdata[tail]]
           /\ cache' = [cache EXCEPT ![lh[tail]] = logdata[tail]]
           /\ tail' = tail + 1
           /\ UNCHANGED <<logdata, head, lh, outstanding, committing, sysVars>>

\* Mutant: install_trans ignores its argument and unpins in recovery too.
recover_install_unpins == /\ phase = "install"
                          /\ Install
                          /\ pin' = [pin EXCEPT ![lh[tail]] = @ - 1]
                          /\ UNCHANGED procVars

\* install_trans(1)
recover_install == /\ phase = "install"
                   /\ Install
                   /\ UNCHANGED <<pin, procVars>>

\* Mutant: a log that was not empty is left as it is.
recover_clear_skips == /\ phase = "install"
                       /\ tail > Len(lh)
                       /\ lh' = <<>>
                       /\ phase' = "up"
                       /\ UNCHANGED <<diskVars, bufVars, outstanding,
                                      committing, tail, procVars, crashes>>

\* log.lh.n = 0; write_head(): the log is empty and the system is up.
recover_clear == /\ phase = "install"
                 /\ tail > Len(lh)
                 /\ lh' = <<>>
                 /\ head' = <<>>
                 /\ phase' = "up"
                 /\ UNCHANGED <<disk, logdata, bufVars, outstanding, committing,
                                tail, procVars, crashes>>
----------------------------------------------------------------------------
(* File system calls.                                                      *)

begin_op(p) ==
  /\ phase = "up"
  /\ pc[p] \in {"idle", "begin"}
  /\ IF MustWait
     THEN /\ pc' = [pc EXCEPT ![p] = "asleep"]
          /\ UNCHANGED <<outstanding, wrote>>
     ELSE /\ pc' = [pc EXCEPT ![p] = "op"]
          /\ wrote' = [wrote EXCEPT ![p] = {}]
          /\ outstanding' = outstanding + 1
  /\ UNCHANGED <<diskVars, bufVars, lh, committing, tail, sysVars>>

\* Mutant: log_write does not pin the buffer.
log_write_unpinned(p, b, v) ==
  /\ phase = "up"
  /\ pc[p] = "op"
  /\ Cardinality(wrote[p] \cup {b}) <= MAXOPBLOCKS
  /\ Len(lh) < LOGSIZE /\ Len(lh) < NLog - 1
  /\ cache' = [cache EXCEPT ![b] = v]
  /\ wrote' = [wrote EXCEPT ![p] = @ \cup {b}]
  /\ lh' = IF b \in Logged THEN lh ELSE Append(lh, b)
  /\ UNCHANGED <<diskVars, pin, outstanding, committing, tail, pc, sysVars>>

\* bufcache_read(b), modify b->data, log_write(b), bufcache_release(b).  The
\* buffer's sleep-lock is held throughout, and no commit can start while p is
\* outstanding.  The caller keeps to MAXOPBLOCKS distinct blocks.
log_write(p, b, v) ==
  /\ phase = "up"
  /\ pc[p] = "op"
  /\ Cardinality(wrote[p] \cup {b}) <= MAXOPBLOCKS
  /\ cache' = [cache EXCEPT ![b] = v]
  /\ IF Len(lh) >= LOGSIZE \/ Len(lh) >= NLog - 1 \/ outstanding < 1
     THEN /\ phase' = "panic"
          /\ UNCHANGED <<lh, pin, wrote>>
     ELSE /\ wrote' = [wrote EXCEPT ![p] = @ \cup {b}]
          /\ IF b \in Logged
             THEN UNCHANGED <<lh, pin>>
             ELSE /\ lh' = Append(lh, b)
                  /\ pin' = [pin EXCEPT ![b] = @ + 1]
          /\ UNCHANGED phase
  /\ UNCHANGED <<diskVars, outstanding, committing, tail, pc, crashes>>

\* end_op up to the call of commit().  An empty transaction skips the disk.
end_op(p) ==
  /\ phase = "up"
  /\ pc[p] = "op"
  /\ outstanding' = outstanding - 1
  /\ IF committing
     THEN /\ phase' = "panic"
          /\ UNCHANGED <<committing, tail, pc>>
     ELSE /\ UNCHANGED phase
          /\ IF outstanding = 1
             THEN /\ committing' = TRUE
                  /\ tail' = 1
                  /\ pc' = [pc EXCEPT ![p] = IF lh = <<>> THEN "done"
                                             ELSE "write_log"]
             ELSE /\ pc' = [Woken EXCEPT ![p] = "idle"]
                  /\ UNCHANGED <<committing, tail>>
  /\ UNCHANGED <<diskVars, bufVars, lh, wrote, crashes>>
----------------------------------------------------------------------------
(* commit(), run by the process whose end_op found no other call           *)
(* outstanding.                                                            *)

write_log(p) ==
  /\ phase = "up"
  /\ pc[p] = "write_log"
  /\ IF tail <= Len(lh)
     THEN /\ logdata' = [logdata EXCEPT ![tail] = View(lh[tail])]
          /\ cache' = [cache EXCEPT ![lh[tail]] = View(lh[tail])]
          /\ tail' = tail + 1
          /\ UNCHANGED pc
     ELSE /\ pc' = [pc EXCEPT ![p] = "write_head"]
          /\ UNCHANGED <<logdata, cache, tail>>
  /\ UNCHANGED <<disk, head, pin, lh, outstanding, committing, wrote, sysVars>>

\* Mutant: commit() forgets the first write_head().
write_head_forgotten(p) ==
  /\ phase = "up"
  /\ pc[p] = "write_head"
  /\ tail' = 1
  /\ pc' = [pc EXCEPT ![p] = "install"]
  /\ UNCHANGED <<diskVars, bufVars, lh, outstanding, committing, wrote, sysVars>>

\* The true point at which the transaction commits.
write_head(p) ==
  /\ phase = "up"
  /\ pc[p] = "write_head"
  /\ head' = lh
  /\ tail' = 1
  /\ pc' = [pc EXCEPT ![p] = "install"]
  /\ UNCHANGED <<disk, logdata, bufVars, lh, outstanding, committing, wrote,
                 sysVars>>

\* install_trans(0)
install_trans(p) ==
  /\ phase = "up"
  /\ pc[p] = "install"
  /\ \/ /\ Install
        /\ pin' = [pin EXCEPT ![lh[tail]] = @ - 1]
        /\ UNCHANGED procVars
     \/ /\ tail > Len(lh)
        /\ pc' = [pc EXCEPT ![p] = "clear"]
        /\ UNCHANGED <<diskVars, bufVars, logVars, wrote, sysVars>>

\* log.lh.n = 0; write_head()
clear_log(p) ==
  /\ phase = "up"
  /\ pc[p] = "clear"
  /\ lh' = <<>>
  /\ head' = <<>>
  /\ pc' = [pc EXCEPT ![p] = "done"]
  /\ UNCHANGED <<disk, logdata, bufVars, outstanding, committing, tail, wrote,
                 sysVars>>

\* Mutant: the wakeup is missing.
commit_done_silent(p) ==
  /\ phase = "up"
  /\ pc[p] = "done"
  /\ committing' = FALSE
  /\ pc' = [pc EXCEPT ![p] = "idle"]
  /\ UNCHANGED <<diskVars, bufVars, lh, outstanding, tail, wrote, sysVars>>

\* The last critical section of end_op.
commit_done(p) ==
  /\ phase = "up"
  /\ pc[p] = "done"
  /\ committing' = FALSE
  /\ pc' = [Woken EXCEPT ![p] = "idle"]
  /\ UNCHANGED <<diskVars, bufVars, lh, outstanding, tail, wrote, sysVars>>
----------------------------------------------------------------------------
(* The buffer cache, as the log sees it.                                   *)

\* Anyone may read a block, inside or outside a transaction.
bufcache_read(b) == /\ phase = "up"
                    /\ cache' = [cache EXCEPT ![b] = View(b)]
                    /\ UNCHANGED <<diskVars, logVars, pin, procVars, sysVars>>

\* bufcache_get may recycle any buffer with no references.
bufcache_recycle(b) == /\ phase = "up"
                       /\ pin[b] = 0
                       /\ cache' = [cache EXCEPT ![b] = NoVal]
                       /\ UNCHANGED <<diskVars, logVars, pin, procVars, sysVars>>
----------------------------------------------------------------------------
\* Power failure or reset: memory is lost, the disk stays.
Crash == /\ crashes < MaxCrashes
         /\ crashes' = crashes + 1
         /\ phase' = "boot"
         /\ cache' = [b \in Block |-> NoVal]
         /\ pin' = [b \in Block |-> 0]
         /\ lh' = <<>>
         /\ outstanding' = 0
         /\ committing' = FALSE
         /\ tail' = 1
         /\ pc' = [p \in Proc |-> "idle"]
         /\ wrote' = [p \in Proc |-> {}]
         /\ UNCHANGED diskVars

CommitStep(p) == \/ write_log(p) \/ write_head(p) \/ install_trans(p)
                 \/ clear_log(p) \/ commit_done(p)

Recover == read_head \/ recover_install \/ recover_clear

Next == \/ Recover
        \/ \E p \in Proc : \/ begin_op(p)
                           \/ \E b \in Block, v \in Val : log_write(p, b, v)
                           \/ end_op(p)
                           \/ CommitStep(p)
        \/ \E b \in Block : bufcache_read(b) \/ bufcache_recycle(b)
        \/ Crash

Spec == Init /\ [][Next]_vars
----------------------------------------------------------------------------
(* Properties.                                                             *)

\* The disk contents that recovery would produce if the machine crashed now.
Durable == [b \in Block |->
              IF \E i \in 1 .. Len(head) : head[i] = b
              THEN logdata[CHOOSE i \in 1 .. Len(head) : head[i] = b]
              ELSE disk[b]]

\* The contents that a system call sees; until recovery ends there is none.
Volatile == IF phase \in {"up", "panic"} THEN [b \in Block |-> View(b)]
            ELSE Durable

InOp == {p \in Proc : pc[p] = "op"}

T == INSTANCE TxnDisk WITH durable <- Durable, volatile <- Volatile,
                           active <- InOp

\* Crash atomicity: log.c implements TxnDisk.  What a crash leaves behind,
\* at any point of commit() or of recovery itself, contains every write of a
\* system call or none (log.c:98-100, "the true point at which the current
\* transaction commits").
CrashAtomic == T!Spec

\* Write-ahead rule: a home block on the disk changes only to the contents
\* that the on-disk header already promises for it (install_trans runs after
\* write_head, in commit and in recovery).
WriteAhead == [][\A b \in Block :
                   disk'[b] # disk[b] => \E i \in 1 .. Len(head) :
                                           /\ head[i] = b
                                           /\ disk'[b] = logdata[i]]_vars

\* No lost wakeup: a process asleep in begin_op would go back to sleep if it
\* looked again, and somebody who will call wakeup(&log) is at work.
NoLostWakeup == \A p \in Proc :
                  pc[p] = "asleep" => /\ MustWait
                                      /\ committing \/ outstanding > 0

\* Log space that the calls in progress have reserved and not used.
Reserved == LET left[s \in SUBSET InOp] ==
                  IF s = {} THEN 0
                  ELSE LET p == CHOOSE p \in s : TRUE
                       IN MAXOPBLOCKS - Cardinality(wrote[p]) + left[s \ {p}]
            IN left[InOp]

\* begin_op admits a call only if the in-memory header can take all that the
\* admitted calls may still write, absorbed or not (log.c:132).
ReservationHolds == phase = "up" => Len(lh) + Reserved <= LOGSIZE

\* A commit works alone: while committing is set no call is in progress and
\* one process runs commit() (log.c:152-153 panics otherwise).
CommitAlone == committing => /\ outstanding = 0
                             /\ InOp = {}
                             /\ \E p \in Proc : /\ pc[p] \in CommitPc
                                                /\ \A q \in Proc \ {p} :
                                                     pc[q] \notin CommitPc

\* param.h:9-10 sizes the log so that calls of at most MAXOPBLOCKS blocks
\* each, admitted by begin_op, never see panic("too big a transaction").
NoPanic == phase # "panic"

\* The process that runs recovery is the first one, in forkret, and the only
\* one there is: whatever the lottery does, it is scheduled again.  Nothing
\* is assumed of the processes that make system calls.
Fairness == WF_vars(Recover)

FairSpec == Spec /\ Fairness

\* Recovery ends, also when a crash has cut an earlier recovery short and it
\* starts again from the header that one left: the system comes up, with the
\* log empty on the disk and in memory and no commit marked as running.
RecoveryEnds ==
  phase \in {"boot", "install"} ~>
    (phase = "up" /\ head = <<>> /\ lh = <<>> /\ ~committing)
=============================================================================
