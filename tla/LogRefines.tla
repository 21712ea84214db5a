----------------------------- MODULE LogRefines -----------------------------
(***************************************************************************)
(* From the invariant of LogProofs: the write-ahead rule, and that Log     *)
(* implements TxnDisk, so a crash exposes whole system calls only.  Only   *)
(* the write of the header moves the durable contents (TxnDisk's Commit);  *)
(* every other disk write leaves what recovery would produce as it was.    *)
(***************************************************************************)
EXTENDS LogProofs

\* A block is at one place in a header.
LEMMA Chosen ==
  ASSUME NEW h, Injective(h), NEW b, NEW i \in 1 .. Len(h), h[i] = b
  PROVE  (CHOOSE j \in 1 .. Len(h) : h[j] = b) = i
  BY DEF Injective

\* What recovery would leave in a block: the log block of the header's entry,
\* or the home block if there is none.
LEMMA DurableAt ==
  ASSUME LogInv, NEW b \in Block
  PROVE  /\ \A i \in 1 .. Len(head) : head[i] = b => Durable[b] = logdata[i]
         /\ (\A i \in 1 .. Len(head) : head[i] # b) => Durable[b] = disk[b]
  <1>1. ASSUME NEW i \in 1 .. Len(head), head[i] = b
        PROVE  Durable[b] = logdata[i]
    <2>1. (CHOOSE j \in 1 .. Len(head) : head[j] = b) = i
      BY <1>1, Chosen DEF LogInv, HeaderInv
    <2> QED BY ZenonT(60), <1>1, <2>1 DEF Durable
  <1>2. (\A i \in 1 .. Len(head) : head[i] # b) => Durable[b] = disk[b]
    BY DEF Durable
  <1> QED BY <1>1, <1>2

\* The same after a step.
LEMMA DurableAtPrime ==
  ASSUME LogInv', NEW b \in Block
  PROVE  /\ \A i \in 1 .. Len(head') : head'[i] = b => Durable'[b] = logdata'[i]
         /\ (\A i \in 1 .. Len(head') : head'[i] # b) => Durable'[b] = disk'[b]
  <1>1. ASSUME NEW i \in 1 .. Len(head'), head'[i] = b
        PROVE  Durable'[b] = logdata'[i]
    <2>1. (CHOOSE j \in 1 .. Len(head') : head'[j] = b) = i
      BY <1>1, Chosen DEF LogInv, HeaderInv
    <2> QED BY ZenonT(60), <1>1, <2>1 DEF Durable
  <1>2. (\A i \in 1 .. Len(head') : head'[i] # b) => Durable'[b] = disk'[b]
    BY DEF Durable
  <1> QED BY <1>1, <1>2

\* With an empty header the disk is what it is.
LEMMA DurableEmpty == head = <<>> => Durable = [b \in Block |-> disk[b]]
  BY DEF Durable

\* The same after a step.
LEMMA DurableEmptyPrime == head' = <<>> => Durable' = [b \in Block |-> disk'[b]]
  BY DEF Durable

\* Equal block by block is equal.
LEMMA DurableSame ==
  ASSUME \A b \in Block : Durable'[b] = Durable[b]
  PROVE  Durable' = Durable
  BY ZenonT(60) DEF Durable

\* A system that is up and stays up, and shows the same blocks.
LEMMA VolatileSame ==
  ASSUME phase \in {"up", "panic"}, phase' \in {"up", "panic"},
         \A b \in Block : View(b)' = View(b)
  PROVE  Volatile' = Volatile
  BY DEF Volatile

\* A step that changes neither contents nor calls in progress is a stutter.
LEMMA Stutter ==
  ASSUME Durable' = Durable, Volatile' = Volatile, InOp' = InOp
  PROVE  [T!Next]_(T!vars)
  BY DEF T!vars

\* A fresh file system is an initial state of TxnDisk.
LEMMA InitSim == Init => T!Init
  <1> SUFFICES ASSUME Init PROVE T!Init
    OBVIOUS
  <1>1. Durable \in [Block -> Val]
    BY DurableEmpty DEF Init
  <1>2. Volatile = Durable
    BY DEF Init, Volatile
  <1>3. InOp = {}
    BY DEF Init, InOp
  <1> QED BY <1>1, <1>2, <1>3 DEF T!Init

\* Recovery changes nothing that it would itself produce.
LEMMA RecoverSim ==
  ASSUME LogInv, LogInv', Recover
  PROVE  [T!Next]_(T!vars)
  <1> USE DEF diskVars, logVars, bufVars, procVars, sysVars
  <1>1. InOp' = InOp
    BY DEF Recover, read_head, recover_install, recover_clear, Install, InOp
  <1>2. CASE read_head
    <2>1. Durable' = Durable
      BY <1>2 DEF read_head, Durable
    <2>2. Volatile' = Volatile
      BY <1>2, <2>1 DEF read_head, Volatile
    <2> QED BY <1>1, <2>1, <2>2, Stutter
  <1>3. CASE recover_install
    <2>1. /\ lh = head /\ head' = head /\ logdata' = logdata
          /\ tail \in 1 .. Len(head) /\ disk' = [disk EXCEPT ![head[tail]] = logdata[tail]]
          /\ phase = "install" /\ phase' = "install"
      BY <1>3 DEF recover_install, Install, LogInv, BootInv, TypeOK
    <2>2. \A b \in Block : Durable'[b] = Durable[b]
      <3> SUFFICES ASSUME NEW b \in Block PROVE Durable'[b] = Durable[b]
        OBVIOUS
      <3>1. CASE \E i \in 1 .. Len(head) : head[i] = b
        BY <3>1, <2>1, DurableAt, DurableAtPrime
      <3>2. CASE \A i \in 1 .. Len(head) : head[i] # b
        <4>1. disk'[b] = disk[b]
          BY SMTT(40), <3>2, <2>1 DEF LogInv, TypeOK
        <4> QED BY <3>2, <4>1, <2>1, DurableAt, DurableAtPrime
      <3> QED BY <3>1, <3>2
    <2>3. Durable' = Durable
      BY <2>2, DurableSame
    <2>4. Volatile' = Volatile
      BY <2>1, <2>3 DEF Volatile
    <2> QED BY <1>1, <2>3, <2>4, Stutter
  <1>4. CASE recover_clear
    <2>1. /\ phase = "install" /\ phase' = "up" /\ head' = <<>> /\ disk' = disk
          /\ lh = head /\ lh \in Seq(Block) /\ tail > Len(lh) /\ tail \in Nat
      BY <1>4 DEF recover_clear, LogInv, TypeOK, BootInv
    <2>2. \A i \in 1 .. Len(head) : disk[head[i]] = logdata[i]
      BY <2>1 DEF LogInv, BootInv
    <2>3. \A b \in Block : Durable[b] = disk[b]
      BY <2>2, DurableAt
    <2>4. \A b \in Block : Durable'[b] = Durable[b]
      BY <2>1, <2>3, DurableEmptyPrime
    <2>5. Durable' = Durable
      BY <2>4, DurableSame
    <2>6. \A b \in Block : View(b)' = disk[b]
      BY <1>4, <2>1 DEF recover_clear, View, LogInv, BootInv
    <2>7. Volatile' = [b \in Block |-> disk[b]]
      BY <2>1, <2>6 DEF Volatile
    <2>8. Volatile = Durable /\ Durable = [b \in Block |-> disk[b]]
      BY ZenonT(60), <2>1, <2>3 DEF Volatile, Durable
    <2> QED BY <1>1, <2>5, <2>7, <2>8, Stutter
  <1> QED BY <1>2, <1>3, <1>4 DEF Recover
\* A process enters or leaves its system call, or waits to.
LEMMA CallSim ==
  ASSUME LogInv, NEW p \in Proc, begin_op(p) \/ end_op(p)
  PROVE  [T!Next]_(T!vars)
  <1> USE DEF diskVars, logVars, bufVars, procVars, sysVars
  <1>1. phase = "up" /\ phase' = "up"
    BY InOpCount DEF begin_op, end_op, LogInv, CountInv, InOp
  <1>2. Durable' = Durable
    BY ZenonT(60) DEF begin_op, end_op, Durable
  <1>3. Volatile' = Volatile
    <2>1. \A b \in Block : View(b)' = View(b)
      BY DEF begin_op, end_op, View
    <2> QED BY <1>1, <2>1, VolatileSame
  <1>4. CASE begin_op(p) /\ MustWait
    <2>1. InOp' = InOp
      BY <1>4 DEF begin_op, InOp, LogInv, TypeOK
    <2> QED BY <2>1, <1>2, <1>3, Stutter
  <1>5. CASE begin_op(p) /\ ~MustWait
    <2>1. InOp' = InOp \cup {p} /\ p \notin InOp
      BY <1>5 DEF begin_op, InOp, LogInv, TypeOK
    <2> QED BY <2>1, <1>2, <1>3 DEF T!Next, T!Begin
  <1>6. CASE end_op(p)
    <2>1. p \in InOp /\ ~committing
      BY <1>6, InOpCount DEF end_op, InOp, LogInv, CountInv
    <2>2. InOp' = InOp \ {p}
      BY ZenonT(60), <1>6, <2>1
      DEF end_op, InOp, Woken, LogInv, TypeOK, CommitPc
    <2> QED BY SMTT(40), <2>1, <2>2, <1>2, <1>3 DEF T!Next, T!End
  <1> QED BY <1>4, <1>5, <1>6

\* log_write is a write of a system call, whether absorbed or not.
LEMMA log_writeSim ==
  ASSUME LogInv, NEW p \in Proc, NEW b \in Block, NEW v \in Val,
         log_write(p, b, v)
  PROVE  [T!Next]_(T!vars)
  <1> USE DEF diskVars, logVars, bufVars, procVars, sysVars
  <1>1. Durable' = Durable
    BY DEF log_write, Durable
  <1>2. p \in InOp /\ InOp' = InOp
    BY DEF log_write, InOp
  <1>3. phase = "up" /\ phase' \in {"up", "panic"}
    BY DEF log_write
  <1>4. \A c \in Block : View(c)' = IF c = b THEN v ELSE View(c)
    BY NoValAssumption DEF log_write, View, LogInv, TypeOK
  <1>5. Volatile' = [Volatile EXCEPT ![b] = v]
    BY ZenonT(60), <1>3, <1>4 DEF Volatile
  <1> QED BY ZenonT(60), <1>1, <1>2, <1>5 DEF T!Next, T!Write

\* Filling the log leaves the durable contents alone: no header names it yet.
LEMMA write_logSim ==
  ASSUME LogInv, NEW p \in Proc, write_log(p)
  PROVE  [T!Next]_(T!vars)
  <1> USE DEF diskVars, logVars, bufVars, procVars, sysVars
  <1>1. /\ phase = "up" /\ phase' = "up" /\ pc[p] = "write_log"
        /\ UNCHANGED <<disk, head, lh>>
    BY DEF write_log
  <1>2. head = <<>>
    BY <1>1, Alone DEF LogInv, UpInv, Installing, CommitPc
  <1>3. Durable' = Durable
    BY <1>1, <1>2, DurableEmpty, DurableEmptyPrime
  <1>4. \A b \in Block : View(b)' = View(b)
    <2>1. cache' = cache \/ \E c \in Block : cache' = [cache EXCEPT ![c] = View(c)]
      BY <1>1 DEF write_log, LogInv, TypeOK, UpInv
    <2> QED BY <2>1, <1>1, ViewType DEF LogInv, TypeOK, View
  <1>5. InOp' = InOp
    BY <1>1 DEF write_log, InOp, LogInv, TypeOK
  <1>6. Volatile' = Volatile
    BY <1>1, <1>4, VolatileSame
  <1> QED BY <1>3, <1>5, <1>6, Stutter

\* The write of the header is the commit of everything volatile.
LEMMA write_headSim ==
  ASSUME LogInv, LogInv', NEW p \in Proc, write_head(p)
  PROVE  [T!Next]_(T!vars)
  <1> USE DEF diskVars, logVars, bufVars, procVars, sysVars
  <1>1. /\ phase = "up" /\ phase' = "up" /\ pc[p] = "write_head"
        /\ head' = lh /\ UNCHANGED <<disk, logdata, cache, pin, lh>>
        /\ pc' = [pc EXCEPT ![p] = "install"]
    BY DEF write_head
  <1>2. InOp = {} /\ InOp' = {}
    BY <1>1, Alone DEF InOp, CommitPc, LogInv, TypeOK
  <1>3. \A b \in Block : View(b)' = View(b)
    BY <1>1 DEF View
  <1>4. Volatile' = Volatile
    BY <1>1, <1>3, VolatileSame
  <1>5. ~Installing
    BY SMTT(40), <1>1, Alone DEF Installing, CommitPc
  <1>6. \A i \in 1 .. Len(lh) : logdata[i] = View(lh[i])
    BY <1>1 DEF LogInv, UpInv
  <1>7. \A b \in Block : Durable'[b] = View(b)
    <2> SUFFICES ASSUME NEW b \in Block PROVE Durable'[b] = View(b)
      OBVIOUS
    <2>1. CASE \E i \in 1 .. Len(lh) : lh[i] = b
      BY <2>1, <1>1, <1>6, DurableAtPrime
    <2>2. CASE \A i \in 1 .. Len(lh) : lh[i] # b
      <3>1. b \notin Pinned
        BY SMTT(40), <2>2 DEF Pinned
      <3>2. View(b) = disk[b]
        BY <3>1, <1>1 DEF LogInv, UpInv, View
      <3> QED BY <2>2, <3>2, <1>1, DurableAtPrime
    <2> QED BY <2>1, <2>2
  <1>8. Durable' = Volatile
    BY <1>1, <1>7 DEF Durable, Volatile
  <1> QED BY <1>2, <1>4, <1>8 DEF T!Next, T!Commit

\* Installing a block that the header names changes nothing durable.
LEMMA install_transSim ==
  ASSUME LogInv, LogInv', NEW p \in Proc, install_trans(p)
  PROVE  [T!Next]_(T!vars)
  <1> USE DEF diskVars, logVars, bufVars, procVars, sysVars
  <1>1. /\ phase = "up" /\ phase' = "up" /\ pc[p] = "install"
        /\ UNCHANGED <<logdata, head, lh>>
    BY DEF install_trans, Install
  <1>2. InOp' = InOp
    BY <1>1 DEF install_trans, Install, InOp, LogInv, TypeOK
  <1>3. CASE UNCHANGED <<disk, cache>>
    <2>1. Durable' = Durable
      BY <1>1, <1>3 DEF Durable
    <2>2. \A b \in Block : View(b)' = View(b)
      BY <1>3 DEF View
    <2> QED BY <1>1, <1>2, <2>1, <2>2, VolatileSame, Stutter
  <1>4. CASE Install
    <2>1. head = lh /\ lh \in Seq(Block) /\ tail \in 1 .. Len(lh)
      BY SMTT(40), <1>1, <1>4 DEF Install, LogInv, TypeOK, UpInv, Installing
    <2>2. lh[tail] \in Block /\ logdata[tail] = View(lh[tail])
      BY <1>1, <2>1 DEF LogInv, UpInv
    <2>3. /\ disk' = [disk EXCEPT ![lh[tail]] = logdata[tail]]
          /\ cache' = [cache EXCEPT ![lh[tail]] = logdata[tail]]
      BY SMTT(40), <1>4 DEF Install
    <2>4. \A b \in Block : View(b)' = View(b)
      BY SMTT(40), <2>2, <2>3, ViewType DEF LogInv, TypeOK, View
    <2>5. \A b \in Block : Durable'[b] = Durable[b]
      <3> SUFFICES ASSUME NEW b \in Block PROVE Durable'[b] = Durable[b]
        OBVIOUS
      <3>1. CASE \E i \in 1 .. Len(head) : head[i] = b
        BY <3>1, <1>1, DurableAt, DurableAtPrime
      <3>2. CASE \A i \in 1 .. Len(head) : head[i] # b
        <4>1. disk'[b] = disk[b]
          BY SMTT(40), <3>2, <2>1, <2>3 DEF LogInv, TypeOK
        <4> QED BY SMTT(40), <3>2, <4>1, <1>1, DurableAt, DurableAtPrime
      <3> QED BY <3>1, <3>2
    <2>6. Durable' = Durable
      BY <2>5, DurableSame
    <2> QED BY SMTT(40), <1>1, <1>2, <2>4, <2>6, VolatileSame, Stutter
  <1> QED BY <1>3, <1>4 DEF install_trans

\* Erasing the header after installation changes nothing durable.
LEMMA clear_logSim ==
  ASSUME LogInv, NEW p \in Proc, clear_log(p)
  PROVE  [T!Next]_(T!vars)
  <1> USE DEF diskVars, logVars, bufVars, procVars, sysVars
  <1>1. /\ phase = "up" /\ phase' = "up" /\ pc[p] = "clear"
        /\ head' = <<>> /\ UNCHANGED <<disk, logdata, cache>>
    BY DEF clear_log
  <1>2. InOp' = InOp
    BY <1>1 DEF clear_log, InOp, LogInv, TypeOK
  <1>3. head = lh /\ lh \in Seq(Block) /\ tail = Len(lh) + 1
    BY SMTT(40), <1>1 DEF LogInv, TypeOK, UpInv, Installing
  <1>4. \A i \in 1 .. Len(head) : disk[head[i]] = logdata[i]
    BY <1>1, <1>3 DEF LogInv, UpInv, Installing
  <1>5. \A b \in Block : Durable[b] = disk[b]
    BY <1>4, DurableAt
  <1>6. \A b \in Block : Durable'[b] = Durable[b]
    BY <1>1, <1>5, DurableEmptyPrime
  <1>7. Durable' = Durable
    BY <1>6, DurableSame
  <1>8. \A b \in Block : View(b)' = View(b)
    BY <1>1 DEF View
  <1> QED BY <1>1, <1>2, <1>7, <1>8, VolatileSame, Stutter

\* Steps in memory that show the same contents.
LEMMA MemorySim ==
  ASSUME LogInv,
         \/ \E p \in Proc : commit_done(p)
         \/ \E b \in Block : bufcache_read(b) \/ bufcache_recycle(b)
  PROVE  [T!Next]_(T!vars)
  <1> USE DEF diskVars, logVars, bufVars, procVars, sysVars
  <1>1. phase = "up" /\ phase' = "up" /\ UNCHANGED <<disk, logdata, head>>
    BY DEF commit_done, bufcache_read, bufcache_recycle
  <1>2. Durable' = Durable
    BY <1>1 DEF Durable
  <1>3. InOp' = InOp
    BY ZenonT(60)
    DEF commit_done, bufcache_read, bufcache_recycle, InOp, Woken, LogInv,
        TypeOK
  <1>4. \A b \in Block : View(b)' = View(b)
    <2>1. ASSUME NEW p \in Proc, commit_done(p)
          PROVE  \A b \in Block : View(b)' = View(b)
      BY <2>1 DEF commit_done, View
    <2>2. ASSUME NEW c \in Block, bufcache_read(c)
          PROVE  \A b \in Block : View(b)' = View(b)
      BY <2>2, ViewType DEF bufcache_read, View, LogInv, TypeOK
    <2>3. ASSUME NEW c \in Block, bufcache_recycle(c)
          PROVE  \A b \in Block : View(b)' = View(b)
      BY <2>3 DEF bufcache_recycle, View, LogInv, TypeOK, UpInv
    <2> QED BY <2>1, <2>2, <2>3
  <1> QED BY <1>1, <1>2, <1>3, <1>4, VolatileSame, Stutter

\* A crash falls back to the durable contents.
LEMMA CrashSim == Crash => T!Crash
  <1> SUFFICES ASSUME Crash PROVE T!Crash
    OBVIOUS
  <1>1. Durable' = Durable
    BY DEF Crash, diskVars, Durable
  <1>2. Volatile' = Durable'
    BY DEF Crash, Volatile
  <1>3. InOp' = {}
    BY DEF Crash, InOp
  <1> QED BY SMTT(40), <1>1, <1>2, <1>3 DEF T!Crash

\* Every step of the log is a step of TxnDisk or changes nothing it can see.
LEMMA NextSim == LogInv /\ LogInv' /\ [Next]_vars => [T!Next]_(T!vars)
  <1> SUFFICES ASSUME LogInv, LogInv', [Next]_vars PROVE [T!Next]_(T!vars)
    OBVIOUS
  <1>1. CASE UNCHANGED vars
    <2>1. UNCHANGED <<disk, logdata, head, cache, phase, pc>>
      BY <1>1 DEF vars, diskVars, bufVars, procVars, sysVars
    <2>2. Durable' = Durable /\ InOp' = InOp
      BY <2>1 DEF Durable, InOp
    <2>3. \A b \in Block : View(b)' = View(b)
      BY <2>1 DEF View
    <2>4. Volatile' = Volatile
      BY <2>1, <2>2, <2>3 DEF Volatile
    <2> QED BY <2>2, <2>4, Stutter
  <1>2. CASE Recover
    BY <1>2, RecoverSim
  <1>3. ASSUME NEW p \in Proc, begin_op(p) \/ end_op(p)
        PROVE  [T!Next]_(T!vars)
    BY <1>3, CallSim
  <1>4. ASSUME NEW p \in Proc, NEW b \in Block, NEW v \in Val, log_write(p, b, v)
        PROVE  [T!Next]_(T!vars)
    BY <1>4, log_writeSim
  <1>5. ASSUME NEW p \in Proc, CommitStep(p)
        PROVE  [T!Next]_(T!vars)
    BY <1>5, write_logSim, write_headSim, install_transSim, clear_logSim,
       MemorySim
    DEF CommitStep
  <1>6. ASSUME NEW b \in Block, bufcache_read(b) \/ bufcache_recycle(b)
        PROVE  [T!Next]_(T!vars)
    BY <1>6, MemorySim
  <1>7. CASE Crash
    BY <1>7, CrashSim DEF T!Next
  <1> QED BY <1>1, <1>2, <1>3, <1>4, <1>5, <1>6, <1>7 DEF Next

\* Crash atomicity of log.c: whatever instant the machine stops at, in commit,
\* in recovery or in the recovery from a failed recovery, what is found on the
\* disk is the state between system calls (log.c:98-100).
THEOREM CrashAtomicity == Spec => CrashAtomic
  BY InitInv, Inductive, InitSim, NextSim, PTL DEF Spec, CrashAtomic, T!Spec

\* The write-ahead rule of commit() and recover_from_log(): a home block on
\* the disk changes only to what the header on the disk promises.
THEOREM WriteAheadRule == Spec => WriteAhead
  <1> DEFINE Promised == \A b \in Block :
                disk'[b] # disk[b] => \E i \in 1 .. Len(head) :
                                        /\ head[i] = b
                                        /\ disk'[b] = logdata[i]
  <1>1. LogInv /\ [Next]_vars => [Promised]_vars
    <2> SUFFICES ASSUME LogInv, Next PROVE Promised
      OBVIOUS
    <2> USE DEF diskVars, logVars, bufVars, procVars, sysVars
    <2>1. Install /\ head = lh /\ tail >= 1 => Promised
      <3> SUFFICES ASSUME Install, head = lh, tail >= 1, NEW b \in Block, disk'[b] # disk[b]
                   PROVE  \E i \in 1 .. Len(head) : head[i] = b /\ disk'[b] = logdata[i]
        OBVIOUS
      <3>1. b = lh[tail] /\ disk'[b] = logdata[tail]
        BY DEF Install, LogInv, TypeOK
      <3>2. tail \in 1 .. Len(head)
        BY SMTT(40) DEF Install, LogInv, TypeOK
      <3> QED BY <3>1, <3>2
    <2>2. CASE recover_install
      BY SMTT(40), <2>1, <2>2 DEF recover_install, LogInv, BootInv
    <2>3. ASSUME NEW p \in Proc, install_trans(p) PROVE disk' = disk \/ Promised
      BY SMTT(40), <2>1, <2>3 DEF install_trans, LogInv, UpInv, Installing
    <2>4. recover_install \/ (\E p \in Proc : install_trans(p)) \/ disk' = disk
      BY ZenonT(60)
      DEF Next, Recover, CommitStep, read_head, recover_clear, begin_op,
          log_write,
             end_op, write_log, write_head, clear_log, commit_done, bufcache_read,
             bufcache_recycle, Crash, vars
    <2> QED BY SMTT(40), <2>2, <2>3, <2>4
  <1> QED BY InitInv, Inductive, <1>1, PTL DEF Spec, WriteAhead
=============================================================================
