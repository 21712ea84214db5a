----------------------------- MODULE LogProofs -----------------------------
(***************************************************************************)
(* Module Log implements TxnDisk, keeps the write-ahead rule and loses no  *)
(* wakeup, for every number of processes and blocks, every log size and    *)
(* any number of crashes.  LogInv relates the header on disk to the one in *)
(* memory, the buffers to the disk, and the progress of commit() and of    *)
(* recovery to both.                                                       *)
(***************************************************************************)
EXTENDS Log, FiniteSetTheorems, TLAPS

Injective(s) == \A i, j \in 1 .. Len(s) : s[i] = s[j] => i = j

\* A header names no block twice and has a log block for each.
HeaderInv == /\ Injective(head) /\ Len(head) <= NLog - 1
             /\ Injective(lh) /\ Len(lh) <= NLog - 1

\* Before the system is up nobody makes calls, and recovery has installed
\* the blocks before tail.
BootInv == phase \in {"boot", "install"} =>
             /\ \A p \in Proc : pc[p] = "idle"
             /\ outstanding = 0 /\ ~committing
             /\ \A b \in Block : pin[b] = 0 /\ cache[b] \in {NoVal, disk[b]}
             /\ phase = "install" =>
                  /\ lh = head
                  /\ tail \in 1 .. Len(lh) + 1
                  /\ \A i \in 1 .. Len(lh) : i < tail => disk[lh[i]] = logdata[i]

\* outstanding counts the calls in progress, one process commits, and it does
\* so alone; an empty system has an empty log.
CountInv == /\ outstanding = Cardinality(InOp)
            /\ committing <=> \E p \in Proc : pc[p] \in CommitPc
            /\ \A p, q \in Proc : pc[p] \in CommitPc /\ pc[q] \in CommitPc => p = q
            /\ committing => outstanding = 0
            /\ phase \in {"up", "panic"} /\ outstanding = 0 /\ ~committing => lh = <<>>
            /\ \A p \in Proc : pc[p] = "done" => lh = <<>>
            /\ NoLostWakeup

Installing == \E p \in Proc : pc[p] \in {"install", "clear"}

\* Blocks whose committed contents are not on their home block yet.
Pinned == {lh[i] : i \in {j \in 1 .. Len(lh) : Installing => j >= tail}}

\* While the system is up the header on disk is empty except during
\* installation, only pinned buffers differ from the disk, and the log blocks
\* before tail (all of them, from write_head on) hold the current contents.
UpInv == phase = "up" =>
           /\ head = IF Installing THEN lh ELSE <<>>
           /\ \A b \in Block : pin[b] = IF b \in Pinned THEN 1 ELSE 0
           /\ \A b \in Block \ Pinned : cache[b] \in {NoVal, disk[b]}
           /\ \A p \in Proc : pc[p] \in {"write_log", "install", "clear"} =>
                tail \in 1 .. Len(lh) + 1
           /\ \A p \in Proc : pc[p] = "write_log" =>
                \A i \in 1 .. Len(lh) : i < tail => logdata[i] = View(lh[i])
           /\ \A p \in Proc : pc[p] \in {"write_head", "install", "clear"} =>
                \A i \in 1 .. Len(lh) : logdata[i] = View(lh[i])
           /\ \A p \in Proc : pc[p] = "clear" => tail = Len(lh) + 1
           /\ Installing => \A i \in 1 .. Len(lh) :
                              i < tail => disk[lh[i]] = logdata[i]

LogInv == TypeOK /\ HeaderInv /\ BootInv /\ CountInv /\ UpInv
\* The calls in progress are finitely many.
LEMMA InOpCount == /\ IsFiniteSet(InOp) /\ Cardinality(InOp) \in Nat
                   /\ Cardinality(InOp) = 0 <=> InOp = {}
  <1>1. IsFiniteSet(InOp)
    BY ProcAssumption, FS_Subset DEF InOp
  <1> QED BY <1>1, FS_CardinalityType, FS_EmptySet

\* begin_op adds one ...
LEMMA InOpAdd == ASSUME NEW p, p \notin InOp
                 PROVE  Cardinality(InOp \cup {p}) = Cardinality(InOp) + 1
  BY InOpCount, FS_AddElement

\* ... and end_op removes one.
LEMMA InOpRemove == ASSUME NEW p \in InOp
                    PROVE  Cardinality(InOp \ {p}) = Cardinality(InOp) - 1
  BY InOpCount, FS_RemoveElement

\* LogInv holds for the disk that mkfs makes.
LEMMA InitInv == Init => LogInv
  <1> SUFFICES ASSUME Init PROVE LogInv
    OBVIOUS
  <1>1. TypeOK
    <2>1. /\ pc \in [Proc -> {"idle", "begin", "asleep", "op"} \cup CommitPc]
          /\ wrote \in [Proc -> SUBSET Block]
          /\ cache \in [Block -> Val \cup {NoVal}]
          /\ pin \in [Block -> Nat]
      BY DEF Init
    <2>2. head \in Seq(Block) /\ lh \in Seq(Block)
      BY DEF Init
    <2>3. outstanding \in Nat /\ tail \in Nat /\ crashes \in Nat
      BY DEF Init
    <2> QED BY ZenonT(60), <2>1, <2>2, <2>3 DEF Init, TypeOK
  <1>2. HeaderInv
    BY SizeAssumption DEF Init, HeaderInv, Injective
  <1>3. BootInv
    BY DEF Init, BootInv
  <1>4. CountInv
    <2>1. InOp = {}
      BY DEF Init, InOp
    <2> QED BY <2>1, FS_EmptySet DEF Init, CountInv, NoLostWakeup, CommitPc
  <1>5. UpInv
    BY DEF Init, UpInv
  <1> QED BY <1>1, <1>2, <1>3, <1>4, <1>5 DEF LogInv

\* bufcache_read returns contents, and caching them changes nothing.
LEMMA ViewType ==
  ASSUME TypeOK
  PROVE  \A b \in Block : View(b) \in Val /\ View(b) # NoVal
  BY NoValAssumption DEF TypeOK, View

\* A process in commit() is alone: no call is in progress and no other process
\* is in commit().
LEMMA Alone ==
  ASSUME LogInv, NEW p \in Proc, pc[p] \in CommitPc
  PROVE  /\ committing /\ outstanding = 0
         /\ \A q \in Proc \ {p} : pc[q] \notin CommitPc
         /\ \A q \in Proc : pc[q] # "op"
  BY InOpCount DEF LogInv, CountInv, InOp

\* The committing process moves on within commit().
LEMMA CountFrame ==
  ASSUME LogInv, NEW p \in Proc, pc[p] \in CommitPc, NEW l \in CommitPc,
         pc' = [pc EXCEPT ![p] = l], l = "done" => lh' = <<>>,
         UNCHANGED <<outstanding, committing>>
  PROVE  CountInv'
  <1>1. /\ committing' /\ outstanding' = 0
        /\ pc'[p] = l
        /\ \A q \in Proc \ {p} : pc'[q] = pc[q] /\ pc'[q] \notin CommitPc
    BY Alone DEF LogInv, TypeOK
  <1>2. InOp' = InOp
    BY <1>1, Alone DEF InOp, CommitPc
  <1>3. outstanding' = Cardinality(InOp')
    BY <1>2 DEF LogInv, CountInv
  <1>4. NoLostWakeup'
    BY <1>1 DEF NoLostWakeup, MustWait
  <1> QED BY <1>1, <1>3, <1>4 DEF CountInv, CommitPc

\* Steps that leave the disk, the buffers, the header and the committing
\* process alone keep UpInv.
LEMMA UpFrame ==
  ASSUME LogInv, UNCHANGED <<disk, logdata, head, cache, pin, lh, tail, phase>>,
         \A q \in Proc : pc[q] \in CommitPc \/ pc'[q] \in CommitPc => pc'[q] = pc[q]
  PROVE  UpInv'
  <1>1. \A q \in Proc, l \in CommitPc : pc'[q] = l <=> pc[q] = l
    OBVIOUS
  <1>2. Installing' <=> Installing
    BY <1>1 DEF Installing, CommitPc
  <1>3. Pinned' = Pinned
    BY <1>2 DEF Pinned
  <1>4. \A b \in Block : View(b)' = View(b)
    BY DEF View
  <1>5. \A i \in 1 .. Len(lh) : lh[i] \in Block
    BY DEF LogInv, TypeOK
  <1> SUFFICES ASSUME phase = "up" PROVE UpInv'
    BY DEF UpInv
  <1>6. head' = IF Installing' THEN lh' ELSE <<>>
    BY <1>2 DEF LogInv, UpInv
  <1>7. /\ \A b \in Block : pin'[b] = IF b \in Pinned' THEN 1 ELSE 0
        /\ \A b \in Block \ Pinned' : cache'[b] \in {NoVal, disk'[b]}
    BY <1>3 DEF LogInv, UpInv
  <1>8. \A q \in Proc : pc'[q] \in {"write_log", "install", "clear"} =>
          tail' \in 1 .. Len(lh') + 1
    BY <1>1 DEF LogInv, UpInv, CommitPc
  <1>9. \A q \in Proc : pc'[q] = "write_log" =>
          \A i \in 1 .. Len(lh) : i < tail => logdata[i] = View(lh[i])
    BY <1>1 DEF LogInv, UpInv, CommitPc
  <1>10. \A q \in Proc : pc'[q] \in {"write_head", "install", "clear"} =>
           \A i \in 1 .. Len(lh) : logdata[i] = View(lh[i])
    BY <1>1 DEF LogInv, UpInv, CommitPc
  <1>11. \A q \in Proc : pc'[q] = "clear" => tail' = Len(lh') + 1
    BY <1>1 DEF LogInv, UpInv, CommitPc
  <1>12. Installing' => \A i \in 1 .. Len(lh') : i < tail' => disk'[lh'[i]] = logdata'[i]
    BY <1>2 DEF LogInv, UpInv
  <1> QED
    BY <1>4, <1>5, <1>6, <1>7, <1>8, <1>9, <1>10, <1>11, <1>12 DEF UpInv, View

\* Buffers may come and go as long as what they show stays the same and only
\* pinned ones are dirty.
LEMMA BufFrame ==
  ASSUME LogInv, phase = "up",
         UNCHANGED <<disk, logdata, head, pin, lh, tail, pc, phase>>,
         \A c \in Block : View(c)' = View(c),
         \A c \in Block \ Pinned : cache'[c] \in {NoVal, disk[c]}
  PROVE  UpInv'
  <1>1. (Installing' <=> Installing) /\ Pinned' = Pinned
    BY DEF Installing, Pinned
  <1>2. \A i \in 1 .. Len(lh) : View(lh[i])' = View(lh[i])
    BY DEF View, LogInv, TypeOK
  <1>3. \A i \in 1 .. Len(lh') : View(lh[i])' = View(lh[i])
    BY <1>2
  <1> QED BY <1>1, <1>3 DEF LogInv, UpInv

\* Recovery starts with the header on the disk and nothing installed.
LEMMA read_headInv ==
  ASSUME LogInv, read_head
  PROVE  LogInv'
  <1> USE SizeAssumption, NoValAssumption DEF diskVars, logVars, bufVars, procVars, sysVars
  <1>1. TypeOK'
    BY
    DEF LogInv, TypeOK, HeaderInv, BootInv, UpInv, Installing, Pinned,
        View, Slot, CommitPc, read_head
  <1>2. HeaderInv'
    BY DEF LogInv, TypeOK, HeaderInv, Injective, read_head
  <1>3. BootInv'
    BY DEF LogInv, TypeOK, HeaderInv, Injective, BootInv, read_head
  <1>4. CountInv'
    <2>1. InOp' = InOp
      BY
      DEF LogInv, TypeOK, InOp, CommitPc, read_head, diskVars, logVars,
          bufVars, procVars, sysVars
    <2>2. outstanding' = Cardinality(InOp')
      BY <2>1
      DEF LogInv, CountInv, read_head, diskVars, logVars, bufVars,
          procVars, sysVars
    <2>3. NoLostWakeup'
      BY DEF LogInv, BootInv, NoLostWakeup, read_head
    <2> QED
      BY <2>2, <2>3
      DEF LogInv, TypeOK, CountInv, BootInv, InOp, CommitPc, read_head
  <1>5. UpInv'
    BY SMTT(40)
    DEF LogInv, TypeOK, HeaderInv, Injective, BootInv, CountInv, UpInv,
        Installing, Pinned, View, CommitPc, read_head
  <1> QED BY <1>1, <1>2, <1>3, <1>4, <1>5 DEF LogInv

\* Recovery installs one more block; earlier ones are other blocks.
LEMMA recover_installInv ==
  ASSUME LogInv, recover_install
  PROVE  LogInv'
  <1> USE SizeAssumption, NoValAssumption DEF diskVars, logVars, bufVars, procVars, sysVars
  <1>1. TypeOK'
    BY
    DEF LogInv, TypeOK, HeaderInv, BootInv, UpInv, Installing, Pinned,
        View, Slot, CommitPc, recover_install, Install
  <1>2. HeaderInv'
    BY DEF LogInv, TypeOK, HeaderInv, Injective, recover_install, Install
  <1>3. BootInv'
    BY
    DEF LogInv, TypeOK, HeaderInv, Injective, BootInv, recover_install,
        Install
  <1>4. CountInv'
    <2>1. InOp' = InOp
      BY
      DEF LogInv, TypeOK, InOp, CommitPc, recover_install, Install,
          diskVars, logVars, bufVars, procVars, sysVars
    <2>2. outstanding' = Cardinality(InOp')
      BY <2>1
      DEF LogInv, CountInv, recover_install, Install, diskVars, logVars,
          bufVars, procVars, sysVars
    <2>3. NoLostWakeup'
      BY SMTT(40)
      DEF LogInv, TypeOK, CountInv, NoLostWakeup, MustWait, CommitPc,
          recover_install, Install
    <2> QED
      BY <2>2, <2>3
      DEF LogInv, TypeOK, CountInv, BootInv, InOp, CommitPc,
          recover_install, Install
  <1>5. UpInv'
    BY SMTT(40)
    DEF LogInv, TypeOK, HeaderInv, Injective, BootInv, CountInv, UpInv,
        Installing, Pinned, View, CommitPc, recover_install, Install
  <1> QED BY <1>1, <1>2, <1>3, <1>4, <1>5 DEF LogInv

\* When recovery has installed everything the log is empty.
LEMMA recover_clearInv ==
  ASSUME LogInv, recover_clear
  PROVE  LogInv'
  <1> USE SizeAssumption, NoValAssumption DEF diskVars, logVars, bufVars, procVars, sysVars
  <1>1. TypeOK'
    BY
    DEF LogInv, TypeOK, HeaderInv, BootInv, UpInv, Installing, Pinned,
        View, Slot, CommitPc, recover_clear
  <1>2. HeaderInv'
    BY DEF LogInv, TypeOK, HeaderInv, Injective, recover_clear
  <1>3. BootInv'
    BY DEF LogInv, TypeOK, HeaderInv, Injective, BootInv, recover_clear
  <1>4. CountInv'
    <2>1. InOp' = InOp
      BY
      DEF LogInv, TypeOK, InOp, CommitPc, recover_clear, diskVars, logVars,
          bufVars, procVars, sysVars
    <2>2. outstanding' = Cardinality(InOp')
      BY <2>1
      DEF LogInv, CountInv, recover_clear, diskVars, logVars, bufVars,
          procVars, sysVars
    <2>3. NoLostWakeup'
      BY DEF LogInv, BootInv, NoLostWakeup, recover_clear
    <2> QED
      BY <2>2, <2>3
      DEF LogInv, TypeOK, CountInv, BootInv, InOp, CommitPc, recover_clear
  <1>5. UpInv'
    BY
    DEF LogInv, TypeOK, HeaderInv, Injective, BootInv, CountInv, UpInv,
        Installing, Pinned, View, CommitPc, recover_clear
  <1> QED BY <1>1, <1>2, <1>3, <1>4, <1>5 DEF LogInv

\* begin_op counts the call in, or sleeps for a reason.
LEMMA begin_opInv ==
  ASSUME LogInv, NEW p \in Proc, begin_op(p)
  PROVE  LogInv'
  <1> USE SizeAssumption, NoValAssumption DEF diskVars, logVars, bufVars, procVars, sysVars
  <1>1. TypeOK'
    <2>1. pc' \in [Proc -> {"idle", "begin", "asleep", "op"} \cup CommitPc]
      BY ZenonT(60) DEF LogInv, TypeOK, begin_op
    <2>2. wrote' \in [Proc -> SUBSET Block]
      BY ZenonT(60) DEF LogInv, TypeOK, begin_op
    <2>3. outstanding' \in Nat
      BY DEF LogInv, TypeOK, begin_op
    <2> QED BY <2>1, <2>2, <2>3 DEF LogInv, TypeOK, begin_op
  <1>2. HeaderInv'
    BY DEF LogInv, TypeOK, HeaderInv, Injective, begin_op, MustWait
  <1>3. BootInv'
    BY DEF LogInv, TypeOK, HeaderInv, Injective, BootInv, begin_op, MustWait
  <1>4. CountInv'
    <2>1. InOp' = IF MustWait THEN InOp ELSE InOp \cup {p}
      BY DEF LogInv, TypeOK, InOp, begin_op, MustWait
    <2>2. outstanding' = Cardinality(InOp')
      BY ZenonT(60), <2>1, InOpAdd
      DEF LogInv, TypeOK, CountInv, InOp, begin_op, MustWait
    <2>3. NoLostWakeup'
      BY
      DEF LogInv, TypeOK, CountInv, NoLostWakeup, MustWait, CommitPc,
          begin_op, MustWait
    <2> QED
      BY SMTT(40), <2>2, <2>3
      DEF LogInv, TypeOK, CountInv, BootInv, InOp, CommitPc, begin_op,
          MustWait
  <1>5. UpInv'
    <2>1. \A q \in Proc : pc[q] \in CommitPc \/ pc'[q] \in CommitPc => pc'[q] = pc[q]
      BY DEF LogInv, TypeOK, CommitPc, begin_op
    <2>2. UNCHANGED <<disk, logdata, head, cache, pin, lh, tail, phase>>
      BY DEF begin_op
    <2> QED BY <2>1, <2>2, UpFrame
  <1> QED BY <1>1, <1>2, <1>3, <1>4, <1>5 DEF LogInv

\* log_write pins what it dirties and enters it in the header once.
LEMMA log_writeInv ==
  ASSUME LogInv, NEW p \in Proc, NEW b \in Block, NEW v \in Val,
         log_write(p, b, v)
  PROVE  LogInv'
  <1> USE SizeAssumption, NoValAssumption DEF diskVars, logVars, bufVars, procVars,
      sysVars
  <1>1. phase = "up" /\ outstanding \in Nat /\ outstanding > 0 /\ ~committing
    BY InOpCount DEF LogInv, CountInv, InOp, log_write
  <1>2. \A q \in Proc : pc[q] \notin CommitPc /\ pc'[q] = pc[q]
    BY <1>1 DEF LogInv, CountInv, log_write
  <1>3. ~Installing /\ ~Installing'
    BY <1>2 DEF Installing, CommitPc
  <1>4. Pinned = Logged
    BY <1>3 DEF Pinned, Logged
  <1>5. lh \in Seq(Block)
    BY DEF LogInv, TypeOK
  <1>6. \/ lh' = lh /\ pin' = pin /\ phase' = "panic" /\ wrote' = wrote
        \/ lh' = lh /\ pin' = pin /\ phase' = "up" /\ b \in Logged
        \/ /\ lh' = Append(lh, b) /\ pin' = [pin EXCEPT ![b] = @ + 1]
           /\ phase' = "up" /\ b \notin Logged /\ Len(lh) < NLog - 1
    BY <1>1, <1>5 DEF log_write
  <1>7. TypeOK'
    <2>1. lh' \in Seq(Block)
      BY <1>5, <1>6
    <2>2. wrote' \in [Proc -> SUBSET Block]
      <3>1. wrote' = wrote \/ wrote' = [wrote EXCEPT ![p] = @ \cup {b}]
        BY DEF log_write
      <3>2. wrote \in [Proc -> SUBSET Block] /\ wrote[p] \cup {b} \in SUBSET Block
        BY DEF LogInv, TypeOK
      <3> QED BY <3>1, <3>2
    <2>3. pin' \in [Block -> Nat] /\ phase' \in {"up", "panic"}
      BY <1>6 DEF LogInv, TypeOK
    <2>4. cache' \in [Block -> Val \cup {NoVal}]
      BY DEF LogInv, TypeOK, log_write
    <2> QED BY <2>1, <2>2, <2>3, <2>4 DEF LogInv, TypeOK, log_write
  <1>8. (Len(lh') >= Len(lh) /\ Len(lh') \in Nat /\ lh' # <<>>) \/ lh' = lh
    BY <1>5, <1>6
  <1>9. HeaderInv'
    <2>1. CASE lh' = lh
      BY <2>1 DEF LogInv, HeaderInv, Injective, log_write
    <2>2. CASE lh' = Append(lh, b) /\ b \notin Logged /\ Len(lh) < NLog - 1
      <3>1. Len(lh') = Len(lh) + 1 /\ lh'[Len(lh) + 1] = b
        BY <2>2, <1>5
      <3>2. \A i \in 1 .. Len(lh) : lh'[i] = lh[i] /\ lh[i] # b
        BY <2>2, <1>5 DEF Logged
      <3>3. Injective(lh')
        BY <3>1, <3>2, <1>5 DEF LogInv, HeaderInv, Injective
      <3> QED BY <2>2, <3>1, <3>3, <1>5
      DEF LogInv, HeaderInv, Injective, log_write
    <2> QED BY <2>1, <2>2, <1>6
  <1>10. BootInv'
    BY <1>6 DEF BootInv
  <1>11. CountInv'
    <2>1. InOp' = InOp
      BY <1>2 DEF InOp
    <2>2. outstanding' = Cardinality(InOp')
      BY <2>1 DEF LogInv, CountInv, log_write
    <2>3. NoLostWakeup'
      <3> DEFINE R == (outstanding + 1) * MAXOPBLOCKS
      <3>1. R \in Nat
        BY <1>1
      <3>2. R' = R
        BY DEF log_write
      <3> HIDE DEF R
      <3>3. Len(lh) + R > LOGSIZE => Len(lh') + R > LOGSIZE
        BY <3>1, <1>5, <1>8
      <3> QED
        BY SMTT(40), <3>2, <3>3, <1>1, <1>2
        DEF R, LogInv, CountInv, NoLostWakeup, MustWait, log_write
    <2> QED
      BY <1>1, <1>2, <2>2, <2>3
      DEF LogInv, CountInv, CommitPc, log_write
  <1>12. UpInv'
    <2> SUFFICES ASSUME phase' = "up" PROVE UpInv'
      BY DEF UpInv
    <2>1. Pinned' = Pinned \cup {b}
      <3>1. Pinned' = {lh'[i] : i \in 1 .. Len(lh')}
        BY <1>3 DEF Pinned
      <3>2. CASE lh' = lh /\ b \in Logged
        BY <3>1, <3>2, <1>4 DEF Logged
      <3>3. CASE lh' = Append(lh, b)
        <4>1. Len(lh') = Len(lh) + 1 /\ lh'[Len(lh) + 1] = b
          BY <3>3, <1>5
        <4>2. \A i \in 1 .. Len(lh) : lh'[i] = lh[i]
          BY <3>3, <1>5
        <4>3. 1 .. Len(lh') = (1 .. Len(lh)) \cup {Len(lh) + 1}
          BY <4>1, <1>5
        <4> QED BY <3>1, <4>1, <4>2, <4>3, <1>4 DEF Logged
      <3> QED BY SMTT(40), <3>2, <3>3, <1>6
    <2>2. \A c \in Block : pin'[c] = IF c \in Pinned' THEN 1 ELSE 0
      BY <2>1, <1>1, <1>4, <1>6 DEF LogInv, TypeOK, UpInv
    <2>3. \A c \in Block \ Pinned' : cache'[c] \in {NoVal, disk'[c]}
      BY <2>1, <1>1 DEF LogInv, TypeOK, UpInv, log_write
    <2>4. head' = <<>>
      BY SMTT(40), <1>1, <1>3 DEF LogInv, UpInv, log_write
    <2> QED BY SMTT(40), <2>2, <2>3, <2>4, <1>2, <1>3 DEF UpInv, CommitPc
  <1> QED BY <1>7, <1>9, <1>10, <1>11, <1>12 DEF LogInv

\* end_op counts the call out; the last one starts the commit.
LEMMA end_opInv ==
  ASSUME LogInv, NEW p \in Proc, end_op(p)
  PROVE  LogInv'
  <1> USE SizeAssumption, NoValAssumption DEF diskVars, logVars, bufVars, procVars,
      sysVars
  <1>1. phase = "up" /\ outstanding \in Nat /\ outstanding > 0 /\ ~committing
    BY InOpCount DEF LogInv, CountInv, InOp, end_op
  <1>2. \A q \in Proc : pc[q] \notin CommitPc
    BY <1>1 DEF LogInv, CountInv
  <1>3. ~Installing
    BY <1>2 DEF Installing, CommitPc
  <1>4. /\ outstanding' = outstanding - 1
        /\ UNCHANGED <<disk, logdata, head, cache, pin, lh, wrote, phase, crashes>>
    BY <1>1 DEF end_op
  <1>5. \/ /\ outstanding = 1 /\ committing' = TRUE /\ tail' = 1
           /\ pc' = [pc EXCEPT ![p] = IF lh = <<>> THEN "done" ELSE "write_log"]
        \/ /\ outstanding # 1 /\ committing' = FALSE /\ tail' = tail
           /\ pc' = [Woken EXCEPT ![p] = "idle"]
    BY <1>1 DEF end_op, LogInv, TypeOK
  <1>6. pc \in [Proc -> {"idle", "begin", "asleep", "op"} \cup CommitPc]
    BY DEF LogInv, TypeOK
  <1>7. pc' \in [Proc -> {"idle", "begin", "asleep", "op"} \cup CommitPc]
    BY ZenonT(60), <1>5, <1>6 DEF Woken, CommitPc
  <1>8. TypeOK'
    <2>1. outstanding' \in Nat
      BY <1>1, <1>4
    <2>2. tail' \in Nat
      BY <1>5 DEF LogInv, TypeOK
    <2>3. committing' \in BOOLEAN
      BY ZenonT(60), <1>5
    <2> QED BY <1>4, <1>7, <2>1, <2>2, <2>3 DEF LogInv, TypeOK
  <1>9. HeaderInv'
    BY <1>4 DEF LogInv, HeaderInv, Injective
  <1>10. BootInv'
    BY <1>1, <1>4 DEF BootInv
  <1>11. CountInv'
    <2>1. p \in InOp /\ InOp' = InOp \ {p}
      BY ZenonT(60), <1>5, <1>6 DEF InOp, end_op, Woken, CommitPc
    <2>2. outstanding' = Cardinality(InOp')
      BY <2>1, <1>4, InOpRemove DEF LogInv, CountInv
    <2>3. CASE outstanding = 1
      <3>1. pc' = [pc EXCEPT ![p] = IF lh = <<>> THEN "done" ELSE "write_log"]
        BY <2>3, <1>5
      <3>2. committing' /\ outstanding' = 0 /\ lh' = lh
        BY <2>3, <1>4, <1>5
      <3>3. pc'[p] = IF lh = <<>> THEN "done" ELSE "write_log"
        BY <3>1, <1>6
      <3>4. \A q \in Proc \ {p} : pc'[q] = pc[q]
        BY <3>1, <1>6
      <3>5. NoLostWakeup'
        BY <3>2 DEF NoLostWakeup, MustWait
      <3> QED BY <3>2, <3>3, <3>4, <3>5, <2>2, <1>2 DEF CountInv, CommitPc
    <2>4. CASE outstanding # 1
      <3>1. \A q \in Proc : pc'[q] \notin CommitPc /\ pc'[q] # "asleep"
        BY ZenonT(60), <2>4, <1>2, <1>5, <1>6 DEF Woken, CommitPc
      <3>2. ~committing' /\ outstanding' > 0 /\ lh' = lh
        BY <2>4, <1>1, <1>4, <1>5
      <3> QED BY <3>1, <3>2, <2>2 DEF CountInv, NoLostWakeup, CommitPc
    <2> QED BY <2>3, <2>4
  <1>12. UpInv'
    <2>1. ~Installing'
      BY ZenonT(60), <1>2, <1>5, <1>6 DEF Installing, Woken, CommitPc
    <2>2. Pinned' = Pinned
      BY <2>1, <1>3, <1>4 DEF Pinned
    <2>3. \A q \in Proc : /\ pc'[q] \notin {"write_head", "install", "clear"}
                          /\ pc'[q] = "write_log" => tail' = 1
      BY ZenonT(60), <1>2, <1>5, <1>6 DEF Woken, CommitPc
    <2>4. lh \in Seq(Block)
      BY DEF LogInv, TypeOK
    <2>5. /\ head' = <<>>
          /\ \A b \in Block : pin'[b] = IF b \in Pinned' THEN 1 ELSE 0
          /\ \A b \in Block \ Pinned' : cache'[b] \in {NoVal, disk'[b]}
      BY <2>2, <1>1, <1>3, <1>4 DEF LogInv, UpInv
    <2>6. \A q \in Proc : pc'[q] = "write_log" =>
            \A i \in 1 .. Len(lh') : i < tail' => logdata'[i] = View(lh[i])'
      BY <2>3, <2>4, <1>4
    <2>7. Len(lh') \in Nat
      BY <2>4, <1>4
    <2>8. 1 \in 1 .. Len(lh') + 1
      BY <2>7
    <2>9. ASSUME NEW q \in Proc, pc'[q] \in {"write_log", "install", "clear"}
          PROVE  tail' \in 1 .. Len(lh') + 1
      <3>1. pc'[q] = "write_log"
        BY <2>3, <2>9
      <3>2. tail' = 1
        BY <3>1, <2>3
      <3> QED BY <3>2, <2>8
    <2> QED BY <2>1, <2>3, <2>5, <2>6, <2>9 DEF UpInv
  <1> QED BY <1>8, <1>9, <1>10, <1>11, <1>12 DEF LogInv

\* The log blocks before tail hold the current contents.
LEMMA write_logInv ==
  ASSUME LogInv, NEW p \in Proc, write_log(p)
  PROVE  LogInv'
  <1> USE SizeAssumption, NoValAssumption DEF diskVars, logVars, bufVars, procVars,
      sysVars
  <1>1. /\ phase = "up" /\ pc[p] = "write_log" /\ pc[p] \in CommitPc
        /\ UNCHANGED <<disk, head, pin, lh, outstanding, committing, wrote, phase,
                       crashes>>
    BY DEF write_log, CommitPc
  <1>2. \A q \in Proc \ {p} : pc[q] \notin CommitPc
    BY <1>1, Alone
  <1>3. lh \in Seq(Block) /\ tail \in 1 .. Len(lh) + 1 /\ Len(lh) <= NLog - 1
    BY <1>1 DEF LogInv, TypeOK, UpInv, HeaderInv
  <1>4. ~Installing
    BY <1>1, <1>2 DEF Installing, CommitPc
  <1>5. \A i \in 1 .. Len(lh) : lh[i] \in Block /\ i \in Slot
    BY SMTT(40), <1>3 DEF Slot
  <1>6. \A i \in 1 .. Len(lh) : i < tail => logdata[i] = View(lh[i])
    BY <1>1 DEF LogInv, UpInv
  <1>7. pc \in [Proc -> {"idle", "begin", "asleep", "op"} \cup CommitPc]
    BY DEF LogInv, TypeOK
  <1>8. HeaderInv'
    BY SMTT(40), <1>1 DEF LogInv, HeaderInv, Injective
  <1>9. BootInv'
    BY <1>1 DEF BootInv
  <1>10. CASE tail <= Len(lh)
    <2>1. /\ logdata' = [logdata EXCEPT ![tail] = View(lh[tail])]
          /\ cache' = [cache EXCEPT ![lh[tail]] = View(lh[tail])]
          /\ tail' = tail + 1 /\ pc' = pc
      BY <1>10 DEF write_log
    <2>2. tail \in 1 .. Len(lh) /\ lh[tail] \in Block /\ View(lh[tail]) \in Val
      BY SMTT(40), <1>3, <1>5, <1>10, ViewType DEF LogInv
    <2>3. TypeOK'
      BY SMTT(40), <1>1, <1>3, <1>5, <2>1, <2>2 DEF LogInv, TypeOK
    <2>4. \A b \in Block : View(b)' = View(b)
      BY SMTT(40), <1>1, <2>1, <2>2 DEF LogInv, TypeOK, View
    <2>5. Pinned' = Pinned /\ ~Installing' /\ lh[tail] \in Pinned
      BY <1>1, <1>4, <2>1, <2>2 DEF Installing, Pinned
    <2>6. CountInv'
      <3>1. InOp' = InOp /\ (NoLostWakeup' <=> NoLostWakeup)
        BY <1>1, <2>1 DEF InOp, NoLostWakeup, MustWait
      <3> QED BY <1>1, <2>1, <3>1 DEF LogInv, CountInv
    <2>7. \A i \in 1 .. Len(lh) : i < tail' => logdata'[i] = View(lh[i])
      BY SMTT(40), <1>3, <1>5, <1>6, <2>1, <2>2 DEF LogInv, TypeOK
    <2>8. \A i \in 1 .. Len(lh) : i < tail' => logdata'[i] = View(lh[i])'
      BY SMTT(40), <1>1, <1>5, <2>4, <2>7 DEF View
    <2>9. \A b \in Block \ Pinned' : cache'[b] \in {NoVal, disk'[b]}
      BY SMTT(40), <1>1, <2>1, <2>2, <2>5 DEF LogInv, TypeOK, UpInv
    <2>10. /\ head' = <<>>
           /\ \A b \in Block : pin'[b] = IF b \in Pinned' THEN 1 ELSE 0
           /\ tail' \in 1 .. Len(lh') + 1
      BY <1>1, <1>3, <1>4, <2>1, <2>2, <2>5 DEF LogInv, UpInv
    <2>11. \A q \in Proc : pc'[q] \notin {"write_head", "install", "clear"}
      BY SMTT(40), <1>1, <1>2, <2>1 DEF CommitPc
    <2>12. UpInv'
      BY SMTT(40), <1>1, <2>5, <2>8, <2>9, <2>10, <2>11 DEF UpInv
    <2> QED BY SMTT(40), <1>8, <1>9, <2>3, <2>6, <2>12 DEF LogInv
  <1>11. CASE ~(tail <= Len(lh))
    <2>1. pc' = [pc EXCEPT ![p] = "write_head"] /\ UNCHANGED <<logdata, cache, tail>>
      BY <1>11 DEF write_log
    <2>2. TypeOK'
      BY <1>1, <1>7, <2>1 DEF LogInv, TypeOK, CommitPc
    <2>3. CountInv'
      BY ZenonT(60), <1>1, <2>1, CountFrame DEF CommitPc
    <2>4. \A q \in Proc : pc'[q] \notin {"write_log", "install", "clear"}
      BY SMTT(40), <1>1, <1>2, <1>7, <2>1 DEF CommitPc
    <2>5. Pinned' = Pinned /\ ~Installing'
      BY <1>1, <1>4, <2>1, <2>4 DEF Installing, Pinned
    <2>6. \A i \in 1 .. Len(lh) : logdata[i] = View(lh[i])
      BY <1>3, <1>6, <1>11
    <2>7. \A i \in 1 .. Len(lh) : View(lh[i])' = View(lh[i])
      BY <1>1, <2>1 DEF View
    <2>8. \A i \in 1 .. Len(lh) : logdata'[i] = View(lh[i])'
      BY SMTT(40), <2>1, <2>6, <2>7
    <2>9. /\ head' = <<>>
          /\ \A b \in Block : pin'[b] = IF b \in Pinned' THEN 1 ELSE 0
          /\ \A b \in Block \ Pinned' : cache'[b] \in {NoVal, disk'[b]}
      BY SMTT(40), <1>1, <1>4, <2>1, <2>5 DEF LogInv, UpInv
    <2>10. UpInv'
      BY SMTT(40), <1>1, <2>4, <2>5, <2>8, <2>9 DEF UpInv
    <2> QED BY <1>8, <1>9, <2>2, <2>3, <2>10 DEF LogInv
  <1> QED BY <1>10, <1>11

\* The header on the disk becomes the one in memory.
LEMMA write_headInv ==
  ASSUME LogInv, NEW p \in Proc, write_head(p)
  PROVE  LogInv'
  <1> USE SizeAssumption, NoValAssumption DEF diskVars, logVars, bufVars, procVars, sysVars
  <1>1. TypeOK'
    BY SMTT(40)
    DEF LogInv, TypeOK, HeaderInv, BootInv, UpInv, Installing, Pinned,
        View, Slot, CommitPc, write_head
  <1>2. HeaderInv'
    BY DEF LogInv, TypeOK, HeaderInv, Injective, write_head
  <1>3. BootInv'
    BY DEF LogInv, TypeOK, HeaderInv, Injective, BootInv, write_head
  <1>4. CountInv'
    <2>1. InOp' = InOp
      BY
      DEF LogInv, TypeOK, InOp, CommitPc, write_head, diskVars, logVars,
          bufVars, procVars, sysVars
    <2>2. outstanding' = Cardinality(InOp')
      BY SMTT(40), <2>1
      DEF LogInv, CountInv, write_head, diskVars, logVars, bufVars,
          procVars, sysVars
    <2>3. NoLostWakeup'
      BY SMTT(40)
      DEF LogInv, TypeOK, CountInv, NoLostWakeup, MustWait, CommitPc,
          write_head
    <2> QED
      BY <2>2, <2>3
      DEF LogInv, TypeOK, CountInv, BootInv, InOp, CommitPc, write_head
  <1>5. UpInv'
    <2>1. /\ pc[p] = "write_head" /\ pc[p] \in CommitPc /\ phase = "up"
          /\ pc'[p] = "install" /\ tail' = 1 /\ head' = lh
          /\ UNCHANGED <<disk, logdata, cache, pin, lh>>
      BY SMTT(40) DEF write_head, CommitPc, LogInv, TypeOK
    <2>2. \A q \in Proc : pc'[q] \in CommitPc => q = p
      BY SMTT(40), <2>1, Alone DEF write_head, CommitPc, LogInv, TypeOK
    <2>3. ~Installing /\ Installing'
      BY <2>1, Alone DEF Installing, CommitPc
    <2>4. Pinned' = Pinned
      BY <2>1, <2>3 DEF Pinned, LogInv, TypeOK
    <2>5. Len(lh) \in Nat /\ \A i \in 1 .. Len(lh) : View(lh[i])' = View(lh[i])
      BY <2>1 DEF View, LogInv, TypeOK
    <2> QED BY <2>1, <2>2, <2>3, <2>4, <2>5 DEF LogInv, UpInv, CommitPc
  <1> QED BY <1>1, <1>2, <1>3, <1>4, <1>5 DEF LogInv

\* commit() installs one more block and unpins it.
LEMMA install_transInv ==
  ASSUME LogInv, NEW p \in Proc, install_trans(p)
  PROVE  LogInv'
  <1> USE SizeAssumption, NoValAssumption DEF diskVars, logVars, bufVars, procVars,
      sysVars
  <1>1. phase = "up" /\ pc[p] = "install" /\ pc[p] \in CommitPc
    BY DEF install_trans, CommitPc
  <1>2. \A q \in Proc \ {p} : pc[q] \notin CommitPc
    BY <1>1, Alone
  <1>3. Installing /\ head = lh
    BY <1>1 DEF LogInv, UpInv, Installing
  <1>4. /\ lh \in Seq(Block) /\ tail \in 1 .. Len(lh) + 1
        /\ Len(lh) <= NLog - 1 /\ Injective(lh)
    BY <1>1 DEF LogInv, TypeOK, UpInv, HeaderInv
  <1>5. \A i \in 1 .. Len(lh) : lh[i] \in Block /\ i \in Slot
    BY SMTT(40), <1>4 DEF Slot
  <1>6. \A i \in 1 .. Len(lh) : /\ logdata[i] = View(lh[i])
                                /\ i < tail => disk[lh[i]] = logdata[i]
    BY SMTT(40), <1>1, <1>3 DEF LogInv, UpInv
  <1>7. pc \in [Proc -> {"idle", "begin", "asleep", "op"} \cup CommitPc]
    BY DEF LogInv, TypeOK
  <1>8. CASE Install /\ pin' = [pin EXCEPT ![lh[tail]] = @ - 1] /\ UNCHANGED procVars
    <2> DEFINE b == lh[tail]
               x == logdata[tail]
    <2>1. /\ disk' = [disk EXCEPT ![b] = x] /\ cache' = [cache EXCEPT ![b] = x]
          /\ pin' = [pin EXCEPT ![b] = @ - 1] /\ tail' = tail + 1
          /\ UNCHANGED <<logdata, head, lh, outstanding, committing, phase, crashes,
                         pc, wrote>>
      BY SMTT(40), <1>8 DEF Install
    <2>2. /\ tail \in 1 .. Len(lh) /\ tail \in Slot /\ b \in Block /\ x \in Val
          /\ x # NoVal /\ x = View(b)
      BY SMTT(40), <1>4, <1>5, <1>6, <1>8 DEF Install, LogInv, TypeOK
    <2>3. b \in Pinned /\ pin[b] = 1
      <3>1. tail \in {j \in 1 .. Len(lh) : Installing => j >= tail}
        BY <2>2
      <3>2. b \in Pinned
        BY <3>1 DEF Pinned
      <3> QED BY <1>1, <2>2, <3>2 DEF LogInv, UpInv
    <2> HIDE DEF b, x
    <2>4. TypeOK'
      <3>1. /\ disk' \in [Block -> Val] /\ cache' \in [Block -> Val \cup {NoVal}]
            /\ pin' \in [Block -> Nat]
        BY <2>1, <2>2, <2>3 DEF LogInv, TypeOK
      <3> QED BY <3>1, <2>1, <2>2 DEF LogInv, TypeOK
    <2>5. \A c \in Block : View(c)' = View(c)
      BY <2>1, <2>2 DEF LogInv, TypeOK, View
    <2>6. Installing'
      BY <1>3, <2>1 DEF Installing
    <2>7. Pinned' = Pinned \ {b}
      <3>1. Pinned = {lh[i] : i \in {j \in 1 .. Len(lh) : j >= tail}}
        BY <1>3 DEF Pinned
      <3>2. Pinned' = {lh[i] : i \in {j \in 1 .. Len(lh) : j >= tail + 1}}
        BY <2>1, <2>6 DEF Pinned
      <3>3. \A i \in 1 .. Len(lh) : lh[i] = b => i = tail
        BY <1>4, <2>2 DEF b, Injective
      <3>4. \A i \in 1 .. Len(lh) : i >= tail <=> i = tail \/ i >= tail + 1
        BY <1>4, <2>2
      <3>5. lh[tail] = b
        BY DEF b
      <3>6. ~(tail >= tail + 1)
        BY <2>2
      <3> QED BY <3>1, <3>2, <3>3, <3>4, <3>5, <3>6
    <2>8. HeaderInv'
      BY <2>1 DEF LogInv, HeaderInv, Injective
    <2>9. BootInv'
      BY SMTT(40), <1>1, <2>1 DEF BootInv
    <2>10. CountInv'
      <3>1. InOp' = InOp /\ (NoLostWakeup' <=> NoLostWakeup)
        BY SMTT(40), <2>1 DEF InOp, NoLostWakeup, MustWait
      <3> QED BY SMTT(40), <1>1, <2>1, <3>1 DEF LogInv, CountInv
    <2>11. \A c \in Block : pin'[c] = IF c \in Pinned' THEN 1 ELSE 0
      BY SMTT(40), <1>1, <2>1, <2>2, <2>3, <2>7 DEF LogInv, TypeOK, UpInv
    <2>12. \A c \in Block \ Pinned' : cache'[c] \in {NoVal, disk'[c]}
      BY SMTT(40), <1>1, <2>1, <2>2, <2>7 DEF LogInv, TypeOK, UpInv
    <2>13. \A i \in 1 .. Len(lh') : i < tail' => disk'[lh'[i]] = logdata'[i]
      <3>1. \A i \in 1 .. Len(lh) : i < tail => lh[i] # b
        BY <1>4, <2>2 DEF b, Injective
      <3>2. ASSUME NEW i \in 1 .. Len(lh), i < tail + 1
            PROVE  disk'[lh[i]] = logdata[i]
        <4>1. CASE i = tail
          BY SMTT(40), <4>1, <2>1, <2>2 DEF b, x, LogInv, TypeOK
        <4>2. CASE i < tail
          BY SMTT(40), <4>2, <3>1, <1>5, <1>6, <2>1 DEF LogInv, TypeOK
        <4> QED BY SMTT(40), <4>1, <4>2, <3>2, <2>2
      <3> QED BY <3>2, <2>1
    <2>14. \A i \in 1 .. Len(lh') : logdata'[i] = View(lh[i])'
      <3>1. \A i \in 1 .. Len(lh) : View(lh[i])' = View(lh[i])
        BY <2>1, <2>5, <1>5 DEF View
      <3> QED BY ZenonT(60), <3>1, <1>6, <2>1
    <2>15. tail' \in 1 .. Len(lh') + 1
      BY <1>4, <2>1, <2>2
    <2>16. \A q \in Proc : pc'[q] \notin {"write_log", "clear"}
      BY SMTT(40), <1>1, <1>2, <2>1 DEF CommitPc
    <2>17. UpInv'
      BY ZenonT(60), <1>3, <2>1, <2>6, <2>11, <2>12, <2>13, <2>14, <2>15, <2>16
      DEF UpInv
    <2> QED BY <2>4, <2>8, <2>9, <2>10, <2>17 DEF LogInv
  <1>9. CASE /\ tail > Len(lh) /\ pc' = [pc EXCEPT ![p] = "clear"]
             /\ UNCHANGED <<diskVars, bufVars, logVars, wrote, sysVars>>
    <2>1. UNCHANGED <<disk, logdata, head, cache, pin, lh, outstanding, committing,
                      tail, wrote, phase, crashes>>
      BY SMTT(40), <1>9
    <2>2. TypeOK'
      BY SMTT(40), <1>7, <1>9, <2>1 DEF LogInv, TypeOK, CommitPc
    <2>3. HeaderInv'
      BY <2>1 DEF LogInv, HeaderInv, Injective
    <2>4. BootInv'
      BY <1>1, <2>1 DEF BootInv
    <2>5. CountInv'
      BY ZenonT(60), <1>1, <1>9, <2>1, CountFrame DEF CommitPc
    <2>6. pc'[p] = "clear" /\ \A q \in Proc \ {p} : pc'[q] \notin CommitPc
      BY <1>2, <1>7, <1>9
    <2>7. Installing'
      BY <2>6 DEF Installing
    <2>8. Pinned' = Pinned
      BY SMTT(40), <1>3, <2>1, <2>7 DEF Pinned
    <2>9. \A i \in 1 .. Len(lh') : logdata'[i] = View(lh[i])'
      <3>1. \A i \in 1 .. Len(lh) : View(lh[i])' = View(lh[i])
        BY <2>1 DEF View
      <3> QED BY SMTT(40), <3>1, <1>6, <2>1
    <2>10. tail' = Len(lh') + 1 /\ tail' \in 1 .. Len(lh') + 1
      BY SMTT(40), <1>4, <1>9, <2>1
    <2>11. \A i \in 1 .. Len(lh') : i < tail' => disk'[lh'[i]] = logdata'[i]
      BY SMTT(40), <1>6, <2>1
    <2>12. /\ head' = lh'
           /\ \A b \in Block : pin'[b] = IF b \in Pinned' THEN 1 ELSE 0
           /\ \A b \in Block \ Pinned' : cache'[b] \in {NoVal, disk'[b]}
      BY ZenonT(60), <1>1, <1>3, <2>1, <2>8 DEF LogInv, UpInv
    <2>13. \A q \in Proc : pc'[q] # "write_log"
      BY SMTT(40), <2>6 DEF CommitPc
    <2>14. UpInv'
      BY SMTT(40), <2>7, <2>9, <2>10, <2>11, <2>12, <2>13 DEF UpInv
    <2> QED BY <2>2, <2>3, <2>4, <2>5, <2>14 DEF LogInv
  <1> QED BY <1>8, <1>9 DEF install_trans

\* After the last block the log is empty.
LEMMA clear_logInv ==
  ASSUME LogInv, NEW p \in Proc, clear_log(p)
  PROVE  LogInv'
  <1> USE SizeAssumption, NoValAssumption DEF diskVars, logVars, bufVars, procVars, sysVars
  <1>1. TypeOK'
    BY
    DEF LogInv, TypeOK, HeaderInv, BootInv, UpInv, Installing, Pinned,
        View, Slot, CommitPc, clear_log
  <1>2. HeaderInv'
    BY SMTT(40) DEF LogInv, TypeOK, HeaderInv, Injective, clear_log
  <1>3. BootInv'
    BY SMTT(40) DEF LogInv, TypeOK, HeaderInv, Injective, BootInv, clear_log
  <1>4. CountInv'
    <2>1. InOp' = InOp
      BY
      DEF LogInv, TypeOK, InOp, CommitPc, clear_log, diskVars, logVars,
          bufVars, procVars, sysVars
    <2>2. outstanding' = Cardinality(InOp')
      BY SMTT(40), <2>1
      DEF LogInv, CountInv, clear_log, diskVars, logVars, bufVars,
          procVars, sysVars
    <2>3. NoLostWakeup'
      BY SMTT(40)
      DEF LogInv, TypeOK, CountInv, NoLostWakeup, MustWait, CommitPc,
          clear_log
    <2> QED
      BY SMTT(40), <2>2, <2>3
      DEF LogInv, TypeOK, CountInv, BootInv, InOp, CommitPc, clear_log
  <1>5. UpInv'
    <2>1. /\ pc[p] = "clear" /\ pc[p] \in CommitPc /\ phase = "up"
          /\ tail = Len(lh) + 1 /\ lh' = <<>> /\ head' = <<>>
          /\ UNCHANGED <<disk, cache, pin>> /\ Installing
      BY SMTT(40) DEF clear_log, CommitPc, LogInv, UpInv, Installing
    <2>2. \A q \in Proc : pc'[q] \in CommitPc => pc'[q] = "done"
      BY <2>1, Alone DEF clear_log, CommitPc, LogInv, TypeOK
    <2>3. ~Installing'
      BY SMTT(40), <2>2 DEF Installing, CommitPc
    <2>4. Pinned = {} /\ Pinned' = {}
      BY <2>1 DEF Pinned, LogInv, TypeOK
    <2> QED BY ZenonT(60), <2>1, <2>2, <2>3, <2>4 DEF LogInv, UpInv, CommitPc
  <1> QED BY <1>1, <1>2, <1>3, <1>4, <1>5 DEF LogInv

\* The commit ends and wakes everybody in begin_op.
LEMMA commit_doneInv ==
  ASSUME LogInv, NEW p \in Proc, commit_done(p)
  PROVE  LogInv'
  <1> USE SizeAssumption, NoValAssumption DEF diskVars, logVars, bufVars, procVars, sysVars
  <1>1. TypeOK'
    BY ZenonT(60)
    DEF LogInv, TypeOK, HeaderInv, BootInv, UpInv, Installing, Pinned,
        View, Slot, CommitPc, commit_done, Woken
  <1>2. HeaderInv'
    BY SMTT(40) DEF LogInv, TypeOK, HeaderInv, Injective, commit_done, Woken
  <1>3. BootInv'
    BY SMTT(40)
    DEF LogInv, TypeOK, HeaderInv, Injective, BootInv, commit_done, Woken
  <1>4. CountInv'
    <2>1. InOp' = InOp
      BY
      DEF LogInv, TypeOK, InOp, CommitPc, commit_done, Woken, diskVars,
          logVars, bufVars, procVars, sysVars
    <2>2. outstanding' = Cardinality(InOp')
      BY <2>1
      DEF LogInv, CountInv, commit_done, Woken, diskVars, logVars, bufVars,
          procVars, sysVars
    <2>3. NoLostWakeup'
      BY ZenonT(60)
      DEF LogInv, TypeOK, CountInv, NoLostWakeup, MustWait, CommitPc,
          commit_done, Woken
    <2> QED
      BY ZenonT(60), <2>2, <2>3
      DEF LogInv, TypeOK, CountInv, BootInv, InOp, CommitPc, commit_done,
          Woken
  <1>5. UpInv'
    <2>1. pc[p] = "done" /\ pc[p] \in CommitPc /\ phase = "up" /\ lh = <<>>
      BY SMTT(40) DEF commit_done, CommitPc, LogInv, CountInv
    <2>2. \A q \in Proc : pc'[q] \notin CommitPc
      BY SMTT(40), <2>1, Alone DEF commit_done, Woken, CommitPc, LogInv, TypeOK
    <2>3. ~Installing /\ ~Installing'
      BY SMTT(40), <2>1, <2>2, Alone DEF Installing, CommitPc
    <2>4. Pinned' = Pinned
      BY SMTT(40), <2>3 DEF Pinned, commit_done
    <2> QED BY ZenonT(60), <2>1, <2>2, <2>3, <2>4
    DEF LogInv, UpInv, CommitPc, commit_done
  <1> QED BY <1>1, <1>2, <1>3, <1>4, <1>5 DEF LogInv

\* Reading a block only caches what is there.
LEMMA bufcache_readInv ==
  ASSUME LogInv, NEW b \in Block, bufcache_read(b)
  PROVE  LogInv'
  <1> USE SizeAssumption, NoValAssumption DEF diskVars, logVars, bufVars, procVars, sysVars
  <1>1. TypeOK'
    BY SMTT(40)
    DEF LogInv, TypeOK, HeaderInv, BootInv, UpInv, Installing, Pinned,
        View, Slot, CommitPc, bufcache_read
  <1>2. HeaderInv'
    BY SMTT(40) DEF LogInv, TypeOK, HeaderInv, Injective, bufcache_read
  <1>3. BootInv'
    BY SMTT(40)
    DEF LogInv, TypeOK, HeaderInv, Injective, BootInv, bufcache_read
  <1>4. CountInv'
    <2>1. InOp' = InOp
      BY SMTT(40)
      DEF LogInv, TypeOK, InOp, CommitPc, bufcache_read, diskVars, logVars,
          bufVars, procVars, sysVars
    <2>2. outstanding' = Cardinality(InOp')
      BY SMTT(40), <2>1
      DEF LogInv, CountInv, bufcache_read, diskVars, logVars, bufVars,
          procVars, sysVars
    <2>3. NoLostWakeup'
      BY
      DEF LogInv, TypeOK, CountInv, NoLostWakeup, MustWait, CommitPc,
          bufcache_read
    <2> QED
      BY SMTT(40), <2>2, <2>3
      DEF LogInv, TypeOK, CountInv, BootInv, InOp, CommitPc, bufcache_read
  <1>5. UpInv'
    <2>1. View(b) \in Val /\ View(b) # NoVal /\ View(b) \in {cache[b], disk[b]}
      BY SMTT(40), ViewType DEF LogInv, View
    <2>2. \A c \in Block : View(c)' = View(c)
      BY SMTT(40), <2>1 DEF LogInv, TypeOK, View, bufcache_read
    <2>3. \A c \in Block \ Pinned : cache'[c] \in {NoVal, disk[c]}
      BY SMTT(40), <2>1 DEF LogInv, TypeOK, UpInv, bufcache_read
    <2> QED BY SMTT(40), <2>2, <2>3, BufFrame DEF bufcache_read
  <1> QED BY <1>1, <1>2, <1>3, <1>4, <1>5 DEF LogInv

\* Only a clean buffer is recycled.
LEMMA bufcache_recycleInv ==
  ASSUME LogInv, NEW b \in Block, bufcache_recycle(b)
  PROVE  LogInv'
  <1> USE SizeAssumption, NoValAssumption DEF diskVars, logVars, bufVars, procVars, sysVars
  <1>1. TypeOK'
    BY SMTT(40)
    DEF LogInv, TypeOK, HeaderInv, BootInv, UpInv, Installing, Pinned,
        View, Slot, CommitPc, bufcache_recycle
  <1>2. HeaderInv'
    BY SMTT(40) DEF LogInv, TypeOK, HeaderInv, Injective, bufcache_recycle
  <1>3. BootInv'
    BY SMTT(40)
    DEF LogInv, TypeOK, HeaderInv, Injective, BootInv, bufcache_recycle
  <1>4. CountInv'
    <2>1. InOp' = InOp
      BY
      DEF LogInv, TypeOK, InOp, CommitPc, bufcache_recycle, diskVars,
          logVars, bufVars, procVars, sysVars
    <2>2. outstanding' = Cardinality(InOp')
      BY SMTT(40), <2>1
      DEF LogInv, CountInv, bufcache_recycle, diskVars, logVars, bufVars,
          procVars, sysVars
    <2>3. NoLostWakeup'
      BY SMTT(40)
      DEF LogInv, TypeOK, CountInv, NoLostWakeup, MustWait, CommitPc,
          bufcache_recycle
    <2> QED
      BY SMTT(40), <2>2, <2>3
      DEF LogInv, TypeOK, CountInv, BootInv, InOp, CommitPc,
          bufcache_recycle
  <1>5. UpInv'
    <2>1. b \notin Pinned /\ cache[b] \in {NoVal, disk[b]}
      BY SMTT(40) DEF LogInv, UpInv, bufcache_recycle
    <2>2. \A c \in Block : View(c)' = View(c)
      BY SMTT(40), <2>1 DEF LogInv, TypeOK, View, bufcache_recycle
    <2>3. \A c \in Block \ Pinned : cache'[c] \in {NoVal, disk[c]}
      BY SMTT(40) DEF LogInv, TypeOK, UpInv, bufcache_recycle
    <2> QED BY ZenonT(60), <2>2, <2>3, BufFrame DEF bufcache_recycle
  <1> QED BY <1>1, <1>2, <1>3, <1>4, <1>5 DEF LogInv

\* A crash leaves a disk that recovery can start from.
LEMMA CrashInv ==
  ASSUME LogInv, Crash
  PROVE  LogInv'
  <1> USE SizeAssumption, NoValAssumption DEF diskVars, logVars, bufVars, procVars, sysVars
  <1>1. TypeOK'
    <2>1. /\ pc' \in [Proc -> {"idle", "begin", "asleep", "op"} \cup CommitPc]
          /\ wrote' \in [Proc -> SUBSET Block]
          /\ cache' \in [Block -> Val \cup {NoVal}]
          /\ pin' \in [Block -> Nat]
      BY DEF Crash
    <2>2. lh' \in Seq(Block)
      BY DEF Crash
    <2>3. outstanding' \in Nat /\ tail' \in Nat /\ crashes' \in Nat
      BY SMTT(40) DEF LogInv, TypeOK, Crash
    <2> QED BY ZenonT(60), <2>1, <2>2, <2>3 DEF LogInv, TypeOK, Crash
  <1>2. HeaderInv'
    BY SMTT(40) DEF LogInv, TypeOK, HeaderInv, Injective, Crash
  <1>3. BootInv'
    BY SMTT(40) DEF LogInv, TypeOK, HeaderInv, Injective, BootInv, Crash
  <1>4. CountInv'
    <2>1. InOp' = {}
      BY DEF InOp, Crash
    <2>2. outstanding' = Cardinality(InOp')
      BY SMTT(40), <2>1, FS_EmptySet DEF Crash
    <2>3. NoLostWakeup'
      BY SMTT(40)
      DEF LogInv, TypeOK, CountInv, NoLostWakeup, MustWait, CommitPc, Crash
    <2> QED
      BY <2>2, <2>3
      DEF LogInv, TypeOK, CountInv, BootInv, InOp, CommitPc, Crash
  <1>5. UpInv'
    BY ZenonT(60)
    DEF LogInv, TypeOK, HeaderInv, Injective, BootInv, CountInv, UpInv,
        Installing, Pinned, View, CommitPc, Crash
  <1> QED BY <1>1, <1>2, <1>3, <1>4, <1>5 DEF LogInv
\* LogInv depends on the variables only.
LEMMA StutterInv == LogInv /\ UNCHANGED vars => LogInv'
  <1> SUFFICES ASSUME LogInv, UNCHANGED vars PROVE LogInv'
    OBVIOUS
  <1> USE DEF vars, diskVars, logVars, bufVars, procVars, sysVars
  <1>1. TypeOK' /\ HeaderInv' /\ BootInv'
    BY ZenonT(60) DEF LogInv, TypeOK, HeaderInv, Injective, BootInv
  <1>2. CountInv'
    BY DEF LogInv, CountInv, InOp, NoLostWakeup, MustWait
  <1>3. UpInv'
    BY UpFrame
  <1> QED BY <1>1, <1>2, <1>3 DEF LogInv

\* LogInv is inductive: every step of log.c, of the buffer cache and every
\* crash preserves it.
THEOREM Inductive == LogInv /\ [Next]_vars => LogInv'
  <1> SUFFICES ASSUME LogInv, [Next]_vars PROVE LogInv'
    OBVIOUS
  <1>1. CASE Recover
    BY <1>1, read_headInv, recover_installInv, recover_clearInv DEF Recover
  <1>2. ASSUME NEW p \in Proc, begin_op(p) \/ end_op(p) PROVE LogInv'
    BY <1>2, begin_opInv, end_opInv
  <1>3. ASSUME NEW p \in Proc, NEW b \in Block, NEW v \in Val, log_write(p, b, v)
        PROVE  LogInv'
    BY <1>3, log_writeInv
  <1>4. ASSUME NEW p \in Proc, CommitStep(p) PROVE LogInv'
    BY <1>4, write_logInv, write_headInv, install_transInv, clear_logInv,
       commit_doneInv
    DEF CommitStep
  <1>5. ASSUME NEW b \in Block, bufcache_read(b) \/ bufcache_recycle(b)
        PROVE  LogInv'
    BY <1>5, bufcache_readInv, bufcache_recycleInv
  <1>6. CASE Crash
    BY <1>6, CrashInv
  <1>7. CASE UNCHANGED vars
    BY <1>7, StutterInv
  <1> QED BY <1>1, <1>2, <1>3, <1>4, <1>5, <1>6, <1>7 DEF Next

\* The log is safe: no process is left asleep in begin_op, and a commit works
\* alone.
THEOREM Safety == Spec => [](TypeOK /\ NoLostWakeup /\ CommitAlone)
  <1>1. LogInv => TypeOK /\ NoLostWakeup
    BY DEF LogInv, CountInv
  <1>2. LogInv => CommitAlone
    <2> SUFFICES ASSUME LogInv, committing PROVE CommitAlone
      BY DEF CommitAlone
    <2>1. PICK p \in Proc : pc[p] \in CommitPc
      BY DEF LogInv, CountInv
    <2> QED BY <2>1, Alone, InOpCount DEF LogInv, CountInv, CommitAlone
  <1> QED BY InitInv, Inductive, <1>1, <1>2, PTL DEF Spec
=============================================================================
