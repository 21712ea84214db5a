----------------------------- MODULE PipeProofs -----------------------------
(***************************************************************************)
(* Safety of module Pipe for every pipe size, counter width and number of  *)
(* readers and writers.  The wakeup invariants of Pipe speak of states in  *)
(* which the lock is free; PipeInv says what holds while somebody has it.  *)
(***************************************************************************)
EXTENDS Pipe, TLAPS

Holding == {"check", "body", "copy"}

\* pi->lock is held exactly by the process inside a call.
LockInv == \A p \in Proc : lock = p <=> pc[p] \in Holding

\* References: a closed descriptor is not open, and the process that dropped
\* the last reference of an end is alone in still having to call pipeclose.
CloseInv == /\ \A p \in Proc : p \in open <=> pc[p] \notin {"closing", "closed"}
            /\ \A p, q \in Proc : pc[p] = "closing" /\ End(q) = End(p) /\ q # p
                                    => pc[q] = "closed"
            /\ ~writeopen => \A p \in Writer : pc[p] = "closed"
            /\ ~readopen => \A p \in Reader : pc[p] = "closed"
            /\ freed <=> ~readopen /\ ~writeopen

\* What the test before sleep() established still holds at the sleep.
BodyInv == /\ \A p \in Writer : pc[p] = "body" => readopen /\ left[p] > 0
           /\ \A p \in Reader : pc[p] = "body" => Empty /\ writeopen
           /\ \A p \in Writer : pc[p] # "copy"

\* A sleeper's condition holds, or whoever changed it still has the lock and
\* the wakeup ahead.
SleepInv == /\ \A p \in Writer : pc[p] = "asleep" =>
                  readopen /\ (Full \/ \E r \in Reader : pc[r] = "copy")
            /\ \A p \in Reader : pc[p] = "asleep" =>
                  /\ writeopen
                  /\ \/ Empty
                     \/ \E w \in Writer : killed[w]
                     \/ \E w \in Writer : pc[w] \in {"check", "body"}

PipeInv == TypeOK /\ LockInv /\ CloseInv /\ BodyInv /\ SleepInv

\* Readers and writers are disjoint sets of processes.
LEMMA Ends == /\ Reader \subseteq Proc /\ Writer \subseteq Proc
              /\ \A p \in Proc : p \in Reader <=> p \notin Writer
              /\ NoProc \notin Proc
  BY EndAssumption DEF Proc

\* The reductions modulo UMOD and PIPESIZE stay in range.
LEMMA ModRange == \A x \in Nat : /\ x % UMOD \in 0 .. UMOD - 1
                                 /\ x % PIPESIZE \in 0 .. PIPESIZE - 1
  BY SizeAssumption

\* PipeInv holds for a pipe just made by pipealloc.
LEMMA InitInv == Init => PipeInv
  <1> SUFFICES ASSUME Init PROVE PipeInv
    OBVIOUS
  <1>1. nread \in 0 .. UMOD - 1 /\ nwrite \in 0 .. UMOD - 1
    BY SizeAssumption DEF Init
  <1>2. TypeOK
    BY ZenonT(60), <1>1 DEF Init, TypeOK, Pcs
  <1>3. LockInv
    BY Ends DEF Init, LockInv, Holding
  <1>4. CloseInv
    BY Ends DEF Init, CloseInv
  <1>5. BodyInv
    BY Ends DEF Init, BodyInv
  <1>6. SleepInv
    BY Ends DEF Init, SleepInv
  <1> QED BY <1>2, <1>3, <1>4, <1>5, <1>6 DEF PipeInv

\* A call takes the free lock.
LEMMA callInv ==
  ASSUME PipeInv, NEW p \in Proc, NEW k \in 0 .. MaxN, call(p, k)
  PROVE  PipeInv'
  <1>1. TypeOK'
    BY Ends DEF PipeInv, TypeOK, Pcs, call, At, pipeVars, callVars
  <1>2. LockInv'
    BY Ends DEF PipeInv, TypeOK, LockInv, Holding, call, At, pipeVars, callVars
  <1>3. CloseInv'
    BY Ends
    DEF PipeInv, TypeOK, LockInv, CloseInv, Holding, End, call, At,
        pipeVars, callVars
  <1>4. BodyInv'
    BY Ends
    DEF PipeInv, TypeOK, LockInv, BodyInv, CloseInv, Holding, Empty, call,
        At, pipeVars, callVars
  <1>5. SleepInv'
    BY Ends
    DEF PipeInv, TypeOK, LockInv, CloseInv, BodyInv, SleepInv, Holding,
        Empty, Full, call, At, pipeVars, callVars
  <1> QED BY <1>1, <1>2, <1>3, <1>4, <1>5 DEF PipeInv

\* sleep() takes the free lock again before it returns.
LEMMA reacquireInv ==
  ASSUME PipeInv, NEW p \in Proc, reacquire(p)
  PROVE  PipeInv'
  <1>1. TypeOK'
    BY Ends DEF PipeInv, TypeOK, Pcs, reacquire, At, pipeVars, callVars
  <1>2. LockInv'
    BY Ends
    DEF PipeInv, TypeOK, LockInv, Holding, reacquire, At, pipeVars,
        callVars
  <1>3. CloseInv'
    BY Ends
    DEF PipeInv, TypeOK, LockInv, CloseInv, Holding, End, reacquire, At,
        pipeVars, callVars
  <1>4. BodyInv'
    BY Ends
    DEF PipeInv, TypeOK, LockInv, BodyInv, CloseInv, Holding, Empty,
        reacquire, At, pipeVars, callVars
  <1>5. SleepInv'
    BY Ends
    DEF PipeInv, TypeOK, LockInv, CloseInv, BodyInv, SleepInv, Holding,
        Empty, Full, reacquire, At, pipeVars, callVars
  <1> QED BY <1>1, <1>2, <1>3, <1>4, <1>5 DEF PipeInv

\* Dropping a reference: the last one of an end has pipeclose ahead.
LEMMA file_closeInv ==
  ASSUME PipeInv, NEW p \in Proc, file_close(p)
  PROVE  PipeInv'
  <1>1. TypeOK'
    BY Ends DEF PipeInv, TypeOK, Pcs, file_close, At, End, pipeVars, callVars
  <1>2. LockInv'
    BY Ends
    DEF PipeInv, TypeOK, LockInv, Holding, file_close, At, End, pipeVars,
        callVars
  <1>3. CloseInv'
    BY Ends
    DEF PipeInv, TypeOK, LockInv, CloseInv, Holding, End, file_close, At,
        End, pipeVars, callVars
  <1>4. BodyInv'
    BY Ends
    DEF PipeInv, TypeOK, LockInv, BodyInv, CloseInv, Holding, Empty,
        file_close, At, End, pipeVars, callVars
  <1>5. SleepInv'
    BY Ends
    DEF PipeInv, TypeOK, LockInv, CloseInv, BodyInv, SleepInv, Holding,
        Empty, Full, file_close, At, End, pipeVars, callVars
  <1> QED BY <1>1, <1>2, <1>3, <1>4, <1>5 DEF PipeInv

\* pipeclose wakes the other end, and frees the page after the second end.
LEMMA pipecloseInv ==
  ASSUME PipeInv, NEW p \in Proc, pipeclose(p)
  PROVE  PipeInv'
  <1>1. TypeOK'
    BY Ends
    DEF PipeInv, TypeOK, Pcs, pipeclose, At, Wakeup, End, pipeVars,
        callVars
  <1>2. LockInv'
    BY Ends
    DEF PipeInv, TypeOK, LockInv, Holding, pipeclose, At, Wakeup, End,
        pipeVars, callVars
  <1>3. CloseInv'
    BY Ends
    DEF PipeInv, TypeOK, LockInv, CloseInv, Holding, End, pipeclose, At,
        Wakeup, End, pipeVars, callVars
  <1>4. BodyInv'
    BY Ends
    DEF PipeInv, TypeOK, LockInv, BodyInv, CloseInv, Holding, Empty,
        pipeclose, At, Wakeup, End, pipeVars, callVars
  <1>5. SleepInv'
    BY ZenonT(60), Ends
    DEF PipeInv, TypeOK, LockInv, CloseInv, BodyInv, SleepInv, Holding,
        Empty, Full, pipeclose, At, Wakeup, End, pipeVars, callVars
  <1> QED BY <1>1, <1>2, <1>3, <1>4, <1>5 DEF PipeInv

\* pipewrite's test; the failing branch blames a killed writer.
LEMMA write_checkInv ==
  ASSUME PipeInv, NEW p \in Writer, write_check(p)
  PROVE  PipeInv'
  <1>1. TypeOK'
    <2>1. CASE Fail(p)
      BY <2>1, Ends
      DEF PipeInv, TypeOK, Pcs, write_check, Fail, At, pipeVars, callVars
    <2>2. CASE ~Fail(p)
      BY ZenonT(60), <2>2, Ends
      DEF PipeInv, TypeOK, Pcs, write_check, At, pipeVars, callVars
    <2> QED BY <2>1, <2>2
  <1>2. LockInv'
    BY Ends
    DEF PipeInv, TypeOK, LockInv, Holding, write_check, Fail, At, pipeVars,
        callVars
  <1>3. CloseInv'
    <2>1. CASE Fail(p)
      BY <2>1, Ends
      DEF PipeInv, TypeOK, LockInv, CloseInv, Holding, End, write_check,
          Fail, At, pipeVars, callVars
    <2>2. CASE ~Fail(p)
      <3>1. /\ pc' = [pc EXCEPT ![p] = "body"]
            /\ UNCHANGED <<pipeVars, callVars, lock, open, killed>>
            /\ lock = p
        BY <2>2 DEF write_check, At
      <3> QED BY ZenonT(60), <3>1, Ends
      DEF PipeInv, TypeOK, LockInv, CloseInv, Holding, End, pipeVars,
          callVars
    <2> QED BY <2>1, <2>2
  <1>4. BodyInv'
    BY Ends
    DEF PipeInv, TypeOK, LockInv, BodyInv, CloseInv, Holding, Empty,
        write_check, Fail, At, pipeVars, callVars
  <1>5. SleepInv'
    BY Ends
    DEF PipeInv, TypeOK, LockInv, CloseInv, BodyInv, SleepInv, Holding,
        Empty, Full, write_check, Fail, At, pipeVars, callVars
  <1> QED BY <1>1, <1>2, <1>3, <1>4, <1>5 DEF PipeInv

\* pipewrite sleeps on a full pipe and wakes the readers first.
LEMMA write_fullInv ==
  ASSUME PipeInv, NEW p \in Writer, write_full(p)
  PROVE  PipeInv'
  <1>1. TypeOK'
    BY Ends
    DEF PipeInv, TypeOK, Pcs, write_full, At, Wakeup, pipeVars, callVars
  <1>2. LockInv'
    BY Ends
    DEF PipeInv, TypeOK, LockInv, Holding, write_full, At, Wakeup,
        pipeVars, callVars
  <1>3. CloseInv'
    BY Ends
    DEF PipeInv, TypeOK, LockInv, CloseInv, Holding, End, write_full, At,
        Wakeup, pipeVars, callVars
  <1>4. BodyInv'
    BY Ends
    DEF PipeInv, TypeOK, LockInv, BodyInv, CloseInv, Holding, Empty,
        write_full, At, Wakeup, pipeVars, callVars
  <1>5. SleepInv'
    BY Ends
    DEF PipeInv, TypeOK, LockInv, CloseInv, BodyInv, SleepInv, Holding,
        Empty, Full, write_full, At, Wakeup, pipeVars, callVars
  <1> QED BY <1>1, <1>2, <1>3, <1>4, <1>5 DEF PipeInv

\* A stored byte leaves readers to be woken by the lock's holder.
LEMMA write_byteInv ==
  ASSUME PipeInv, NEW p \in Writer, NEW b \in Byte, write_byte(p, b)
  PROVE  PipeInv'
  <1>1. TypeOK'
    <2>1. nwrite \in Nat /\ nwrite + 1 \in Nat
      BY SizeAssumption DEF PipeInv, TypeOK
    <2>2. nwrite' \in 0 .. UMOD - 1 /\ nwrite % PIPESIZE \in 0 .. PIPESIZE - 1
      BY <2>1, ModRange DEF write_byte
    <2>3. data' \in [0 .. PIPESIZE - 1 -> Byte]
      BY <2>2 DEF PipeInv, TypeOK, write_byte
    <2>4. left' \in [Proc -> Nat]
      <3>1. left[p] > 0
        BY Ends DEF PipeInv, BodyInv, write_byte
      <3> QED BY <3>1, Ends DEF PipeInv, TypeOK, write_byte
    <2> QED BY <2>2, <2>3, <2>4, Ends DEF PipeInv, TypeOK, Pcs, write_byte, At
  <1>2. LockInv'
    BY Ends
    DEF PipeInv, TypeOK, LockInv, Holding, write_byte, At, pipeVars,
        callVars
  <1>3. CloseInv'
    BY Ends
    DEF PipeInv, TypeOK, LockInv, CloseInv, Holding, End, write_byte, At,
        pipeVars, callVars
  <1>4. BodyInv'
    BY Ends
    DEF PipeInv, TypeOK, LockInv, BodyInv, CloseInv, Holding, Empty,
        write_byte, At, pipeVars, callVars
  <1>5. SleepInv'
    BY Ends
    DEF PipeInv, TypeOK, LockInv, CloseInv, BodyInv, SleepInv, Holding,
        Empty, Full, write_byte, At, pipeVars, callVars
  <1> QED BY <1>1, <1>2, <1>3, <1>4, <1>5 DEF PipeInv

\* pipewrite returns and wakes the readers.
LEMMA write_doneInv ==
  ASSUME PipeInv, NEW p \in Writer, write_done(p)
  PROVE  PipeInv'
  <1>1. TypeOK'
    BY Ends
    DEF PipeInv, TypeOK, Pcs, write_done, Finish, At, Wakeup, pipeVars,
        callVars
  <1>2. LockInv'
    BY Ends
    DEF PipeInv, TypeOK, LockInv, Holding, write_done, Finish, At, Wakeup,
        pipeVars, callVars
  <1>3. CloseInv'
    BY Ends
    DEF PipeInv, TypeOK, LockInv, CloseInv, Holding, End, write_done,
        Finish, At, Wakeup, pipeVars, callVars
  <1>4. BodyInv'
    BY Ends
    DEF PipeInv, TypeOK, LockInv, BodyInv, CloseInv, Holding, Empty,
        write_done, Finish, At, Wakeup, pipeVars, callVars
  <1>5. SleepInv'
    BY Ends
    DEF PipeInv, TypeOK, LockInv, CloseInv, BodyInv, SleepInv, Holding,
        Empty, Full, write_done, Finish, At, Wakeup, pipeVars, callVars
  <1> QED BY <1>1, <1>2, <1>3, <1>4, <1>5 DEF PipeInv

\* piperead's loop test.
LEMMA read_checkInv ==
  ASSUME PipeInv, NEW p \in Reader, read_check(p)
  PROVE  PipeInv'
  <1>1. TypeOK'
    <2>1. CASE Fail(p)
      BY <2>1, Ends
      DEF PipeInv, TypeOK, Pcs, read_check, Fail, At, pipeVars, callVars
    <2>2. CASE ~Fail(p)
      BY ZenonT(60), <2>2, Ends
      DEF PipeInv, TypeOK, Pcs, read_check, At, pipeVars, callVars
    <2> QED BY <2>1, <2>2
  <1>2. LockInv'
    BY Ends
    DEF PipeInv, TypeOK, LockInv, Holding, read_check, Fail, At, pipeVars,
        callVars
  <1>3. CloseInv'
    <2>1. CASE Fail(p)
      BY <2>1, Ends
      DEF PipeInv, TypeOK, LockInv, CloseInv, Holding, End, read_check,
          Fail, At, pipeVars, callVars
    <2>2. CASE ~Fail(p)
      <3>1. /\ (pc' = [pc EXCEPT ![p] = "body"] \/ pc' = [pc EXCEPT ![p] = "copy"])
            /\ UNCHANGED <<pipeVars, callVars, lock, open, killed>>
            /\ lock = p
        BY <2>2 DEF read_check, At
      <3> QED BY ZenonT(60), <3>1, Ends
      DEF PipeInv, TypeOK, LockInv, CloseInv, Holding, End, pipeVars,
          callVars
    <2> QED BY <2>1, <2>2
  <1>4. BodyInv'
    BY Ends
    DEF PipeInv, TypeOK, LockInv, BodyInv, CloseInv, Holding, Empty,
        read_check, Fail, At, pipeVars, callVars
  <1>5. SleepInv'
    <2>1. CASE Fail(p)
      BY <2>1, Ends
      DEF PipeInv, TypeOK, LockInv, CloseInv, BodyInv, SleepInv, Holding,
          Empty, Full, read_check, Fail, At, pipeVars, callVars
    <2>2. CASE ~Fail(p)
      <3>1. /\ (pc' = [pc EXCEPT ![p] = "body"] \/ pc' = [pc EXCEPT ![p] = "copy"])
            /\ UNCHANGED <<pipeVars, callVars, lock, open, killed>>
            /\ lock = p
        BY <2>2 DEF read_check, At
      <3>2. /\ pc'[p] \in {"body", "copy"} /\ pc[p] = "check"
            /\ \A q \in Proc \ {p} : pc'[q] = pc[q]
            /\ \A q \in Proc \ {p} : pc[q] \notin Holding
        BY <3>1, Ends DEF PipeInv, TypeOK, LockInv, Holding, read_check
      <3>3. /\ Empty' = Empty /\ Full' = Full /\ killed' = killed
            /\ readopen' = readopen /\ writeopen' = writeopen
        BY <3>1 DEF pipeVars, Empty, Full
      <3> QED BY <3>2, <3>3, Ends DEF PipeInv, SleepInv, Holding
    <2> QED BY <2>1, <2>2
  <1> QED BY <1>1, <1>2, <1>3, <1>4, <1>5 DEF PipeInv

\* piperead sleeps on a pipe that is still empty.
LEMMA read_sleepInv ==
  ASSUME PipeInv, NEW p \in Reader, read_sleep(p)
  PROVE  PipeInv'
  <1>1. TypeOK'
    BY Ends DEF PipeInv, TypeOK, Pcs, read_sleep, At, pipeVars, callVars
  <1>2. LockInv'
    BY Ends
    DEF PipeInv, TypeOK, LockInv, Holding, read_sleep, At, pipeVars,
        callVars
  <1>3. CloseInv'
    BY Ends
    DEF PipeInv, TypeOK, LockInv, CloseInv, Holding, End, read_sleep, At,
        pipeVars, callVars
  <1>4. BodyInv'
    BY Ends
    DEF PipeInv, TypeOK, LockInv, BodyInv, CloseInv, Holding, Empty,
        read_sleep, At, pipeVars, callVars
  <1>5. SleepInv'
    BY Ends
    DEF PipeInv, TypeOK, LockInv, CloseInv, BodyInv, SleepInv, Holding,
        Empty, Full, read_sleep, At, pipeVars, callVars
  <1> QED BY <1>1, <1>2, <1>3, <1>4, <1>5 DEF PipeInv

\* A byte taken leaves writers to be woken by the lock's holder.
LEMMA read_byteInv ==
  ASSUME PipeInv, NEW p \in Reader, read_byte(p)
  PROVE  PipeInv'
  <1>1. TypeOK'
    <2>1. nread \in Nat /\ nread + 1 \in Nat
      BY SizeAssumption DEF PipeInv, TypeOK
    <2>2. nread' \in 0 .. UMOD - 1 /\ nread % PIPESIZE \in 0 .. PIPESIZE - 1
      BY <2>1, ModRange DEF read_byte
    <2>3. ch' \in [Reader -> Byte]
      BY <2>2 DEF PipeInv, TypeOK, read_byte
    <2>4. left' \in [Proc -> Nat]
      BY Ends DEF PipeInv, TypeOK, read_byte, Finish
    <2>5. pc' \in [Proc -> Pcs] /\ lock' \in Proc \cup {NoProc}
      BY Ends DEF PipeInv, TypeOK, Pcs, read_byte, Finish, At, Wakeup
    <2> QED BY SMTT(40), <2>2, <2>3, <2>4, <2>5 DEF PipeInv, TypeOK, read_byte
  <1>2. LockInv'
    BY Ends
    DEF PipeInv, TypeOK, LockInv, Holding, read_byte, Finish, At, Wakeup,
        pipeVars, callVars
  <1>3. CloseInv'
    <2>1. CASE Finish(p, Writer)
      BY <2>1, Ends DEF PipeInv, TypeOK, LockInv, CloseInv, Holding, End,
                        read_byte, Finish, At, Wakeup
    <2>2. CASE ~Finish(p, Writer)
      BY <2>2, Ends DEF PipeInv, TypeOK, CloseInv, read_byte
    <2> QED BY <2>1, <2>2
  <1>4. BodyInv'
    BY ZenonT(60), Ends
    DEF PipeInv, TypeOK, LockInv, BodyInv, CloseInv, Holding, Empty,
        read_byte, Finish, At, Wakeup, pipeVars, callVars
  <1>5. SleepInv'
    BY Ends
    DEF PipeInv, TypeOK, LockInv, CloseInv, BodyInv, SleepInv, Holding,
        Empty, Full, read_byte, Finish, At, Wakeup, pipeVars, callVars
  <1> QED BY <1>1, <1>2, <1>3, <1>4, <1>5 DEF PipeInv

\* piperead returns and wakes the writers.
LEMMA read_doneInv ==
  ASSUME PipeInv, NEW p \in Reader, read_done(p)
  PROVE  PipeInv'
  <1>1. TypeOK'
    BY Ends
    DEF PipeInv, TypeOK, Pcs, read_done, Finish, At, Wakeup, pipeVars,
        callVars
  <1>2. LockInv'
    BY Ends
    DEF PipeInv, TypeOK, LockInv, Holding, read_done, Finish, At, Wakeup,
        pipeVars, callVars
  <1>3. CloseInv'
    BY Ends
    DEF PipeInv, TypeOK, LockInv, CloseInv, Holding, End, read_done,
        Finish, At, Wakeup, pipeVars, callVars
  <1>4. BodyInv'
    BY Ends
    DEF PipeInv, TypeOK, LockInv, BodyInv, CloseInv, Holding, Empty,
        read_done, Finish, At, Wakeup, pipeVars, callVars
  <1>5. SleepInv'
    BY ZenonT(60), Ends
    DEF PipeInv, TypeOK, LockInv, CloseInv, BodyInv, SleepInv, Holding,
        Empty, Full, read_done, Finish, At, Wakeup, pipeVars, callVars
  <1> QED BY <1>1, <1>2, <1>3, <1>4, <1>5 DEF PipeInv

\* A kill may wake its victim; it changes neither lock nor pipe.
LEMMA killInv ==
  ASSUME PipeInv, NEW p \in Proc, kill(p)
  PROVE  PipeInv'
  <1>1. TypeOK'
    BY Ends DEF PipeInv, TypeOK, Pcs, kill, At, pipeVars, callVars
  <1>2. LockInv'
    BY Ends DEF PipeInv, TypeOK, LockInv, Holding, kill, At, pipeVars, callVars
  <1>3. CloseInv'
    BY Ends
    DEF PipeInv, TypeOK, LockInv, CloseInv, Holding, End, kill, At,
        pipeVars, callVars
  <1>4. BodyInv'
    BY Ends
    DEF PipeInv, TypeOK, LockInv, BodyInv, CloseInv, Holding, Empty, kill,
        At, pipeVars, callVars
  <1>5. SleepInv'
    BY Ends
    DEF PipeInv, TypeOK, LockInv, CloseInv, BodyInv, SleepInv, Holding,
        Empty, Full, kill, At, pipeVars, callVars
  <1> QED BY <1>1, <1>2, <1>3, <1>4, <1>5 DEF PipeInv

\* PipeInv depends on the variables only.
LEMMA StutterInv == PipeInv /\ UNCHANGED vars => PipeInv'
  BY DEF vars, pipeVars, callVars, PipeInv, TypeOK, LockInv, CloseInv, BodyInv,
         SleepInv, Empty, Full

\* PipeInv is inductive: every step of Pipe keeps it.
THEOREM Inductive == PipeInv /\ [Next]_vars => PipeInv'
  <1> SUFFICES ASSUME PipeInv, [Next]_vars PROVE PipeInv'
    OBVIOUS
  <1> USE Ends
  <1>1. ASSUME NEW p \in Proc, NEW k \in 0 .. MaxN, call(p, k) PROVE PipeInv'
    BY <1>1, callInv
  <1>2. ASSUME NEW p \in Proc, reacquire(p) \/ file_close(p) \/ pipeclose(p)
        PROVE  PipeInv'
    BY <1>2, reacquireInv, file_closeInv, pipecloseInv
  <1>3. ASSUME NEW p \in Writer, write_step(p) PROVE PipeInv'
    BY <1>3, write_checkInv, write_fullInv, write_byteInv, write_doneInv
    DEF write_step
  <1>4. ASSUME NEW p \in Reader, read_step(p) PROVE PipeInv'
    BY <1>4, read_checkInv, read_sleepInv, read_byteInv, read_doneInv
    DEF read_step
  <1>5. ASSUME NEW p \in Killable, kill(p) PROVE PipeInv'
    BY <1>5, killInv, KillableAssumption
  <1>6. CASE UNCHANGED vars
    BY <1>6, StutterInv
  <1> QED BY <1>1, <1>2, <1>3, <1>4, <1>5, <1>6 DEF Next

\* The safety of pipe.c: types, no lost wakeup of a writer, of a reader only
\* behind a killed writer, and no use of a freed pipe.
THEOREM Safety ==
  Spec => [](TypeOK /\ WritersAwake /\ ReadersAwakeOrKill /\ FreedUnused)
  <1>1. PipeInv => TypeOK /\ WritersAwake /\ ReadersAwakeOrKill /\ FreedUnused
    BY Ends DEF PipeInv, LockInv, CloseInv, SleepInv, Holding, WritersAwake,
                ReadersAwakeOrKill, FreedUnused
  <1> QED BY InitInv, Inductive, <1>1, PTL DEF Spec

\* Where no writer can be killed, a reader never sleeps on a pipe that has
\* bytes: pipewrite's return -1 is the only lost wakeup.
THEOREM ReadersAwakeUnlessKilled ==
  ASSUME Killable \cap Writer = {}
  PROVE  Spec => []ReadersAwake
  <1> DEFINE Alive == \A w \in Writer : ~killed[w]
  <1>1. Init => Alive
    BY Ends DEF Init
  <1>2. PipeInv /\ Alive /\ [Next]_vars => Alive'
    <2> SUFFICES ASSUME PipeInv, Alive, [Next]_vars PROVE Alive'
      OBVIOUS
    <2>1. ASSUME NEW p \in Killable, kill(p) PROVE Alive'
      BY <2>1, Ends, KillableAssumption DEF PipeInv, TypeOK, kill
    <2>2. CASE killed' = killed
      BY SMTT(40), <2>2
    <2>3. killed' = killed \/ \E p \in Killable : kill(p)
      BY ZenonT(60)
      DEF Next, vars, callVars, pipeVars, call, reacquire, file_close,
        pipeclose, write_step, write_check, write_full, write_byte, write_done,
        read_step, read_check, read_sleep, read_byte, read_done, Fail
    <2> QED BY <2>1, <2>2, <2>3
  <1>3. PipeInv /\ Alive => ReadersAwake
    BY Ends DEF PipeInv, LockInv, SleepInv, Holding, ReadersAwake
  <1> QED BY InitInv, Inductive, <1>1, <1>2, <1>3, PTL DEF Spec
=============================================================================
