-------------------------------- MODULE Pipe --------------------------------
(***************************************************************************)
(* A pipe of src/kernel/pipe.c, used by processes that each hold one end   *)
(* open (file.c counts the references), that may be killed at any instant  *)
(* and whose buffers may be unmapped.  pi->lock is state because a call    *)
(* holds it over many bytes while killed() can change; the steps of a call *)
(* are the tests of killed(), the transfers of one byte, and sleep.        *)
(* nread and nwrite are unsigned ints: they wrap at UMOD (2^32).           *)
(***************************************************************************)
EXTENDS Naturals, FiniteSets

CONSTANTS Reader, Writer,  \* processes with the read or the write end open
          Byte,
          NoProc,          \* owner of a free lock
          PIPESIZE,
          UMOD,            \* one more than the largest unsigned int
          MaxN,            \* bound on the byte count of one call
          Killable         \* processes that may be killed

Proc == Reader \cup Writer

ASSUME KillableAssumption == Killable \subseteq Proc
ASSUME EndAssumption == Reader \cap Writer = {} /\ NoProc \notin Proc
ASSUME FiniteAssumption == IsFiniteSet(Proc) /\ Byte # {}
ASSUME SizeAssumption == /\ PIPESIZE \in Nat \ {0}
                         /\ UMOD \in Nat
                         /\ PIPESIZE < UMOD
                         /\ UMOD % PIPESIZE = 0
                         /\ MaxN \in Nat

VARIABLES data, nread, nwrite, readopen, writeopen,  \* struct pipe
          lock,    \* pi->lock
          freed,   \* kfree(pi) was called
          open,    \* processes whose descriptor still refers to the pipe
          pc,      \* where each process is in its call
          left,    \* n - i, the bytes each call has still to transfer
          ch,      \* the last byte that piperead took out for each reader
          killed   \* p->killed

pipeVars == <<data, nread, nwrite, readopen, writeopen, freed>>
callVars == <<left, ch>>
vars == <<pipeVars, callVars, lock, open, pc, killed>>

\* check: about to test killed(); body: the test was false; asleep and woken:
\* in sleep(), before and after wakeup; closing: dropped the last reference.
Pcs == {"idle", "check", "body", "copy", "asleep", "woken", "closing", "closed"}

TypeOK == /\ data \in [0 .. PIPESIZE - 1 -> Byte]
          /\ nread \in 0 .. UMOD - 1 /\ nwrite \in 0 .. UMOD - 1
          /\ readopen \in BOOLEAN /\ writeopen \in BOOLEAN /\ freed \in BOOLEAN
          /\ lock \in Proc \cup {NoProc}
          /\ open \in SUBSET Proc
          /\ pc \in [Proc -> Pcs]
          /\ left \in [Proc -> Nat]
          /\ ch \in [Reader -> Byte]
          /\ killed \in [Proc -> BOOLEAN]

\* After sys_pipe and the forks that share the two ends.
Init == /\ data \in [0 .. PIPESIZE - 1 -> Byte]
        /\ nread = 0 /\ nwrite = 0
        /\ readopen = TRUE /\ writeopen = TRUE /\ freed = FALSE
        /\ lock = NoProc
        /\ open = Proc
        /\ pc = [p \in Proc |-> "idle"]
        /\ left = [p \in Proc |-> 0]
        /\ ch \in [Reader -> Byte]
        /\ killed = [p \in Proc |-> FALSE]

Empty == nread = nwrite

\* Mutant of Full: the sum is not reduced to an unsigned int.
FullWide == nwrite = nread + PIPESIZE

Full == nwrite = (nread + PIPESIZE) % UMOD

\* pc after wakeup(): sleepers of the other end, which wait on &pi->nread if
\* they are readers and on &pi->nwrite if they are writers.
Wakeup(end, newpc) == [p \in Proc |-> IF p \in end /\ pc[p] = "asleep"
                                      THEN "woken" ELSE newpc[p]]

At(p, l) == [pc EXCEPT ![p] = l]
----------------------------------------------------------------------------
\* fileread and filewrite enter with the lock; usertrap has turned killed
\* processes away.
call(p, k) ==
  /\ pc[p] = "idle" /\ p \in open /\ ~killed[p]
  /\ lock = NoProc
  /\ lock' = p
  /\ left' = [left EXCEPT ![p] = k]
  /\ pc' = At(p, "check")
  /\ UNCHANGED <<pipeVars, ch, open, killed>>

\* sleep() returns with the lock.
reacquire(p) ==
  /\ pc[p] = "woken"
  /\ lock = NoProc
  /\ lock' = p
  /\ pc' = At(p, "check")
  /\ UNCHANGED <<pipeVars, callVars, open, killed>>

\* return -1: no wakeup.
Fail(p) == /\ lock' = NoProc
           /\ pc' = At(p, "idle")
           /\ left' = [left EXCEPT ![p] = 0]
           /\ UNCHANGED <<pipeVars, ch, open, killed>>

\* wakeup of the other end, release, return i.
Finish(p, end) == /\ lock' = NoProc
                  /\ pc' = Wakeup(end, At(p, "idle"))
                  /\ left' = [left EXCEPT ![p] = 0]
----------------------------------------------------------------------------
(* pipewrite                                                               *)

write_check(p) ==
  /\ lock = p /\ pc[p] = "check" /\ left[p] > 0
  /\ \/ /\ ~readopen \/ killed[p]
        /\ Fail(p)
     \/ /\ readopen /\ ~killed[p]
        /\ pc' = At(p, "body")
        /\ UNCHANGED <<pipeVars, callVars, lock, open, killed>>

write_full(p) ==
  /\ lock = p /\ pc[p] = "body"
  /\ Full
  /\ lock' = NoProc
  /\ pc' = Wakeup(Reader, At(p, "asleep"))
  /\ UNCHANGED <<pipeVars, callVars, open, killed>>

\* Mutant: nwrite does not wrap.
write_byte_wide(p, b) ==
  /\ lock = p /\ pc[p] = "body"
  /\ ~Full
  /\ data' = [data EXCEPT ![nwrite % PIPESIZE] = b]
  /\ nwrite' = nwrite + 1
  /\ left' = [left EXCEPT ![p] = @ - 1]
  /\ pc' = At(p, "check")
  /\ UNCHANGED <<nread, readopen, writeopen, freed, ch, lock, open, killed>>

write_byte(p, b) ==
  /\ lock = p /\ pc[p] = "body"
  /\ ~Full
  /\ data' = [data EXCEPT ![nwrite % PIPESIZE] = b]
  /\ nwrite' = (nwrite + 1) % UMOD
  /\ left' = [left EXCEPT ![p] = @ - 1]
  /\ pc' = At(p, "check")
  /\ UNCHANGED <<nread, readopen, writeopen, freed, ch, lock, open, killed>>

\* The loop is done, or copy_from_user failed.
write_done(p) ==
  /\ lock = p
  /\ \/ pc[p] = "check" /\ left[p] = 0
     \/ pc[p] = "body" /\ ~Full
  /\ Finish(p, Reader)
  /\ UNCHANGED <<pipeVars, ch, open, killed>>
----------------------------------------------------------------------------
(* piperead                                                                *)

read_check(p) ==
  /\ lock = p /\ pc[p] = "check"
  /\ \/ /\ Empty /\ writeopen /\ killed[p]
        /\ Fail(p)
     \/ /\ Empty /\ writeopen /\ ~killed[p]
        /\ pc' = At(p, "body")
        /\ UNCHANGED <<pipeVars, callVars, lock, open, killed>>
     \/ /\ ~Empty \/ ~writeopen
        /\ pc' = At(p, "copy")
        /\ UNCHANGED <<pipeVars, callVars, lock, open, killed>>

read_sleep(p) ==
  /\ lock = p /\ pc[p] = "body"
  /\ lock' = NoProc
  /\ pc' = At(p, "asleep")
  /\ UNCHANGED <<pipeVars, callVars, open, killed>>

\* The byte leaves the pipe before copy_to_user, which may fail and end the
\* call.
read_byte(p) ==
  /\ lock = p /\ pc[p] = "copy"
  /\ left[p] > 0 /\ ~Empty
  /\ ch' = [ch EXCEPT ![p] = data[nread % PIPESIZE]]
  /\ nread' = (nread + 1) % UMOD
  /\ \/ /\ left' = [left EXCEPT ![p] = @ - 1]
        /\ UNCHANGED <<pc, lock>>
     \/ Finish(p, Writer)
  /\ UNCHANGED <<data, nwrite, readopen, writeopen, freed, open, killed>>

\* Mutant: piperead does not wake the writers.
read_done_silent(p) ==
  /\ lock = p /\ pc[p] = "copy"
  /\ left[p] = 0 \/ Empty
  /\ lock' = NoProc
  /\ pc' = At(p, "idle")
  /\ left' = [left EXCEPT ![p] = 0]
  /\ UNCHANGED <<pipeVars, ch, open, killed>>

read_done(p) ==
  /\ lock = p /\ pc[p] = "copy"
  /\ left[p] = 0 \/ Empty
  /\ Finish(p, Writer)
  /\ UNCHANGED <<pipeVars, ch, open, killed>>
----------------------------------------------------------------------------
(* file_close and pipeclose                                                *)

End(p) == IF p \in Writer THEN Writer ELSE Reader

file_close(p) ==
  /\ pc[p] = "idle" /\ p \in open
  /\ open' = open \ {p}
  /\ pc' = At(p, IF open' \cap End(p) = {} THEN "closing" ELSE "closed")
  /\ UNCHANGED <<pipeVars, callVars, lock, killed>>

\* Mutants: the other end is not woken; the page is freed with the first end.
pipeclose_silent(p) ==
  /\ pc[p] = "closing"
  /\ lock = NoProc
  /\ writeopen' = (writeopen /\ p \notin Writer)
  /\ readopen' = (readopen /\ p \notin Reader)
  /\ pc' = At(p, "closed")
  /\ freed' = (~readopen' /\ ~writeopen')
  /\ UNCHANGED <<data, nread, nwrite, callVars, lock, open, killed>>

pipeclose_early(p) ==
  /\ pc[p] = "closing"
  /\ lock = NoProc
  /\ writeopen' = (writeopen /\ p \notin Writer)
  /\ readopen' = (readopen /\ p \notin Reader)
  /\ pc' = Wakeup(Proc \ End(p), At(p, "closed"))
  /\ freed' = (~readopen' \/ ~writeopen')
  /\ UNCHANGED <<data, nread, nwrite, callVars, lock, open, killed>>

pipeclose(p) ==
  /\ pc[p] = "closing"
  /\ lock = NoProc
  /\ writeopen' = (writeopen /\ p \notin Writer)
  /\ readopen' = (readopen /\ p \notin Reader)
  /\ pc' = Wakeup(Proc \ End(p), At(p, "closed"))
  /\ freed' = (~readopen' /\ ~writeopen')
  /\ UNCHANGED <<data, nread, nwrite, callVars, lock, open, killed>>

\* kill(p->pid), by any process at any time.
kill(p) ==
  /\ killed' = [killed EXCEPT ![p] = TRUE]
  /\ pc' = At(p, IF pc[p] = "asleep" THEN "woken" ELSE pc[p])
  /\ UNCHANGED <<pipeVars, callVars, lock, open>>
----------------------------------------------------------------------------
write_step(p) == \/ write_check(p) \/ write_full(p) \/ write_done(p)
                 \/ \E b \in Byte : write_byte(p, b)

read_step(p) == read_check(p) \/ read_sleep(p) \/ read_byte(p) \/ read_done(p)

Next == \/ \E p \in Proc : \/ \E k \in 0 .. MaxN : call(p, k)
                           \/ reacquire(p)
                           \/ file_close(p)
                           \/ pipeclose(p)
        \/ \E p \in Writer : write_step(p)
        \/ \E p \in Reader : read_step(p)
        \/ \E p \in Killable : kill(p)

Spec == Init /\ [][Next]_vars
----------------------------------------------------------------------------
(* Properties.                                                             *)

Count == (nwrite + UMOD - nread) % UMOD

F == INSTANCE Fifo WITH Capacity <- PIPESIZE, got <- ch,
       queue <- [k \in 1 .. Count |-> data[(nread + k - 1) % PIPESIZE]]

\* pipe.c implements a bounded FIFO of bytes, through sleeps in the middle of
\* a write, failed copies, kills, and the wraparound of nread and nwrite.
IsFifo == F!Spec

\* No lost wakeup: with the lock free, a writer is asleep only on a full pipe
\* that can still be read ("pipewrite-full", pipe.c:87) ...
WritersAwake == lock = NoProc => \A p \in Writer :
                                   pc[p] = "asleep" => Full /\ readopen

\* ... and a reader only on an empty one that can still be written
\* ("pipe-empty", pipe.c:112).  The code keeps this only while no writer is
\* killed: pipewrite's return -1 skips the wakeup for bytes already written.
ReadersAwake == lock = NoProc => \A p \in Reader :
                                   pc[p] = "asleep" => Empty /\ writeopen

\* What remains with killed writers.
ReadersAwakeOrKill == lock = NoProc => \A p \in Reader : pc[p] = "asleep" =>
                        /\ writeopen
                        /\ Empty \/ \E w \in Writer : killed[w]

\* pipeclose frees the page only when no process can touch the pipe again:
\* none is in a call, asleep in one, or still to close its end.
FreedUnused == freed => \A p \in Proc : pc[p] = "closed"
=============================================================================
