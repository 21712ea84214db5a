------------------------------ MODULE BufCache ------------------------------
(***************************************************************************)
(* The buffer cache of xv7 (buffer-io.c) with the sleep lock of every      *)
(* buffer (sleeplock.c).  Critical sections of bcache.lock and of a sleep  *)
(* lock's spinlock are single steps; between them other processes run.     *)
(*                                                                         *)
(* A caller uses one buffer at a time: it may change the data, and before  *)
(* it lets the buffer go it writes it to disk or hands it to the log,      *)
(* which pins it (log_write) and unpins it once it has been installed      *)
(* (install_trans).                                                        *)
(***************************************************************************)
EXTENDS Integers, FiniteSets, SequencesExt

CONSTANTS Proc, NoProc, Block, Val,
          NBUF      \* the number of buffers

ASSUME ConstantAssumption ==
  /\ NBUF \in Nat \ {0} /\ NoProc \notin Proc
  /\ Block \subseteq Nat \ {0}   \* block 0 is never read

Buf == 1 .. NBUF

VARIABLES order,     \* the list of buffers from head.next to head.prev
          blockno, valid, refcnt, data,
          owner,     \* the process that has the buffer's sleep lock
          disk,
          pinned,    \* the buffers in the log header
          pc, buf,   \* where a process is, and its b
          dirty,     \* whether it has changed its buffer and not saved it
          want,      \* the block it asked for
          current,   \* history: what the last change made of each block
          panicked

bufVars == <<order, blockno, valid, refcnt, data>>
procVars == <<pc, buf, dirty, want>>
vars == <<bufVars, owner, disk, pinned, procVars, current, panicked>>

\* The program is well typed, and the list holds every buffer once.
TypeOK ==
  /\ order \in [Buf -> Buf] /\ IsInjective(order)
  /\ blockno \in [Buf -> Block \cup {0}]
  /\ valid \in [Buf -> BOOLEAN]
  /\ refcnt \in [Buf -> Nat]
  /\ data \in [Buf -> Val]
  /\ owner \in [Buf -> Proc \cup {NoProc}]
  /\ disk \in [Block -> Val]
  /\ pinned \in SUBSET Buf
  /\ pc \in [Proc -> {"idle", "lock", "asleep", "read", "use", "unlocked"}]
  /\ buf \in [Proc -> Buf]
  /\ dirty \in [Proc -> BOOLEAN]
  /\ want \in [Proc -> Block]
  /\ current \in [Block -> Val]
  /\ panicked \in BOOLEAN

Init ==
  /\ order = [i \in Buf |-> NBUF + 1 - i]
  /\ blockno = [b \in Buf |-> 0]
  /\ valid = [b \in Buf |-> FALSE]
  /\ refcnt = [b \in Buf |-> 0]
  /\ disk \in [Block -> Val]
  /\ \E v \in Val : data = [b \in Buf |-> v]
  /\ owner = [b \in Buf |-> NoProc]
  /\ pinned = {}
  /\ pc = [p \in Proc |-> "idle"]
  /\ buf = [p \in Proc |-> 1]
  /\ dirty = [p \in Proc |-> FALSE]
  /\ want = [p \in Proc |-> CHOOSE k \in Block : TRUE]
  /\ current = disk
  /\ panicked = FALSE

-----------------------------------------------------------------------------
(* bufcache_get.                                                           *)

Cached(k) == {b \in Buf : blockno[b] = k}

\* The least recently used buffer without references.
Unused == SelectLastInSeq(order, LAMBDA b : refcnt[b] = 0)

\* p goes on to acquiresleep with buffer b.
Got(p, b, k) ==
  /\ pc' = [pc EXCEPT ![p] = "lock"]
  /\ buf' = [buf EXCEPT ![p] = b]
  /\ want' = [want EXCEPT ![p] = k]
  /\ UNCHANGED <<order, data, owner, disk, pinned, dirty, current>>

get_hit(p, k) ==
  \E b \in Cached(k) :
    /\ refcnt' = [refcnt EXCEPT ![b] = @ + 1]
    /\ Got(p, b, k)
    /\ UNCHANGED <<blockno, valid, panicked>>

\* mutant: the buffer keeps the valid flag of the block it held before
get_recycle_valid(p, k) ==
  /\ Unused # 0
  /\ LET b == order[Unused] IN
     /\ blockno' = [blockno EXCEPT ![b] = k]
     /\ refcnt' = [refcnt EXCEPT ![b] = 1]
     /\ Got(p, b, k)
  /\ UNCHANGED <<valid, panicked>>

get_recycle(p, k) ==
  /\ Unused # 0
  /\ LET b == order[Unused] IN
     /\ blockno' = [blockno EXCEPT ![b] = k]
     /\ valid' = [valid EXCEPT ![b] = FALSE]
     /\ refcnt' = [refcnt EXCEPT ![b] = 1]
     /\ Got(p, b, k)
  /\ UNCHANGED panicked

get_none ==
  /\ Unused = 0
  /\ panicked' = TRUE
  /\ UNCHANGED <<bufVars, owner, disk, pinned, procVars, current>>

\* mutant: a buffer is recycled without a look for a cached one
bufcache_get_blind(p, k) ==
  /\ pc[p] = "idle" /\ ~panicked
  /\ get_recycle(p, k) \/ get_none

bufcache_get(p, k) ==
  /\ pc[p] = "idle" /\ ~panicked
  /\ \/ get_hit(p, k)
     \/ Cached(k) = {} /\ (get_recycle(p, k) \/ get_none)

-----------------------------------------------------------------------------
(* The sleep lock and the data.                                            *)

\* mutant: the lock is taken without a look at lk->locked
acquiresleep_blind(p) ==
  /\ pc[p] = "lock" /\ ~panicked
  /\ owner' = [owner EXCEPT ![buf[p]] = p]
  /\ pc' = [pc EXCEPT ![p] = "read"]
  /\ UNCHANGED <<bufVars, disk, pinned, buf, dirty, want, current, panicked>>

\* One turn of acquiresleep's loop; releasesleep brings a sleeper back here.
acquiresleep(p) ==
  LET b == buf[p] IN
  /\ pc[p] = "lock" /\ ~panicked
  /\ \/ /\ owner[b] # NoProc
        /\ pc' = [pc EXCEPT ![p] = "asleep"]
        /\ UNCHANGED owner
     \/ /\ owner[b] = NoProc
        /\ owner' = [owner EXCEPT ![b] = p]
        /\ pc' = [pc EXCEPT ![p] = "read"]
  /\ UNCHANGED <<bufVars, disk, pinned, buf, dirty, want, current, panicked>>

\* The rest of bufcache_read: an invalid buffer is read from disk.
bufcache_read(p) ==
  LET b == buf[p] IN
  /\ pc[p] = "read" /\ ~panicked
  /\ data' = [data EXCEPT ![b] = IF valid[b] THEN @ ELSE disk[blockno[b]]]
  /\ valid' = [valid EXCEPT ![b] = TRUE]
  /\ pc' = [pc EXCEPT ![p] = "use"]
  /\ UNCHANGED <<order, blockno, refcnt, owner, disk, pinned, buf, dirty, want,
                 current, panicked>>

\* The caller changes the buffer's contents.
change(p, v) ==
  /\ pc[p] = "use" /\ ~panicked
  /\ data' = [data EXCEPT ![buf[p]] = v]
  /\ current' = [current EXCEPT ![want[p]] = v]
  /\ dirty' = [dirty EXCEPT ![p] = TRUE]
  /\ UNCHANGED <<order, blockno, valid, refcnt, owner, disk, pinned, pc, buf,
                 want, panicked>>

\* bufcache_write, and bufcache_unpin if the log is installing the block.
bufcache_write(p, install) ==
  LET b == buf[p] IN
  /\ pc[p] = "use" /\ ~panicked
  /\ disk' = [disk EXCEPT ![blockno[b]] = data[b]]
  /\ dirty' = [dirty EXCEPT ![p] = FALSE]
  /\ \/ /\ install /\ b \in pinned
        /\ pinned' = pinned \ {b}
        /\ refcnt' = [refcnt EXCEPT ![b] = @ - 1]
     \/ /\ ~install /\ b \notin pinned /\ dirty[p]
        /\ UNCHANGED <<pinned, refcnt>>
  /\ UNCHANGED <<order, blockno, valid, data, owner, pc, buf, want, current,
                 panicked>>

\* log_write: the first one of a block pins its buffer.
log_write(p) ==
  LET b == buf[p] IN
  /\ pc[p] = "use" /\ ~panicked /\ dirty[p]
  /\ dirty' = [dirty EXCEPT ![p] = FALSE]
  /\ refcnt' = [refcnt EXCEPT ![b] = IF b \in pinned THEN @ ELSE @ + 1]
  /\ pinned' = pinned \cup {b}
  /\ UNCHANGED <<order, blockno, valid, data, owner, disk, pc, buf, want,
                 current, panicked>>

-----------------------------------------------------------------------------
(* bufcache_release.                                                       *)

\* mutant: nobody is woken
releasesleep_silent(p) ==
  /\ pc[p] = "use" /\ ~dirty[p] /\ ~panicked
  /\ owner' = [owner EXCEPT ![buf[p]] = NoProc]
  /\ pc' = [pc EXCEPT ![p] = "unlocked"]
  /\ UNCHANGED <<bufVars, disk, pinned, buf, dirty, want, current, panicked>>

\* releasesleep wakes everybody who sleeps on the lock.
releasesleep(p) ==
  LET b == buf[p] IN
  /\ pc[p] = "use" /\ ~dirty[p] /\ ~panicked
  /\ owner' = [owner EXCEPT ![b] = NoProc]
  /\ pc' = [q \in Proc |->
              IF q = p THEN "unlocked"
              ELSE IF pc[q] = "asleep" /\ buf[q] = b THEN "lock" ELSE pc[q]]
  /\ UNCHANGED <<bufVars, disk, pinned, buf, dirty, want, current, panicked>>

\* b moves to the front of the list.
ToFront(b) == <<b>> \o Remove(order, b)

\* mutant: the buffer goes back to the list whoever else refers to it
bufcache_release_all(p) ==
  LET b == buf[p] IN
  /\ pc[p] = "unlocked" /\ ~panicked
  /\ refcnt' = [refcnt EXCEPT ![b] = 0]
  /\ order' = ToFront(b)
  /\ pc' = [pc EXCEPT ![p] = "idle"]
  /\ UNCHANGED <<blockno, valid, data, owner, disk, pinned, buf, dirty, want,
                 current, panicked>>

\* mutant: the list loses the buffer
bufcache_release_lost(p) ==
  LET b == buf[p] IN
  /\ pc[p] = "unlocked" /\ ~panicked
  /\ refcnt' = [refcnt EXCEPT ![b] = @ - 1]
  /\ order' = IF refcnt[b] = 1 THEN Remove(order, b) ELSE order
  /\ pc' = [pc EXCEPT ![p] = "idle"]
  /\ UNCHANGED <<blockno, valid, data, owner, disk, pinned, buf, dirty, want,
                 current, panicked>>

\* The second half of bufcache_release, under bcache.lock.
bufcache_release(p) ==
  LET b == buf[p] IN
  /\ pc[p] = "unlocked" /\ ~panicked
  /\ refcnt' = [refcnt EXCEPT ![b] = @ - 1]
  /\ order' = IF refcnt[b] = 1 THEN ToFront(b) ELSE order
  /\ pc' = [pc EXCEPT ![p] = "idle"]
  /\ UNCHANGED <<blockno, valid, data, owner, disk, pinned, buf, dirty, want,
                 current, panicked>>

\* panic() never returns.
panic == panicked /\ UNCHANGED vars

Next ==
  \/ \E p \in Proc :
       \/ \E k \in Block : bufcache_get(p, k)
       \/ acquiresleep(p) \/ bufcache_read(p)
       \/ \E v \in Val : change(p, v)
       \/ \E install \in BOOLEAN : bufcache_write(p, install)
       \/ log_write(p) \/ releasesleep(p) \/ bufcache_release(p)
  \/ panic

Spec == Init /\ [][Next]_vars

-----------------------------------------------------------------------------

\* A block is in at most one buffer, also while it is being recycled, read or
\* waited for (buffer-io.c: "Look through buffer cache for block").
OneBufferPerBlock ==
  \A b, c \in Buf : blockno[b] = blockno[c] => b = c \/ blockno[b] = 0

\* "Only one process at a time can use a buffer".
Exclusive ==
  \A p, q \in Proc :
    pc[p] \in {"read", "use"} /\ pc[q] \in {"read", "use"} /\ buf[p] = buf[q]
      => p = q

\* bufcache_read returns "a buffer with the contents of the indicated block":
\* the last change any process made to the block, whether it has reached the
\* disk or only the log's pinned buffer, and nobody recycles it in the
\* caller's hands.
Coherent ==
  \A p \in Proc : pc[p] = "use" =>
    /\ blockno[buf[p]] = want[p]
    /\ data[buf[p]] = current[want[p]]

\* A process asleep in acquiresleep has an owner of the lock to wait for.
SleepersHaveOwner ==
  \A p \in Proc : pc[p] = "asleep" => owner[buf[p]] # NoProc

\* refcnt counts the processes between bufcache_get and bufcache_release and
\* the log's pin, neither more (a buffer lost for ever) nor less.
RefsExact ==
  \A b \in Buf :
    refcnt[b] = Cardinality({p \in Proc : pc[p] # "idle" /\ buf[p] = b})
                + (IF b \in pinned THEN 1 ELSE 0)

=============================================================================
