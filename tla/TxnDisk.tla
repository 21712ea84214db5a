------------------------------ MODULE TxnDisk ------------------------------
(***************************************************************************)
(* What the logging layer (src/kernel/log.c) promises the file system: a   *)
(* set of blocks with a volatile and a durable value, system calls that    *)
(* write between begin_op and end_op, and a durable copy that moves only   *)
(* at instants when no system call is half done.  A crash falls back to    *)
(* the durable copy, so it can never expose part of a system call.         *)
(***************************************************************************)
CONSTANTS Block,  \* home block numbers
          Val,    \* block contents
          Proc    \* processes that make file system calls

VARIABLES durable,   \* what a machine booted now would see
          volatile,  \* what a system call running now sees
          active     \* processes between begin_op and end_op

vars == <<durable, volatile, active>>

Init == /\ durable \in [Block -> Val]
        /\ volatile = durable
        /\ active = {}

Begin(p) == /\ p \notin active
            /\ active' = active \cup {p}
            /\ UNCHANGED <<durable, volatile>>

Write(p, b, v) == /\ p \in active
                  /\ volatile' = [volatile EXCEPT ![b] = v]
                  /\ UNCHANGED <<durable, active>>

End(p) == /\ p \in active
          /\ active' = active \ {p}
          /\ UNCHANGED <<durable, volatile>>

Commit == /\ active = {}
          /\ durable' = volatile
          /\ UNCHANGED <<volatile, active>>

Crash == /\ volatile' = durable
         /\ active' = {}
         /\ UNCHANGED durable

Next == \/ \E p \in Proc : \/ Begin(p)
                           \/ \E b \in Block, v \in Val : Write(p, b, v)
                           \/ End(p)
        \/ Commit
        \/ Crash

Spec == Init /\ [][Next]_vars
=============================================================================
