-------------------------------- MODULE Fifo --------------------------------
(***************************************************************************)
(* What a pipe (src/kernel/pipe.c) promises its users: a bounded queue of  *)
(* bytes.  A reader receives the oldest byte; nothing is reordered,        *)
(* duplicated, invented or overwritten, whoever writes and reads.          *)
(***************************************************************************)
EXTENDS Naturals, Sequences

CONSTANTS Byte, Reader, Capacity

VARIABLES queue,  \* bytes written and not yet read
          got     \* the last byte each reader was given

Init == /\ queue = <<>>
        /\ got \in [Reader -> Byte]

Put(b) == /\ Len(queue) < Capacity
          /\ queue' = Append(queue, b)
          /\ UNCHANGED got

Get(r) == /\ queue # <<>>
          /\ got' = [got EXCEPT ![r] = Head(queue)]
          /\ queue' = Tail(queue)

Next == (\E b \in Byte : Put(b)) \/ (\E r \in Reader : Get(r))

Spec == Init /\ [][Next]_<<queue, got>>
=============================================================================
