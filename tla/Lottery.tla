------------------------------ MODULE Lottery -------------------------------
(***************************************************************************)
(* How a CPU of xv7 chooses the process to run: the lottery of scheduler() *)
(* in proc.c.  The scan of the process table takes no lock, so every slot  *)
(* is read in a step of its own while other CPUs change the table.         *)
(* total_tickets and tickets[] are locals of scheduler(), which never      *)
(* returns: they live as long as the CPU.                                  *)
(***************************************************************************)
EXTENDS Integers, FiniteSetsExt

CONSTANTS CPU,
          NPROC,      \* slots of the process table, numbered from 1
          Tickets,    \* what programs pass to settickets
          RMAX,       \* rand() returns 1 .. RMAX (65535 in the code)
          IMOD,       \* values of an int (2^32 in the code)
          Garbage,    \* what tickets[] may hold before it is written
          MaxTotal,   \* bound on total_tickets
          None

ASSUME ConstantAssumption ==
  /\ NPROC \in Nat /\ NPROC >= 2
  /\ Tickets \subseteq Nat \ {0}
  /\ RMAX \in Nat \ {0} /\ MaxTotal \in Nat
  /\ IMOD \in Nat /\ IMOD > 1
  /\ Garbage \subseteq Int

Slot == 1 .. NPROC

VARIABLES state,    \* p->state
          ntick,    \* p->tickets
          cproc,    \* c->proc
          pc,       \* where each CPU is in scheduler()
          i,        \* its i: the slot to scan next
          total,    \* its total_tickets
          tickets,  \* its tickets[]
          chosen,   \* its p
          counted,  \* history: the slots it found RUNNABLE in this round
          written   \* history: the entries of tickets[] it has written

vars == <<state, ntick, cproc, pc, i, total, tickets, chosen, counted,
          written>>

Locals == <<pc, i, total, tickets, chosen, counted, written>>

\* The program is well typed; total_tickets is a sum of ticket counts.
TypeOK ==
  /\ state \in [Slot -> {"UNUSED", "SLEEPING", "RUNNABLE", "RUNNING"}]
  /\ ntick \in [Slot -> Nat]
  /\ cproc \in [CPU -> Slot \cup {None}]
  /\ pc \in [CPU -> {"scan", "draw", "acquire", "switched"}]
  /\ i \in [CPU -> Slot]
  /\ total \in [CPU -> 0 .. MaxTotal]
  /\ tickets \in [CPU -> [Slot -> Int]]
  /\ chosen \in [CPU -> Slot]
  /\ counted \in [CPU -> SUBSET Slot]
  /\ written \in [CPU -> SUBSET Slot]

\* init is RUNNABLE in the first slot; every CPU enters scheduler().
Init ==
  /\ state = [k \in Slot |-> IF k = 1 THEN "RUNNABLE" ELSE "UNUSED"]
  /\ ntick = [k \in Slot |-> IF k = 1 THEN 1 ELSE 0]
  /\ cproc = [c \in CPU |-> None]
  /\ pc = [c \in CPU |-> "scan"]
  /\ i = [c \in CPU |-> 1]
  /\ total = [c \in CPU |-> 0]
  /\ tickets \in [CPU -> [Slot -> Garbage]]
  /\ chosen = [c \in CPU |-> 1]
  /\ counted = [c \in CPU |-> {}]
  /\ written = [c \in CPU |-> {}]

-----------------------------------------------------------------------------
(* The lottery.                                                            *)

\* An unsigned long stored in an int.
ToInt(x) ==
  LET w == x % IMOD IN IF w >= IMOD \div 2 THEN w - IMOD ELSE w

\* The comparison tickets[i] > winner, made in unsigned long: a negative
\* entry is converted to a number beyond every winner.
Beats(e, winner) == e < 0 \/ e > winner

\* rand() % total_tickets; the hardware's remainder by zero is the dividend.
Winner(r, t) == IF t = 0 THEN r ELSE r % t

\* mutant: the fallback is the slot after the last
Choice_past(entry, winner) ==
  LET beyond == {k \in Slot : Beats(entry[k], winner)} IN
  IF beyond = {} THEN NPROC + 1 ELSE Min(beyond)

\* mutant: the first entry that reaches the winner is taken
Choice_reaches(entry, winner) ==
  LET reaching == {k \in Slot : entry[k] >= winner} IN
  IF reaching = {} THEN NPROC - 1 ELSE Min(reaching)

\* The second loop: the first entry beyond the winner, and if there is none
\* the slot before the last.
Choice(entry, winner) ==
  LET beyond == {k \in Slot : Beats(entry[k], winner)} IN
  IF beyond = {} THEN NPROC - 1 ELSE Min(beyond)

\* One turn of the first loop.
scan(c) ==
  LET k == i[c]
      sum == total[c] + ntick[k]
  IN
  /\ pc[c] = "scan"
  /\ pc' = [pc EXCEPT ![c] = IF k = NPROC THEN "draw" ELSE "scan"]
  /\ i' = [i EXCEPT ![c] = IF k = NPROC THEN 1 ELSE k + 1]
  /\ \/ /\ state[k] # "RUNNABLE"
        /\ UNCHANGED <<total, tickets, counted, written>>
     \/ /\ state[k] = "RUNNABLE" /\ sum <= MaxTotal
        /\ total' = [total EXCEPT ![c] = sum]
        /\ tickets' = [tickets EXCEPT ![c][k] = ToInt(sum)]
        /\ counted' = [counted EXCEPT ![c] = @ \cup {k}]
        /\ written' = [written EXCEPT ![c] = @ \cup {k}]
  /\ UNCHANGED <<state, ntick, cproc, chosen>>

draw(c, r) ==
  /\ pc[c] = "draw"
  /\ chosen' = [chosen EXCEPT ![c] = Choice(tickets[c], Winner(r, total[c]))]
  /\ pc' = [pc EXCEPT ![c] = "acquire"]
  /\ UNCHANGED <<state, ntick, cproc, i, total, tickets, counted, written>>

\* mutant: the state is not looked at again under p->lock
dispatch_unchecked(c) ==
  /\ pc[c] = "acquire"
  /\ state' = [state EXCEPT ![chosen[c]] = "RUNNING"]
  /\ cproc' = [cproc EXCEPT ![c] = chosen[c]]
  /\ pc' = [pc EXCEPT ![c] = "switched"]
  /\ counted' = [counted EXCEPT ![c] = {}]
  /\ UNCHANGED <<ntick, i, total, tickets, chosen, written>>

\* acquire(&p->lock), and p runs if it is still RUNNABLE.
dispatch(c) ==
  /\ pc[c] = "acquire"
  /\ \/ /\ state[chosen[c]] = "RUNNABLE"
        /\ state' = [state EXCEPT ![chosen[c]] = "RUNNING"]
        /\ cproc' = [cproc EXCEPT ![c] = chosen[c]]
        /\ pc' = [pc EXCEPT ![c] = "switched"]
     \/ /\ state[chosen[c]] # "RUNNABLE"
        /\ pc' = [pc EXCEPT ![c] = "scan"]
        /\ UNCHANGED <<state, cproc>>
  /\ counted' = [counted EXCEPT ![c] = {}]
  /\ UNCHANGED <<ntick, i, total, tickets, chosen, written>>

-----------------------------------------------------------------------------
(* What processes do to the table meanwhile.                               *)

\* The process on c yields, sleeps or exits, and swtch returns in
\* scheduler(), which forgets it.
swtch(c, s) ==
  /\ pc[c] = "switched"
  /\ s \in {"RUNNABLE", "SLEEPING", "UNUSED"}
  /\ state' = [state EXCEPT ![cproc[c]] = s]
  /\ cproc' = [cproc EXCEPT ![c] = None]
  /\ pc' = [pc EXCEPT ![c] = "scan"]
  /\ UNCHANGED <<ntick, i, total, tickets, chosen, counted, written>>

wakeup(k) ==
  /\ state[k] = "SLEEPING"
  /\ state' = [state EXCEPT ![k] = "RUNNABLE"]
  /\ UNCHANGED <<ntick, cproc, Locals>>

\* fork: allocproc takes the first free slot, and the parent's tickets are
\* handed on.
fork(c, k) ==
  /\ pc[c] = "switched" /\ state[k] = "UNUSED"
  /\ \A j \in 1 .. k - 1 : state[j] # "UNUSED"
  /\ state' = [state EXCEPT ![k] = "RUNNABLE"]
  /\ ntick' = [ntick EXCEPT ![k] = ntick[cproc[c]]]
  /\ UNCHANGED <<cproc, Locals>>

sys_settickets(c, n) ==
  /\ pc[c] = "switched"
  /\ ntick' = [ntick EXCEPT ![cproc[c]] = n]
  /\ UNCHANGED <<state, cproc, Locals>>

Next ==
  \/ \E c \in CPU :
       \/ scan(c) \/ dispatch(c)
       \/ \E r \in 1 .. RMAX : draw(c, r)
       \/ \E s \in {"RUNNABLE", "SLEEPING", "UNUSED"} : swtch(c, s)
       \/ \E k \in Slot : fork(c, k)
       \/ \E n \in Tickets : sys_settickets(c, n)
  \/ \E k \in Slot : wakeup(k)

Spec == Init /\ [][Next]_vars

-----------------------------------------------------------------------------

\* k wins the lottery of c for some value of rand().
CanWin(c, k) ==
  \E r \in 1 .. RMAX : Choice(tickets[c], Winner(r, total[c])) = k

\* "Tickets to the lottery" (proc.h), one of which every process holds: a
\* process the round has counted wins for some value of rand().
EveryTicketCounts ==
  \A c \in CPU : pc[c] = "draw" => \A k \in counted[c] : CanWin(c, k)

\* The same, as far as it is true of the code: while total_tickets, which is
\* carried from round to round, is at most the largest value of rand(), and
\* for a process before whose entry all of tickets[] has been written.
\* Entries of processes that have since gone to sleep or exited, and of ticket
\* counts that settickets has changed since, do no harm.
ChanceToWin ==
  \A c \in CPU : pc[c] = "draw" /\ total[c] <= RMAX =>
    \A k \in counted[c] : 1 .. k - 1 \subseteq written[c] => CanWin(c, k)

\* A process runs on one CPU at a time, although the table is scanned without
\* locks and the choice is made from sums that may be rounds old.
DispatchOnce ==
  \A c \in CPU : cproc[c] # None =>
    /\ state[cproc[c]] = "RUNNING"
    /\ \A d \in CPU \ {c} : cproc[d] # cproc[c]

=============================================================================
