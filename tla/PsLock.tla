------------------------------- MODULE PsLock -------------------------------
(***************************************************************************)
(* The lock of a pollsession structure: docker/libs/libnetconf2/src/       *)
(* session_server.c, nc_ps_lock and nc_ps_unlock.  Threads take tickets,   *)
(* uint8_t, from a ring buffer of NC_PS_QUEUE_SIZE slots; the thread whose *)
(* ticket is at the buffer's start works with the structure, the others    *)
(* wait on a condition variable for at most NC_PS_QUEUE_TIMEOUT.           *)
(*                                                                         *)
(* What happens under the mutex ps->lock is one step: the mutex is never   *)
(* held while waiting, and NC_PS_LOCK_TIMEOUT is taken to suffice for the  *)
(* few instructions it covers.  How long a thread keeps the structure is   *)
(* up to it (nc_ps_poll accepts an infinite timeout).                      *)
(***************************************************************************)
EXTENDS Integers

CONSTANTS
    Threads,    \* the threads that share the structure
    QueueSize,  \* NC_PS_QUEUE_SIZE
    Tickets     \* how many values a ticket has: 2^8

ASSUME PsLockAssumption == QueueSize \in Nat \ {0} /\ Tickets \in Nat \ {0}

Slots == 0 .. QueueSize - 1

VARIABLES
    queue,        \* the ring buffer
    queue_begin,  \* the slot it starts on
    queue_len,    \* how many slots are taken
    pc,           \* each thread: "out", "waiting" or "inside"
    id,           \* the ticket of each thread
    signalled,    \* waiting threads that the condition variable has woken
    wrapped       \* history: a ticket was drawn after the greatest one

vars == <<queue, queue_begin, queue_len, pc, id, signalled, wrapped>>

TypeOK ==
    /\ queue \in [Slots -> 0 .. Tickets - 1]
    /\ queue_begin \in Slots
    /\ queue_len \in 0 .. QueueSize
    /\ pc \in [Threads -> {"out", "waiting", "inside"}]
    /\ id \in [Threads -> 0 .. Tickets - 1]
    /\ signalled \subseteq Threads
    /\ wrapped \in BOOLEAN

\* nc_ps_new
Init ==
    /\ queue = [s \in Slots |-> 0]
    /\ queue_begin = 0
    /\ queue_len = 0
    /\ pc = [t \in Threads |-> "out"]
    /\ id = [t \in Threads |-> 0]
    /\ signalled = {}
    /\ wrapped = FALSE

-----------------------------------------------------------------------------
(***************************************************************************)
(* The ring buffer.                                                        *)
(***************************************************************************)
\* The slot of the k-th ticket in the queue, counted from 0.
Slot(k) == (queue_begin + k) % QueueSize

Ticket(k) == queue[Slot(k)]

First == Ticket(0)

Positions == 0 .. queue_len - 1

\* Mutant: the number of threads in the queue.
NewTicketByLength == queue_len % Tickets

\* Mutant: the ticket is wider than uint8_t.
NewTicketUnbounded == IF queue_len = 0 THEN 0 ELSE Ticket(queue_len - 1) + 1

NewTicket == IF queue_len = 0 THEN 0 ELSE (Ticket(queue_len - 1) + 1) % Tickets

\* The next ticket is not above the last one: uint8_t wraps.
Wrapping == queue_len # 0 /\ Ticket(queue_len - 1) = Tickets - 1

nc_ps_queue_add_id(t) ==
    /\ id' = [id EXCEPT ![t] = NewTicket]
    /\ queue_len' = queue_len + 1
    /\ queue' = [queue EXCEPT ![Slot(queue_len)] = NewTicket]
    /\ UNCHANGED queue_begin

\* Position p leaves the queue by moving the queue's start, ...
RemoveFirst ==
    /\ queue_len' = queue_len - 1
    /\ queue_begin' = (queue_begin + 1) % QueueSize
    /\ UNCHANGED queue

\* Mutant: the tickets behind the removed one stay where they are.
RemoveWithoutMove(p) ==
    /\ queue_len' = queue_len - 1
    /\ UNCHANGED <<queue, queue_begin>>

\* ... or by moving the tickets behind it one slot forward.
RemoveMiddle(p) ==
    /\ queue_len' = queue_len - 1
    /\ queue' = [s \in Slots |->
         IF \E k \in p .. queue_len - 2 : s = Slot(k)
         THEN queue[(s + 1) % QueueSize] ELSE queue[s]]
    /\ UNCHANGED queue_begin

\* The first ticket that equals i is removed; without one nothing happens.
nc_ps_queue_remove_id(i) ==
    IF \E p \in Positions : Ticket(p) = i
    THEN \E p \in Positions :
           /\ Ticket(p) = i
           /\ \A k \in 0 .. p - 1 : Ticket(k) # i
           /\ IF p = 0 THEN RemoveFirst ELSE RemoveMiddle(p)
    ELSE UNCHANGED <<queue, queue_begin, queue_len>>

-----------------------------------------------------------------------------
(***************************************************************************)
(* nc_ps_lock: with the queue full it returns an error and nothing changes.*)
(***************************************************************************)
Lock(t) ==
    /\ pc[t] = "out"
    /\ queue_len < QueueSize
    /\ nc_ps_queue_add_id(t)
    /\ pc' = [pc EXCEPT ![t] =
         IF queue_len = 0 \/ First = NewTicket THEN "inside" ELSE "waiting"]
    /\ wrapped' = (wrapped \/ Wrapping)
    /\ UNCHANGED signalled

\* Mutant: a thread that was woken does not look at the queue.
WokenGoesIn(t) ==
    /\ pc[t] = "waiting"
    /\ t \in signalled
    /\ signalled' = signalled \ {t}
    /\ pc' = [pc EXCEPT ![t] = "inside"]
    /\ UNCHANGED <<queue, queue_begin, queue_len, id, wrapped>>

\* pthread_cond_timedwait returns 0: the loop looks at the queue again.
Woken(t) ==
    /\ pc[t] = "waiting"
    /\ t \in signalled
    /\ signalled' = signalled \ {t}
    /\ pc' = IF First = id[t] THEN [pc EXCEPT ![t] = "inside"] ELSE pc
    /\ UNCHANGED <<queue, queue_begin, queue_len, id, wrapped>>

\* It returns ETIMEDOUT and it is this thread's turn after all.
TimedOutInTurn(t) ==
    /\ pc[t] = "waiting"
    /\ First = id[t]
    /\ pc' = [pc EXCEPT ![t] = "inside"]
    /\ signalled' = signalled \ {t}
    /\ UNCHANGED <<queue, queue_begin, queue_len, id, wrapped>>

\* It returns ETIMEDOUT: the thread leaves the queue, the call fails.
TimedOut(t) ==
    /\ pc[t] = "waiting"
    /\ First # id[t]
    /\ nc_ps_queue_remove_id(id[t])
    /\ pc' = [pc EXCEPT ![t] = "out"]
    /\ signalled' = signalled \ {t}
    /\ UNCHANGED <<id, wrapped>>

-----------------------------------------------------------------------------
(***************************************************************************)
(* nc_ps_unlock                                                            *)
(***************************************************************************)
Waiting == {t \in Threads : pc[t] = "waiting"}

\* Mutant: pthread_cond_signal, which wakes one of the waiting threads.
WakeOne ==
    IF Waiting = {} THEN signalled' = signalled
    ELSE \E t \in Waiting : signalled' = signalled \cup {t}

\* pthread_cond_broadcast
WakeAll == signalled' = signalled \cup Waiting

\* Mutant: the thread leaves without its ticket's turn being checked or ended.
UnlockKeepsTicket(t) ==
    /\ pc[t] = "inside"
    /\ First = id[t]
    /\ WakeAll
    /\ pc' = [pc EXCEPT ![t] = "out"]
    /\ UNCHANGED <<queue, queue_begin, queue_len, id, wrapped>>

Unlock(t) ==
    /\ pc[t] = "inside"
    /\ First = id[t]
    /\ nc_ps_queue_remove_id(id[t])
    /\ WakeAll
    /\ pc' = [pc EXCEPT ![t] = "out"]
    /\ UNCHANGED <<id, wrapped>>

\* It was not this thread's turn: ERRINT, and its ticket stays in the queue.
UnlockOutOfTurn(t) ==
    /\ pc[t] = "inside"
    /\ First # id[t]
    /\ pc' = [pc EXCEPT ![t] = "out"]
    /\ UNCHANGED <<queue, queue_begin, queue_len, id, signalled, wrapped>>

Step(t) ==
    \/ Lock(t) \/ Woken(t) \/ TimedOutInTurn(t) \/ TimedOut(t)
    \/ Unlock(t) \/ UnlockOutOfTurn(t)

Next == \E t \in Threads : Step(t)

Spec == Init /\ [][Next]_vars

\* A thread the condition variable has woken runs again, and a thread that is
\* inside leaves; nothing makes a thread take a ticket or time out.
FairSpec == Spec /\ \A t \in Threads : WF_vars(Woken(t)) /\ WF_vars(Unlock(t))
-----------------------------------------------------------------------------
Queued(t) == pc[t] # "out"

(***************************************************************************)
(* The properties hold until a ticket wraps around, after 256 arrivals     *)
(* during which the queue was never empty.  Ordinary overlapping service   *)
(* comes there too: two threads are enough, each of which asks for the     *)
(* structure again while the other one holds it.  From then on "a unique   *)
(* queue value" (session_server.c:806) need not be one, a ticket may be    *)
(* that of a thread still in line, and nothing is said.                    *)
(*                                                                         *)
(* Only one thread works with the structure at a time, and it is the one   *)
(* whose ticket is first: "we must be the first, it was our turn after     *)
(* all, right?" (session_server.c:934) never fails.                        *)
(***************************************************************************)
Exclusion == ~wrapped =>
    /\ \A t, u \in Threads : pc[t] = "inside" /\ pc[u] = "inside" => t = u
    /\ \A t \in Threads : pc[t] = "inside" => queue_len # 0 /\ First = id[t]

(***************************************************************************)
(* The queue holds the tickets of exactly the threads that wait or are     *)
(* inside, one each: no ticket is left behind by a thread that timed out   *)
(* in the middle of the queue, none is lost by the move of the ones behind *)
(* it (session_server.c:825-856).                                          *)
(***************************************************************************)
NoTicketLost == ~wrapped =>
    /\ \A t \in Threads : Queued(t) => \E k \in Positions : Ticket(k) = id[t]
    /\ \A k \in Positions : \E t \in Threads : Queued(t) /\ id[t] = Ticket(k)
    /\ \A t, u \in Threads : Queued(t) /\ Queued(u) /\ id[t] = id[u] => t = u

(***************************************************************************)
(* A waiting thread whose turn has come has been woken: no wakeup is lost, *)
(* whoever timed out in between (session_server.c:888-910, 950).           *)
(***************************************************************************)
NoLostWakeup == ~wrapped =>
    \A t \in Threads : pc[t] = "waiting" /\ First = id[t] => t \in signalled

(***************************************************************************)
(* Every thread that waits is inside or has given up in the end, or a      *)
(* ticket has wrapped, which arrivals that overlap for ever bring about:   *)
(* no timeout is relied on, the threads inside leave, and the condition    *)
(* variable wakes the next one (session_server.c:888-910, 944-950).        *)
(***************************************************************************)
TurnComes == \A t \in Threads : pc[t] = "waiting" ~> pc[t] # "waiting" \/ wrapped

(***************************************************************************)
(* The ring buffer of tickets implements the line of threads: threads work *)
(* with the structure in the order in which they asked for it.             *)
(***************************************************************************)
Line == IF wrapped THEN <<>>
        ELSE [k \in 1 .. queue_len |->
               CHOOSE t \in Threads : Queued(t) /\ id[t] = Ticket(k - 1)]

Inside == IF wrapped THEN {} ELSE {t \in Threads : pc[t] = "inside"}

T == INSTANCE Turnstile WITH line <- Line, inside <- Inside

FirstComeFirstServed == T!Init /\ [][wrapped' \/ T!Next]_(T!vars)
=============================================================================
