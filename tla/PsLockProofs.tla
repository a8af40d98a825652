---------------------------- MODULE PsLockProofs ----------------------------
(***************************************************************************)
(* Proofs about the lock of a pollsession structure, for every number of   *)
(* threads, every size of the queue and every width of a ticket.           *)
(*                                                                         *)
(* The argument: until a ticket wraps around, the tickets in the queue     *)
(* increase from its start to its end.  A new ticket is therefore above    *)
(* all others, and the removal of a ticket leaves the others in order.     *)
(* The line of threads of Turnstile is then the line of the tickets'       *)
(* owners, and each step of the lock a step of that line.                  *)
(***************************************************************************)
EXTENDS PsLock, SequenceTheorems, TLAPS

-----------------------------------------------------------------------------
(***************************************************************************)
(* The slots of the ring buffer.                                           *)
(***************************************************************************)
\* The remainder, below the divisor and once around.
LEMMA ModOnce ==
  \A x \in 0 .. 2 * QueueSize - 1 :
    x % QueueSize = IF x < QueueSize THEN x ELSE x - QueueSize
  BY SMT, PsLockAssumption

\* The slot of position k when the buffer starts on slot b.
SlotFrom(b, k) == IF b + k < QueueSize THEN b + k ELSE b + k - QueueSize

\* The code's modulo is one wrap around the buffer's end.
LEMMA SlotIs ==
  ASSUME NEW b \in Slots, NEW k \in 0 .. QueueSize
  PROVE  (b + k) % QueueSize = SlotFrom(b, k) /\ (b + k) % QueueSize \in Slots
  <1>1. b + k \in 0 .. 2 * QueueSize - 1
    BY PsLockAssumption DEF Slots
  <1>2. (b + k) % QueueSize = IF b + k < QueueSize THEN b + k ELSE b + k - QueueSize
    BY <1>1, ModOnce, PsLockAssumption DEF Slots
  <1> QED
    BY <1>1, <1>2, PsLockAssumption DEF Slots, SlotFrom

\* Two positions have two slots.
LEMMA SlotInjective ==
  ASSUME NEW b \in Slots, NEW j \in Slots, NEW k \in Slots,
         (b + j) % QueueSize = (b + k) % QueueSize
  PROVE  j = k
  <1>1. SlotFrom(b, j) = SlotFrom(b, k)
    BY SlotIs, PsLockAssumption DEF Slots
  <1> QED
    BY <1>1, PsLockAssumption DEF SlotFrom, Slots

\* The slot after a position's is the next position's.
LEMMA SlotNext ==
  ASSUME NEW b \in Slots, NEW k \in 0 .. QueueSize - 1
  PROVE  /\ (((b + k) % QueueSize) + 1) % QueueSize = (b + (k + 1)) % QueueSize
         /\ (((b + 1) % QueueSize) + k) % QueueSize = (b + (k + 1)) % QueueSize
  <1>0. 1 \in 0 .. QueueSize /\ k \in 0 .. QueueSize /\ k + 1 \in 0 .. QueueSize
    BY PsLockAssumption
  <1>1. (b + k) % QueueSize = SlotFrom(b, k) /\ SlotFrom(b, k) \in Slots
    BY <1>0, SlotIs
  <1>2. (SlotFrom(b, k) + 1) % QueueSize = SlotFrom(SlotFrom(b, k), 1)
    BY <1>0, <1>1, SlotIs
  <1>3. (b + 1) % QueueSize = SlotFrom(b, 1) /\ SlotFrom(b, 1) \in Slots
    BY <1>0, SlotIs
  <1>4. (SlotFrom(b, 1) + k) % QueueSize = SlotFrom(SlotFrom(b, 1), k)
    BY <1>0, <1>3, SlotIs
  <1>5. (b + (k + 1)) % QueueSize = SlotFrom(b, k + 1)
    BY <1>0, SlotIs
  <1>6. SlotFrom(SlotFrom(b, k), 1) = SlotFrom(b, k + 1)
    BY PsLockAssumption DEF SlotFrom, Slots
  <1>7. SlotFrom(SlotFrom(b, 1), k) = SlotFrom(b, k + 1)
    BY PsLockAssumption DEF SlotFrom, Slots
  <1> QED
    BY <1>1, <1>2, <1>3, <1>4, <1>5, <1>6, <1>7

-----------------------------------------------------------------------------
(***************************************************************************)
(* The parts of the inductive invariant.  Two of them are properties of    *)
(* PsLock as they stand.                                                   *)
(***************************************************************************)
Increasing == \A j, k \in Positions : j < k => Ticket(j) < Ticket(k)

InsideIsFirst == \A t \in Threads : pc[t] = "inside" => queue_len # 0 /\ First = id[t]

Ordered == ~wrapped => Increasing /\ InsideIsFirst

InLine == Ordered /\ NoTicketLost /\ NoLostWakeup

\* What the type invariant says of the tickets in the queue.
LEMMA TicketType ==
  ASSUME TypeOK, NEW k \in 0 .. QueueSize
  PROVE  Slot(k) \in Slots /\ Ticket(k) \in 0 .. Tickets - 1
  BY SlotIs DEF TypeOK, Slot, Ticket

LEMMA NewTicketType ==
  ASSUME TypeOK
  PROVE  NewTicket \in 0 .. Tickets - 1
  <1>1. CASE queue_len = 0
    BY <1>1, PsLockAssumption DEF NewTicket
  <1>2. CASE queue_len # 0
    <2>1. queue_len - 1 \in 0 .. QueueSize
      BY <1>2, PsLockAssumption DEF TypeOK
    <2>2. Ticket(queue_len - 1) \in 0 .. Tickets - 1
      BY <2>1, TicketType
    <2> QED
      BY <1>2, <2>2, PsLockAssumption DEF NewTicket
  <1> QED
    BY <1>1, <1>2

-----------------------------------------------------------------------------
(***************************************************************************)
(* What the operations on the queue do to the tickets in it.               *)
(***************************************************************************)
\* A new ticket is behind the others.
LEMMA AddEffect ==
  ASSUME TypeOK, NEW t \in Threads, queue_len < QueueSize, nc_ps_queue_add_id(t)
  PROVE  /\ Positions' = 0 .. queue_len
         /\ \A k \in 0 .. queue_len :
              Ticket(k)' = IF k = queue_len THEN NewTicket ELSE Ticket(k)
  <1>1. Positions' = 0 .. queue_len
    BY DEF Positions, nc_ps_queue_add_id, TypeOK
  <1>2. queue_len \in Slots /\ 0 .. queue_len \subseteq Slots
    BY PsLockAssumption DEF TypeOK, Slots
  <1>3. queue_begin' = queue_begin /\ queue' = [queue EXCEPT ![Slot(queue_len)] = NewTicket]
    BY DEF nc_ps_queue_add_id
  <1>4. ASSUME NEW k \in 0 .. queue_len
        PROVE  Ticket(k)' = IF k = queue_len THEN NewTicket ELSE Ticket(k)
    <2>1. k \in Slots /\ k \in 0 .. QueueSize
      BY <1>2, PsLockAssumption DEF Slots
    <2>2. Slot(k) \in Slots
      BY <2>1, TicketType
    <2>3. Slot(k) = Slot(queue_len) => k = queue_len
      BY <1>2, <2>1, SlotInjective DEF Slot, TypeOK
    <2>4. Ticket(k)' = IF Slot(k) = Slot(queue_len) THEN NewTicket ELSE Ticket(k)
      BY <1>3, <2>2 DEF Ticket, Slot, TypeOK
    <2> QED
      BY <2>3, <2>4
  <1> QED
    BY <1>1, <1>4

\* Without position p, the tickets behind it have moved up by one.
Moved(p) ==
  /\ queue_len' = queue_len - 1
  /\ \A k \in 0 .. queue_len - 2 :
       Ticket(k)' = IF k < p THEN Ticket(k) ELSE Ticket(k + 1)

LEMMA RemoveFirstEffect ==
  ASSUME TypeOK, queue_len # 0, RemoveFirst
  PROVE  Moved(0)
  <1>1. ASSUME NEW k \in 0 .. queue_len - 2
        PROVE  Ticket(k)' = Ticket(k + 1)
    <2>1. k \in 0 .. QueueSize - 1 /\ queue_begin \in Slots
      BY PsLockAssumption DEF TypeOK
    <2>2. (((queue_begin + 1) % QueueSize) + k) % QueueSize = (queue_begin + (k + 1)) % QueueSize
      BY <2>1, SlotNext
    <2> QED
      BY <2>2 DEF RemoveFirst, Ticket, Slot
  <1> QED
    BY <1>1 DEF Moved, RemoveFirst, TypeOK

LEMMA RemoveMiddleEffect ==
  ASSUME TypeOK, NEW p \in Positions, RemoveMiddle(p)
  PROVE  Moved(p)
  <1>1. ASSUME NEW k \in 0 .. queue_len - 2
        PROVE  Ticket(k)' = IF k < p THEN Ticket(k) ELSE Ticket(k + 1)
    <2>1. k \in Slots /\ queue_begin \in Slots /\ k \in 0 .. QueueSize
      BY PsLockAssumption DEF TypeOK, Slots
    <2>2. Slot(k) \in Slots
      BY <2>1, TicketType
    <2>3. Ticket(k)' = IF \E j \in p .. queue_len - 2 : Slot(k) = Slot(j)
                       THEN queue[(Slot(k) + 1) % QueueSize] ELSE Ticket(k)
      BY <2>2 DEF RemoveMiddle, Ticket, Slot
    <2>4. \A j \in p .. queue_len - 2 : Slot(k) = Slot(j) => k = j
      <3> SUFFICES ASSUME NEW j \in p .. queue_len - 2, Slot(k) = Slot(j)
                   PROVE  k = j
        OBVIOUS
      <3>1. j \in Slots
        BY PsLockAssumption DEF TypeOK, Slots, Positions
      <3> QED
        BY <2>1, <3>1, SlotInjective DEF Slot
    <2>5. (Slot(k) + 1) % QueueSize = Slot(k + 1)
      BY <2>1, SlotNext DEF Slot, Slots
    <2>6. CASE k < p
      BY <2>3, <2>4, <2>6 DEF Positions, TypeOK
    <2>7. CASE ~(k < p)
      <3>1. k \in p .. queue_len - 2
        BY <2>7 DEF Positions, TypeOK
      <3> QED
        BY <2>3, <2>5, <2>7, <3>1 DEF Ticket
    <2> QED
      BY <2>6, <2>7
  <1> QED
    BY <1>1 DEF Moved, RemoveMiddle, TypeOK

\* The ticket i leaves the queue from some position.
LEMMA RemoveEffect ==
  ASSUME TypeOK, NEW i, \E k \in Positions : Ticket(k) = i, nc_ps_queue_remove_id(i)
  PROVE  \E p \in Positions : Ticket(p) = i /\ Moved(p)
  <1>1. PICK p \in Positions :
          /\ Ticket(p) = i
          /\ IF p = 0 THEN RemoveFirst ELSE RemoveMiddle(p)
    BY DEF nc_ps_queue_remove_id
  <1>2. queue_len # 0
    BY DEF Positions
  <1>3. Moved(p)
    BY <1>1, <1>2, RemoveFirstEffect, RemoveMiddleEffect
  <1> QED
    BY <1>1, <1>3

\* The others stay in order.
LEMMA RemoveKeepsOrder ==
  ASSUME TypeOK, Increasing, NEW p \in Positions, Moved(p)
  PROVE  /\ Positions' = 0 .. queue_len - 2
         /\ Increasing'
         /\ \A k \in Positions : k # p => \E j \in Positions' : Ticket(j)' = Ticket(k)
         /\ \A j \in Positions' : \E k \in Positions : k # p /\ Ticket(j)' = Ticket(k)
  <1>0. Positions = 0 .. queue_len - 1
    BY DEF Positions
  <1>1. Positions' = 0 .. queue_len - 2 /\ queue_len \in 1 .. QueueSize
    BY PsLockAssumption DEF Positions, Moved, TypeOK
  <1>2. \A k \in Positions' : Ticket(k)' = IF k < p THEN Ticket(k) ELSE Ticket(k + 1)
    BY <1>1 DEF Moved
  <1>3. \A k \in Positions' : k \in Positions /\ k + 1 \in Positions
    BY <1>0, <1>1, PsLockAssumption
  <1>4. Increasing'
    <2> SUFFICES ASSUME NEW j \in Positions', NEW k \in Positions', j < k
                 PROVE  Ticket(j)' < Ticket(k)'
      BY DEF Increasing
    <2>1. j \in Int /\ k \in Int /\ p \in Int
      BY <1>0, <1>1, PsLockAssumption
    <2>2. Ticket(j)' = IF j < p THEN Ticket(j) ELSE Ticket(j + 1)
      BY <1>2
    <2>3. Ticket(k)' = IF k < p THEN Ticket(k) ELSE Ticket(k + 1)
      BY <1>2
    <2>4. CASE j < p /\ k < p
      BY <1>3, <2>2, <2>3, <2>4 DEF Increasing
    <2>5. CASE j < p /\ ~(k < p)
      <3>1. j < k + 1
        BY <2>1
      <3> QED
        BY <1>3, <2>2, <2>3, <2>5, <3>1 DEF Increasing
    <2>6. CASE ~(j < p)
      <3>1. ~(k < p) /\ j + 1 < k + 1
        BY <2>1, <2>6
      <3> QED
        BY <1>3, <2>2, <2>3, <2>6, <3>1 DEF Increasing
    <2> QED
      BY <2>4, <2>5, <2>6
  <1>5. ASSUME NEW k \in Positions, k # p
        PROVE  \E j \in Positions' : Ticket(j)' = Ticket(k)
    <2>1. CASE k < p
      <3>1. k \in Positions'
        BY <1>0, <1>1, <2>1, PsLockAssumption
      <3> QED
        BY <1>2, <2>1, <3>1
    <2>2. CASE ~(k < p)
      <3>1. k - 1 \in Positions' /\ ~(k - 1 < p) /\ (k - 1) + 1 = k
        BY <1>0, <1>1, <1>5, <2>2, PsLockAssumption
      <3>2. Ticket(k - 1)' = Ticket((k - 1) + 1)
        BY <1>2, <3>1
      <3>3. Ticket((k - 1) + 1) = Ticket(k)
        BY <3>1
      <3> QED
        BY <3>1, <3>2, <3>3
    <2> QED
      BY <2>1, <2>2
  <1>6. ASSUME NEW j \in Positions'
        PROVE  \E k \in Positions : k # p /\ Ticket(j)' = Ticket(k)
    <2>1. j < p => j # p
      BY <1>0, <1>1, PsLockAssumption
    <2>2. ~(j < p) => j + 1 # p
      BY <1>0, <1>1, PsLockAssumption
    <2> QED
      BY <1>2, <1>3, <2>1, <2>2
  <1> QED
    BY <1>1, <1>4, <1>5, <1>6

-----------------------------------------------------------------------------
(***************************************************************************)
(* Type correctness.                                                       *)
(***************************************************************************)
LEMMA RemoveType ==
  ASSUME TypeOK, NEW i, nc_ps_queue_remove_id(i)
  PROVE  /\ queue' \in [Slots -> 0 .. Tickets - 1]
         /\ queue_begin' \in Slots
         /\ queue_len' \in 0 .. QueueSize
  <1>1. CASE \E k \in Positions : Ticket(k) = i
    <2>1. PICK p \in Positions : IF p = 0 THEN RemoveFirst ELSE RemoveMiddle(p)
      BY <1>1 DEF nc_ps_queue_remove_id
    <2>2. queue_len - 1 \in 0 .. QueueSize
      BY PsLockAssumption DEF Positions, TypeOK
    <2>3. (queue_begin + 1) % QueueSize \in Slots
      <3>1. 1 \in 0 .. QueueSize
        BY PsLockAssumption
      <3> QED
        BY <3>1, SlotIs DEF TypeOK
    <2>4. CASE RemoveFirst
      BY <2>2, <2>3, <2>4 DEF RemoveFirst, TypeOK
    <2>5. CASE RemoveMiddle(p)
      <3>1. \A s \in Slots : (s + 1) % QueueSize \in Slots
        BY SlotIs, PsLockAssumption
      <3> QED
        BY <2>2, <2>5, <3>1 DEF RemoveMiddle, TypeOK
    <2> QED
      BY <2>1, <2>4, <2>5
  <1>2. CASE ~\E k \in Positions : Ticket(k) = i
    BY <1>2 DEF nc_ps_queue_remove_id, TypeOK
  <1> QED
    BY <1>1, <1>2

\* The tickets and the indices of the ring buffer stay in their ranges:
\* nc_ps_queue_add_id and nc_ps_queue_remove_id never leave the array.
THEOREM TypeCorrect == Spec => []TypeOK
  <1>1. Init => TypeOK
    <2> SUFFICES ASSUME Init PROVE TypeOK
      OBVIOUS
    <2>1. 0 \in Slots /\ 0 \in 0 .. QueueSize /\ 0 \in 0 .. Tickets - 1
      BY PsLockAssumption DEF Slots
    <2> QED
      BY <2>1 DEF Init, TypeOK
  <1>2. TypeOK /\ [Next]_vars => TypeOK'
    <2> SUFFICES ASSUME TypeOK, [Next]_vars
                 PROVE  TypeOK'
      OBVIOUS
    <2>1. ASSUME NEW t \in Threads, Lock(t)
          PROVE  TypeOK'
      <3>1. NewTicket \in 0 .. Tickets - 1
        BY NewTicketType
      <3>2. queue_len + 1 \in 0 .. QueueSize
        BY <2>1, PsLockAssumption DEF Lock, TypeOK
      <3>3. wrapped' \in BOOLEAN
        BY <2>1 DEF Lock, Wrapping
      <3> QED
        BY <2>1, <3>1, <3>2, <3>3 DEF Lock, nc_ps_queue_add_id, TypeOK
    <2>2. ASSUME NEW t \in Threads, Woken(t)
          PROVE  TypeOK'
      BY <2>2 DEF Woken, TypeOK
    <2>3. ASSUME NEW t \in Threads, TimedOutInTurn(t)
          PROVE  TypeOK'
      BY <2>3 DEF TimedOutInTurn, TypeOK
    <2>4. ASSUME NEW t \in Threads, TimedOut(t)
          PROVE  TypeOK'
      <3>1. nc_ps_queue_remove_id(id[t])
        BY <2>4 DEF TimedOut
      <3> QED
        BY <2>4, <3>1, RemoveType DEF TimedOut, TypeOK
    <2>5. ASSUME NEW t \in Threads, Unlock(t)
          PROVE  TypeOK'
      <3>1. nc_ps_queue_remove_id(id[t])
        BY <2>5 DEF Unlock
      <3> QED
        BY <2>5, <3>1, RemoveType DEF Unlock, WakeAll, Waiting, TypeOK
    <2>6. ASSUME NEW t \in Threads, UnlockOutOfTurn(t)
          PROVE  TypeOK'
      BY <2>6 DEF UnlockOutOfTurn, TypeOK
    <2>7. CASE UNCHANGED vars
      BY <2>7 DEF vars, TypeOK
    <2> QED
      BY <2>1, <2>2, <2>3, <2>4, <2>5, <2>6, <2>7 DEF Next, Step
  <1> QED
    BY <1>1, <1>2, PTL DEF Spec

-----------------------------------------------------------------------------
(***************************************************************************)
(* The invariant, without the condition that no ticket has wrapped.        *)
(***************************************************************************)
Held == \A t \in Threads : Queued(t) => \E k \in Positions : Ticket(k) = id[t]

Owned == \A k \in Positions : \E t \in Threads : Queued(t) /\ id[t] = Ticket(k)

Distinct == \A t, u \in Threads : Queued(t) /\ Queued(u) /\ id[t] = id[u] => t = u

Awake == \A t \in Threads : pc[t] = "waiting" /\ First = id[t] => t \in signalled

LEMMA InLineIs ==
  InLine <=> (~wrapped => Increasing /\ InsideIsFirst /\ Held /\ Owned /\ Distinct /\ Awake)
  BY DEF InLine, Ordered, NoTicketLost, NoLostWakeup, Held, Owned, Distinct, Awake

\* Two positions have two tickets.
LEMMA TicketsDiffer ==
  ASSUME TypeOK, Increasing, NEW j \in Positions, NEW k \in Positions, j # k
  PROVE  Ticket(j) # Ticket(k)
  <1>1. j \in Int /\ k \in Int /\ j \in 0 .. QueueSize /\ k \in 0 .. QueueSize
    BY PsLockAssumption DEF Positions, TypeOK
  <1>2. Ticket(j) \in Int /\ Ticket(k) \in Int
    BY <1>1, TicketType, PsLockAssumption
  <1> QED
    BY <1>1, <1>2 DEF Increasing

\* A thread joins the line.
LEMMA LockKeeps ==
  ASSUME TypeOK, Increasing, InsideIsFirst, Held, Owned, Distinct, Awake,
         NEW t \in Threads, Lock(t), ~wrapped'
  PROVE  Increasing' /\ InsideIsFirst' /\ Held' /\ Owned' /\ Distinct' /\ Awake'
  <1> DEFINE new == NewTicket
  <1>1. /\ pc[t] = "out" /\ queue_len < QueueSize /\ nc_ps_queue_add_id(t)
        /\ ~Wrapping /\ queue_len \in 0 .. QueueSize /\ queue_len \in Int
    <2>1. pc[t] = "out" /\ queue_len < QueueSize /\ nc_ps_queue_add_id(t) /\ ~Wrapping
      BY Zenon DEF Lock
    <2>2. queue_len \in 0 .. QueueSize /\ queue_len \in Int
      BY PsLockAssumption DEF TypeOK
    <2> QED
      BY <2>1, <2>2
  <1>2. /\ Positions' = 0 .. queue_len
        /\ \A k \in 0 .. queue_len :
             Ticket(k)' = IF k = queue_len THEN new ELSE Ticket(k)
    BY <1>1, AddEffect
  <1>3. Positions = 0 .. queue_len - 1
    BY DEF Positions
  <1>4. \A k \in Positions : Ticket(k) < new
    <2> SUFFICES ASSUME NEW k \in Positions
                 PROVE  Ticket(k) < new
      OBVIOUS
    <2>1. queue_len # 0 /\ queue_len - 1 \in Positions /\ queue_len - 1 \in 0 .. QueueSize
      BY <1>1, <1>3, PsLockAssumption
    <2>2. Ticket(queue_len - 1) \in 0 .. Tickets - 1
      BY <2>1, TicketType
    <2>3. Ticket(queue_len - 1) # Tickets - 1
      BY <1>1, <2>1 DEF Wrapping
    <2>4. new = Ticket(queue_len - 1) + 1
      BY <2>1, <2>2, <2>3, PsLockAssumption DEF NewTicket
    <2>5. Ticket(k) \in Int
      <3>1. k \in 0 .. QueueSize
        BY <1>1, <1>3, PsLockAssumption
      <3> QED
        BY <3>1, TicketType, PsLockAssumption
    <2>6. CASE k = queue_len - 1
      BY <2>2, <2>4, <2>6, PsLockAssumption
    <2>7. CASE k # queue_len - 1
      <3>1. k < queue_len - 1
        BY <1>1, <1>3, <2>7
      <3>2. Ticket(k) < Ticket(queue_len - 1)
        BY <2>1, <3>1 DEF Increasing
      <3> QED
        BY <2>2, <2>4, <2>5, <3>2, PsLockAssumption
    <2> QED
      BY <2>6, <2>7
  <1>5. \A k \in Positions : k \in 0 .. queue_len /\ k # queue_len /\ Ticket(k)' = Ticket(k)
    BY <1>1, <1>2, <1>3
  <1>6. /\ \A u \in Threads : u # t => pc'[u] = pc[u] /\ id'[u] = id[u]
        /\ id'[t] = new /\ signalled' = signalled
        /\ pc'[t] = IF queue_len = 0 \/ First = new THEN "inside" ELSE "waiting"
    BY <1>1 DEF Lock, nc_ps_queue_add_id, TypeOK
  <1>7. Ticket(0)' = IF queue_len = 0 THEN new ELSE First
    BY <1>1, <1>2 DEF First
  <1>8. \A u \in Threads : u # t /\ Queued(u) => id[u] < new /\ queue_len # 0
    BY <1>1, <1>3, <1>4 DEF Held
  <1>9. queue_len # 0 => First < new
    BY <1>1, <1>3, <1>4 DEF First
  <1>10. new \in Int /\ \A u \in Threads : id[u] \in Int
    BY NewTicketType, PsLockAssumption DEF TypeOK
  <1>11. queue_len \in 0 .. queue_len /\ queue_len' # 0
    BY <1>1 DEF nc_ps_queue_add_id
  <1> HIDE DEF new
  <1>12. Increasing'
    <2> SUFFICES ASSUME NEW j \in Positions', NEW k \in Positions', j < k
                 PROVE  Ticket(j)' < Ticket(k)'
      BY DEF Increasing
    <2>1. j \in Positions
      BY <1>1, <1>2, <1>3
    <2>2. CASE k = queue_len
      BY <1>2, <1>4, <1>5, <2>1, <2>2
    <2>3. CASE k # queue_len
      <3>1. k \in Positions
        BY <1>1, <1>2, <1>3, <2>3
      <3> QED
        BY <1>5, <2>1, <3>1 DEF Increasing
    <2> QED
      BY <2>2, <2>3
  <1>13. Held'
    <2> SUFFICES ASSUME NEW u \in Threads, Queued(u)'
                 PROVE  \E k \in Positions' : Ticket(k)' = id'[u]
      BY DEF Held
    <2>1. CASE u = t
      BY <1>2, <1>6, <1>11, <2>1
    <2>2. CASE u # t
      <3>1. PICK k \in Positions : Ticket(k) = id[u]
        BY <1>6, <2>2 DEF Held, Queued
      <3> QED
        BY <1>2, <1>5, <1>6, <2>2, <3>1
    <2> QED
      BY <2>1, <2>2
  <1>14. Owned'
    <2> SUFFICES ASSUME NEW k \in Positions'
                 PROVE  \E u \in Threads : Queued(u)' /\ id'[u] = Ticket(k)'
      BY DEF Owned
    <2>1. CASE k = queue_len
      <3>1. pc'[t] # "out"
        BY <1>6
      <3> QED
        BY <1>2, <1>6, <2>1, <3>1 DEF Queued
    <2>2. CASE k # queue_len
      <3>1. k \in Positions
        BY <1>1, <1>2, <1>3, <2>2
      <3>2. PICK u \in Threads : Queued(u) /\ id[u] = Ticket(k)
        BY <3>1 DEF Owned
      <3>3. u # t
        BY <1>1, <3>2 DEF Queued
      <3> QED
        BY <1>5, <1>6, <3>1, <3>2, <3>3 DEF Queued
    <2> QED
      BY <2>1, <2>2
  <1>15. Distinct'
    <2> SUFFICES ASSUME NEW u \in Threads, NEW v \in Threads,
                        Queued(u)', Queued(v)', id'[u] = id'[v]
                 PROVE  u = v
      BY DEF Distinct
    <2>1. CASE u # t /\ v # t
      BY <1>6, <2>1 DEF Distinct, Queued
    <2>2. ASSUME NEW w \in Threads, w # t, Queued(w)'
          PROVE  id'[w] # id'[t]
      <3>1. id[w] < new
        BY <1>6, <1>8, <2>2 DEF Queued
      <3> QED
        BY <1>6, <1>10, <2>2, <3>1
    <2> QED
      BY <2>1, <2>2
  <1>16. InsideIsFirst'
    <2> SUFFICES ASSUME NEW u \in Threads, pc'[u] = "inside"
                 PROVE  First' = id'[u]
      BY <1>11 DEF InsideIsFirst
    <2>1. CASE u = t
      <3>1. queue_len = 0
        BY <1>6, <1>9, <1>10, <2>1
      <3> QED
        BY <1>6, <1>7, <2>1, <3>1 DEF First
    <2>2. CASE u # t
      BY <1>6, <1>7, <2>2 DEF InsideIsFirst, First
    <2> QED
      BY <2>1, <2>2
  <1>17. Awake'
    <2> SUFFICES ASSUME NEW u \in Threads, pc'[u] = "waiting", First' = id'[u]
                 PROVE  u \in signalled'
      BY DEF Awake
    <2>1. u # t
      BY <1>6, <1>7, <1>9, <1>10 DEF First
    <2>2. queue_len # 0
      BY <1>6, <1>8, <2>1 DEF Queued
    <2> QED
      BY <1>6, <1>7, <2>1, <2>2 DEF Awake, First
  <1> QED
    BY <1>12, <1>13, <1>14, <1>15, <1>16, <1>17

\* A thread whose ticket is not the first one gives up.
LEMMA TimedOutKeeps ==
  ASSUME TypeOK, Increasing, InsideIsFirst, Held, Owned, Distinct, Awake,
         NEW t \in Threads, TimedOut(t)
  PROVE  Increasing' /\ InsideIsFirst' /\ Held' /\ Owned' /\ Distinct' /\ Awake'
  <1>1. pc[t] = "waiting" /\ First # id[t] /\ nc_ps_queue_remove_id(id[t])
    BY DEF TimedOut
  <1>2. \E k \in Positions : Ticket(k) = id[t]
    BY <1>1 DEF Held, Queued
  <1>3. PICK p \in Positions : Ticket(p) = id[t] /\ Moved(p)
    BY <1>1, <1>2, RemoveEffect
  <1>4. /\ Positions' = 0 .. queue_len - 2
        /\ Increasing'
        /\ \A k \in Positions : k # p => \E j \in Positions' : Ticket(j)' = Ticket(k)
        /\ \A j \in Positions' : \E k \in Positions : k # p /\ Ticket(j)' = Ticket(k)
    BY <1>3, RemoveKeepsOrder
  <1>5. p # 0
    BY <1>1, <1>3 DEF First
  <1>6. queue_len' # 0 /\ First' = First
    <2>1. queue_len \in Int /\ p \in 0 .. queue_len - 1
      BY PsLockAssumption DEF TypeOK, Positions
    <2>2. queue_len' = queue_len - 1 /\ Ticket(0)' = Ticket(0)
      BY <1>3, <1>5, <2>1 DEF Moved
    <2> QED
      BY <1>5, <2>1, <2>2 DEF First
  <1>7. /\ id' = id /\ signalled' = signalled \ {t} /\ pc'[t] = "out"
        /\ \A u \in Threads : u # t => pc'[u] = pc[u]
    BY DEF TimedOut, TypeOK
  <1>8. Held'
    <2> SUFFICES ASSUME NEW u \in Threads, Queued(u)'
                 PROVE  \E j \in Positions' : Ticket(j)' = id'[u]
      BY DEF Held
    <2>1. u # t /\ Queued(u)
      BY <1>7 DEF Queued
    <2>2. PICK k \in Positions : Ticket(k) = id[u]
      BY <2>1 DEF Held
    <2>3. k # p
      BY <1>1, <1>3, <2>1, <2>2 DEF Distinct, Queued
    <2> QED
      BY <1>4, <1>7, <2>2, <2>3
  <1>9. Owned'
    <2> SUFFICES ASSUME NEW j \in Positions'
                 PROVE  \E u \in Threads : Queued(u)' /\ id'[u] = Ticket(j)'
      BY DEF Owned
    <2>1. PICK k \in Positions : k # p /\ Ticket(j)' = Ticket(k)
      BY <1>4
    <2>2. PICK u \in Threads : Queued(u) /\ id[u] = Ticket(k)
      BY DEF Owned
    <2>3. Ticket(k) # Ticket(p)
      BY <2>1, TicketsDiffer
    <2> QED
      BY <1>3, <1>7, <2>1, <2>2, <2>3 DEF Queued
  <1>10. Distinct'
    BY <1>7 DEF Distinct, Queued
  <1>11. InsideIsFirst'
    BY <1>6, <1>7 DEF InsideIsFirst
  <1>12. Awake'
    BY <1>6, <1>7 DEF Awake
  <1> QED
    BY <1>4, <1>8, <1>9, <1>10, <1>11, <1>12

\* The thread whose turn it is leaves and wakes the others.
LEMMA UnlockKeeps ==
  ASSUME TypeOK, Increasing, InsideIsFirst, Held, Owned, Distinct, Awake,
         NEW t \in Threads, Unlock(t)
  PROVE  Increasing' /\ InsideIsFirst' /\ Held' /\ Owned' /\ Distinct' /\ Awake'
  <1>1. pc[t] = "inside" /\ First = id[t] /\ nc_ps_queue_remove_id(id[t])
    BY DEF Unlock
  <1>2. \E k \in Positions : Ticket(k) = id[t]
    BY <1>1 DEF Held, Queued
  <1>3. PICK p \in Positions : Ticket(p) = id[t] /\ Moved(p)
    BY <1>1, <1>2, RemoveEffect
  <1>4. /\ Increasing'
        /\ \A k \in Positions : k # p => \E j \in Positions' : Ticket(j)' = Ticket(k)
        /\ \A j \in Positions' : \E k \in Positions : k # p /\ Ticket(j)' = Ticket(k)
    BY <1>3, RemoveKeepsOrder
  <1>5. /\ id' = id /\ signalled' = signalled \cup Waiting /\ pc'[t] = "out"
        /\ \A u \in Threads : u # t => pc'[u] = pc[u]
    BY DEF Unlock, WakeAll, TypeOK
  <1>6. \A u \in Threads : pc[u] = "inside" => u = t
    BY <1>1 DEF InsideIsFirst, Distinct, Queued
  <1>7. Held'
    <2> SUFFICES ASSUME NEW u \in Threads, Queued(u)'
                 PROVE  \E j \in Positions' : Ticket(j)' = id'[u]
      BY DEF Held
    <2>1. u # t /\ Queued(u)
      BY <1>5 DEF Queued
    <2>2. PICK k \in Positions : Ticket(k) = id[u]
      BY <2>1 DEF Held
    <2>3. k # p
      BY <1>1, <1>3, <2>1, <2>2 DEF Distinct, Queued
    <2> QED
      BY <1>4, <1>5, <2>2, <2>3
  <1>8. Owned'
    <2> SUFFICES ASSUME NEW j \in Positions'
                 PROVE  \E u \in Threads : Queued(u)' /\ id'[u] = Ticket(j)'
      BY DEF Owned
    <2>1. PICK k \in Positions : k # p /\ Ticket(j)' = Ticket(k)
      BY <1>4
    <2>2. PICK u \in Threads : Queued(u) /\ id[u] = Ticket(k)
      BY DEF Owned
    <2>3. Ticket(k) # Ticket(p)
      BY <2>1, TicketsDiffer
    <2> QED
      BY <1>3, <1>5, <2>1, <2>2, <2>3 DEF Queued
  <1>9. Distinct'
    BY <1>5 DEF Distinct, Queued
  <1>10. InsideIsFirst'
    BY <1>5, <1>6 DEF InsideIsFirst
  <1>11. Awake'
    BY <1>5 DEF Awake, Waiting
  <1> QED
    BY <1>4, <1>7, <1>8, <1>9, <1>10, <1>11

\* A thread wakes up, or its wait times out, and finds whether it is its turn.
LEMMA LooksKeeps ==
  ASSUME TypeOK, Increasing, InsideIsFirst, Held, Owned, Distinct, Awake,
         NEW t \in Threads, Woken(t) \/ TimedOutInTurn(t)
  PROVE  Increasing' /\ InsideIsFirst' /\ Held' /\ Owned' /\ Distinct' /\ Awake'
  <1>1. /\ pc[t] = "waiting" /\ queue' = queue /\ queue_begin' = queue_begin
        /\ queue_len' = queue_len /\ id' = id /\ signalled' = signalled \ {t}
        /\ \A u \in Threads : u # t => pc'[u] = pc[u]
        /\ pc'[t] = IF First = id[t] THEN "inside" ELSE "waiting"
    BY DEF Woken, TimedOutInTurn, TypeOK
  <1>2. Positions' = Positions /\ First' = First /\ \A k \in Positions : Ticket(k)' = Ticket(k)
    BY <1>1 DEF Positions, First, Ticket, Slot
  <1>3. \A u \in Threads : Queued(u)' <=> Queued(u)
    BY <1>1 DEF Queued
  <1>4. queue_len # 0
    BY <1>1 DEF Held, Queued, Positions
  <1>5. Increasing'
    BY <1>2 DEF Increasing
  <1>6. Held' /\ Owned' /\ Distinct'
    BY <1>1, <1>2, <1>3 DEF Held, Owned, Distinct
  <1>7. InsideIsFirst'
    BY <1>1, <1>2, <1>4 DEF InsideIsFirst
  <1>8. Awake'
    BY <1>1, <1>2 DEF Awake
  <1> QED
    BY <1>5, <1>6, <1>7, <1>8

\* Every step keeps the line in order, as long as no ticket wraps around.
LEMMA StepKeeps == TypeOK /\ InLine /\ [Next]_vars => InLine'
  <1> SUFFICES ASSUME TypeOK, InLine, [Next]_vars, ~wrapped'
               PROVE  (Increasing /\ InsideIsFirst /\ Held /\ Owned /\ Distinct /\ Awake)'
    BY DEF InLine, Ordered, NoTicketLost, NoLostWakeup, Held, Owned, Distinct, Awake
  <1>1. ~wrapped
    BY Zenon DEF Next, Step, Lock, Woken, TimedOutInTurn, TimedOut, Unlock, UnlockOutOfTurn, vars
  <1>2. Increasing /\ InsideIsFirst /\ Held /\ Owned /\ Distinct /\ Awake
    BY <1>1, InLineIs
  <1>3. ASSUME NEW t \in Threads, Lock(t)
        PROVE  (Increasing /\ InsideIsFirst /\ Held /\ Owned /\ Distinct /\ Awake)'
    BY <1>2, <1>3, LockKeeps
  <1>4. ASSUME NEW t \in Threads, Woken(t) \/ TimedOutInTurn(t)
        PROVE  (Increasing /\ InsideIsFirst /\ Held /\ Owned /\ Distinct /\ Awake)'
    BY <1>2, <1>4, LooksKeeps
  <1>5. ASSUME NEW t \in Threads, TimedOut(t)
        PROVE  (Increasing /\ InsideIsFirst /\ Held /\ Owned /\ Distinct /\ Awake)'
    BY <1>2, <1>5, TimedOutKeeps
  <1>6. ASSUME NEW t \in Threads, Unlock(t)
        PROVE  (Increasing /\ InsideIsFirst /\ Held /\ Owned /\ Distinct /\ Awake)'
    BY <1>2, <1>6, UnlockKeeps
  <1>7. ASSUME NEW t \in Threads, UnlockOutOfTurn(t)
        PROVE  FALSE
    BY <1>2, <1>7 DEF UnlockOutOfTurn, InsideIsFirst
  <1>8. CASE UNCHANGED vars
    BY <1>2, <1>8 DEF vars, Increasing, InsideIsFirst, Held, Owned, Distinct, Awake,
       Positions, First, Ticket, Slot, Queued
  <1> QED
    BY <1>3, <1>4, <1>5, <1>6, <1>7, <1>8 DEF Next, Step

-----------------------------------------------------------------------------
LEMMA AlwaysInLine == Spec => []InLine
  <1>1. Init => InLine
    BY DEF Init, InLine, Ordered, NoTicketLost, NoLostWakeup, Increasing, InsideIsFirst,
       Positions, Queued
  <1> QED
    BY <1>1, TypeCorrect, StepKeeps, PTL DEF Spec

\* One thread at a time works with the structure, the one whose ticket is
\* first, so that nc_ps_unlock never finds that it is not its turn.
THEOREM OneInside == Spec => []Exclusion
  <1>1. InLine => Exclusion
    BY DEF InLine, Ordered, NoTicketLost, InsideIsFirst, Exclusion, Queued
  <1> QED
    BY <1>1, AlwaysInLine, PTL

\* The ring buffer holds exactly the tickets of the threads that wait or are
\* inside, whoever gives up in the middle of it.
THEOREM TicketsKept == Spec => []NoTicketLost
  <1>1. InLine => NoTicketLost
    BY DEF InLine
  <1> QED
    BY <1>1, AlwaysInLine, PTL

\* A waiting thread whose turn has come has been woken by nc_ps_unlock.
THEOREM WokenInTurn == Spec => []NoLostWakeup
  <1>1. InLine => NoLostWakeup
    BY DEF InLine
  <1> QED
    BY <1>1, AlwaysInLine, PTL

-----------------------------------------------------------------------------
(***************************************************************************)
(* The refinement of Turnstile.  A step of PsLock is a step of the line of *)
(* threads, or leaves it alone; which one is found by comparing Line' with *)
(* the line the step of Turnstile makes, thread by thread.                 *)
(***************************************************************************)
\* The line, in this state and in the next.
LEMMA LineIs ==
  ASSUME TypeOK, Owned, Distinct, ~wrapped
  PROVE  /\ queue_len \in Nat
         /\ Line \in [1 .. queue_len -> Threads]
         /\ \A k \in 1 .. queue_len : Queued(Line[k]) /\ id[Line[k]] = Ticket(k - 1)
  <1>1. queue_len \in Nat
    BY PsLockAssumption DEF TypeOK
  <1>2. Line = [k \in 1 .. queue_len |->
                  CHOOSE t \in Threads : Queued(t) /\ id[t] = Ticket(k - 1)]
    BY Zenon DEF Line
  <1>3. ASSUME NEW k \in 1 .. queue_len
        PROVE  Line[k] \in Threads /\ Queued(Line[k]) /\ id[Line[k]] = Ticket(k - 1)
    <2>1. k - 1 \in Positions
      BY <1>1 DEF Positions
    <2>2. \E t \in Threads : Queued(t) /\ id[t] = Ticket(k - 1)
      BY <2>1 DEF Owned
    <2>3. PICK u : u = CHOOSE t \in Threads : Queued(t) /\ id[t] = Ticket(k - 1)
      OBVIOUS
    <2>4. u \in Threads /\ Queued(u) /\ id[u] = Ticket(k - 1)
      BY <2>2, <2>3
    <2> QED
      BY <1>2, <2>3, <2>4
  <1> QED
    BY <1>1, <1>2, <1>3

LEMMA NextLineIs ==
  ASSUME ~wrapped', Distinct', NEW n, queue_len' = n, NEW f \in [1 .. n -> Threads],
         \A k \in 1 .. n : pc'[f[k]] # "out" /\ id'[f[k]] = Ticket(k - 1)'
  PROVE  Line' = f
  <1>1. Line' = [k \in 1 .. queue_len' |->
                   CHOOSE t \in Threads : pc'[t] # "out" /\ id'[t] = Ticket(k - 1)']
    BY Zenon DEF Line, Queued
  <1>2. ASSUME NEW k \in 1 .. n PROVE Line'[k] = f[k]
    <2>1. PICK p, d, v : p = pc' /\ d = id' /\ v = Ticket(k - 1)'
      OBVIOUS
    <2>2. \A t, u \in Threads : p[t] # "out" /\ p[u] # "out" /\ d[t] = d[u] => t = u
      BY <2>1 DEF Distinct, Queued
    <2>3. PICK x \in Threads : x = f[k]
      OBVIOUS
    <2>4. p[x] # "out" /\ d[x] = v
      BY <2>1, <2>3
    <2>5. PICK u : u = CHOOSE t \in Threads : pc'[t] # "out" /\ id'[t] = Ticket(k - 1)'
      OBVIOUS
    <2>6. Line'[k] = u
      BY <1>1, <2>5
    <2>7. pc'[x] # "out" /\ id'[x] = Ticket(k - 1)'
      BY <2>3
    <2>8. u \in Threads /\ pc'[u] # "out" /\ id'[u] = Ticket(k - 1)'
      BY <2>5, <2>7, Zenon
    <2>9. u = x
      BY <2>1, <2>2, <2>4, <2>8
    <2> QED
      BY <2>3, <2>6, <2>9
  <1>3. Line' = [k \in 1 .. n |-> Line'[k]]
    BY <1>1
  <1> QED
    BY <1>2, <1>3

LEMMA InsideIs ==
  /\ ~wrapped => Inside = {t \in Threads : pc[t] = "inside"}
  /\ ~wrapped' => Inside' = {t \in Threads : pc'[t] = "inside"}
  BY Zenon DEF Inside

\* A thread that takes a ticket joins the line.
LEMMA LockJoins ==
  ASSUME TypeOK, Increasing, InsideIsFirst, Held, Owned, Distinct, Awake,
         NEW t \in Threads, Lock(t), ~wrapped, ~wrapped', Increasing', Distinct'
  PROVE  T!Join(t)
  <1>1. pc[t] = "out" /\ queue_len < QueueSize /\ nc_ps_queue_add_id(t)
    BY Zenon DEF Lock
  <1>2. /\ id' = [id EXCEPT ![t] = NewTicket] /\ queue_len' = queue_len + 1
        /\ pc' = [pc EXCEPT ![t] = IF queue_len = 0 \/ First = NewTicket THEN "inside" ELSE "waiting"]
    BY Zenon DEF Lock, nc_ps_queue_add_id
  <1>3. /\ Positions' = 0 .. queue_len
        /\ \A k \in 0 .. queue_len :
             Ticket(k)' = IF k = queue_len THEN NewTicket ELSE Ticket(k)
    BY <1>1, AddEffect
  <1>4. PICK n \in Nat : n = queue_len
    BY LineIs
  <1>5. PICK l \in [1 .. n -> Threads] :
          l = Line /\ \A k \in 1 .. n : Queued(l[k]) /\ id[l[k]] = Ticket(k - 1)
    BY <1>4, LineIs
  <1>6. \A k \in 1 .. n : l[k] # t
    BY <1>1, <1>5 DEF Queued
  <1> DEFINE f == [k \in 1 .. n + 1 |-> IF k = n + 1 THEN t ELSE l[k]]
  <1>7. f \in [1 .. n + 1 -> Threads]
    <2>1. \A k \in 1 .. n + 1 : k = n + 1 \/ k \in 1 .. n
      OBVIOUS
    <2> QED
      BY <2>1
  <1>8. ASSUME NEW k \in 1 .. n + 1
        PROVE  pc'[f[k]] # "out" /\ id'[f[k]] = Ticket(k - 1)'
    <2>1. CASE k = n + 1
      <3>1. k - 1 = queue_len /\ k - 1 \in 0 .. queue_len
        BY <1>4, <2>1
      <3>2. Ticket(k - 1)' = NewTicket
        BY <1>3, <3>1
      <3>3. f[k] = t
        BY <2>1
      <3> QED
        BY <1>2, <3>2, <3>3 DEF TypeOK
    <2>2. CASE k # n + 1
      <3>1. k \in 1 .. n /\ k - 1 \in 0 .. queue_len /\ k - 1 # queue_len
        BY <1>4, <2>2
      <3>2. Ticket(k - 1)' = Ticket(k - 1)
        BY <1>3, <3>1
      <3>3. f[k] = l[k] /\ l[k] \in Threads /\ l[k] # t
        BY <1>6, <2>2, <3>1
      <3>4. pc'[l[k]] = pc[l[k]] /\ id'[l[k]] = id[l[k]]
        BY <1>2, <3>3 DEF TypeOK
      <3> QED
        BY <1>5, <3>1, <3>2, <3>3, <3>4 DEF Queued
    <2> QED
      BY <2>1, <2>2
  <1>9. Line' = f
    <2> HIDE DEF f
    <2>1. queue_len' = n + 1
      BY <1>2, <1>4
    <2> QED
      BY <1>7, <1>8, <2>1, NextLineIs
  <1>10. f = Append(l, t) /\ Len(l) = n
    <2>1. l \in Seq(Threads) /\ Len(l) = n
      OBVIOUS
    <2>2. PICK a \in Seq(Threads) : a = Append(l, t) /\ Len(a) = n + 1
      BY <2>1, AppendProperties
    <2>3. a \in [1 .. n + 1 -> Threads]
      BY <2>2, LenProperties
    <2>4. \A k \in 1 .. n + 1 : a[k] = f[k]
      <3>1. a[n + 1] = t /\ \A k \in 1 .. n : a[k] = l[k]
        BY <2>1, <2>2, AppendProperties
      <3>2. f[n + 1] = t /\ \A k \in 1 .. n : f[k] = l[k]
        OBVIOUS
      <3>3. \A k \in 1 .. n + 1 : k = n + 1 \/ k \in 1 .. n
        OBVIOUS
      <3> HIDE DEF f
      <3> QED
        BY <3>1, <3>2, <3>3
    <2> HIDE DEF f
    <2>5. a = f
      BY <1>7, <2>3, <2>4
    <2> QED
      BY <2>1, <2>2, <2>5
  <1>11. t \notin T!InLine
    BY <1>5, <1>6, <1>10 DEF T!InLine
  <1>12. Inside' = IF Line = <<>> THEN {t} ELSE Inside
    <2>1. Inside = {u \in Threads : pc[u] = "inside"} /\ Inside' = {u \in Threads : pc'[u] = "inside"}
      BY InsideIs
    <2>2. \A u \in Threads : u # t => pc'[u] = pc[u]
      BY <1>2 DEF TypeOK
    <2>3. CASE n = 0
      <3>1. \A u \in Threads : pc[u] # "inside"
        BY <1>4, <2>3 DEF InsideIsFirst
      <3>2. pc'[t] = "inside"
        BY <1>2, <1>4, <2>3 DEF TypeOK
      <3>3. Line = <<>>
        BY <1>5, <2>3
      <3> QED
        BY <2>1, <2>2, <3>1, <3>2, <3>3
    <2>4. CASE n # 0
      <3>1. Ticket(0)' < Ticket(n)'
        BY <1>3, <1>4, <2>4 DEF Increasing
      <3>2. Ticket(0)' = First /\ Ticket(n)' = NewTicket
        BY <1>3, <1>4, <2>4 DEF First
      <3>3. First \in Int /\ NewTicket \in Int
        BY TicketType, NewTicketType, PsLockAssumption DEF First
      <3>4. pc'[t] = "waiting"
        <4>1. First # NewTicket
          BY <3>1, <3>2, <3>3
        <4> QED
          BY <1>2, <1>4, <2>4, <4>1 DEF TypeOK
      <3>5. Line # <<>>
        BY <1>5, <1>10, <2>4
      <3> QED
        BY <1>1, <2>1, <2>2, <3>4, <3>5
    <2> QED
      BY <2>3, <2>4
  <1> HIDE DEF f
  <1> QED
    BY <1>5, <1>9, <1>10, <1>11, <1>12 DEF T!Join

\* A thread that looks at the queue goes in when it is first, or goes on
\* waiting.
LEMMA LooksEnters ==
  ASSUME TypeOK, Increasing, InsideIsFirst, Held, Owned, Distinct, Awake,
         NEW t \in Threads, Woken(t) \/ TimedOutInTurn(t), ~wrapped, ~wrapped', Distinct'
  PROVE  T!Enter(t) \/ UNCHANGED <<Line, Inside>>
  <1>1. /\ pc[t] = "waiting" /\ queue' = queue /\ queue_begin' = queue_begin
        /\ queue_len' = queue_len /\ id' = id
        /\ \A u \in Threads : u # t => pc'[u] = pc[u]
        /\ pc'[t] = IF First = id[t] THEN "inside" ELSE "waiting"
    BY DEF Woken, TimedOutInTurn, TypeOK
  <1>2. PICK n \in Nat : n = queue_len
    BY LineIs
  <1>3. PICK l \in [1 .. n -> Threads] :
          l = Line /\ \A k \in 1 .. n : Queued(l[k]) /\ id[l[k]] = Ticket(k - 1)
    BY <1>2, LineIs
  <1>4. Line' = l
    <2>1. \A k : Ticket(k)' = Ticket(k)
      BY <1>1 DEF Ticket, Slot
    <2>2. \A k \in 1 .. n : pc'[l[k]] # "out" /\ id'[l[k]] = Ticket(k - 1)'
      BY <1>1, <1>3, <2>1 DEF Queued
    <2>3. queue_len' = n
      BY <1>1, <1>2
    <2> QED
      BY <2>2, <2>3, NextLineIs
  <1>5. Inside = {u \in Threads : pc[u] = "inside"} /\ Inside' = {u \in Threads : pc'[u] = "inside"}
    BY InsideIs
  <1>6. CASE First # id[t]
    <2>1. Inside' = Inside
      BY <1>1, <1>5, <1>6
    <2> QED
      BY <1>3, <1>4, <2>1
  <1>7. CASE First = id[t]
    <2>1. n > 0
      BY <1>1, <1>2 DEF Held, Queued, Positions
    <2>2. l # <<>> /\ Head(l) = l[1] /\ 1 \in 1 .. n
      BY <2>1
    <2>3. id[l[1]] = First /\ Queued(l[1]) /\ l[1] \in Threads
      BY <1>3, <2>2 DEF First
    <2>4. l[1] = t
      BY <1>1, <1>7, <2>3 DEF Distinct, Queued
    <2>5. \A u \in Threads : pc[u] # "inside"
      BY <1>1, <1>7 DEF InsideIsFirst, Distinct, Queued
    <2>6. Inside = {} /\ Inside' = {t}
      BY <1>1, <1>5, <1>7, <2>5
    <2> QED
      BY <1>3, <1>4, <2>2, <2>4, <2>6 DEF T!Enter
  <1> QED
    BY <1>6, <1>7

\* The line after the ticket at position q is gone.
LEMMA RemovedLine ==
  ASSUME TypeOK, Increasing, Owned, Distinct, ~wrapped, ~wrapped', Distinct',
         NEW t \in Threads, NEW q \in Positions, Ticket(q) = id[t], Queued(t), Moved(q),
         id' = id, \A u \in Threads : u # t => pc'[u] = pc[u],
         NEW n \in Nat, n = queue_len,
         NEW l \in [1 .. n -> Threads], l = Line
  PROVE  /\ n > 0 /\ q + 1 \in 1 .. n /\ l[q + 1] = t
         /\ Line' = [j \in 1 .. n - 1 |-> IF j < q + 1 THEN l[j] ELSE l[j + 1]]
  <1>1. \A k \in 1 .. n : Queued(l[k]) /\ id[l[k]] = Ticket(k - 1) /\ l[k] \in Threads
    BY LineIs
  <1>2. q \in 0 .. n - 1 /\ n > 0 /\ q + 1 \in 1 .. n /\ (q + 1) - 1 = q
    BY DEF Positions
  <1>3. id[l[q + 1]] = Ticket(q)
    BY <1>1, <1>2
  <1>4. l[q + 1] = t
    BY <1>1, <1>2, <1>3 DEF Distinct
  <1>5. ASSUME NEW k \in 1 .. n, k # q + 1 PROVE l[k] # t
    <2>1. k - 1 \in Positions /\ k - 1 # q
      BY <1>2, <1>5 DEF Positions
    <2>2. Ticket(k - 1) # Ticket(q)
      BY <2>1, TicketsDiffer
    <2> QED
      BY <1>1, <2>2
  <1> DEFINE f == [j \in 1 .. n - 1 |-> IF j < q + 1 THEN l[j] ELSE l[j + 1]]
  <1>6. \A j \in 1 .. n - 1 : j \in 1 .. n /\ j + 1 \in 1 .. n
    OBVIOUS
  <1>7. f \in [1 .. n - 1 -> Threads]
    BY <1>6
  <1>8. ASSUME NEW j \in 1 .. n - 1
        PROVE  pc'[f[j]] # "out" /\ id'[f[j]] = Ticket(j - 1)'
    <2>1. PICK m \in 1 .. n : m = (IF j < q + 1 THEN j ELSE j + 1) /\ m # q + 1 /\ f[j] = l[m]
      BY <1>2, <1>6
    <2>2. Ticket(j - 1)' = Ticket(m - 1)
      <3>1. j - 1 \in 0 .. queue_len - 2
        OBVIOUS
      <3>2. Ticket(j - 1)' = IF j - 1 < q THEN Ticket(j - 1) ELSE Ticket((j - 1) + 1)
        BY <3>1 DEF Moved
      <3>3. (j - 1 < q <=> j < q + 1) /\ (j - 1) + 1 = (j + 1) - 1
        BY <1>2
      <3> QED
        BY <2>1, <3>2, <3>3
    <2>3. l[m] # t /\ l[m] \in Threads /\ pc[l[m]] # "out" /\ id[l[m]] = Ticket(m - 1)
      BY <1>1, <1>5, <2>1 DEF Queued
    <2> QED
      BY <2>1, <2>2, <2>3
  <1>9. Line' = f
    <2> HIDE DEF f
    <2>1. queue_len' = n - 1
      BY DEF Moved
    <2> QED
      BY <1>7, <1>8, <2>1, NextLineIs
  <1> QED
    BY <1>2, <1>4, <1>9

\* A thread that times out leaves the middle of the line.
LEMMA TimedOutGivesUp ==
  ASSUME TypeOK, Increasing, InsideIsFirst, Held, Owned, Distinct, Awake,
         NEW t \in Threads, TimedOut(t), ~wrapped, ~wrapped', Distinct'
  PROVE  T!GiveUp(t)
  <1>1. pc[t] = "waiting" /\ First # id[t] /\ nc_ps_queue_remove_id(id[t]) /\ Queued(t)
    BY DEF TimedOut, Queued
  <1>2. PICK q \in Positions : Ticket(q) = id[t] /\ Moved(q)
    BY <1>1, RemoveEffect DEF Held
  <1>3. id' = id /\ pc'[t] = "out" /\ \A u \in Threads : u # t => pc'[u] = pc[u]
    BY DEF TimedOut, TypeOK
  <1>4. PICK n \in Nat : n = queue_len
    BY LineIs
  <1>5. PICK l \in [1 .. n -> Threads] : l = Line
    BY <1>4, LineIs
  <1>6. /\ q + 1 \in 1 .. n /\ l[q + 1] = t
        /\ Line' = [j \in 1 .. n - 1 |-> IF j < q + 1 THEN l[j] ELSE l[j + 1]]
    BY <1>1, <1>2, <1>3, <1>4, <1>5, RemovedLine
  <1>7. q # 0 /\ q \in Int
    BY <1>1, <1>2 DEF First, Positions
  <1>8. Len(l) = n /\ q + 1 \in 2 .. n
    BY <1>6, <1>7
  <1>9. Inside' = Inside
    <2>1. Inside = {u \in Threads : pc[u] = "inside"} /\ Inside' = {u \in Threads : pc'[u] = "inside"}
      BY InsideIs
    <2> QED
      BY <1>1, <1>3, <2>1
  <1>10. Line' = T!Without(q + 1)
    BY <1>5, <1>6, <1>8 DEF T!Without
  <1> QED
    BY <1>5, <1>6, <1>8, <1>9, <1>10 DEF T!GiveUp

\* The thread inside leaves the head of the line.
LEMMA UnlockLeaves ==
  ASSUME TypeOK, Increasing, InsideIsFirst, Held, Owned, Distinct, Awake,
         NEW t \in Threads, Unlock(t), ~wrapped, ~wrapped', Distinct'
  PROVE  T!Leave(t)
  <1>1. pc[t] = "inside" /\ First = id[t] /\ nc_ps_queue_remove_id(id[t]) /\ Queued(t)
    BY DEF Unlock, Queued
  <1>2. PICK q \in Positions : Ticket(q) = id[t] /\ Moved(q)
    BY <1>1, RemoveEffect DEF Held
  <1>3. id' = id /\ pc'[t] = "out" /\ \A u \in Threads : u # t => pc'[u] = pc[u]
    BY DEF Unlock, TypeOK
  <1>4. PICK n \in Nat : n = queue_len
    BY LineIs
  <1>5. PICK l \in [1 .. n -> Threads] : l = Line
    BY <1>4, LineIs
  <1>6. /\ n > 0 /\ q + 1 \in 1 .. n /\ l[q + 1] = t
        /\ Line' = [j \in 1 .. n - 1 |-> IF j < q + 1 THEN l[j] ELSE l[j + 1]]
    BY <1>1, <1>2, <1>3, <1>4, <1>5, RemovedLine
  <1>7. q = 0
    <2>1. 0 \in Positions
      BY <1>4, <1>6 DEF Positions
    <2> QED
      BY <1>1, <1>2, <2>1, TicketsDiffer DEF First
  <1>8. Line' = [j \in 1 .. n - 1 |-> l[j + 1]]
    BY <1>6, <1>7
  <1>9. Tail(l) = [j \in 1 .. n - 1 |-> l[j + 1]] /\ Head(l) = l[1]
    <2>1. l \in Seq(Threads) /\ Len(l) = n /\ l # <<>>
      BY <1>6
    <2>2. PICK a \in Seq(Threads) : a = Tail(l)
      BY <2>1, HeadTailProperties
    <2>3. Len(a) = n - 1
      BY <2>1, <2>2, HeadTailProperties
    <2>4. \A j \in 1 .. n - 1 : a[j] = l[j + 1]
      BY <2>1, <2>2, <2>3, HeadTailProperties
    <2>5. a \in [1 .. n - 1 -> Threads]
      BY <2>2, <2>3, LenProperties
    <2>6. a = [j \in 1 .. n - 1 |-> l[j + 1]]
      BY <2>4, <2>5
    <2>7. Head(l) = l[1]
      BY <2>1
    <2> QED
      BY <2>2, <2>6, <2>7
  <1>10. l[1] = t
    BY <1>6, <1>7
  <1>11. Inside = {t} /\ Inside' = {}
    <2>1. Inside = {u \in Threads : pc[u] = "inside"} /\ Inside' = {u \in Threads : pc'[u] = "inside"}
      BY InsideIs
    <2>2. \A u \in Threads : pc[u] = "inside" => u = t
      BY <1>1 DEF InsideIsFirst, Distinct, Queued
    <2> QED
      BY <1>1, <1>3, <2>1, <2>2
  <1> QED
    BY <1>5, <1>8, <1>9, <1>10, <1>11 DEF T!Leave

\* Every step is one of the line, as long as no ticket wraps around.
LEMMA StepRefines ==
  TypeOK /\ InLine /\ InLine' /\ [Next]_vars => [wrapped' \/ T!Next]_(T!vars)
  <1> SUFFICES ASSUME TypeOK, InLine, InLine', [Next]_vars, ~wrapped'
               PROVE  T!Next \/ UNCHANGED <<Line, Inside>>
    BY Zenon DEF T!vars
  <1>1. ~wrapped
    BY Zenon DEF Next, Step, Lock, Woken, TimedOutInTurn, TimedOut, Unlock, UnlockOutOfTurn, vars
  <1>2. Increasing /\ InsideIsFirst /\ Held /\ Owned /\ Distinct /\ Awake
    BY <1>1, InLineIs
  <1>3. Increasing' /\ Distinct'
    BY Zenon DEF InLine, Ordered, NoTicketLost, Distinct
  <1>4. ASSUME NEW t \in Threads, Lock(t)
        PROVE  T!Join(t)
    BY <1>1, <1>2, <1>3, <1>4, LockJoins
  <1>5. ASSUME NEW t \in Threads, Woken(t) \/ TimedOutInTurn(t)
        PROVE  T!Enter(t) \/ UNCHANGED <<Line, Inside>>
    BY <1>1, <1>2, <1>3, <1>5, LooksEnters
  <1>6. ASSUME NEW t \in Threads, TimedOut(t)
        PROVE  T!GiveUp(t)
    BY <1>1, <1>2, <1>3, <1>6, TimedOutGivesUp
  <1>7. ASSUME NEW t \in Threads, Unlock(t)
        PROVE  T!Leave(t)
    BY <1>1, <1>2, <1>3, <1>7, UnlockLeaves
  <1>8. ASSUME NEW t \in Threads, UnlockOutOfTurn(t)
        PROVE  FALSE
    BY <1>2, <1>8 DEF UnlockOutOfTurn, InsideIsFirst
  <1>9. CASE UNCHANGED vars
    <2>1. /\ UNCHANGED <<queue, queue_begin, queue_len, pc, id, wrapped>>
          /\ \A k : Ticket(k)' = Ticket(k)
      BY <1>9 DEF vars, Ticket, Slot
    <2>2. Inside' = Inside
      BY <1>1, <2>1, InsideIs
    <2>3. PICK n \in Nat : n = queue_len
      BY <1>1, <1>2, LineIs
    <2>4. PICK l \in [1 .. n -> Threads] :
            l = Line /\ \A k \in 1 .. n : Queued(l[k]) /\ id[l[k]] = Ticket(k - 1)
      BY <1>1, <1>2, <2>3, LineIs
    <2>5. \A k \in 1 .. n : pc'[l[k]] # "out" /\ id'[l[k]] = Ticket(k - 1)'
      BY <2>1, <2>4 DEF Queued
    <2>6. queue_len' = n
      BY <2>1, <2>3
    <2>7. Line' = l
      BY <1>3, <2>5, <2>6, NextLineIs
    <2> QED
      BY <2>2, <2>4, <2>7
  <1> QED
    BY <1>4, <1>5, <1>6, <1>7, <1>8, <1>9, Zenon DEF Next, Step, T!Next

\* The ring buffer of tickets implements the line of threads of Turnstile:
\* nc_ps_lock and nc_ps_unlock serve threads in the order in which they came,
\* and a thread that gives up disturbs none of the others.
THEOREM ServedInOrder == Spec => FirstComeFirstServed
  <1>1. Init => T!Init
    <2> SUFFICES ASSUME Init PROVE Line = <<>> /\ Inside = {}
      BY DEF T!Init
    <2>1. ~wrapped /\ queue_len = 0 /\ pc = [t \in Threads |-> "out"]
      BY DEF Init
    <2>2. Line = [k \in 1 .. queue_len |->
                    CHOOSE t \in Threads : Queued(t) /\ id[t] = Ticket(k - 1)]
      BY <2>1, Zenon DEF Line
    <2>3. Line = <<>>
      BY <2>1, <2>2
    <2>4. Inside = {}
      BY <2>1, InsideIs
    <2> QED
      BY <2>3, <2>4
  <1> QED
    BY <1>1, TypeCorrect, AlwaysInLine, StepRefines, PTL DEF Spec, FirstComeFirstServed
=============================================================================
