------------------------- MODULE ChangeEventsProofs -------------------------
(***************************************************************************)
(* The proofs for ChangeEvents, for any number of listeners, subscriptions,*)
(* priorities and changes.                                                 *)
(*                                                                         *)
(* The notifier never learns who has answered: all it has is a count in    *)
(* shared memory.  The invariant therefore says what the count is of.      *)
(*   - While an event is published, subscriber_count is the size of a set U*)
(*     of subscriptions (Counted): those for which the event is new, and   *)
(*     those that have handled it but whose listener has yet to write.     *)
(*     Each listener's valid_subscr_count is its own part of U, so that its*)
(*     answer removes exactly that part.                                   *)
(*   - When the event fails, the count that is left is of those who lack it*)
(*     (ErrorCount), and that is what "abort" subtracts (Owed).            *)
(*   - A listener may be overtaken only by the failure of what it is at, a *)
(*     request that is then Doomed: it never is agreed to (Overtaking).    *)
(*     Answers that it still holds are lost for the count.  Spoiled says   *)
(*     that a request is disturbed already or will be when such a listener *)
(*     comes back, and for those requests the counts promise nothing.      *)
(*   - Whoever has accepted what is neither agreed nor spoiled is still to *)
(*     be told (Settled) or was told (Kept).                               *)
(***************************************************************************)
EXTENDS ChangeEvents, TLAPS, FiniteSetTheorems, Recursion

-----------------------------------------------------------------------------
(***************************************************************************)
(* Sets of numbers.                                                        *)
(***************************************************************************)
\* A set of numbers below a bound has a largest element.
LEMMA LargestNumber ==
  ASSUME NEW S \in SUBSET Nat, S # {}, NEW b \in Nat, \A x \in S : x <= b
  PROVE  Max(S) \in S /\ \A x \in S : x <= Max(S)
  <1> DEFINE T == {b - x : x \in S}
  <1>1. T \in SUBSET Nat /\ T # {}
    <2>1. ASSUME NEW x \in S PROVE b - x \in Nat
      <3>1. x \in Nat /\ x <= b
        OBVIOUS
      <3> QED
        BY <3>1
    <2> QED
      BY <2>1
  <1>2. PICK m \in T : \A y \in T : m <= y
    <2> HIDE DEF T
    <2> QED
      BY <1>1, LeastNumber
  <1>3. PICK x \in S : m = b - x
    BY <1>2
  <1>4. \A y \in S : x >= y
    BY <1>2, <1>3
  <1> QED
    BY <1>3, <1>4 DEF Max

LEMMA SmallestNumber ==
  ASSUME NEW S \in SUBSET Nat, S # {}
  PROVE  Min(S) \in S /\ \A x \in S : Min(S) <= x
  <1>1. PICK x \in S : \A y \in S : x <= y
    BY LeastNumber
  <1> QED
    BY <1>1 DEF Min

\* A finite set of numbers has a bound.
LEMMA FiniteIsBounded ==
  ASSUME NEW S \in SUBSET Nat, IsFiniteSet(S)
  PROVE  \E b \in Nat : \A x \in S : x <= b
  <1> DEFINE Bounded(T) == \E b \in Nat : \A x \in T : x <= b
             Sizes == {n \in Nat : \E T \in SUBSET Nat :
                         IsFiniteSet(T) /\ Cardinality(T) = n /\ ~Bounded(T)}
  <1> SUFFICES ASSUME ~Bounded(S) PROVE FALSE
    OBVIOUS
  <1>1. Cardinality(S) \in Sizes
    BY FS_CardinalityType
  <1> HIDE DEF Bounded
  <1>2. PICK n \in Sizes : \A m \in Sizes : n <= m
    <2>1. Sizes \in SUBSET Nat /\ Sizes # {}
      BY <1>1
    <2> HIDE DEF Sizes
    <2> QED
      BY <2>1, LeastNumber
  <1>3. PICK T \in SUBSET Nat : IsFiniteSet(T) /\ Cardinality(T) = n /\ ~Bounded(T)
    BY <1>2
  <1>4. PICK x \in T : TRUE
    <2>1. 0 \in Nat /\ \A x \in {} : x <= 0
      OBVIOUS
    <2>2. Bounded({})
      BY <2>1 DEF Bounded
    <2> QED
      BY <1>3, <2>2
  <1>5. IsFiniteSet(T \ {x}) /\ Cardinality(T \ {x}) = n - 1 /\ n - 1 \in Nat
    <2>1. IsFiniteSet(T \ {x}) /\ Cardinality(T \ {x}) = Cardinality(T) - 1
      BY <1>3, <1>4, FS_RemoveElement
    <2>2. Cardinality(T \ {x}) \in Nat
      BY <2>1, FS_CardinalityType
    <2> QED
      BY <1>3, <2>1, <2>2
  <1>6. Bounded(T \ {x})
    <2>1. n - 1 \notin Sizes
      BY <1>2, <1>5
    <2> QED
      BY <1>5, <2>1
  <1>7. PICK b \in Nat : \A y \in T \ {x} : y <= b
    BY <1>6 DEF Bounded
  <1>8. CASE x <= b
    BY <1>3, <1>7, <1>8 DEF Bounded
  <1>9. CASE b <= x
    <2>1. \A y \in T : y <= x
      BY <1>3, <1>4, <1>7, <1>9
    <2> QED
      BY <1>3, <1>4, <2>1 DEF Bounded
  <1> QED
    BY <1>4, <1>8, <1>9

\* A number below the modulus stays as it is.
LEMMA SmallRemainder ==
  ASSUME NEW x \in Nat, NEW m \in Nat, x < m
  PROVE  x % m = x
  OBVIOUS

-----------------------------------------------------------------------------
(***************************************************************************)
(* Subscriptions and their listeners.                                      *)
(***************************************************************************)
LEMMA HandlerIs ==
  /\ \A s \in Subscriptions : /\ Handler(s) \in Listeners
                              /\ \E k \in DOMAIN Subs[Handler(s)] : Subs[Handler(s)][k] = s
  /\ \A l \in Listeners : \A k \in DOMAIN Subs[l] :
       Subs[l][k] \in Subscriptions /\ Handler(Subs[l][k]) = l
  /\ \A l \in Listeners : \A j, k \in DOMAIN Subs[l] : Subs[l][j] = Subs[l][k] => j = k
  /\ \A l \in Listeners : DOMAIN Subs[l] = 1 .. Len(Subs[l]) /\ Len(Subs[l]) \in Nat
  <1>1. ASSUME NEW l \in Listeners
        PROVE  /\ DOMAIN Subs[l] = 1 .. Len(Subs[l]) /\ Len(Subs[l]) \in Nat
               /\ \A k \in DOMAIN Subs[l] : Subs[l][k] \in Subscriptions
    BY ChangeEventsAssumption
  <1>2. ASSUME NEW s \in Subscriptions
        PROVE  /\ Handler(s) \in Listeners
               /\ \E k \in DOMAIN Subs[Handler(s)] : Subs[Handler(s)][k] = s
    BY ChangeEventsAssumption DEF Handler
  <1>3. ASSUME NEW l \in Listeners, NEW k \in DOMAIN Subs[l]
        PROVE  Handler(Subs[l][k]) = l
    BY <1>1, <1>2, ChangeEventsAssumption
  <1> QED
    BY <1>1, <1>2, <1>3, ChangeEventsAssumption

\* A listener has no more subscriptions than there are.
LEMMA FewSubscriptions ==
  ASSUME NEW l \in Listeners
  PROVE  /\ Len(Subs[l]) <= Cardinality(Subscriptions) /\ CountSize \in Nat
         /\ Cardinality(Subscriptions) \in Nat /\ Cardinality(Subscriptions) < CountSize
  <1>1. PICK n \in Nat : n = Len(Subs[l])
    BY HandlerIs
  <1>2. Subs[l] \in [1 .. n -> Subscriptions]
    BY <1>1, ChangeEventsAssumption
  <1>3. Subs[l] \in Injection(1 .. n, Subscriptions)
    BY <1>1, <1>2, HandlerIs DEF Injection, IsInjective
  <1>4. Cardinality(1 .. n) = n
    <2>1. 1 \in Int /\ n \in Int
      BY <1>1
    <2>2. Cardinality(1 .. n) = IF 1 > n THEN 0 ELSE n - 1 + 1
      BY <2>1, FS_Interval
    <2> QED
      BY <1>1, <2>2
  <1>5. n <= Cardinality(Subscriptions)
    BY <1>3, <1>4, FS_Injection, ChangeEventsAssumption
  <1> QED
    BY <1>1, <1>5, FS_CardinalityType, ChangeEventsAssumption

\* How many subscriptions an event is for.
LEMMA ForIs ==
  ASSUME NEW ev, NEW p
  PROVE  /\ For(ev, p) \subseteq Subscriptions /\ IsFiniteSet(For(ev, p))
         /\ Cardinality(For(ev, p)) \in Nat
         /\ Cardinality(For(ev, p)) <= Cardinality(Subscriptions)
         /\ Cardinality(Subscriptions) \in Nat /\ Cardinality(Subscriptions) < CountSize
         /\ Cardinality(For(ev, p)) = 0 <=> For(ev, p) = {}
  <1>1. For(ev, p) \in SUBSET Subscriptions
    BY DEF For
  <1> QED
    BY <1>1, FS_Subset, FS_CardinalityType, FS_EmptySet, ChangeEventsAssumption

\* The count of a part of them is one that subscriber_count can hold.
LEMMA CountIs ==
  /\ 0 \in Counts
  /\ \A ev, p : \A n \in Nat : n <= Cardinality(For(ev, p)) => n \in Counts
  /\ \A ev, p : /\ Cardinality(For(ev, p)) \in Counts
               /\ Cardinality(For(ev, p)) = 0 <=> For(ev, p) = {}
  <1>1. PICK n \in Nat : n = Cardinality(Subscriptions)
    BY FS_CardinalityType, ChangeEventsAssumption
  <1>2. CountSize \in Nat /\ CountSize > n
    BY <1>1, ChangeEventsAssumption
  <1>3. \A m \in Nat : m <= n => m \in Counts
    BY <1>2 DEF Counts
  <1>4. ASSUME NEW ev, NEW p
        PROVE  /\ Cardinality(For(ev, p)) \in Nat /\ Cardinality(For(ev, p)) <= n
               /\ Cardinality(For(ev, p)) = 0 <=> For(ev, p) = {}
    BY <1>1, ForIs
  <1>5. 0 \in Counts
    BY <1>1, <1>3
  <1>6. ASSUME NEW ev, NEW p, NEW m \in Nat, m <= Cardinality(For(ev, p)) PROVE m \in Counts
    BY <1>1, <1>3, <1>4, <1>6
  <1> QED
    BY <1>3, <1>4, <1>5, <1>6

LEMMA ForAbort ==
  ASSUME NEW p
  PROVE  For("ABORT", p) = For("CHANGE", p)
  BY DEF For, sr_shmsub_change_is_valid

-----------------------------------------------------------------------------
(***************************************************************************)
(* Priorities.                                                             *)
(***************************************************************************)
LEMMA AboveIs ==
  Above \in Nat /\ \A s \in Subscriptions : Priority[s] \in Nat /\ Priority[s] < Above
  <1> DEFINE P == {Priority[s] : s \in Subscriptions}
  <1>1. P \in SUBSET Nat /\ P # {}
    BY ChangeEventsAssumption
  <1>2. IsFiniteSet(P)
    <2>1. Priority \in Surjection(Subscriptions, P)
      <3>1. Priority \in [Subscriptions -> Nat]
        BY ChangeEventsAssumption
      <3>2. Priority \in [Subscriptions -> P]
        BY <3>1
      <3>3. \A x \in P : \E s \in Subscriptions : Priority[s] = x
        OBVIOUS
      <3> HIDE DEF P
      <3> QED
        BY <3>2, <3>3 DEF Surjection
    <2> QED
      BY <2>1, FS_Surjection, ChangeEventsAssumption
  <1>3. PICK b \in Nat : \A x \in P : x <= b
    BY <1>1, <1>2, FiniteIsBounded
  <1>4. Max(P) \in P /\ \A x \in P : x <= Max(P)
    <2> HIDE DEF P
    <2> QED
      BY <1>1, <1>3, LargestNumber
  <1>5. Above = Max(P) + 1
    BY DEF Above
  <1>6. \A s \in Subscriptions : Priority[s] \in P
    OBVIOUS
  <1> HIDE DEF P
  <1>7. Max(P) \in Nat /\ \A s \in Subscriptions : Priority[s] \in Nat /\ Priority[s] <= Max(P)
    BY <1>1, <1>4, <1>6
  <1> QED
    BY <1>5, <1>7

\* The next priority below p, and none.
LEMMA BelowIs ==
  ASSUME NEW ev, NEW p \in Nat
  PROVE  /\ Below(ev, p) # {} =>
              /\ Max(Below(ev, p)) \in Nat /\ Max(Below(ev, p)) < p
              /\ For(ev, Max(Below(ev, p))) # {}
              /\ \A s \in Subscriptions :
                   sr_shmsub_change_is_valid(ev, s) /\ Priority[s] < p
                   => Priority[s] <= Max(Below(ev, p))
         /\ Below(ev, p) = {} =>
              \A s \in Subscriptions : sr_shmsub_change_is_valid(ev, s) => ~(Priority[s] < p)
  <1>1. Below(ev, p) \in SUBSET Nat /\ \A q \in Below(ev, p) : q <= p
    BY DEF Below
  <1>2. ASSUME NEW s \in Subscriptions, sr_shmsub_change_is_valid(ev, s), Priority[s] < p
        PROVE  Priority[s] \in Below(ev, p)
    BY <1>2, AboveIs DEF Below, For
  <1>3. ASSUME Below(ev, p) # {}
        PROVE  /\ Max(Below(ev, p)) \in Below(ev, p)
               /\ \A q \in Below(ev, p) : q <= Max(Below(ev, p))
    BY <1>1, <1>3, LargestNumber
  <1>4. ASSUME Below(ev, p) # {}
        PROVE  /\ Max(Below(ev, p)) \in Nat /\ Max(Below(ev, p)) < p
               /\ For(ev, Max(Below(ev, p))) # {}
    BY <1>3, <1>4 DEF Below
  <1> QED
    BY <1>2, <1>3, <1>4

-----------------------------------------------------------------------------
(***************************************************************************)
(* The parts of the inductive invariant.                                   *)
(***************************************************************************)
Top == Max(Below("CHANGE", Above))

\* The event in shared memory, as info and memory have it.
Event == [event |-> shm.event, request_id |-> shm.request_id]
Change(r) == [event |-> "CHANGE", request_id |-> r]

\* The notifier is at work, and waits for an answer.
Active == pc # "idle"
Waiting == pc \in {"wait", "expired"}

\* A listener is at work, and with the event in shared memory.
Working(l) == lpc[l] # "idle"
Handles(l) == Working(l) /\ info[l] = Event

\* The event in shared memory is new for the subscription.
Fresh(s) == sr_shmsub_change_listen_is_new_event(s, memory[s])

\* The notifier has yet to publish its phase for the subscription.
NotYet(s) == Priority[s] < priority \/ (pc = "lock" /\ Priority[s] = priority)

\* A request that not everyone will accept.
Live(r) == Active /\ phase = "CHANGE" /\ request = r /\ shm.event # "ERROR"
Doomed(r) == r \notin agreed /\ ~Live(r)

\* A request is or will be disturbed: a listener has answers for it that do
\* not count any more.
Stray(l) == Working(l) /\ info[l] # Event /\ valid[l] > 0
Spoiled(r) == r \in disturbed \/ \E l \in Listeners : Stray(l) /\ info[l] = Change(r)

\* Request numbers grow; no history is of one that is yet to come.
Numbers ==
  /\ shm.request_id <= changes
  /\ request \in {0, shm.request_id}
  /\ Active /\ request = 0 =>
       pc = "lock" /\ phase = "CHANGE" /\ shm.request_id < changes /\ priority = Top
  /\ \A s \in Subscriptions : memory[s].request_id <= shm.request_id
  /\ \A l \in Listeners : Working(l) => info[l].request_id \in 1 .. shm.request_id
  /\ \A told \in accepted \cup aborted : told[2] <= shm.request_id
  /\ \A r \in agreed \cup disturbed : r <= shm.request_id

\* A listener's own variables.
Places == \A l \in Listeners :
  /\ ~Working(l) => valid[l] = 0 /\ ~failed[l]
  /\ Working(l) => /\ at[l] \in DOMAIN Subs[l] /\ info[l].event \in ListenEvents
                   /\ valid[l] <= at[l]
  /\ lpc[l] = "callback" => valid[l] < at[l] /\ ~failed[l]
  /\ failed[l] => info[l].event = "CHANGE"

\* Which events there can be in shared memory when the notifier is where.
Stage ==
  /\ ~Active => phase = "CHANGE"
  /\ Active /\ phase # "clear" => For(phase, priority) # {} /\ count # 0
  /\ Active /\ phase \in {"CHANGE", "DONE"} => count = Cardinality(For(phase, priority))
  /\ phase = "clear" =>
       pc = "lock" /\ shm.event = "ERROR" /\ count = 0 /\ failedAt.priority = priority
  /\ shm.event = "CHANGE" => Waiting /\ phase = "CHANGE"
  /\ shm.event = "ERROR" =>
       Active /\ (IF Waiting THEN phase = "CHANGE" ELSE phase \in {"ABORT", "clear"})
  /\ shm.event = "SUCCESS" => (Waiting /\ phase = "CHANGE") \/ shm.request_id \in disturbed
  /\ Waiting =>
       /\ priority = shm.priority
       /\ phase = "CHANGE" => shm.event \in {"CHANGE", "SUCCESS", "ERROR"}
       /\ phase # "CHANGE" => shm.event \in {phase, "NONE"}
  /\ pc = "lock" /\ request # 0 =>
       /\ phase = "CHANGE" => shm.event = "NONE"
       /\ phase = "DONE" => shm.event \in {"NONE", "DONE"}
       /\ phase = "ABORT" => shm.event \in {"NONE", "ABORT", "ERROR"} \/ request \in disturbed
       /\ shm.event = phase => priority < shm.priority

\* What was agreed to was accepted by all, and what is aborted is not agreed.
Outcome ==
  /\ shm.request_id \in agreed =>
       shm.event \in {"NONE", "DONE"} /\ (Active /\ request # 0 => phase = "DONE")
  /\ shm.event = "DONE" => shm.request_id \in agreed
  /\ Active /\ phase = "DONE" => request \in agreed
  /\ \A told \in aborted : Doomed(told[2])
  /\ \A s \in Subscriptions : memory[s].event = "CHANGE" =>
       s \in Verifiers /\ <<s, memory[s].request_id>> \in accepted
  /\ \A s \in Subscriptions : memory[s].event = "DONE" => memory[s].request_id \in agreed
  /\ \A r \in agreed, s \in Verifiers : <<s, r>> \in accepted
  /\ stored \subseteq agreed

\* Only a listener at a request that has failed is overtaken.
Overtaking == \A l \in Listeners : Working(l) /\ info[l] # Event =>
  /\ info[l].event \in {"CHANGE", "ABORT"} /\ Doomed(info[l].request_id)
  /\ info[l].event = "ABORT" => Spoiled(info[l].request_id)

(***************************************************************************)
(* U are the subscriptions that subscriber_count counts: those for which   *)
(* the event is new, and those whose listener has yet to write its answer. *)
(***************************************************************************)
Answered(U, l) == {s \in U : Handler(s) = l /\ memory[s] = Event}

Counted(U) ==
  /\ U # {} /\ shm.subscriber_count = Cardinality(U)
  /\ \A s \in Subscriptions : Fresh(s) <=> s \in U /\ memory[s] # Event
  /\ \A l \in Listeners : Handles(l) =>
       valid[l] = Cardinality(Answered(U, l)) /\ \E s \in U : Handler(s) = l
  /\ \A s \in U : memory[s] = Event => Handles(Handler(s))
  /\ \A l \in Listeners : Handles(l) /\ lpc[l] = "callback" => Fresh(Sub(l))

InOrder == shm.event = "ABORT" => ~Spoiled(shm.request_id)

Tally == shm.event \in ListenEvents /\ InOrder =>
  \E U \in SUBSET For(shm.event, shm.priority) : Counted(U)

\* The listener of a subscription for which the event is new will see to it.
Woken == shm.event \in {"DONE", "ABORT"} /\ InOrder =>
  \A l \in Listeners : \A k \in DOMAIN Subs[l] : Fresh(Subs[l][k]) =>
    IF Handles(l) THEN lpc[l] = "callback" /\ at[l] <= k ELSE l \in pipe

\* How far "change" and "done" have come.
Progress ==
  /\ Active /\ phase = "CHANGE" /\ request # 0 =>
       /\ \A s \in Verifiers : Priority[s] > priority => memory[s] = Change(request)
       /\ \A s \in Subscriptions : NotYet(s) => memory[s] # Change(request)
       /\ shm.event = "SUCCESS" => \A s \in For("CHANGE", priority) : memory[s] = Change(request)
  /\ Active /\ phase = "DONE" => \A s \in Subscriptions : NotYet(s) =>
       memory[s] # [event |-> "DONE", request_id |-> request]

\* Those of priority p that have not accepted r.
Lacking(r, p) == {s \in For("CHANGE", p) : memory[s] # Change(r)}

ErrorCount == shm.event = "ERROR" =>
  /\ shm.subscriber_count <= Cardinality(For("CHANGE", shm.priority))
  /\ ~Spoiled(shm.request_id) =>
       shm.subscriber_count = Cardinality(Lacking(shm.request_id, shm.priority))

\* How far "abort" has come, and whom it is for.
Owed == Active /\ phase \in {"ABORT", "clear"} =>
  /\ failedAt # None =>
       /\ failedAt.priority \in Nat /\ failedAt.priority <= priority
       /\ For("CHANGE", failedAt.priority) # {}
       /\ failedAt.count <= Cardinality(For("CHANGE", failedAt.priority))
  /\ count = Cardinality(For("CHANGE", priority))
               - (IF failedAt.priority = priority THEN failedAt.count ELSE 0)
  /\ ~Spoiled(request) =>
       /\ failedAt # None
       /\ \A s \in Verifiers : NotYet(s) /\ Priority[s] > failedAt.priority
                               => memory[s] = Change(request)
       /\ failedAt.priority < priority \/ pc = "lock" =>
            failedAt.count = Cardinality(Lacking(request, failedAt.priority))

\* Whoever has accepted a request that is not agreed to is still to be told.
Pending(s, r) ==
  \/ Active /\ request = r /\ phase = "CHANGE"
  \/ /\ Active /\ request = r /\ phase \in {"ABORT", "clear"}
     /\ NotYet(s) /\ failedAt.priority <= Priority[s]
  \/ shm.event = "ABORT" /\ Priority[s] = shm.priority

Settled == \A s \in Subscriptions : memory[s].event = "CHANGE" =>
  \/ memory[s].request_id \in agreed
  \/ Spoiled(memory[s].request_id)
  \/ memory[s].request_id = shm.request_id /\ Pending(s, shm.request_id)

Kept == \A told \in accepted :
  \/ told[2] \in agreed \/ Spoiled(told[2]) \/ told \in aborted
  \/ memory[told[1]] = Change(told[2])

IInv ==
  /\ TypeOK /\ Numbers /\ Places /\ Stage /\ Outcome /\ Overtaking /\ Tally /\ Woken
  /\ Progress /\ ErrorCount /\ Owed /\ Settled /\ Kept

-----------------------------------------------------------------------------
(***************************************************************************)
(* Where the notifier goes.                                                *)
(***************************************************************************)
LEMMA TopIs ==
  /\ Top \in Nat /\ For("CHANGE", Top) # {} /\ Below("CHANGE", Above) # {}
  /\ \A s \in Verifiers : Priority[s] <= Top
  <1>1. PICK s \in Subscriptions \ DoneOnly : TRUE
    BY ChangeEventsAssumption
  <1>2. \A x \in Verifiers : x \in Subscriptions /\ sr_shmsub_change_is_valid("CHANGE", x)
                             /\ Priority[x] < Above
    BY AboveIs DEF Verifiers, sr_shmsub_change_is_valid
  <1>3. s \in Verifiers
    BY <1>1 DEF Verifiers
  <1>4. Below("CHANGE", Above) # {}
    BY <1>2, <1>3, AboveIs, BelowIs
  <1> QED
    BY <1>2, <1>4, AboveIs, BelowIs DEF Top

\* The phase goes on with the next priority.
Continues ==
  /\ pc' = "lock" /\ phase' = phase /\ failedAt' = failedAt /\ waits' = waits
  /\ priority' \in Nat /\ priority' < priority /\ For(phase, priority') # {}
  /\ \A s \in Subscriptions : sr_shmsub_change_is_valid(phase, s) /\ Priority[s] < priority
                              => Priority[s] <= priority'
  /\ count' = Cardinality(For(phase, priority'))
       - (IF phase = "ABORT" /\ failedAt.priority = priority' THEN failedAt.count ELSE 0)
  /\ count' # 0
  /\ phase = "ABORT" => failedAt.priority # priority

\* It ends; nobody is left to be told.
Ends ==
  /\ Finished
  /\ \A s \in Subscriptions : sr_shmsub_change_is_valid(phase, s) /\ Priority[s] < priority =>
       /\ phase = "ABORT"
       /\ \/ Priority[s] < failedAt.priority
          \/ /\ Priority[s] = failedAt.priority
             /\ failedAt.count = Cardinality(For("CHANGE", failedAt.priority))

LEMMA AdvanceIs ==
  ASSUME TypeOK, Advance
  PROVE  Continues \/ Ends
  <1> DEFINE q == Max(Below(phase, priority))
             n == Cardinality(For(phase, q))
                    - (IF phase = "ABORT" /\ failedAt.priority = q THEN failedAt.count ELSE 0)
  <1>1. priority \in Nat /\ \A s \in Subscriptions : Priority[s] \in Nat
    BY AboveIs DEF TypeOK
  <1>2. CASE phase = "ABORT" /\ failedAt.priority = priority
    BY <1>2, <1>1 DEF Advance, Ends
  <1>3. CASE ~(phase = "ABORT" /\ failedAt.priority = priority)
    <2>1. NextPriority(phase, priority)
      BY <1>3 DEF Advance
    <2>2. CASE Below(phase, priority) = {}
      <3>1. Finished
        BY <2>1, <2>2 DEF NextPriority
      <3> QED
        BY <2>2, <3>1, <1>1, BelowIs DEF Ends
    <2>3. CASE Below(phase, priority) # {} /\ n = 0
      <3>1. Finished
        BY <2>1, <2>3 DEF NextPriority
      <3>2. /\ q \in Nat /\ For(phase, q) # {}
            /\ \A s \in Subscriptions :
                 sr_shmsub_change_is_valid(phase, s) /\ Priority[s] < priority => Priority[s] <= q
        BY <2>3, <1>1, BelowIs
      <3>3. Cardinality(For(phase, q)) \in Nat \ {0}
        BY <3>2, ForIs
      <3> HIDE DEF q
      <3>4. phase = "ABORT" /\ failedAt.priority = q
        BY <2>3, <3>3
      <3>5. failedAt.count = Cardinality(For("CHANGE", q))
        <4>1. failedAt.count \in Int
          BY ChangeEventsAssumption DEF TypeOK, Counts, None
        <4> QED
          BY <2>3, <3>3, <3>4, <4>1, ForAbort
      <3> QED
        BY <3>1, <3>2, <3>4, <3>5, <1>1 DEF Ends
    <2>4. CASE Below(phase, priority) # {} /\ n # 0
      <3>1. Publishing(phase, q, n, failedAt, waits)
        BY <2>1, <2>4 DEF NextPriority
      <3>2. /\ q \in Nat /\ q < priority /\ For(phase, q) # {}
            /\ \A s \in Subscriptions :
                 sr_shmsub_change_is_valid(phase, s) /\ Priority[s] < priority => Priority[s] <= q
        BY <2>4, <1>1, BelowIs
      <3> HIDE DEF q
      <3> QED
        BY <1>3, <2>4, <3>1, <3>2 DEF Continues, Publishing
    <2> QED
      BY <2>2, <2>3, <2>4
  <1> QED
    BY <1>2, <1>3

\* "done" begins.
LEMMA DoneIs ==
  ASSUME NextPriority("DONE", Above)
  PROVE  /\ pc' = "lock" /\ phase' = "DONE" /\ failedAt' = failedAt /\ waits' = waits
         /\ priority' \in Nat /\ For("DONE", priority') # {}
         /\ \A s \in Subscriptions : Priority[s] <= priority'
         /\ count' = Cardinality(For("DONE", priority')) /\ count' # 0
  <1> DEFINE q == Max(Below("DONE", Above))
  <1>1. PICK s \in Subscriptions : TRUE
    BY ChangeEventsAssumption
  <1>2. \A x \in Subscriptions : sr_shmsub_change_is_valid("DONE", x) /\ Priority[x] < Above
    BY AboveIs DEF sr_shmsub_change_is_valid
  <1>3. Below("DONE", Above) # {}
    BY <1>1, <1>2, AboveIs, BelowIs
  <1>4. q \in Nat /\ For("DONE", q) # {} /\ \A x \in Subscriptions : Priority[x] <= q
    BY <1>2, <1>3, AboveIs, BelowIs
  <1>5. Cardinality(For("DONE", q)) \in Nat \ {0}
    BY <1>4, ForIs
  <1>6. Publishing("DONE", q, Cardinality(For("DONE", q)) - 0, failedAt, waits)
    BY <1>3, <1>5 DEF NextPriority
  <1> HIDE DEF q
  <1> QED
    BY <1>4, <1>5, <1>6 DEF Publishing

\* "abort" begins.
AbortBegins(f) ==
  /\ pc' = "lock" /\ priority' = Top /\ failedAt' = f /\ waits' = waits
  /\ count' = Cardinality(For("CHANGE", Top)) - (IF f.priority = Top THEN f.count ELSE 0)
  /\ phase' = IF count' = 0 THEN "clear" ELSE "ABORT"

LEMMA AbortIs ==
  ASSUME NEW m, StartAbort(m)
  PROVE  AbortBegins(IF m.event = "ERROR"
                     THEN [priority |-> m.priority, count |-> m.subscriber_count] ELSE None)
  <1>1. Below("ABORT", Above) = Below("CHANGE", Above)
    BY ForAbort DEF Below
  <1>2. For("ABORT", Top) = For("CHANGE", Top)
    BY ForAbort
  <1> QED
    BY <1>1, <1>2 DEF StartAbort, AbortBegins, Publishing, Top

-----------------------------------------------------------------------------
(***************************************************************************)
(* Where a listener goes.                                                  *)
(***************************************************************************)
LEMMA NewIs ==
  ASSUME NEW l \in Listeners, NEW k \in Nat, NEW seen
  PROVE  /\ New(l, k, seen) \subseteq DOMAIN Subs[l]
         /\ \A n \in DOMAIN Subs[l] : n \in New(l, k, seen) <=>
              n > k /\ sr_shmsub_change_listen_is_new_event(Subs[l][n], seen[Subs[l][n]])
         /\ New(l, k, seen) # {} =>
              /\ Min(New(l, k, seen)) \in New(l, k, seen)
              /\ \A n \in New(l, k, seen) : Min(New(l, k, seen)) <= n
  <1>1. New(l, k, seen) \in SUBSET Nat
    BY HandlerIs DEF New
  <1> QED
    BY <1>1, SmallestNumber DEF New

-----------------------------------------------------------------------------
(***************************************************************************)
(* A listener that handles the event in shared memory.                     *)
(***************************************************************************)
\* Records with equal fields are equal.
LEMMA EventIs ==
  ASSUME TypeOK
  PROVE  /\ \A l \in Listeners : Overtaken(l) <=> info[l] # Event
         /\ \A x \in Seen : x = Event <=> x.event = shm.event /\ x.request_id = shm.request_id
         /\ \A x \in Seen : \A r : x = Change(r) <=> x.event = "CHANGE" /\ x.request_id = r
         /\ shm.event \in Events /\ shm.request_id \in 0 .. MaxChanges
         /\ shm.priority \in Nat /\ shm.subscriber_count \in Counts
  <1>1. \A l \in Listeners : info[l] \in Seen
    BY DEF TypeOK
  <1>2. \A x \in Seen : x = Event <=> x.event = shm.event /\ x.request_id = shm.request_id
    BY DEF Seen, Event
  <1>3. \A x \in Seen : \A r : x = Change(r) <=> x.event = "CHANGE" /\ x.request_id = r
    BY DEF Seen, Change
  <1>4. /\ shm.event \in Events /\ shm.request_id \in 0 .. MaxChanges
        /\ shm.priority \in Nat /\ shm.subscriber_count \in Counts
    BY DEF TypeOK
  <1> QED
    BY <1>1, <1>2, <1>3, <1>4 DEF Overtaken

LEMMA FreshIs ==
  ASSUME NEW s, Fresh(s)
  PROVE  /\ shm.event \in ListenEvents /\ memory[s] # Event /\ Priority[s] = shm.priority
         /\ sr_shmsub_change_is_valid(shm.event, s)
         /\ shm.event = "ABORT" => memory[s] = Change(shm.request_id)
  BY DEF Fresh, sr_shmsub_change_listen_is_new_event, Event, Change

\* What is known of the notifier while somebody handles the event.
LEMMA HandledIs ==
  ASSUME IInv, NEW l \in Listeners, Handles(l)
  PROVE  /\ shm.event \in ListenEvents /\ shm.request_id \in Nat \ {0}
         /\ at[l] \in DOMAIN Subs[l] /\ Sub(l) \in Subscriptions /\ Handler(Sub(l)) = l
         /\ ~Overtaken(l) /\ ~Stray(l)
         /\ shm.event = "CHANGE" =>
              /\ Waiting /\ phase = "CHANGE" /\ request = shm.request_id
              /\ priority = shm.priority /\ shm.request_id \notin agreed
         /\ shm.event = "ABORT" => Doomed(shm.request_id)
         /\ Active /\ phase = "CHANGE" /\ request # 0 => shm.event = "CHANGE"
         /\ Active /\ phase = "DONE" => shm.event = "DONE"
         /\ Active /\ phase \in {"ABORT", "clear"} /\ request \notin disturbed => shm.event = "ABORT"
         /\ Active /\ shm.event = phase =>
              (IF pc = "lock" THEN priority < shm.priority ELSE priority = shm.priority)
  <1>1. /\ shm.event \in ListenEvents /\ shm.request_id \in Nat \ {0}
        /\ at[l] \in DOMAIN Subs[l] /\ info[l] = Event /\ shm.priority \in Nat
    BY EventIs DEF Handles, IInv, Places, Numbers, Event
  <1>2. Sub(l) \in Subscriptions /\ Handler(Sub(l)) = l
    BY <1>1, HandlerIs DEF Sub
  <1>3. ~Overtaken(l) /\ ~Stray(l)
    BY <1>1, EventIs DEF IInv, Stray
  <1>4. shm.event = "CHANGE" =>
          /\ Waiting /\ phase = "CHANGE" /\ request = shm.request_id
          /\ priority = shm.priority /\ shm.request_id \notin agreed
    BY DEF IInv, Stage, Numbers, Outcome, Waiting, Active
  <1>5. pc \in {"idle", "lock", "wait", "expired"}
    BY DEF IInv, TypeOK
  <1>6. Active /\ phase = "CHANGE" /\ request # 0 => shm.event = "CHANGE"
    BY <1>1, <1>5 DEF IInv, Stage, Waiting, Active, ListenEvents
  <1>7. shm.event = "ABORT" => Doomed(shm.request_id)
    BY <1>1, <1>6 DEF IInv, Outcome, Doomed, Live
  <1>8. Active /\ phase = "DONE" => shm.event = "DONE"
    BY <1>1, <1>5 DEF IInv, Stage, Numbers, Waiting, Active, ListenEvents
  <1>9. Active /\ phase \in {"ABORT", "clear"} /\ request \notin disturbed => shm.event = "ABORT"
    BY <1>1, <1>5 DEF IInv, Stage, Numbers, Waiting, Active, ListenEvents
  <1>10. Active /\ shm.event = phase =>
           (IF pc = "lock" THEN priority < shm.priority ELSE priority = shm.priority)
    BY <1>1, <1>5 DEF IInv, Stage, Numbers, Waiting, Active, ListenEvents
  <1> QED
    BY <1>1, <1>2, <1>3, <1>4, <1>6, <1>7, <1>8, <1>9, <1>10

\* The subscription it is at, in order.
LEMMA CurrentIs ==
  ASSUME IInv, NEW l \in Listeners, Handles(l), lpc[l] = "callback", InOrder
  PROVE  Fresh(Sub(l))
  <1>1. shm.event \in ListenEvents
    BY HandledIs
  <1> QED
    BY <1>1 DEF IInv, Tally, Counted

\* It goes on with the next subscription for which the event is new.
GoesOn(l, k) ==
  /\ at' \in [Listeners -> Nat] /\ lpc' \in [Listeners -> {"idle", "callback", "write"}]
  /\ \A m \in Listeners : m # l => at'[m] = at[m] /\ lpc'[m] = lpc[m]
  /\ \/ /\ lpc'[l] = "write" /\ at' = at
        /\ \A n \in DOMAIN Subs[l] : n > k => ~Fresh(Subs[l][n])'
     \/ /\ lpc'[l] = "callback"
        /\ \E j \in DOMAIN Subs[l] :
             /\ at'[l] = j /\ Sub(l)' = Subs[l][j] /\ j > k /\ Fresh(Subs[l][j])'
             /\ \A n \in DOMAIN Subs[l] : n > k /\ Fresh(Subs[l][n])' => j <= n

LEMMA GoOnIs ==
  ASSUME TypeOK, NEW l \in Listeners, NEW k \in Nat, shm' = shm, GoOn(l, k, memory')
  PROVE  GoesOn(l, k)
  <1> DEFINE N == New(l, k, memory')
  <1>1. at \in [Listeners -> Nat] /\ lpc \in [Listeners -> {"idle", "callback", "write"}]
    BY DEF TypeOK
  <1>2. ASSUME NEW n \in DOMAIN Subs[l]
        PROVE  n \in N <=> n > k /\ Fresh(Subs[l][n])'
    <2>1. sr_shmsub_change_listen_is_new_event(Subs[l][n], memory'[Subs[l][n]]) <=> Fresh(Subs[l][n])'
      BY DEF Fresh, sr_shmsub_change_listen_is_new_event
    <2> QED
      BY <2>1 DEF New
  <1>3. CASE N = {}
    <2>1. lpc' = [lpc EXCEPT ![l] = "write"] /\ at' = at
      BY <1>3 DEF GoOn
    <2> QED
      BY <1>1, <1>2, <1>3, <2>1 DEF GoesOn
  <1>4. CASE N # {}
    <2>1. lpc' = [lpc EXCEPT ![l] = "callback"] /\ at' = [at EXCEPT ![l] = Min(N)]
      BY <1>4 DEF GoOn
    <2>2. PICK j \in DOMAIN Subs[l] : j = Min(N) /\ j \in N /\ \A n \in N : j <= n
      BY <1>4, NewIs
    <2>3. j \in Nat
      BY HandlerIs
    <2>4. at' \in [Listeners -> Nat] /\ at'[l] = j /\ Sub(l)' = Subs[l][j]
      BY <1>1, <2>1, <2>2, <2>3 DEF Sub
    <2> HIDE DEF N
    <2> QED
      BY <1>1, <1>2, <2>1, <2>2, <2>4 DEF GoesOn
  <1> QED
    BY <1>3, <1>4

-----------------------------------------------------------------------------
(***************************************************************************)
(* The listener's steps.                                                   *)
(***************************************************************************)
USE DEF notifier, listener, history

LEMMA AcceptKeeps ==
  ASSUME IInv, NEW l \in Listeners, Accept(l)
  PROVE  IInv'
  <1> DEFINE r == shm.request_id
  <1>0. PICK x : x = Sub(l)
    OBVIOUS
  <1>1. TypeOK /\ lpc[l] = "callback" /\ Handles(l) /\ info[l] = Event
    BY EventIs DEF Accept, IInv, Handles, Working
  <1>2. /\ x \in Subscriptions /\ Handler(x) = l /\ at[l] \in DOMAIN Subs[l]
        /\ shm.event \in ListenEvents /\ r \in Nat \ {0}
    BY <1>0, <1>1, HandledIs
  <1>3. /\ memory' = [memory EXCEPT ![x] = Event]
        /\ valid' = [valid EXCEPT ![l] = @ + 1]
        /\ UNCHANGED <<shm, pipe, notifier, info, failed, agreed, stored, disturbed>>
        /\ accepted' = IF shm.event = "CHANGE" THEN accepted \cup {<<x, r>>} ELSE accepted
        /\ aborted' = IF shm.event = "ABORT" THEN aborted \cup {<<x, r>>} ELSE aborted
    BY <1>0, <1>1 DEF Accept, Event, Of
  <1>4. GoesOn(l, at[l])
    BY <1>1, <1>3, GoOnIs DEF Accept, TypeOK
  <1>5. Event \in Seen /\ Event' = Event /\ r \in Requests
    BY <1>1, <1>2, <1>3, EventIs DEF Event, Seen, ListenEvents, TypeOK, Requests
  <1>6. at'[l] \in DOMAIN Subs[l] /\ at'[l] >= at[l] /\ lpc'[l] \in {"callback", "write"}
        /\ (lpc'[l] = "callback" => at'[l] > at[l])
    BY <1>2, <1>4, HandlerIs DEF GoesOn
  <1>7. valid[l] \in Nat /\ valid[l] < at[l] /\ at[l] \in Nat /\ at[l] <= Len(Subs[l])
        /\ Len(Subs[l]) \in Nat
    BY <1>1, <1>2, HandlerIs DEF IInv, Places, TypeOK, Counts
  <1>8. TypeOK'
    <2>1. valid[l] + 1 \in Counts
      <3>1. Len(Subs[l]) <= Cardinality(Subscriptions) /\ CountSize \in Nat
            /\ Cardinality(Subscriptions) \in Nat /\ Cardinality(Subscriptions) < CountSize
        BY FewSubscriptions
      <3> QED
        BY <1>7, <3>1 DEF Counts
    <2>2. <<x, r>> \in Told
      BY <1>2, <1>5 DEF Told
    <2>3. memory' \in [Subscriptions -> Seen] /\ valid' \in [Listeners -> Counts]
      BY <1>1, <1>2, <1>3, <1>5, <2>1 DEF TypeOK
    <2>4. accepted' \subseteq Told /\ aborted' \subseteq Told
      BY <1>1, <1>3, <2>2 DEF TypeOK
    <2>5. at' \in [Listeners -> Nat] /\ lpc' \in [Listeners -> {"idle", "callback", "write"}]
      BY <1>4 DEF GoesOn
    <2> QED
      BY <1>1, <1>3, <2>3, <2>4, <2>5 DEF TypeOK
  <1>9. Numbers'
    BY <1>1, <1>2, <1>3, <1>4, <1>5, <1>6 DEF IInv, Numbers, Working, Active, GoesOn, Event, TypeOK
  <1>10. Places'
    <2>1. \A m \in Listeners : m # l => /\ at'[m] = at[m] /\ lpc'[m] = lpc[m]
                                        /\ valid'[m] = valid[m]
      BY <1>1, <1>3, <1>4 DEF GoesOn, TypeOK
    <2>2. valid'[l] = valid[l] + 1 /\ failed' = failed /\ info' = info
      BY <1>1, <1>3 DEF TypeOK
    <2>3. ~failed[l] /\ info[l].event \in ListenEvents
      BY <1>1 DEF IInv, Places, Working
    <2>4. at'[l] \in Nat /\ valid'[l] <= at'[l] /\ (lpc'[l] = "callback" => valid'[l] < at'[l])
      <3>1. at'[l] \in Nat /\ at'[l] >= at[l] /\ (lpc'[l] = "callback" => at'[l] > at[l])
        BY <1>4, <1>6 DEF GoesOn
      <3> QED
        BY <1>7, <2>2, <3>1
    <2>5. ASSUME NEW m \in Listeners, m # l
          PROVE  /\ ~Working(m)' => valid'[m] = 0 /\ ~failed'[m]
                 /\ Working(m)' => /\ at'[m] \in DOMAIN Subs[m] /\ info'[m].event \in ListenEvents
                                   /\ valid'[m] <= at'[m]
                 /\ lpc'[m] = "callback" => valid'[m] < at'[m] /\ ~failed'[m]
                 /\ failed'[m] => info'[m].event = "CHANGE"
      BY <2>1, <2>2, <2>5 DEF IInv, Places, Working
    <2>6. Working(l)'
      BY <1>6 DEF Working
    <2> QED
      BY <1>6, <2>2, <2>3, <2>4, <2>5, <2>6 DEF Places
  <1>11. Stage'
    BY <1>3 DEF IInv, Stage, Active, Waiting
  <1>12. InOrder => Fresh(x)
    BY <1>0, <1>1, CurrentIs
  <1>13. \A q : Spoiled(q)' <=> Spoiled(q)
    BY <1>1, <1>3, <1>4, <1>5, <1>6 DEF Spoiled, Stray, Working, GoesOn, Handles, TypeOK
  <1>14. Outcome'
    <2>1. \A q : Doomed(q)' <=> Doomed(q)
      BY <1>3 DEF Doomed, Live, Active
    <2>2. shm.event = "ABORT" => Doomed(r)
      BY <1>1, HandledIs
    <2>3. shm.event = "CHANGE" => x \in Verifiers
      BY <1>2, <1>12, FreshIs DEF InOrder, Verifiers, sr_shmsub_change_is_valid
    <2>4. \A told \in aborted' : Doomed(told[2])'
      BY <1>3, <2>1, <2>2 DEF IInv, Outcome
    <2>5. \A s \in Subscriptions : memory'[s].event = "CHANGE" =>
            s \in Verifiers /\ <<s, memory'[s].request_id>> \in accepted'
      BY <1>1, <1>2, <1>3, <2>3 DEF IInv, Outcome, Event, TypeOK
    <2>6. \A s \in Subscriptions : memory'[s].event = "DONE" => memory'[s].request_id \in agreed
      BY <1>1, <1>2, <1>3 DEF IInv, Outcome, Event, TypeOK
    <2> QED
      BY <1>3, <2>4, <2>5, <2>6 DEF IInv, Outcome, Active
  <1>15. Overtaking'
    BY <1>1, <1>3, <1>4, <1>5, <1>13 DEF IInv, Overtaking, Doomed, Live, Active, Working, GoesOn,
       Handles
  <1>16. \A s \in Subscriptions : s # x => memory'[s] = memory[s] /\ (Fresh(s)' <=> Fresh(s))
    BY <1>1, <1>3 DEF TypeOK, Fresh, sr_shmsub_change_listen_is_new_event
  <1>17. memory'[x] = Event /\ ~Fresh(x)'
    BY <1>1, <1>2, <1>3, <1>5 DEF TypeOK, Fresh, sr_shmsub_change_listen_is_new_event, Event
  <1>18. \A m \in Listeners : Handles(m)' <=> Handles(m)
    BY <1>1, <1>3, <1>4, <1>5 DEF Handles, Working, GoesOn
  <1>19. InOrder' <=> InOrder
    BY <1>3, <1>13 DEF InOrder
  <1>20. Tally'
    <2> SUFFICES ASSUME InOrder PROVE \E U \in SUBSET For(shm.event, shm.priority) : Counted(U)'
      BY <1>3, <1>19 DEF Tally
    <2>1. PICK U \in SUBSET For(shm.event, shm.priority) : Counted(U)
      BY <1>2 DEF IInv, Tally
    <2>2. Fresh(x) /\ x \in U /\ memory[x] # Event
      BY <1>2, <1>12, <2>1 DEF Counted
    <2>3. Answered(U, l)' = Answered(U, l) \cup {x} /\ x \notin Answered(U, l)
      BY <1>2, <1>5, <1>16, <1>17, <2>1, <2>2, ForIs DEF Answered
    <2>4. \A m \in Listeners : m # l => Answered(U, m)' = Answered(U, m)
      BY <1>2, <1>5, <1>16, <1>17, <2>1, <2>2, ForIs DEF Answered
    <2>5. IsFiniteSet(Answered(U, l))
      <3>1. Answered(U, l) \in SUBSET For(shm.event, shm.priority)
        BY <2>1 DEF Answered
      <3> QED
        BY <3>1, ForIs, FS_Subset
    <2>6. valid'[l] = Cardinality(Answered(U, l)')
      <3>1. valid[l] = Cardinality(Answered(U, l))
        BY <1>1, <2>1 DEF Counted
      <3>2. valid'[l] = valid[l] + 1
        BY <1>1, <1>3 DEF TypeOK
      <3>3. Cardinality(Answered(U, l) \cup {x}) = Cardinality(Answered(U, l)) + 1
        BY <2>3, <2>5, FS_AddElement
      <3> QED
        BY <2>3, <3>1, <3>2, <3>3
    <2>7. \A m \in Listeners : Handles(m)' =>
            valid'[m] = Cardinality(Answered(U, m)') /\ \E s \in U : Handler(s) = m
      BY <1>1, <1>3, <1>18, <2>1, <2>4, <2>6 DEF Counted, TypeOK
    <2>8. \A s \in Subscriptions : Fresh(s)' <=> s \in U /\ memory'[s] # Event'
      BY <1>5, <1>16, <1>17, <2>1 DEF Counted
    <2>9. \A s \in U : memory'[s] = Event' => Handles(Handler(s))'
      BY <1>1, <1>2, <1>5, <1>16, <1>18, <2>1, ForIs, HandlerIs DEF Counted
    <2>10. ASSUME NEW m \in Listeners, Handles(m)', lpc'[m] = "callback"
           PROVE  Fresh(Sub(m))'
      <3>1. CASE m = l
        BY <1>4, <2>10, <3>1 DEF GoesOn
      <3>2. CASE m # l
        <4>1. Sub(m)' = Sub(m) /\ lpc[m] = "callback" /\ Handles(m)
          BY <1>4, <1>18, <2>10, <3>2 DEF GoesOn, Sub
        <4>2. Fresh(Sub(m)) /\ Sub(m) \in Subscriptions /\ Sub(m) # x
          BY <1>2, <2>1, <3>2, <4>1, HandledIs DEF Counted
        <4> QED
          BY <1>3, <1>16, <4>1, <4>2 DEF Fresh
      <3> QED
        BY <3>1, <3>2
    <2> QED
      BY <1>3, <2>1, <2>7, <2>8, <2>9, <2>10 DEF Counted
  <1>21. Woken'
    <2> SUFFICES ASSUME shm.event \in {"DONE", "ABORT"}, InOrder,
                        NEW m \in Listeners, NEW k \in DOMAIN Subs[m], Fresh(Subs[m][k])'
                 PROVE  IF Handles(m)' THEN lpc'[m] = "callback" /\ at'[m] <= k ELSE m \in pipe'
      BY <1>3, <1>19 DEF Woken
    <2>1. Subs[m][k] \in Subscriptions /\ Handler(Subs[m][k]) = m /\ k \in Nat
      BY HandlerIs
    <2>2. Subs[m][k] # x /\ Fresh(Subs[m][k])
      BY <1>16, <1>17, <2>1
    <2>3. IF Handles(m) THEN lpc[m] = "callback" /\ at[m] <= k ELSE m \in pipe
      BY <2>2 DEF IInv, Woken
    <2>4. CASE m # l
      BY <1>3, <1>4, <1>18, <2>3, <2>4 DEF GoesOn
    <2>5. CASE m = l
      <3>1. at[l] <= k /\ at[l] # k /\ at[l] \in Nat
        BY <1>0, <1>1, <1>7, <2>2, <2>3, <2>5 DEF Sub
      <3> QED
        BY <1>1, <1>4, <1>18, <2>1, <2>5, <3>1 DEF GoesOn
    <2> QED
      BY <2>4, <2>5
  <1>22. shm.event = phase /\ Active /\ InOrder => ~NotYet(x) /\ Priority[x] = shm.priority
    <2>1. Priority[x] \in Nat /\ priority \in Nat
      BY <1>1, <1>2, AboveIs DEF TypeOK
    <2> QED
      BY <1>1, <1>12, <2>1, FreshIs, HandledIs DEF NotYet
  <1>23. Progress'
    <2>1. \A s : NotYet(s)' <=> NotYet(s)
      BY <1>3 DEF NotYet
    <2>2. ASSUME Active, phase = "CHANGE", request # 0
          PROVE  /\ shm.event = "CHANGE" /\ Event = Change(request) /\ ~NotYet(x)
      BY <1>1, <1>22, <2>2, HandledIs DEF InOrder, Event, Change
    <2>3. ASSUME Active, phase = "DONE" PROVE shm.event = "DONE" /\ ~NotYet(x)
      BY <1>1, <1>22, <2>3, HandledIs DEF InOrder
    <2>4. ASSUME Active, phase = "CHANGE", request # 0
          PROVE  /\ \A s \in Verifiers : Priority[s] > priority => memory'[s] = Change(request)
                 /\ \A s \in Subscriptions : NotYet(s)' => memory'[s] # Change(request)
      BY <1>16, <1>17, <2>1, <2>2, <2>4 DEF IInv, Progress, Verifiers
    <2>5. ASSUME Active, phase = "DONE", NEW s \in Subscriptions, NotYet(s)'
          PROVE  memory'[s] # [event |-> "DONE", request_id |-> request]
      BY <1>16, <2>1, <2>3, <2>5 DEF IInv, Progress
    <2> QED
      BY <1>3, <2>2, <2>4, <2>5 DEF Progress, Active
  <1>24. ErrorCount'
    BY <1>2, <1>3 DEF ErrorCount, ListenEvents
  <1>25. Owed'
    <2>1. \A s : NotYet(s)' <=> NotYet(s)
      BY <1>3 DEF NotYet
    <2> SUFFICES ASSUME Active, phase \in {"ABORT", "clear"}, ~Spoiled(request)
                 PROVE  /\ \A s \in Verifiers : NotYet(s) /\ Priority[s] > failedAt.priority
                                                 => memory'[s] = Change(request)
                        /\ failedAt.priority < priority \/ pc = "lock" =>
                             Lacking(request, failedAt.priority)' = Lacking(request, failedAt.priority)
      BY <1>3, <1>13, <2>1 DEF IInv, Owed, Active
    <2>2. shm.event = "ABORT" /\ phase = "ABORT" /\ request = r
      BY <1>1, <1>2, HandledIs DEF Spoiled, IInv, Stage, Numbers
    <2>3. InOrder
      BY <2>2 DEF InOrder
    <2>4. ~NotYet(x) /\ Priority[x] = shm.priority
      BY <1>22, <2>2, <2>3
    <2>5. \A s \in Verifiers : NotYet(s) /\ Priority[s] > failedAt.priority
                               => memory'[s] = Change(request)
      BY <1>16, <2>4 DEF IInv, Owed, Verifiers
    <2>6. ASSUME failedAt.priority < priority \/ pc = "lock"
          PROVE  Priority[x] # failedAt.priority
      <3>1. failedAt.priority \in Nat /\ failedAt.priority <= priority /\ priority \in Nat
            /\ shm.priority \in Nat
        BY <1>1, EventIs DEF IInv, Owed, TypeOK
      <3>2. IF pc = "lock" THEN priority < shm.priority ELSE priority = shm.priority
        BY <1>1, <2>2, HandledIs
      <3> QED
        BY <2>4, <2>6, <3>1, <3>2
    <2>7. ASSUME failedAt.priority < priority \/ pc = "lock"
          PROVE  Lacking(request, failedAt.priority)' = Lacking(request, failedAt.priority)
      BY <1>3, <1>16, <2>6, <2>7 DEF Lacking, For
    <2> QED
      BY <2>5, <2>7
  <1>26. \A s : Pending(s, r)' <=> Pending(s, r)
    BY <1>3 DEF Pending, Active, NotYet
  <1>27. Settled'
    <2>1. shm.event = "CHANGE" => Pending(x, r)
      BY <1>1, HandledIs DEF Pending, Active, Waiting
    <2>2. memory'[x].event = "CHANGE" => memory'[x].request_id = r /\ Pending(x, r)
      BY <1>17, <2>1 DEF Event
    <2> QED
      BY <1>3, <1>13, <1>16, <1>26, <2>2 DEF IInv, Settled
  <1>28. Kept'
    <2> SUFFICES ASSUME NEW told \in accepted'
                 PROVE  \/ told[2] \in agreed \/ Spoiled(told[2]) \/ told \in aborted'
                        \/ memory'[told[1]] = Change(told[2])
      BY <1>3, <1>13 DEF Kept
    <2>1. CASE told \notin accepted
      <3>1. told = <<x, r>> /\ shm.event = "CHANGE"
        BY <1>3, <2>1
      <3> QED
        BY <1>17, <3>1 DEF Event, Change
    <2>2. CASE told \in accepted /\ told[1] # x
      <3>1. told[1] \in Subscriptions
        BY <1>1, <2>2 DEF TypeOK, Told
      <3> QED
        BY <1>3, <1>16, <2>2, <3>1 DEF IInv, Kept
    <2>3. CASE told \in accepted /\ told[1] = x
      <3> SUFFICES ASSUME told \notin aborted, memory[x] = Change(told[2]),
                          told[2] \notin agreed, ~Spoiled(told[2])
                   PROVE  told \in aborted' \/ memory'[x] = Change(told[2])
        BY <1>3, <2>3 DEF IInv, Kept
      <3>1. told[2] = r
        BY <1>2 DEF IInv, Settled, Change
      <3>2. told = <<x, r>>
        BY <1>1, <2>3, <3>1 DEF TypeOK, Told
      <3>3. shm.event # "DONE"
        BY <3>1 DEF IInv, Outcome
      <3> QED
        BY <1>2, <1>3, <1>17, <3>1, <3>2, <3>3 DEF ListenEvents, Event, Change
    <2> QED
      BY <2>1, <2>2, <2>3
  <1> QED
    BY <1>8, <1>9, <1>10, <1>11, <1>14, <1>15, <1>20, <1>21, <1>23, <1>24, <1>25, <1>27, <1>28
       DEF IInv

\* A step of a listener that leaves shared memory, what the subscriptions have
\* seen and what is agreed to as they are.
QuietStep ==
  /\ UNCHANGED <<shm, notifier, memory, agreed, stored>>
  /\ disturbed \subseteq disturbed' /\ aborted \subseteq aborted' /\ accepted \subseteq accepted'
  /\ \A told \in accepted' : told \in accepted \/ told \in aborted'
  /\ \A told \in aborted' : told \in aborted \/ Doomed(told[2])
  /\ \A q : Spoiled(q) => Spoiled(q)'

LEMMA QuietKeeps ==
  ASSUME IInv, QuietStep
  PROVE  /\ Stage' /\ Outcome' /\ Progress' /\ ErrorCount' /\ Owed' /\ Settled' /\ Kept'
         /\ InOrder' => InOrder
         /\ Event' = Event
         /\ \A s : Fresh(s)' <=> Fresh(s)
         /\ \A q : Doomed(q)' <=> Doomed(q)
  <1>1. UNCHANGED <<shm, notifier, memory, agreed, stored>> /\ \A q : Spoiled(q) => Spoiled(q)'
    BY DEF QuietStep
  <1>2. Stage'
    BY <1>1 DEF IInv, QuietStep, Stage, Active, Waiting
  <1>3. \A q : Doomed(q)' <=> Doomed(q)
    BY <1>1 DEF Doomed, Live, Active
  <1>4. Outcome'
    BY <1>1, <1>3 DEF IInv, QuietStep, Outcome, Active
  <1>5. Progress'
    BY <1>1 DEF IInv, Progress, Active, NotYet
  <1>6. ErrorCount'
    BY <1>1 DEF IInv, ErrorCount, Lacking
  <1>7. Owed'
    BY <1>1 DEF IInv, Owed, Lacking, Active, NotYet
  <1>8. Settled'
    BY <1>1 DEF IInv, Settled, Pending, Active, NotYet
  <1>9. Kept'
    BY <1>1 DEF IInv, Kept, QuietStep
  <1>10. (InOrder' => InOrder) /\ Event' = Event
    BY <1>1 DEF InOrder, Event
  <1>11. \A s : Fresh(s)' <=> Fresh(s)
    BY <1>1 DEF Fresh, sr_shmsub_change_listen_is_new_event
  <1> QED
    BY <1>2, <1>3, <1>4, <1>5, <1>6, <1>7, <1>8, <1>9, <1>10, <1>11

\* The listener comes back from something that is over.
LEMMA LateKeeps ==
  ASSUME IInv, NEW l \in Listeners, Working(l), Overtaken(l), Return(l),
         UNCHANGED <<shm, pipe, notifier, memory, agreed, stored>>,
         NEW s \in Subscriptions,
         accepted \subseteq accepted' /\ accepted' \subseteq accepted \cup {Of(l, s)},
         aborted \subseteq aborted' /\ aborted' \subseteq aborted \cup {Of(l, s)},
         \A told \in accepted' : told \in accepted \/ told \in aborted',
         disturbed \subseteq disturbed' /\ disturbed' \subseteq disturbed \cup {info[l].request_id},
         Unanswered(l) => info[l].request_id \in disturbed'
  PROVE  IInv'
  <1> DEFINE r == info[l].request_id
  <1>1. TypeOK /\ info[l] \in Seen /\ info[l] # Event
    BY EventIs DEF IInv, TypeOK
  <1>2. r \in Requests /\ r <= shm.request_id /\ Doomed(r) /\ <<s, r>> \in Told
    <2>1. r \in 0 .. MaxChanges /\ r \in 1 .. shm.request_id /\ MaxChanges \in Nat
      BY <1>1, ChangeEventsAssumption DEF IInv, Numbers, Seen
    <2>2. shm.request_id \in 0 .. MaxChanges
      BY <1>1, EventIs
    <2>3. Doomed(r)
      BY <1>1 DEF IInv, Overtaking
    <2> QED
      BY <2>1, <2>2, <2>3 DEF Requests, Told
  <1>3. /\ lpc' = [lpc EXCEPT ![l] = "idle"] /\ at' = [at EXCEPT ![l] = 0]
        /\ info' = [info EXCEPT ![l] = Nothing] /\ valid' = [valid EXCEPT ![l] = 0]
        /\ failed' = [failed EXCEPT ![l] = FALSE]
    BY DEF Return
  <1>4. TypeOK'
    <2>1. Nothing \in Seen /\ 0 \in Counts
      BY ChangeEventsAssumption, FewSubscriptions DEF Nothing, Seen, Counts
    <2>2. accepted' \subseteq Told /\ aborted' \subseteq Told /\ disturbed' \subseteq Requests
      BY <1>1, <1>2 DEF TypeOK, Of
    <2> QED
      BY <1>1, <1>3, <2>1, <2>2 DEF TypeOK
  <1>5. \A m \in Listeners : m # l =>
          /\ lpc'[m] = lpc[m] /\ at'[m] = at[m] /\ info'[m] = info[m]
          /\ valid'[m] = valid[m] /\ failed'[m] = failed[m]
    BY <1>1, <1>3 DEF TypeOK
  <1>6. ~Working(l)' /\ valid'[l] = 0 /\ ~failed'[l] /\ lpc'[l] = "idle"
    BY <1>1, <1>3 DEF TypeOK, Working
  <1>7. ASSUME NEW q, Spoiled(q) PROVE Spoiled(q)'
    <2>1. CASE q \in disturbed
      BY <2>1 DEF Spoiled
    <2>2. CASE q \notin disturbed
      <3>1. PICK m \in Listeners : Stray(m) /\ info[m] = Change(q)
        BY <1>7, <2>2 DEF Spoiled
      <3>2. CASE m = l
        BY <3>1, <3>2 DEF Spoiled, Stray, Change, Unanswered
      <3>3. CASE m # l
        BY <1>5, <3>1, <3>3 DEF Spoiled, Stray, Working, Event
      <3> QED
        BY <3>2, <3>3
    <2> QED
      BY <2>1, <2>2
  <1>8. QuietStep
    BY <1>2, <1>7 DEF QuietStep, Of
  <1>9. /\ Stage' /\ Outcome' /\ Progress' /\ ErrorCount' /\ Owed' /\ Settled' /\ Kept'
        /\ InOrder' => InOrder
        /\ Event' = Event
        /\ \A x : Fresh(x)' <=> Fresh(x)
        /\ \A q : Doomed(q)' <=> Doomed(q)
    BY <1>8, QuietKeeps
  <1>10. Numbers'
    <2>1. \A told \in accepted' \cup aborted' : told[2] <= shm.request_id
      BY <1>2 DEF IInv, Numbers, Of
    <2>2. \A q \in agreed \cup disturbed' : q <= shm.request_id
      BY <1>2 DEF IInv, Numbers
    <2> QED
      BY <1>5, <1>6, <2>1, <2>2 DEF IInv, Numbers, Working, Active
  <1>11. Places'
    BY <1>5, <1>6 DEF IInv, Places, Working
  <1>12. Overtaking'
    BY <1>5, <1>6, <1>7, <1>9 DEF IInv, Overtaking, Working
  <1>13. \A m \in Listeners : (Handles(m)' <=> Handles(m)) /\ (Handles(m) => m # l)
    BY <1>1, <1>5, <1>6, <1>9 DEF Handles, Working
  <1>14. Tally'
    <2> SUFFICES ASSUME shm.event \in ListenEvents, InOrder
                 PROVE  \E U \in SUBSET For(shm.event, shm.priority) : Counted(U)'
      BY <1>9 DEF Tally
    <2>1. PICK U \in SUBSET For(shm.event, shm.priority) : Counted(U)
      BY DEF IInv, Tally
    <2>2. \A m \in Listeners : Answered(U, m)' = Answered(U, m)
      BY <1>9 DEF Answered
    <2>3. \A m \in Listeners : Handles(m)' =>
            valid'[m] = Cardinality(Answered(U, m)') /\ \E x \in U : Handler(x) = m
      BY <1>5, <1>13, <2>1, <2>2 DEF Counted
    <2>4. \A x \in U : memory'[x] = Event' => Handles(Handler(x))'
      BY <1>9, <1>13, <2>1, ForIs, HandlerIs DEF Counted
    <2>5. ASSUME NEW m \in Listeners, Handles(m)', lpc'[m] = "callback"
          PROVE  Fresh(Sub(m))'
      <3>1. Fresh(Sub(m)) /\ Sub(m)' = Sub(m)
        BY <1>5, <1>13, <2>1, <2>5 DEF Counted, Sub
      <3> QED
        BY <3>1 DEF Fresh, sr_shmsub_change_listen_is_new_event
    <2> QED
      BY <1>9, <2>1, <2>3, <2>4, <2>5 DEF Counted
  <1>15. Woken'
    BY <1>5, <1>9, <1>13 DEF IInv, Woken
  <1> QED
    BY <1>4, <1>9, <1>10, <1>11, <1>12, <1>14, <1>15 DEF IInv

LEMMA AcceptLateKeeps ==
  ASSUME IInv, NEW l \in Listeners, AcceptLate(l)
  PROVE  IInv'
  <1>1. TypeOK /\ Working(l) /\ info[l] # Event
    BY EventIs DEF IInv, AcceptLate, Working
  <1>2. info[l].event \in {"CHANGE", "ABORT"} /\ Sub(l) \in Subscriptions
    BY <1>1, HandlerIs DEF IInv, Overtaking, Places, Sub
  <1> QED
    BY <1>1, <1>2, LateKeeps DEF AcceptLate, Disturb

LEMMA RefuseLateKeeps ==
  ASSUME IInv, NEW l \in Listeners, RefuseLate(l)
  PROVE  IInv'
  <1>1. TypeOK /\ Working(l) /\ info[l] # Event
    BY EventIs DEF IInv, RefuseLate, Working
  <1>2. Sub(l) \in Subscriptions
    BY <1>1, HandlerIs DEF IInv, Places, Sub
  <1> QED
    BY <1>1, <1>2, LateKeeps DEF RefuseLate, Disturb

LEMMA WriteLateKeeps ==
  ASSUME IInv, NEW l \in Listeners, WriteLate(l)
  PROVE  IInv'
  <1>1. TypeOK /\ Working(l) /\ info[l] # Event
    BY EventIs DEF IInv, WriteLate, Working
  <1>2. Subs[l][Len(Subs[l])] \in Subscriptions
    <2>1. at[l] \in DOMAIN Subs[l]
      BY <1>1 DEF IInv, Places
    <2>2. Len(Subs[l]) \in DOMAIN Subs[l]
      BY <2>1, HandlerIs
    <2> QED
      BY <2>2, HandlerIs
  <1> QED
    BY <1>1, <1>2, LateKeeps DEF WriteLate, Disturb

LEMMA StartKeeps ==
  ASSUME IInv, NEW l \in Listeners, Start(l)
  PROVE  IInv'
  <1>1. /\ TypeOK /\ lpc[l] = "idle" /\ l \in pipe /\ pipe' = pipe \ {l} /\ ~Working(l)
        /\ UNCHANGED <<shm, notifier, history, memory, valid, failed>>
    BY DEF IInv, Start, Working
  <1>2. Event' = Event /\ \A s : Fresh(s)' <=> Fresh(s)
    BY <1>1 DEF Event, Fresh, sr_shmsub_change_listen_is_new_event
  <1>3. \A n \in DOMAIN Subs[l] : n \in New(l, 0, memory) <=> Fresh(Subs[l][n])
    BY HandlerIs DEF New, Fresh
  <1>4. CASE New(l, 0, memory) = {}
    <2>1. UNCHANGED <<lpc, at, info>>
      BY <1>4 DEF Start
    <2>2. \A q : Spoiled(q) <=> Spoiled(q)'
      BY <1>1, <1>2, <2>1 DEF Spoiled, Stray, Working
    <2>3. QuietStep
      BY <1>1, <2>2 DEF QuietStep
    <2>4. /\ Stage' /\ Outcome' /\ Progress' /\ ErrorCount' /\ Owed' /\ Settled' /\ Kept'
          /\ InOrder' => InOrder
      BY <2>3, QuietKeeps
    <2>5. TypeOK'
      BY <1>1, <2>1 DEF TypeOK
    <2>6. Numbers' /\ Places' /\ Overtaking'
      BY <1>1, <1>2, <2>1, <2>2 DEF IInv, Numbers, Places, Overtaking, Working, Active, Doomed, Live
    <2>7. \A m \in Listeners : Handles(m)' <=> Handles(m)
      BY <1>2, <2>1 DEF Handles, Working
    <2>8. Tally'
      <3>1. \A U : Counted(U) => Counted(U)'
        BY <1>1, <1>2, <2>1 DEF Counted, Answered, Handles, Working, Fresh, Sub
      <3> QED
        BY <1>1, <2>4, <3>1 DEF IInv, Tally
    <2>9. Woken'
      BY <1>1, <1>2, <1>3, <1>4, <2>1, <2>4, <2>7 DEF IInv, Woken
    <2> QED
      BY <2>4, <2>5, <2>6, <2>8, <2>9 DEF IInv
  <1>5. CASE New(l, 0, memory) # {}
    <2>1. info' = [info EXCEPT ![l] = Event] /\ GoOn(l, 0, memory')
      BY <1>1, <1>5 DEF Start, Event
    <2>2. GoesOn(l, 0)
      BY <1>1, <2>1, GoOnIs
    <2>3. PICK n \in DOMAIN Subs[l] : Fresh(Subs[l][n]) /\ n > 0
      BY <1>3, <1>5, HandlerIs DEF New
    <2>4. /\ lpc'[l] = "callback"
          /\ \E j \in DOMAIN Subs[l] :
               /\ at'[l] = j /\ Sub(l)' = Subs[l][j] /\ j > 0 /\ Fresh(Subs[l][j])'
               /\ \A k \in DOMAIN Subs[l] : k > 0 /\ Fresh(Subs[l][k])' => j <= k
      BY <1>2, <2>2, <2>3 DEF GoesOn
    <2>5. PICK j \in DOMAIN Subs[l] :
            /\ at'[l] = j /\ Sub(l)' = Subs[l][j] /\ j > 0 /\ Fresh(Subs[l][j])
            /\ \A k \in DOMAIN Subs[l] : Fresh(Subs[l][k]) => j <= k
      BY <1>2, <2>4, HandlerIs
    <2>6. shm.event \in ListenEvents /\ Event \in Seen /\ info'[l] = Event /\ Handles(l)'
      <3>1. shm.event \in ListenEvents
        BY <2>5, FreshIs
      <3>2. Event \in Seen
        BY <1>1, <3>1, EventIs DEF Event, Seen
      <3> QED
        BY <1>1, <1>2, <2>1, <2>4, <3>1, <3>2 DEF TypeOK, Handles, Working
    <2>7. \A m \in Listeners : m # l =>
            lpc'[m] = lpc[m] /\ at'[m] = at[m] /\ info'[m] = info[m]
      BY <1>1, <2>1, <2>2 DEF GoesOn, TypeOK
    <2>8. \A q : Spoiled(q) <=> Spoiled(q)'
      BY <1>1, <1>2, <2>6, <2>7 DEF Spoiled, Stray, Working
    <2>9. QuietStep
      BY <1>1, <2>8 DEF QuietStep
    <2>10. /\ Stage' /\ Outcome' /\ Progress' /\ ErrorCount' /\ Owed' /\ Settled' /\ Kept'
           /\ InOrder' => InOrder
      BY <2>9, QuietKeeps
    <2>11. TypeOK'
      BY <1>1, <2>1, <2>2, <2>6 DEF TypeOK, GoesOn
    <2>12. valid[l] = 0 /\ ~failed[l] /\ shm.request_id >= 1
      <3>1. Subs[l][j] \in Subscriptions
        BY HandlerIs
      <3>2. shm.event = "CHANGE" \/ shm.event = "DONE" \/ shm.event = "ABORT"
        BY <2>6 DEF ListenEvents
      <3>3. shm.request_id # 0
        <4>1. CASE shm.event = "CHANGE"
          BY <4>1 DEF IInv, Stage, Numbers, Waiting, Active
        <4>2. CASE shm.event = "DONE"
          BY <1>1, <4>2, FewSubscriptions DEF IInv, Outcome, TypeOK, Requests
        <4>3. CASE shm.event = "ABORT"
          <5>1. memory[Subs[l][j]] = Change(shm.request_id)
            BY <2>5, <4>3, FreshIs
          <5>2. <<Subs[l][j], shm.request_id>> \in accepted
            BY <3>1, <5>1 DEF IInv, Outcome, Change
          <5>3. shm.request_id \in Requests
            BY <1>1, <5>2 DEF TypeOK, Told
          <5> QED
            BY <5>3 DEF Requests
        <4> QED
          BY <3>2, <4>1, <4>2, <4>3
      <3> QED
        BY <1>1, <3>3, EventIs DEF IInv, Places
    <2>13. Numbers'
      <3>1. info'[l].request_id \in 1 .. shm.request_id
        BY <1>1, <2>6, <2>12, EventIs DEF Event
      <3> QED
        BY <1>1, <2>7, <3>1 DEF IInv, Numbers, Working, Active
    <2>14. Places'
      <3>1. info'[l].event \in ListenEvents /\ at'[l] \in DOMAIN Subs[l] /\ at'[l] > 0
        BY <2>5, <2>6 DEF Event
      <3>2. valid'[l] = 0 /\ ~failed'[l] /\ lpc'[l] = "callback" /\ at'[l] \in Nat
        BY <1>1, <2>2, <2>4, <2>12 DEF GoesOn
      <3>3. \A m \in Listeners : m # l => valid'[m] = valid[m] /\ failed'[m] = failed[m]
        BY <1>1
      <3> QED
        BY <2>7, <3>1, <3>2, <3>3 DEF IInv, Places, Working
    <2>15. Overtaking'
      BY <1>1, <1>2, <2>6, <2>7, <2>8 DEF IInv, Overtaking, Working, Doomed, Live, Active
    <2>16. \A m \in Listeners : m # l => (Handles(m)' <=> Handles(m))
      BY <1>2, <2>7 DEF Handles, Working
    <2>17. Tally'
      <3> SUFFICES ASSUME InOrder
                   PROVE  \E U \in SUBSET For(shm.event, shm.priority) : Counted(U)'
        BY <1>1, <2>10 DEF Tally
      <3>1. PICK U \in SUBSET For(shm.event, shm.priority) : Counted(U)
        BY <2>6 DEF IInv, Tally
      <3>2. \A m \in Listeners : Answered(U, m)' = Answered(U, m)
        BY <1>1, <1>2 DEF Answered
      <3>3. Answered(U, l) = {} /\ \E x \in U : Handler(x) = l
        <4>1. Answered(U, l) = {}
          BY <1>1, <3>1 DEF Answered, Counted, Handles
        <4>2. Subs[l][j] \in U /\ Handler(Subs[l][j]) = l
          BY <2>5, <3>1, HandlerIs DEF Counted
        <4> QED
          BY <4>1, <4>2
      <3>4. valid'[l] = Cardinality(Answered(U, l)')
        BY <1>1, <2>12, <3>2, <3>3, FS_EmptySet
      <3>5. \A m \in Listeners : Handles(m)' =>
              valid'[m] = Cardinality(Answered(U, m)') /\ \E x \in U : Handler(x) = m
        BY <1>1, <2>16, <3>1, <3>2, <3>3, <3>4 DEF Counted
      <3>6. \A x \in U : memory'[x] = Event' => Handles(Handler(x))'
        BY <1>1, <1>2, <2>6, <2>16, <3>1, ForIs, HandlerIs DEF Counted
      <3>7. ASSUME NEW m \in Listeners, Handles(m)', lpc'[m] = "callback"
            PROVE  Fresh(Sub(m))'
        <4>1. CASE m = l
          BY <2>4, <4>1
        <4>2. CASE m # l
          <5>1. Fresh(Sub(m)) /\ Sub(m)' = Sub(m)
            BY <2>7, <2>16, <3>1, <3>7, <4>2 DEF Counted, Sub
          <5> QED
            BY <1>1, <5>1 DEF Fresh, sr_shmsub_change_listen_is_new_event
        <4> QED
          BY <4>1, <4>2
      <3> QED
        BY <1>1, <1>2, <3>1, <3>5, <3>6, <3>7 DEF Counted
    <2>18. Woken'
      <3> SUFFICES ASSUME shm.event \in {"DONE", "ABORT"}, InOrder,
                          NEW m \in Listeners, NEW k \in DOMAIN Subs[m], Fresh(Subs[m][k])
                   PROVE  IF Handles(m)' THEN lpc'[m] = "callback" /\ at'[m] <= k ELSE m \in pipe'
        BY <1>1, <1>2, <2>10 DEF Woken
      <3>1. CASE m = l
        BY <2>4, <2>5, <2>6, <3>1
      <3>2. CASE m # l
        BY <1>1, <2>7, <2>16, <3>2 DEF IInv, Woken
      <3> QED
        BY <3>1, <3>2
    <2> QED
      BY <2>10, <2>11, <2>13, <2>14, <2>15, <2>17, <2>18 DEF IInv
  <1> QED
    BY <1>4, <1>5

LEMMA ShelveKeeps ==
  ASSUME IInv, NEW l \in Listeners, Shelve(l)
  PROVE  IInv'
  <1>1. /\ TypeOK /\ lpc[l] = "callback" /\ Handles(l) /\ info[l].event = "CHANGE"
        /\ pipe' = pipe \cup {l}
        /\ UNCHANGED <<shm, notifier, memory, info, valid, failed, history>>
    BY EventIs DEF IInv, Shelve, Handles, Working
  <1>2. Event' = Event /\ shm.event = "CHANGE" /\ \A s : Fresh(s)' <=> Fresh(s)
    BY <1>1 DEF Event, Fresh, sr_shmsub_change_listen_is_new_event, Handles
  <1>3. GoesOn(l, at[l])
    BY <1>1, GoOnIs DEF Shelve, TypeOK
  <1>4. at[l] \in DOMAIN Subs[l] /\ at[l] \in Nat /\ valid[l] < at[l] /\ valid[l] \in Nat
    BY <1>1 DEF IInv, Places, TypeOK, Working, Counts
  <1>5. at'[l] \in DOMAIN Subs[l] /\ at'[l] >= at[l] /\ lpc'[l] \in {"callback", "write"}
    BY <1>3, <1>4, HandlerIs DEF GoesOn
  <1>6. \A q : Spoiled(q) <=> Spoiled(q)'
    BY <1>1, <1>2, <1>3, <1>5 DEF Spoiled, Stray, Working, GoesOn
  <1>7. QuietStep
    BY <1>1, <1>6 DEF QuietStep
  <1>8. Stage' /\ Outcome' /\ Progress' /\ ErrorCount' /\ Owed' /\ Settled' /\ Kept'
    BY <1>7, QuietKeeps
  <1>9. TypeOK'
    BY <1>1, <1>3 DEF TypeOK, GoesOn
  <1>10. Numbers'
    BY <1>1, <1>3 DEF IInv, Numbers, Working, Active, GoesOn
  <1>11. Places'
    BY <1>1, <1>3, <1>4, <1>5 DEF IInv, Places, Working, GoesOn, TypeOK
  <1>12. Overtaking'
    BY <1>1, <1>2, <1>3, <1>6 DEF IInv, Overtaking, Working, Doomed, Live, Active, GoesOn, Handles
  <1>13. \A m \in Listeners : Handles(m)' <=> Handles(m)
    BY <1>1, <1>2, <1>3, <1>5 DEF Handles, Working, GoesOn
  <1>14. Tally'
    <2>1. PICK U \in SUBSET For(shm.event, shm.priority) : Counted(U)
      BY <1>2 DEF IInv, Tally, InOrder, ListenEvents
    <2>2. \A m \in Listeners : Answered(U, m)' = Answered(U, m)
      BY <1>1, <1>2 DEF Answered
    <2>3. \A m \in Listeners : Handles(m)' =>
            valid'[m] = Cardinality(Answered(U, m)') /\ \E x \in U : Handler(x) = m
      BY <1>1, <1>13, <2>1, <2>2 DEF Counted
    <2>4. \A x \in U : memory'[x] = Event' => Handles(Handler(x))'
      BY <1>1, <1>2, <1>13, <2>1, ForIs, HandlerIs DEF Counted
    <2>5. ASSUME NEW m \in Listeners, Handles(m)', lpc'[m] = "callback"
          PROVE  Fresh(Sub(m))'
      <3>1. CASE m = l
        BY <1>3, <2>5, <3>1 DEF GoesOn
      <3>2. CASE m # l
        <4>1. Fresh(Sub(m)) /\ Sub(m)' = Sub(m)
          BY <1>3, <1>13, <2>1, <2>5, <3>2 DEF Counted, Sub, GoesOn
        <4> QED
          BY <1>1, <4>1 DEF Fresh, sr_shmsub_change_listen_is_new_event
      <3> QED
        BY <3>1, <3>2
    <2>6. Counted(U)'
      BY <1>1, <1>2, <2>1, <2>3, <2>4, <2>5 DEF Counted
    <2> QED
      BY <1>1, <2>6 DEF Tally
  <1>15. Woken'
    BY <1>1, <1>2 DEF Woken
  <1> QED
    BY <1>8, <1>9, <1>10, <1>11, <1>12, <1>14, <1>15 DEF IInv

LEMMA RefuseKeeps ==
  ASSUME IInv, NEW l \in Listeners, Refuse(l)
  PROVE  IInv'
  <1> DEFINE r == shm.request_id
             refused == [event |-> "ABORT", request_id |-> r]
  <1>0. PICK x : x = Sub(l)
    OBVIOUS
  <1>1. /\ TypeOK /\ lpc[l] = "callback" /\ Handles(l) /\ info[l] = Event /\ info[l] \in Seen
        /\ shm.event = "CHANGE"
    BY EventIs DEF IInv, Refuse, Handles, Working, Event, TypeOK
  <1>2. /\ x \in Subscriptions /\ Handler(x) = l /\ r \in Nat \ {0}
        /\ Waiting /\ phase = "CHANGE" /\ request = r /\ priority = shm.priority
    BY <1>0, <1>1, HandledIs
  <1>3. /\ memory' = [memory EXCEPT ![x] = refused]
        /\ failed' = [failed EXCEPT ![l] = TRUE] /\ lpc' = [lpc EXCEPT ![l] = "write"]
        /\ UNCHANGED <<shm, pipe, notifier, at, info, valid, history>>
    <2>1. [info[l] EXCEPT !.event = "ABORT"] = refused
      <3>1. Event = [event |-> shm.event, request_id |-> shm.request_id]
        BY DEF Event
      <3>2. [Event EXCEPT !.event = "ABORT"] = refused
        BY <3>1
      <3> QED
        BY <1>1, <3>2
    <2> QED
      BY <1>0, <2>1 DEF Refuse
  <1>4. Event' = Event /\ refused \in Seen /\ refused # Event /\ refused # Change(r)
    BY <1>1, <1>3, EventIs DEF Event, Change, Seen, ListenEvents
  <1>5. Fresh(x) /\ memory[x] # Event /\ Priority[x] = shm.priority
    BY <1>0, <1>1, CurrentIs, FreshIs DEF InOrder
  <1>6. \A s \in Subscriptions : /\ s # x => memory'[s] = memory[s]
                                 /\ Fresh(s)' <=> Fresh(s)
    <2>1. \A s \in Subscriptions : s # x => memory'[s] = memory[s]
      BY <1>1, <1>3 DEF TypeOK
    <2>2. memory'[x] = refused
      BY <1>1, <1>2, <1>3 DEF TypeOK
    <2>3. Fresh(x)'
      BY <1>1, <1>3, <1>4, <1>5, <2>2 DEF Fresh, sr_shmsub_change_listen_is_new_event, Event
    <2> QED
      BY <1>3, <1>5, <2>1, <2>3 DEF Fresh, sr_shmsub_change_listen_is_new_event
  <1>7. memory'[x] = refused
    BY <1>1, <1>2, <1>3 DEF TypeOK
  <1>8. \A m \in Listeners : m # l => lpc'[m] = lpc[m] /\ failed'[m] = failed[m]
    BY <1>1, <1>3 DEF TypeOK
  <1>9. lpc'[l] = "write" /\ failed'[l] = TRUE
    BY <1>1, <1>3 DEF TypeOK
  <1>10. TypeOK'
    BY <1>1, <1>3, <1>4 DEF TypeOK
  <1>11. Numbers'
    <2>1. refused.request_id <= shm.request_id
      BY <1>2
    <2> QED
      BY <1>1, <1>2, <1>3, <1>6, <1>7, <1>8, <1>9, <2>1 DEF IInv, Numbers, Working, Active
  <1>12. Places'
    BY <1>1, <1>3, <1>8, <1>9 DEF IInv, Places, Working, Event
  <1>13. Stage'
    BY <1>3 DEF IInv, Stage, Active, Waiting
  <1>14. Outcome'
    BY <1>3, <1>6, <1>7 DEF IInv, Outcome, Active, Doomed, Live
  <1>15. \A m \in Listeners : Handles(m)' <=> Handles(m)
    BY <1>1, <1>3, <1>4, <1>8, <1>9 DEF Handles, Working
  <1>16. \A q : Spoiled(q)' <=> Spoiled(q)
    BY <1>1, <1>3, <1>4, <1>8, <1>9 DEF Spoiled, Stray, Working
  <1>17. Overtaking'
    BY <1>1, <1>3, <1>4, <1>8, <1>16 DEF IInv, Overtaking, Working, Doomed, Live, Active
  <1>18. Tally'
    <2>1. PICK U \in SUBSET For(shm.event, shm.priority) : Counted(U)
      BY <1>1 DEF IInv, Tally, InOrder, ListenEvents
    <2>2. \A s \in Subscriptions : memory'[s] = Event <=> memory[s] = Event
      BY <1>4, <1>5, <1>6, <1>7
    <2>3. \A m \in Listeners : Answered(U, m)' = Answered(U, m)
      BY <1>4, <2>1, <2>2, ForIs DEF Answered
    <2>4. \A m \in Listeners : Handles(m)' =>
            valid'[m] = Cardinality(Answered(U, m)') /\ \E s \in U : Handler(s) = m
      BY <1>3, <1>15, <2>1, <2>3 DEF Counted
    <2>5. \A s \in U : memory'[s] = Event' => Handles(Handler(s))'
      BY <1>4, <1>15, <2>1, <2>2, ForIs, HandlerIs DEF Counted
    <2>6. ASSUME NEW m \in Listeners, Handles(m)', lpc'[m] = "callback"
          PROVE  Fresh(Sub(m))'
      <3>1. m # l /\ Fresh(Sub(m)) /\ Sub(m)' = Sub(m) /\ Sub(m) \in Subscriptions
        BY <1>3, <1>8, <1>9, <1>15, <2>1, <2>6, HandledIs DEF Counted, Sub
      <3>2. memory'[Sub(m)] = memory[Sub(m)]
        BY <1>2, <1>6, <1>15, <2>6, <3>1, HandledIs
      <3> QED
        BY <1>3, <3>1, <3>2 DEF Fresh, sr_shmsub_change_listen_is_new_event
    <2>7. Counted(U)'
      BY <1>3, <1>4, <1>6, <2>1, <2>2, <2>4, <2>5, <2>6 DEF Counted
    <2> QED
      BY <1>3, <2>7 DEF Tally
  <1>19. Woken'
    BY <1>1, <1>3 DEF Woken
  <1>20. Progress'
    <2>1. ~NotYet(x) /\ ~(Priority[x] > priority)
      <3>1. Priority[x] \in Nat
        BY <1>2, AboveIs
      <3> QED
        BY <1>2, <1>5, <3>1 DEF NotYet, Waiting
    <2> QED
      BY <1>1, <1>2, <1>3, <1>6, <2>1 DEF IInv, Progress, Active, NotYet, Verifiers
  <1>21. ErrorCount' /\ Owed'
    BY <1>1, <1>2, <1>3 DEF ErrorCount, Owed
  <1>22. Settled'
    BY <1>3, <1>6, <1>7, <1>16 DEF IInv, Settled, Pending, Active, NotYet
  <1>23. Kept'
    <2> SUFFICES ASSUME NEW told \in accepted, memory[told[1]] = Change(told[2]),
                        told[2] \notin agreed, ~Spoiled(told[2])
                 PROVE  memory'[told[1]] = Change(told[2])
      BY <1>3, <1>16 DEF IInv, Kept
    <2>1. told[1] \in Subscriptions
      BY <1>1 DEF TypeOK, Told
    <2>2. told[2] = r
      BY <2>1 DEF IInv, Settled, Change
    <2>3. told[1] # x
      BY <1>1, <1>5, <2>2 DEF Event, Change
    <2> QED
      BY <1>6, <2>1, <2>3
  <1> QED
    BY <1>10, <1>11, <1>12, <1>13, <1>14, <1>17, <1>18, <1>19, <1>20, <1>21, <1>22, <1>23 DEF IInv

\* The answer is written: what it does to shared memory.
Written(l) ==
  /\ lpc[l] = "write" /\ Handles(l) /\ TypeOK' /\ Numbers' /\ Places'
  /\ shm'.request_id = shm.request_id /\ shm'.priority = shm.priority
  /\ shm'.event = Answer(l)
  /\ UNCHANGED <<pipe, notifier, memory, history>>
  /\ ~Working(l)' /\ valid'[l] = 0 /\ ~failed'[l]
  /\ \A m \in Listeners : m # l =>
       /\ lpc'[m] = lpc[m] /\ at'[m] = at[m] /\ info'[m] = info[m]
       /\ valid'[m] = valid[m] /\ failed'[m] = failed[m]
  /\ \A q : Spoiled(q) => Spoiled(q)'

LEMMA WriteIs ==
  ASSUME IInv, NEW l \in Listeners, Write(l)
  PROVE  /\ Written(l)
         /\ \A U \in SUBSET For(shm.event, shm.priority) : Counted(U) =>
              /\ shm'.subscriber_count = Cardinality(U \ Answered(U, l))
              /\ shm.subscriber_count = valid[l] => U = Answered(U, l)
              /\ U \ Answered(U, l) = {} => shm.subscriber_count = valid[l]
  <1>1. TypeOK /\ lpc[l] = "write" /\ Handles(l)
    BY EventIs DEF IInv, Write, Handles, Working
  <1>2. /\ lpc' = [lpc EXCEPT ![l] = "idle"] /\ at' = [at EXCEPT ![l] = 0]
        /\ info' = [info EXCEPT ![l] = Nothing] /\ valid' = [valid EXCEPT ![l] = 0]
        /\ failed' = [failed EXCEPT ![l] = FALSE]
        /\ UNCHANGED <<pipe, notifier, memory, history>>
    BY DEF Write, Return
  <1>3. shm' = [event |-> Answer(l), request_id |-> shm.request_id, priority |-> shm.priority,
                subscriber_count |-> (shm.subscriber_count - valid[l]) % CountSize]
    <2>1. shm = [event |-> shm.event, request_id |-> shm.request_id, priority |-> shm.priority,
                 subscriber_count |-> shm.subscriber_count]
      BY <1>1 DEF TypeOK
    <2> QED
      BY <2>1 DEF Write
  <1>4. \A m \in Listeners : m # l =>
          /\ lpc'[m] = lpc[m] /\ at'[m] = at[m] /\ info'[m] = info[m]
          /\ valid'[m] = valid[m] /\ failed'[m] = failed[m]
    BY <1>1, <1>2 DEF TypeOK
  <1>5. ~Working(l)' /\ valid'[l] = 0 /\ ~failed'[l] /\ lpc'[l] = "idle"
    BY <1>1, <1>2 DEF TypeOK, Working
  <1>6. /\ CountSize \in Nat \ {0} /\ shm.subscriber_count \in Nat
        /\ shm.subscriber_count < CountSize /\ valid[l] \in Nat
    BY <1>1, EventIs, FewSubscriptions DEF TypeOK, Counts
  <1>7. TypeOK'
    <2>1. (shm.subscriber_count - valid[l]) % CountSize \in Counts
      BY <1>6 DEF Counts
    <2>2. Nothing \in Seen /\ 0 \in Counts
      BY <1>6, ChangeEventsAssumption DEF Nothing, Seen, Counts
    <2>3. Answer(l) \in Events
      BY <1>1, EventIs DEF Answer, Events
    <2>4. shm' \in [event : Events, request_id : 0 .. MaxChanges,
                    priority : Nat, subscriber_count : Counts]
      BY <1>1, <1>3, <2>1, <2>3, EventIs
    <2> QED
      BY <1>1, <1>2, <2>2, <2>4 DEF TypeOK
  <1>8. shm'.request_id = shm.request_id /\ shm'.priority = shm.priority /\ shm'.event = Answer(l)
        /\ shm'.subscriber_count = (shm.subscriber_count - valid[l]) % CountSize
    BY <1>3
  <1>9. Numbers'
    BY <1>2, <1>4, <1>5, <1>8 DEF IInv, Numbers, Working, Active
  <1>10. Places'
    BY <1>4, <1>5 DEF IInv, Places, Working
  <1>11. ASSUME NEW q, Spoiled(q) PROVE Spoiled(q)'
    <2>1. CASE q \in disturbed
      BY <1>2, <2>1 DEF Spoiled
    <2>2. CASE q \notin disturbed
      <3>1. PICK m \in Listeners : Stray(m) /\ info[m] = Change(q)
        BY <1>11, <2>2 DEF Spoiled
      <3>2. m # l
        BY <1>1, <3>1 DEF Stray, Handles
      <3>3. shm'.event = "CHANGE" => shm.event = "CHANGE"
        BY <1>8 DEF Answer
      <3>4. info[m] # Event'
        <4>1. CASE shm'.event = "CHANGE"
          BY <1>8, <3>1, <3>3, <4>1 DEF Stray, Event
        <4>2. CASE shm'.event # "CHANGE"
          BY <3>1, <4>2 DEF Event, Change
        <4> QED
          BY <4>1, <4>2
      <3>5. Stray(m)' /\ info'[m] = Change(q)
        BY <1>4, <3>1, <3>2, <3>4 DEF Stray, Working
      <3> QED
        BY <3>5 DEF Spoiled
    <2> QED
      BY <2>1, <2>2
  <1>12. ASSUME NEW U \in SUBSET For(shm.event, shm.priority), Counted(U)
         PROVE  /\ shm'.subscriber_count = Cardinality(U \ Answered(U, l))
                /\ shm.subscriber_count = valid[l] => U = Answered(U, l)
                /\ U \ Answered(U, l) = {} => shm.subscriber_count = valid[l]
    <2> DEFINE A == Answered(U, l)
    <2>1. IsFiniteSet(U) /\ A \in SUBSET U
      BY ForIs, FS_Subset DEF Answered
    <2>2. shm.subscriber_count = Cardinality(U) /\ valid[l] = Cardinality(A)
      BY <1>1, <1>12 DEF Counted
    <2> HIDE DEF A
    <2>3. IsFiniteSet(A) /\ (Cardinality(U) = Cardinality(A) => U = A) /\ U \cap A = A
      BY <2>1, FS_Subset
    <2>4. IsFiniteSet(U \ A) /\ Cardinality(U \ A) = Cardinality(U) - Cardinality(A)
      BY <2>1, <2>3, FS_Difference
    <2>5. Cardinality(U \ A) \in Nat
      BY <2>4, FS_CardinalityType
    <2>6. Cardinality(U) - Cardinality(A) < CountSize
      BY <1>6, <2>2, <2>4
    <2>7. (Cardinality(U) - Cardinality(A)) % CountSize = Cardinality(U) - Cardinality(A)
      BY <1>6, <2>4, <2>5, <2>6, SmallRemainder
    <2>8. U \ A = {} => Cardinality(U) = Cardinality(A)
      <3>1. U \ A = {} => U = A
        BY <2>1
      <3> QED
        BY <3>1
    <2> QED
      BY <1>8, <2>2, <2>3, <2>4, <2>7, <2>8 DEF A
  <1> QED
    BY <1>1, <1>2, <1>4, <1>5, <1>7, <1>8, <1>9, <1>10, <1>11, <1>12 DEF Written

\* Not the last answer.
LEMMA WriteSomeKeeps ==
  ASSUME IInv, NEW l \in Listeners, Write(l), shm'.event = shm.event
  PROVE  IInv'
  <1> USE DEF Written
  <1>1. Written(l)
    BY WriteIs
  <1>2. Event' = Event /\ \A s : Fresh(s)' <=> Fresh(s)
    BY <1>1 DEF Event, Fresh, sr_shmsub_change_listen_is_new_event
  <1>3. shm.event \in ListenEvents
    BY <1>1, HandledIs
  <1>4. Stage' /\ Outcome' /\ ErrorCount'
    BY <1>1, <1>3 DEF IInv, Stage, Outcome, ErrorCount, Active, Waiting, Doomed, Live, ListenEvents
  <1>5. Overtaking'
    BY <1>1, <1>2 DEF IInv, Overtaking, Working, Doomed, Live, Active
  <1>6. Progress' /\ Owed'
    BY <1>1 DEF IInv, Progress, Owed, Lacking, Active, NotYet
  <1>7. Settled' /\ Kept'
    BY <1>1 DEF IInv, Settled, Kept, Pending, Active, NotYet
  <1>8. InOrder' => InOrder
    BY <1>1 DEF InOrder
  <1>9. \A m \in Listeners : Handles(m)' <=> m # l /\ Handles(m)
    BY <1>1, <1>2 DEF Handles, Working
  <1>10. Tally'
    <2> SUFFICES ASSUME InOrder
                 PROVE  \E V \in SUBSET For(shm.event, shm.priority) : Counted(V)'
      BY <1>1, <1>8 DEF Tally
    <2>1. PICK U \in SUBSET For(shm.event, shm.priority) : Counted(U)
      BY <1>3 DEF IInv, Tally
    <2>2. PICK V \in SUBSET For(shm.event, shm.priority) : V = U \ Answered(U, l)
      OBVIOUS
    <2>3. shm'.subscriber_count = Cardinality(V)
      BY <2>1, <2>2, WriteIs
    <2>4. V # {}
      <3>1. shm.subscriber_count # valid[l]
        BY <1>1, <1>3 DEF Answer, ListenEvents
      <3> QED
        BY <2>1, <2>2, <3>1, WriteIs
    <2>5. \A s \in Subscriptions : s \in V <=> s \in U /\ ~(Handler(s) = l /\ memory[s] = Event)
      BY <2>1, <2>2, ForIs DEF Answered
    <2>6. \A m \in Listeners : m # l => Answered(V, m)' = Answered(U, m)
      BY <1>1, <1>2, <2>1, <2>2, ForIs DEF Answered
    <2>7. ASSUME NEW m \in Listeners, Handles(m)'
          PROVE  valid'[m] = Cardinality(Answered(V, m)') /\ \E s \in V : Handler(s) = m
      <3>1. m # l /\ Handles(m) /\ valid[m] = Cardinality(Answered(U, m))
        BY <1>9, <2>1, <2>7 DEF Counted
      <3>2. PICK s \in U : Handler(s) = m
        BY <2>1, <3>1 DEF Counted
      <3>3. s \in V
        BY <2>1, <2>5, <3>1, <3>2, ForIs
      <3> QED
        BY <1>1, <2>6, <3>1, <3>2, <3>3
    <2>8. \A s \in Subscriptions : Fresh(s)' <=> s \in V /\ memory'[s] # Event'
      BY <1>1, <1>2, <2>1, <2>5 DEF Counted
    <2>9. ASSUME NEW s \in V, memory'[s] = Event' PROVE Handles(Handler(s))'
      <3>1. s \in U /\ s \in Subscriptions /\ memory[s] = Event /\ Handler(s) # l
        BY <1>1, <1>2, <2>1, <2>2, <2>9, ForIs DEF Answered
      <3> QED
        BY <1>9, <2>1, <3>1, HandlerIs DEF Counted
    <2>10. ASSUME NEW m \in Listeners, Handles(m)', lpc'[m] = "callback"
           PROVE  Fresh(Sub(m))'
      <3>1. Fresh(Sub(m)) /\ Sub(m)' = Sub(m)
        BY <1>1, <1>9, <2>1, <2>10 DEF Counted, Sub
      <3> QED
        BY <1>1, <3>1 DEF Fresh, sr_shmsub_change_listen_is_new_event
    <2> QED
      BY <2>3, <2>4, <2>7, <2>8, <2>9, <2>10 DEF Counted
  <1>11. Woken'
    <2> SUFFICES ASSUME shm.event \in {"DONE", "ABORT"}, InOrder,
                        NEW m \in Listeners, NEW k \in DOMAIN Subs[m], Fresh(Subs[m][k])
                 PROVE  IF Handles(m)' THEN lpc'[m] = "callback" /\ at'[m] <= k ELSE m \in pipe'
      BY <1>1, <1>2, <1>8 DEF Woken
    <2>1. IF Handles(m) THEN lpc[m] = "callback" /\ at[m] <= k ELSE m \in pipe
      BY DEF IInv, Woken
    <2> QED
      BY <1>1, <1>9, <2>1
  <1> QED
    BY <1>1, <1>4, <1>5, <1>6, <1>7, <1>10, <1>11 DEF IInv

\* Nobody else handles an event whose last answer is written.
LEMMA LastAnswer ==
  ASSUME IInv, NEW l \in Listeners, Write(l), shm.subscriber_count = valid[l],
         InOrder, shm.event \in ListenEvents
  PROVE  /\ \A m \in Listeners : Handles(m) => m = l
         /\ \A s \in Subscriptions : ~Fresh(s)
  <1>1. PICK U \in SUBSET For(shm.event, shm.priority) : Counted(U)
    BY DEF IInv, Tally
  <1>2. U = Answered(U, l)
    BY <1>1, WriteIs
  <1> QED
    BY <1>1, <1>2 DEF Counted, Answered

\* The last answer, or a refusal.
LEMMA WriteLastKeeps ==
  ASSUME IInv, NEW l \in Listeners, Write(l), shm'.event # shm.event
  PROVE  IInv'
  <1> USE DEF Written
  <1>1. Written(l)
    BY WriteIs
  <1>2. TypeOK /\ shm.event \in ListenEvents /\ info[l] = Event
    BY <1>1, HandledIs DEF IInv, Handles
  <1>3. \/ failed[l] /\ shm.event = "CHANGE" /\ shm'.event = "ERROR"
        \/ shm.subscriber_count = valid[l] /\ shm.event = "CHANGE" /\ shm'.event = "SUCCESS"
        \/ shm.subscriber_count = valid[l] /\ shm.event # "CHANGE" /\ shm'.event = "NONE"
    <2>1. failed[l] => shm.event = "CHANGE"
      BY <1>2 DEF IInv, Places, Event
    <2> QED
      BY <1>1, <2>1 DEF Answer
  <1>4. shm'.event \in {"ERROR", "SUCCESS", "NONE"} /\ shm'.event \notin ListenEvents
    BY <1>3 DEF ListenEvents
  <1>5. Tally' /\ Woken'
    BY <1>4 DEF Tally, Woken, ListenEvents
  <1>6. shm.event = "CHANGE" =>
          /\ Waiting /\ phase = "CHANGE" /\ request = shm.request_id
          /\ priority = shm.priority /\ shm.request_id \notin agreed
    BY <1>1, HandledIs
  <1>7. shm.event # "CHANGE" => ~(Active /\ phase = "CHANGE" /\ request # 0)
    BY <1>1, HandledIs
  <1>8. Stage'
    <2>1. phase \in {"CHANGE", "DONE", "ABORT", "clear"} /\ phase # "clear"
      BY <1>2 DEF IInv, Stage, TypeOK, ListenEvents
    <2>2. shm'.event = "ERROR" => Waiting /\ phase = "CHANGE"
      BY <1>3, <1>6
    <2>3. shm'.event \in {"SUCCESS", "ERROR"} <=> shm.event = "CHANGE"
      BY <1>3
    <2> QED
      BY <1>1, <1>2, <1>4, <1>6, <2>1, <2>2, <2>3 DEF IInv, Stage, Active, Waiting, ListenEvents
  <1>9. \A q : Doomed(q) => Doomed(q)'
    BY <1>1, <1>2, <1>3, <1>6 DEF Doomed, Live, Active, ListenEvents
  <1>10. Outcome'
    BY <1>1, <1>3, <1>6, <1>9 DEF IInv, Outcome, Active
  <1>11. shm.event = "ABORT" => Doomed(shm.request_id)
    BY <1>1, HandledIs
  <1>12. Overtaking'
    <2> SUFFICES ASSUME NEW m \in Listeners, Working(m)', NEW q, q = info'[m].request_id
                 PROVE  /\ info'[m].event \in {"CHANGE", "ABORT"} /\ Doomed(q)'
                        /\ info'[m].event = "ABORT" => Spoiled(q)'
      BY DEF Overtaking
    <2>1. m # l /\ Working(m) /\ info'[m] = info[m] /\ info[m].request_id = q
      BY <1>1 DEF Working
    <2>2. CASE info[m] # Event
      BY <1>1, <1>9, <2>1, <2>2 DEF IInv, Overtaking
    <2>3. CASE info[m] = Event
      <3>1. Handles(m) /\ info[m].event = shm.event /\ q = shm.request_id
        BY <2>1, <2>3 DEF Handles, Event
      <3>2. CASE shm'.event = "ERROR"
        <4>1. shm.event = "CHANGE" /\ q \notin agreed
          BY <1>3, <1>6, <3>1, <3>2
        <4> QED
          BY <1>1, <2>1, <3>1, <3>2, <4>1 DEF Doomed, Live
      <3>3. CASE shm'.event # "ERROR"
        <4>1. ~InOrder
          BY <1>2, <1>3, <2>1, <3>1, <3>3, LastAnswer
        <4> QED
          BY <1>1, <1>9, <1>11, <2>1, <3>1, <4>1 DEF InOrder
      <3> QED
        BY <3>2, <3>3
    <2> QED
      BY <2>2, <2>3
  <1>13. Progress'
    <2>1. ASSUME shm'.event = "SUCCESS", NEW s \in For("CHANGE", priority)
          PROVE  memory[s] = Change(request)
      <3>1. shm.event = "CHANGE" /\ shm.subscriber_count = valid[l]
        BY <1>3, <2>1
      <3>2. ~Fresh(s) /\ s \in Subscriptions
        BY <1>2, <3>1, LastAnswer, ForIs DEF InOrder
      <3>3. memory[s] = Event
        BY <1>2, <1>6, <3>1, <3>2
           DEF Fresh, sr_shmsub_change_listen_is_new_event, For, Event, ListenEvents
      <3> QED
        BY <1>6, <3>1, <3>3 DEF Event, Change
    <2> QED
      BY <1>1, <2>1 DEF IInv, Progress, Active, NotYet
  <1>14. ErrorCount'
    <2> SUFFICES ASSUME shm'.event = "ERROR"
                 PROVE  /\ shm'.subscriber_count <= Cardinality(For("CHANGE", shm.priority))
                        /\ ~Spoiled(shm.request_id)' =>
                             shm'.subscriber_count = Cardinality(Lacking(shm.request_id, shm.priority))
      BY <1>1 DEF ErrorCount, Lacking
    <2>1. shm.event = "CHANGE"
      BY <1>3
    <2>2. PICK U \in SUBSET For("CHANGE", shm.priority) : Counted(U)
      BY <1>2, <2>1 DEF IInv, Tally, InOrder
    <2>3. shm'.subscriber_count = Cardinality(U \ Answered(U, l))
      BY <2>1, <2>2, WriteIs
    <2>4. U \ Answered(U, l) \in SUBSET For("CHANGE", shm.priority)
      BY <2>2
    <2>5. shm'.subscriber_count <= Cardinality(For("CHANGE", shm.priority))
      BY <2>3, <2>4, ForIs, FS_Subset
    <2>6. Event = Change(shm.request_id)
      BY <2>1 DEF Event, Change
    <2>7. ASSUME ~Spoiled(shm.request_id)'
          PROVE  U \ Answered(U, l) = Lacking(shm.request_id, shm.priority)
      <3>1. ASSUME NEW s \in Lacking(shm.request_id, shm.priority)
            PROVE  s \in U \ Answered(U, l)
        <4>1. s \in For("CHANGE", shm.priority) /\ s \in Subscriptions /\ memory[s] # Event
          BY <2>6, ForIs DEF Lacking
        <4>2. Fresh(s)
          BY <2>1, <4>1
             DEF Fresh, sr_shmsub_change_listen_is_new_event, Event, For, ListenEvents
        <4> QED
          BY <2>2, <4>1, <4>2 DEF Counted, Answered
      <3>2. ASSUME NEW s \in U \ Answered(U, l), memory[s] = Event PROVE FALSE
        <4> DEFINE m == Handler(s)
        <4>1. s \in Subscriptions /\ m \in Listeners /\ m # l
          BY <2>2, <3>2, ForIs, HandlerIs DEF Answered
        <4>2. Handles(m) /\ valid[m] = Cardinality(Answered(U, m))
          BY <2>2, <3>2, <4>1 DEF Counted
        <4>3. s \in Answered(U, m) /\ Answered(U, m) \in SUBSET For("CHANGE", shm.priority)
          BY <2>2, <3>2 DEF Answered
        <4>4. Cardinality(Answered(U, m)) # 0 /\ Cardinality(Answered(U, m)) \in Nat
          BY <4>3, ForIs, FS_Subset, FS_EmptySet, FS_CardinalityType
        <4> HIDE DEF m
        <4>5. Stray(m)' /\ info'[m] = Change(shm.request_id)
          BY <1>1, <2>1, <2>6, <4>1, <4>2, <4>4 DEF Stray, Handles, Working, Event
        <4>6. Spoiled(shm.request_id)'
          BY <1>1, <4>1, <4>5 DEF Spoiled
        <4> QED
          BY <2>7, <4>6
      <3>3. ASSUME NEW s \in U \ Answered(U, l)
            PROVE  s \in Lacking(shm.request_id, shm.priority)
        BY <2>2, <2>6, <3>2 DEF Lacking
      <3> QED
        BY <3>1, <3>3
    <2> QED
      BY <2>3, <2>5, <2>7
  <1>15. Owed'
    BY <1>1 DEF IInv, Owed, Lacking, Active, NotYet
  <1>16. Settled'
    <2> SUFFICES ASSUME NEW s \in Subscriptions, memory[s].event = "CHANGE",
                        memory[s].request_id = shm.request_id,
                        Pending(s, shm.request_id), ~Pending(s, shm.request_id)'
                 PROVE  Spoiled(shm.request_id)'
      BY <1>1 DEF IInv, Settled
    <2>1. shm.event = "ABORT" /\ Priority[s] = shm.priority
      BY <1>1, <1>4 DEF Pending, Active, NotYet
    <2>2. CASE ~InOrder
      BY <1>1, <2>2 DEF InOrder
    <2>3. CASE InOrder
      <3>1. ~Fresh(s)
        BY <1>2, <1>3, <2>1, <2>3, LastAnswer
      <3>2. s \in Verifiers /\ memory[s] \in Seen
        BY <1>2 DEF IInv, Outcome, TypeOK
      <3>3. memory[s] = Change(shm.request_id)
        BY <1>2, <3>2, EventIs
      <3>4. Fresh(s)
        BY <1>2, <2>1, <3>2, <3>3
           DEF Fresh, sr_shmsub_change_listen_is_new_event, Change, Verifiers, sr_shmsub_change_is_valid
      <3> QED
        BY <3>1, <3>4
    <2> QED
      BY <2>2, <2>3
  <1>17. Kept'
    BY <1>1 DEF IInv, Kept
  <1> QED
    BY <1>1, <1>5, <1>8, <1>10, <1>12, <1>13, <1>14, <1>15, <1>16, <1>17 DEF IInv


-----------------------------------------------------------------------------
(***************************************************************************)
(* The notifier's steps: the listeners' variables stay as they are.        *)
(***************************************************************************)
\* A request that somebody has accepted has a number.
LEMMA AcceptedIs ==
  ASSUME IInv, NEW s \in Subscriptions, memory[s].event = "CHANGE"
  PROVE  /\ s \in Verifiers /\ memory[s].request_id \in Requests
         /\ memory[s] = Change(memory[s].request_id)
         /\ \A ev \in {"CHANGE", "DONE", "ABORT"} : sr_shmsub_change_is_valid(ev, s)
  <1>1. s \in Verifiers /\ <<s, memory[s].request_id>> \in accepted /\ memory[s] \in Seen
    BY DEF IInv, Outcome, TypeOK
  <1>2. <<s, memory[s].request_id>> \in Told
    BY <1>1 DEF IInv, TypeOK
  <1>3. memory[s].request_id \in Requests
    BY <1>2 DEF Told
  <1> QED
    BY <1>1, <1>3, EventIs DEF IInv, Verifiers, sr_shmsub_change_is_valid

\* What a step that leaves shared memory alone keeps.
LEMMA SteadyKeeps ==
  ASSUME IInv, UNCHANGED <<shm, pipe, listener, accepted, aborted, agreed, stored>>,
         disturbed \subseteq disturbed',
         \A q \in Requests : Doomed(q) => Doomed(q)'
  PROVE  /\ Places' /\ Overtaking' /\ Tally' /\ Woken' /\ ErrorCount' /\ Kept'
         /\ \A q : Spoiled(q) => Spoiled(q)'
         /\ \A told \in aborted' : Doomed(told[2])'
  <1>1. Event' = Event /\ \A l : Stray(l)' <=> Stray(l)
    BY DEF Event, Stray, Working
  <1>2. \A q : Spoiled(q) => Spoiled(q)'
    BY <1>1 DEF Spoiled
  <1>3. \A s : Fresh(s)' <=> Fresh(s)
    BY DEF Fresh, sr_shmsub_change_listen_is_new_event
  <1>4. \A l : (Handles(l)' <=> Handles(l)) /\ (Working(l)' <=> Working(l)) /\ Sub(l)' = Sub(l)
    BY <1>1 DEF Handles, Working, Sub
  <1>5. Places'
    BY <1>4 DEF IInv, Places
  <1>6. InOrder' => InOrder
    BY <1>2 DEF InOrder
  <1>7. Tally'
    <2> SUFFICES ASSUME shm.event \in ListenEvents, InOrder
                 PROVE  \E U \in SUBSET For(shm.event, shm.priority) : Counted(U)'
      BY <1>6 DEF Tally
    <2>1. PICK U \in SUBSET For(shm.event, shm.priority) : Counted(U)
      BY DEF IInv, Tally
    <2>2. \A l : Answered(U, l)' = Answered(U, l)
      BY <1>1 DEF Answered
    <2>3. Counted(U)'
      BY <2>1, <2>2, <1>1, <1>3, <1>4 DEF Counted
    <2> QED
      BY <2>3
  <1>8. Woken'
    BY <1>3, <1>4, <1>6 DEF IInv, Woken
  <1>9. ErrorCount'
    BY <1>2 DEF IInv, ErrorCount, Lacking
  <1>10. Kept'
    BY <1>2 DEF IInv, Kept
  <1>11. Overtaking'
    <2> SUFFICES ASSUME NEW l \in Listeners, Working(l), info[l] # Event
                 PROVE  /\ info[l].event \in {"CHANGE", "ABORT"} /\ Doomed(info[l].request_id)'
                        /\ info[l].event = "ABORT" => Spoiled(info[l].request_id)'
      BY <1>1, <1>4 DEF Overtaking, Doomed, Live
    <2>1. info[l].request_id \in Requests
      BY ChangeEventsAssumption DEF IInv, Numbers, TypeOK, Requests, Seen
    <2> QED
      BY <1>2, <2>1 DEF IInv, Overtaking
  <1>12. \A told \in aborted' : Doomed(told[2])'
    <2> SUFFICES ASSUME NEW told \in aborted PROVE Doomed(told[2])'
      BY DEF Doomed, Live
    <2>1. told[2] \in Requests
      BY DEF IInv, TypeOK, Told
    <2> QED
      BY <2>1 DEF IInv, Outcome
  <1> QED
    BY <1>2, <1>5, <1>7, <1>8, <1>9, <1>10, <1>11, <1>12

LEMMA TopCount ==
  Cardinality(For("CHANGE", Top)) \in Counts \ {0}
  <1>1. PICK T : T = For("CHANGE", Top) /\ T # {}
    BY TopIs
  <1>2. Cardinality(T) \in Nat /\ Cardinality(T) <= Cardinality(For("CHANGE", Top))
    BY <1>1, ForIs
  <1>3. Cardinality(T) \in Counts
    BY <1>2, CountIs
  <1>4. Cardinality(T) # 0
    BY <1>1, ForIs
  <1> QED
    BY <1>1, <1>3, <1>4

LEMMA ApplyKeeps ==
  ASSUME IInv, sr_apply_changes
  PROVE  IInv'
  <1> USE DEF sr_apply_changes
  <1>1. PICK wait \in BOOLEAN : Publishing("CHANGE", Top, Cardinality(For("CHANGE", Top)), None, wait)
    BY DEF Top
  <1>2. /\ pc' = "lock" /\ phase' = "CHANGE" /\ priority' = Top /\ failedAt' = None /\ waits' = wait
        /\ count' = Cardinality(For("CHANGE", Top))
    BY <1>1 DEF Publishing
  <1>3. count' \in Counts /\ count' # 0
    BY <1>2, TopCount
  <1>4. shm.event # "CHANGE" /\ shm.event # "ERROR"
    BY DEF IInv, Stage, Waiting, Active
  <1>5. changes \in 0 .. MaxChanges /\ MaxChanges \in Nat /\ shm.request_id \in 0 .. MaxChanges
    BY ChangeEventsAssumption DEF IInv, TypeOK
  <1>6. TypeOK'
    BY <1>2, <1>3, <1>5, TopIs DEF IInv, TypeOK, ListenEvents
  <1>7. Numbers'
    BY <1>2, <1>5 DEF IInv, Numbers, Active, Working
  <1>8. \A q \in Requests : Doomed(q) => Doomed(q)'
    BY DEF Doomed, Live, Requests
  <1>9. /\ Places' /\ Overtaking' /\ Tally' /\ Woken' /\ ErrorCount' /\ Kept'
        /\ \A q : Spoiled(q) => Spoiled(q)'
        /\ \A told \in aborted' : Doomed(told[2])'
    BY <1>8, SteadyKeeps
  <1>10. Stage'
    BY <1>2, <1>3, <1>4, TopIs DEF IInv, Stage, Active, Waiting
  <1>11. Outcome'
    BY <1>2, <1>9 DEF IInv, Outcome, Active
  <1>12. Progress' /\ Owed'
    BY <1>2 DEF Progress, Owed
  <1>13. Settled'
    BY <1>9 DEF IInv, Settled, Pending, Active
  <1> QED
    BY <1>6, <1>7, <1>9, <1>10, <1>11, <1>12, <1>13 DEF IInv

LEMMA ExpireKeeps ==
  ASSUME IInv, Expire
  PROVE  IInv'
  <1> USE DEF Expire
  <1>1. Active /\ Waiting /\ Active' /\ Waiting' /\ pc = "wait" /\ pc' = "expired"
    BY DEF Active, Waiting
  <1>2. TypeOK' /\ Numbers'
    BY DEF IInv, TypeOK, Numbers, Active, Working
  <1>3. \A q \in Requests : Doomed(q) => Doomed(q)'
    BY <1>1 DEF Doomed, Live
  <1>4. /\ Places' /\ Overtaking' /\ Tally' /\ Woken' /\ ErrorCount' /\ Kept'
        /\ \A q : Spoiled(q) => Spoiled(q)'
        /\ \A told \in aborted' : Doomed(told[2])'
    BY <1>3, SteadyKeeps
  <1>5. Stage'
    BY <1>1 DEF IInv, Stage
  <1>6. Outcome'
    BY <1>1, <1>4 DEF IInv, Outcome
  <1>7. \A s : NotYet(s)' <=> NotYet(s)
    BY <1>1 DEF NotYet
  <1>8. Progress'
    BY <1>1, <1>7 DEF IInv, Progress
  <1>9. Owed'
    BY <1>1, <1>4, <1>7 DEF IInv, Owed, Lacking
  <1>10. Settled'
    BY <1>1, <1>4, <1>7 DEF IInv, Settled, Pending
  <1> QED
    BY <1>2, <1>4, <1>5, <1>6, <1>8, <1>9, <1>10 DEF IInv

\* The event that was not processed in time stays where it is.
LEMMA LockTimedOutKeeps ==
  ASSUME IInv, LockTimedOut
  PROVE  IInv'
  <1> USE DEF LockTimedOut
  <1>1. /\ pc' = "idle" /\ phase' = "CHANGE" /\ priority' = 0 /\ count' = 0
        /\ failedAt' = None /\ waits' = FALSE
    BY DEF Finished
  <1>2. Active /\ ~Waiting /\ pc = "lock" /\ ~Active' /\ ~Waiting'
    BY <1>1 DEF Active, Waiting
  <1>3. shm.event # "CHANGE" /\ shm.event # "ERROR" /\ shm.event # "NONE" /\ phase # "clear"
    BY <1>2 DEF IInv, Stage, CanLock
  <1>4. phase = "ABORT" => request \in Requests /\ request = shm.request_id
    <2>1. phase = "ABORT" => request # 0 /\ request = shm.request_id
      BY <1>2 DEF IInv, Numbers
    <2> QED
      BY <2>1, ChangeEventsAssumption DEF IInv, TypeOK, Requests
  <1>5. TypeOK'
    BY <1>1, <1>4, CountIs DEF IInv, TypeOK, ListenEvents
  <1>6. Numbers'
    <2>1. shm.request_id \in Nat
      BY DEF IInv, TypeOK
    <2> QED
      BY <1>2, <1>4, <2>1 DEF IInv, Numbers, Working
  <1>7. \A q \in Requests : Doomed(q) => Doomed(q)'
    BY <1>2 DEF Doomed, Live
  <1>8. /\ Places' /\ Overtaking' /\ Tally' /\ Woken' /\ ErrorCount' /\ Kept'
        /\ \A q : Spoiled(q) => Spoiled(q)'
        /\ \A told \in aborted' : Doomed(told[2])'
    BY <1>7, SteadyKeeps
  <1>9. Stage'
    BY <1>1, <1>2, <1>3 DEF IInv, Stage
  <1>10. Outcome'
    BY <1>2, <1>8 DEF IInv, Outcome
  <1>11. Progress' /\ Owed'
    BY <1>2 DEF Progress, Owed
  <1>12. Settled'
    <2> SUFFICES ASSUME NEW s \in Subscriptions, memory[s].event = "CHANGE",
                        memory[s].request_id = shm.request_id,
                        Pending(s, shm.request_id), ~Pending(s, shm.request_id)'
                 PROVE  Spoiled(shm.request_id)'
      BY <1>8 DEF IInv, Settled
    <2>1. shm.request_id \in Requests /\ shm.request_id # 0
      BY AcceptedIs DEF Requests
    <2>2. request = shm.request_id /\ phase = "ABORT"
      BY <1>2, <1>3, <2>1 DEF Pending, IInv, Stage
    <2> QED
      BY <2>2 DEF Spoiled
  <1> QED
    BY <1>5, <1>6, <1>8, <1>9, <1>10, <1>11, <1>12 DEF IInv

\* "abort" begins: after a refusal, a timeout, or an answer that came with it.
LEMMA AbortKeeps ==
  ASSUME IInv, Waiting, phase = "CHANGE", NEW f, AbortBegins(f), NEW ev,
         shm' = [shm EXCEPT !.event = ev], ErrorCount',
         UNCHANGED <<pipe, request, changes, listener, accepted, aborted, agreed, stored>>,
         \/ /\ ev = "ERROR" /\ shm.event \in {"CHANGE", "ERROR"} /\ disturbed' = disturbed
            /\ f = [priority |-> shm.priority, count |-> shm.subscriber_count]
         \/ /\ ev = "SUCCESS" /\ shm.event = "SUCCESS" /\ disturbed' = disturbed \cup {request}
            /\ f = None
  PROVE  IInv'
  <1>1. /\ shm'.event = ev /\ shm'.request_id = shm.request_id /\ shm'.priority = shm.priority
        /\ shm'.subscriber_count = shm.subscriber_count
        /\ shm' \in [event : Events, request_id : 0 .. MaxChanges, priority : Nat, subscriber_count : Counts]
        /\ shm.priority \in Nat /\ shm.subscriber_count \in Counts
    BY DEF IInv, TypeOK, Events, ListenEvents
  <1>2. /\ pc \in {"wait", "expired"} /\ Active /\ pc' = "lock" /\ ~Waiting' /\ Active'
        /\ priority' = Top /\ failedAt' = f /\ waits' = waits
        /\ phase' \in {"ABORT", "clear"} /\ (phase' = "clear" <=> count' = 0)
        /\ count' = Cardinality(For("CHANGE", Top)) - (IF f.priority = Top THEN f.count ELSE 0)
    BY DEF Waiting, Active, AbortBegins
  <1>3. /\ request = shm.request_id /\ request \in Requests /\ request \notin agreed
        /\ priority = shm.priority /\ For("CHANGE", priority) # {}
    <2>1. /\ request = shm.request_id /\ request # 0
          /\ priority = shm.priority /\ For("CHANGE", priority) # {}
      BY <1>2 DEF IInv, Numbers, Stage
    <2>2. request \in 0 .. MaxChanges /\ MaxChanges \in Nat
      BY ChangeEventsAssumption DEF IInv, TypeOK
    <2> QED
      BY <1>2, <2>1, <2>2 DEF IInv, Outcome, Requests
  <1>4. priority \in Nat /\ priority <= Top /\ Top \in Nat /\ For("CHANGE", Top) # {}
    <2>1. PICK s \in Verifiers : Priority[s] = priority
      BY <1>3 DEF For, Verifiers, sr_shmsub_change_is_valid
    <2> QED
      BY <2>1, TopIs DEF IInv, TypeOK
  <1>5. f # None => /\ ev = "ERROR" /\ f.priority = priority /\ f.count = shm.subscriber_count
                    /\ f.count \in Nat /\ f.count <= Cardinality(For("CHANGE", priority))
                    /\ f \in [priority : Nat, count : Counts] /\ disturbed' = disturbed
    <2>1. shm.subscriber_count \in Nat
      BY <1>1 DEF Counts
    <2>2. ev = "ERROR" => shm.subscriber_count <= Cardinality(For("CHANGE", priority))
      BY <1>1, <1>3 DEF ErrorCount
    <2> QED
      BY <1>1, <1>3, <2>1, <2>2
  <1>6. f = None => f.priority = -1 /\ ev = "SUCCESS" /\ request \in disturbed'
    <2>1. f = None => ev = "SUCCESS" /\ request \in disturbed'
      <3>1. f = None => f.priority = -1
        BY DEF None
      <3>2. f # None \/ ev # "ERROR"
        BY <1>1, <3>1
      <3> QED
        BY <3>2
    <2> QED
      BY <2>1 DEF None
  <1>7. count' \in Counts /\ (count' = 0 => f # None /\ f.priority = Top)
    <2>1. Cardinality(For("CHANGE", Top)) \in Nat /\ Cardinality(For("CHANGE", Top)) # 0
      BY <1>4, CountIs, ForIs
    <2>2. CASE f = None
      <3>1. count' = Cardinality(For("CHANGE", Top)) - 0
        BY <1>2, <1>4, <1>6, <2>2
      <3> QED
        BY <2>1, <3>1, CountIs
    <2>3. CASE f # None /\ f.priority = Top
      <3>1. count' = Cardinality(For("CHANGE", Top)) - f.count
        BY <1>2, <2>3
      <3>2. f.count \in Nat /\ f.count <= Cardinality(For("CHANGE", Top))
        BY <1>5, <2>3
      <3>3. count' \in Nat /\ count' <= Cardinality(For("CHANGE", Top))
        BY <2>1, <3>1, <3>2
      <3> QED
        BY <2>3, <3>3, CountIs
    <2>4. CASE f # None /\ f.priority # Top
      <3>1. count' = Cardinality(For("CHANGE", Top)) - 0
        BY <1>2, <2>4
      <3> QED
        BY <2>1, <3>1, CountIs
    <2> QED
      BY <2>2, <2>3, <2>4
  <1>8. TypeOK'
    <2>1. failedAt' \in [priority : Nat, count : Counts] \cup {None}
      BY <1>2, <1>5
    <2>2. disturbed' \subseteq Requests
      BY <1>3 DEF IInv, TypeOK
    <2> QED
      BY <1>1, <1>2, <1>4, <1>7, <2>1, <2>2 DEF IInv, TypeOK, ListenEvents
  <1>9. Numbers'
    <2>1. shm.request_id \in Nat /\ request # 0
      BY <1>3 DEF IInv, TypeOK, Requests
    <2>2. \A r \in disturbed' : r \in disturbed \/ r = shm.request_id
      BY <1>3
    <2> QED
      BY <1>1, <1>3, <2>1, <2>2 DEF IInv, Numbers, Working
  <1>10. ev \in {"ERROR", "SUCCESS"} /\ ev \notin ListenEvents /\ disturbed \subseteq disturbed'
    BY DEF ListenEvents
  <1>11. Places' /\ Tally' /\ Woken'
    BY <1>1, <1>10 DEF IInv, Places, Working, Tally, Woken, ListenEvents
  <1>12. \A l \in Listeners : Working(l) => info[l] # Event'
    <2>1. Event'.event = ev
      BY <1>1 DEF Event
    <2> QED
      BY <1>10, <2>1 DEF IInv, Places
  <1>13. \A q : Spoiled(q) => Spoiled(q)'
    BY <1>10, <1>12 DEF Spoiled, Stray, Working
  <1>14. \A q : Doomed(q)' <=> q \notin agreed
    BY <1>2 DEF Doomed, Live
  <1>15. Overtaking'
    <2> SUFFICES ASSUME NEW l \in Listeners, Working(l)
                 PROVE  /\ info[l].event \in {"CHANGE", "ABORT"} /\ info[l].request_id \notin agreed
                        /\ info[l].event = "ABORT" => Spoiled(info[l].request_id)'
      BY <1>14 DEF Overtaking, Working
    <2>1. CASE info[l] # Event
      BY <1>13, <2>1 DEF IInv, Overtaking, Doomed
    <2>2. CASE info[l] = Event
      <3>1. info[l].event = shm.event /\ info[l].request_id = request
        BY <1>3, <2>2 DEF Event
      <3>2. shm.event = "CHANGE"
        BY <3>1 DEF IInv, Places, ListenEvents
      <3> QED
        BY <1>3, <3>1, <3>2
    <2> QED
      BY <2>1, <2>2
  <1>16. Stage'
    <2>1. phase' = "clear" => ev = "ERROR" /\ failedAt'.priority = priority'
      BY <1>2, <1>5, <1>7
    <2>2. phase' # "clear" => For(phase', priority') # {} /\ count' # 0
      BY <1>2, <1>4, ForAbort
    <2>3. ev = "ERROR" \/ (request \in disturbed' /\ shm'.request_id \in disturbed')
      BY <1>3, <1>10
    <2> QED
      BY <1>1, <1>2, <1>10, <2>1, <2>2, <2>3 DEF Stage, Waiting, Active
  <1>17. Outcome'
    <2>1. \A told \in aborted : told[2] \notin agreed
      BY DEF IInv, Outcome, Doomed
    <2>2. shm'.event # "DONE" /\ shm'.request_id \notin agreed /\ phase' # "DONE"
      BY <1>1, <1>2, <1>3, <1>10
    <2>3. \A told \in aborted' : Doomed(told[2])'
      BY <1>14, <2>1
    <2> QED
      BY <2>2, <2>3 DEF IInv, Outcome
  <1>18. Progress'
    BY <1>2 DEF Progress
  <1>19. Owed'
    <2>1. failedAt' # None =>
            /\ failedAt'.priority \in Nat /\ failedAt'.priority <= priority'
            /\ For("CHANGE", failedAt'.priority) # {}
            /\ failedAt'.count <= Cardinality(For("CHANGE", failedAt'.priority))
      BY <1>2, <1>3, <1>4, <1>5
    <2>2. ASSUME ~Spoiled(request)'
          PROVE  /\ failedAt' # None /\ failedAt'.priority = priority
                 /\ failedAt'.count = Cardinality(Lacking(request, priority))
      <3>1. f # None
        BY <1>6, <2>2 DEF Spoiled
      <3>2. shm.subscriber_count = Cardinality(Lacking(request, priority))
        BY <1>1, <1>3, <1>5, <2>2, <3>1 DEF ErrorCount, Lacking
      <3> QED
        BY <1>2, <1>5, <3>1, <3>2
    <2>3. \A s \in Verifiers : Priority[s] > priority => memory[s] = Change(request)
      BY <1>2, <1>3 DEF IInv, Progress, Requests
    <2> QED
      BY <1>2, <2>1, <2>2, <2>3 DEF Owed, Lacking
  <1>20. Settled'
    <2> SUFFICES ASSUME NEW s \in Subscriptions, memory[s].event = "CHANGE",
                        memory[s].request_id = shm.request_id
                 PROVE  Pending(s, shm.request_id)'
      BY <1>1, <1>13 DEF IInv, Settled
    <2>1. s \in Verifiers /\ memory[s] = Change(request) /\ Priority[s] \in Nat /\ Priority[s] <= Top
      BY <1>3, AcceptedIs, AboveIs, TopIs
    <2>2. NotYet(s)'
      BY <1>2, <1>4, <2>1 DEF NotYet
    <2>3. ~(Priority[s] < priority)
      BY <1>2, <1>3, <2>1 DEF IInv, Progress, NotYet, Requests
    <2>4. failedAt'.priority <= Priority[s]
      BY <1>2, <1>4, <1>5, <1>6, <2>1, <2>3
    <2> QED
      BY <1>2, <1>3, <2>2, <2>4 DEF Pending
  <1>21. Kept'
    BY <1>13 DEF IInv, Kept
  <1> QED
    BY <1>8, <1>9, <1>11, <1>15, <1>16, <1>17, <1>18, <1>19, <1>20, <1>21 DEF IInv

LEMMA RefusedKeeps ==
  ASSUME IInv, Refused
  PROVE  IInv'
  <1> USE DEF Refused
  <1>1. AbortBegins([priority |-> shm.priority, count |-> shm.subscriber_count])
    BY AbortIs
  <1>2. shm' = [shm EXCEPT !.event = "ERROR"]
    BY DEF IInv, TypeOK
  <1>3. ErrorCount'
    BY DEF IInv, ErrorCount, Spoiled, Stray, Working, Event, Lacking
  <1> QED
    BY <1>1, <1>2, <1>3, AbortKeeps DEF Waiting

\* The count of an event that becomes an error is of those who lack it.
LEMMA TimeoutCounts ==
  ASSUME IInv, shm.event = "CHANGE", shm' = [shm EXCEPT !.event = "ERROR"],
         UNCHANGED <<listener, disturbed>>
  PROVE  ErrorCount'
  <1>1. /\ shm'.event = "ERROR" /\ shm'.request_id = shm.request_id /\ shm'.priority = shm.priority
        /\ shm'.subscriber_count = shm.subscriber_count
    BY DEF IInv, TypeOK
  <1>2. PICK U \in SUBSET For("CHANGE", shm.priority) : Counted(U)
    BY DEF IInv, Tally, InOrder, ListenEvents
  <1>3. /\ shm.subscriber_count = Cardinality(U)
        /\ Cardinality(U) <= Cardinality(For("CHANGE", shm.priority))
    BY <1>2, ForIs, FS_Subset DEF Counted
  <1>4. Event = Change(shm.request_id)
    BY DEF Event, Change
  <1>5. ASSUME ~Spoiled(shm.request_id)'
        PROVE  U = Lacking(shm.request_id, shm.priority)
    <2>1. ASSUME NEW s \in Lacking(shm.request_id, shm.priority)
          PROVE  s \in U
      <3>1. s \in For("CHANGE", shm.priority) /\ s \in Subscriptions /\ memory[s] # Event
        BY <1>4, ForIs DEF Lacking
      <3>2. Fresh(s)
        BY <3>1 DEF Fresh, sr_shmsub_change_listen_is_new_event, Event, For, ListenEvents
      <3> QED
        BY <1>2, <3>1, <3>2 DEF Counted
    <2>2. ASSUME NEW s \in U, memory[s] = Event PROVE FALSE
      <3>1. PICK m \in Listeners : m = Handler(s)
        BY <1>2, ForIs, HandlerIs
      <3>2. Handles(m) /\ valid[m] = Cardinality(Answered(U, m))
        BY <1>2, <2>2, <3>1 DEF Counted
      <3>3. s \in Answered(U, m) /\ Answered(U, m) \in SUBSET For("CHANGE", shm.priority)
        BY <1>2, <2>2, <3>1 DEF Answered
      <3>4. Cardinality(Answered(U, m)) # 0 /\ Cardinality(Answered(U, m)) \in Nat
        BY <3>3, ForIs, FS_Subset, FS_EmptySet, FS_CardinalityType
      <3>5. Stray(m)' /\ info'[m] = Change(shm.request_id)
        BY <1>1, <1>4, <3>2, <3>4 DEF Stray, Handles, Working, Event
      <3> QED
        BY <1>1, <2>2, <3>5, <1>5 DEF Spoiled
    <2> QED
      BY <1>2, <1>4, <2>1, <2>2 DEF Lacking
  <1> QED
    BY <1>1, <1>3, <1>5 DEF ErrorCount, Lacking

LEMMA CallbackTimedOutKeeps ==
  ASSUME IInv, CallbackTimedOut
  PROVE  IInv'
  <1> USE DEF CallbackTimedOut
  <1>1. Waiting /\ Active
    BY DEF Waiting, Active
  <1>2. shm.event \in {"CHANGE", "SUCCESS", "ERROR"}
    BY <1>1 DEF IInv, Stage
  <1>3. /\ shm'.priority = shm.priority /\ shm'.subscriber_count = shm.subscriber_count
        /\ shm' = [shm EXCEPT !.event = shm'.event]
        /\ shm'.event = IF shm.event = "CHANGE" THEN "ERROR" ELSE shm.event
    BY DEF IInv, TypeOK
  <1>4. PICK f : /\ AbortBegins(f)
                 /\ f = IF shm'.event = "ERROR"
                        THEN [priority |-> shm'.priority, count |-> shm'.subscriber_count] ELSE None
    BY AbortIs
  <1>5. ErrorCount'
    <2>1. CASE shm.event = "CHANGE"
      BY <2>1, TimeoutCounts
    <2>2. CASE shm.event = "ERROR"
      BY <2>2 DEF IInv, ErrorCount, Spoiled, Stray, Working, Event, Lacking
    <2>3. CASE shm.event = "SUCCESS"
      BY <1>3, <2>3 DEF ErrorCount
    <2> QED
      BY <1>2, <2>1, <2>2, <2>3
  <1>6. PICK ev : ev = shm'.event
    OBVIOUS
  <1> QED
    BY <1>1, <1>2, <1>3, <1>4, <1>5, <1>6, AbortKeeps

(***************************************************************************)
(* Published is what holds once "done" or "abort" is in shared memory: the *)
(* notifier may wait, or go on at once.  Its variables are still those of  *)
(* the step's beginning, shared memory and request those of its end.       *)
(***************************************************************************)
Published ==
  /\ phase \in {"DONE", "ABORT"} /\ For(phase, priority) # {} /\ count # 0
  /\ shm'.event \in {phase, "NONE"} /\ shm'.priority = priority
  /\ request' = shm'.request_id /\ request' # 0
  /\ phase = "DONE" => /\ request' \in agreed /\ count = Cardinality(For(phase, priority))
                       /\ \A s \in Subscriptions : Priority[s] < priority =>
                            memory[s] # [event |-> "DONE", request_id |-> request']
  /\ phase = "ABORT" =>
       /\ request' \notin agreed
       /\ failedAt # None =>
            /\ failedAt.priority \in Nat /\ failedAt.priority <= priority
            /\ For("CHANGE", failedAt.priority) # {}
            /\ failedAt.count <= Cardinality(For("CHANGE", failedAt.priority))
       /\ count = Cardinality(For("CHANGE", priority))
                    - (IF failedAt.priority = priority THEN failedAt.count ELSE 0)
       /\ ~Spoiled(request)' =>
            /\ failedAt # None
            /\ \A s \in Verifiers : Priority[s] < priority /\ Priority[s] > failedAt.priority
                                    => memory[s] = Change(request')
            /\ failedAt.priority < priority =>
                 failedAt.count = Cardinality(Lacking(request', failedAt.priority))
  /\ \A s \in Subscriptions : memory[s].event = "CHANGE" =>
       \/ memory[s].request_id \in agreed
       \/ Spoiled(memory[s].request_id)'
       \/ /\ memory[s].request_id = shm'.request_id
          /\ \/ phase = "ABORT" /\ Priority[s] < priority /\ failedAt.priority <= Priority[s]
             \/ shm'.event = "ABORT" /\ Priority[s] = priority

\* What the notifier's variables must satisfy, whatever shared memory has.
Notified ==
  /\ pc \in {"idle", "lock", "wait", "expired"} /\ phase \in ListenEvents \cup {"clear"}
  /\ priority \in Nat /\ count \in Counts /\ waits \in BOOLEAN
  /\ failedAt \in [priority : Nat, count : Counts] \cup {None}
  /\ Active => phase # "CHANGE"
  /\ Active /\ phase = "DONE" => request \in agreed
  /\ Active /\ request \in agreed => phase = "DONE"
  /\ Stage /\ Progress /\ Owed /\ Settled

\* It waits for the answers.
LEMMA WaitIs ==
  ASSUME IInv, Published, pc' = "wait", UNCHANGED <<phase, priority, count, failedAt, waits>>,
         UNCHANGED <<listener, agreed, stored>>
  PROVE  Notified'
  <1> USE DEF Published
  <1>1. Active' /\ Waiting'
    BY DEF Active, Waiting
  <1>2. Stage'
    BY <1>1 DEF Stage
  <1>3. Progress'
    BY <1>1 DEF Progress, NotYet
  <1>4. Owed'
    BY <1>1 DEF Owed, NotYet, Lacking
  <1>5. Settled'
    BY <1>1 DEF Settled, Pending, NotYet
  <1> QED
    BY <1>1, <1>2, <1>3, <1>4, <1>5 DEF Notified, IInv, TypeOK

\* It goes on with the next priority.
LEMMA ContinueIs ==
  ASSUME IInv, Published, Continues, UNCHANGED <<listener, agreed, stored>>
  PROVE  Notified'
  <1> USE DEF Published, Continues
  <1>1. Active' /\ ~Waiting' /\ priority \in Nat /\ failedAt \in [priority : Nat, count : Counts] \cup {None}
    BY DEF Active, Waiting, IInv, TypeOK
  <1>2. \A s \in Subscriptions : Priority[s] \in Nat
    BY AboveIs
  <1>3. \A s \in Subscriptions : NotYet(s)' <=> Priority[s] <= priority'
    BY <1>2 DEF NotYet
  <1>4. phase = "ABORT" /\ failedAt # None => failedAt.priority <= priority' /\ failedAt.priority < priority
    <2> SUFFICES ASSUME phase = "ABORT", failedAt # None
                 PROVE  failedAt.priority <= priority' /\ failedAt.priority < priority
      OBVIOUS
    <2>1. failedAt.priority \in Nat /\ failedAt.priority < priority
      BY <1>1
    <2>2. PICK s \in Subscriptions : /\ sr_shmsub_change_is_valid("CHANGE", s)
                                     /\ Priority[s] = failedAt.priority
      BY DEF For
    <2> QED
      BY <2>1, <2>2 DEF sr_shmsub_change_is_valid
  <1>5. count' \in Counts
    <2>1. Cardinality(For(phase, priority')) \in Nat /\ Cardinality(For(phase, priority')) \in Counts
      BY ForIs, CountIs
    <2>2. CASE phase = "ABORT" /\ failedAt.priority = priority'
      <3>1. failedAt # None
        BY <2>2 DEF None
      <3>2. failedAt.count \in Nat /\ failedAt.count <= Cardinality(For(phase, priority'))
        BY <1>1, <2>2, <3>1, ForAbort DEF Counts
      <3>3. count' \in Nat /\ count' <= Cardinality(For(phase, priority'))
        BY <2>1, <2>2, <3>2
      <3> QED
        BY <3>3, CountIs
    <2>3. CASE ~(phase = "ABORT" /\ failedAt.priority = priority')
      BY <2>1, <2>3
    <2> QED
      BY <2>2, <2>3
  <1>6. phase = "DONE" => count' = Cardinality(For("DONE", priority'))
    <2>1. Cardinality(For("DONE", priority')) \in Nat
      BY ForIs
    <2> QED
      BY <2>1
  <1>7. Stage'
    BY <1>1, <1>6 DEF Stage
  <1>8. Progress'
    BY <1>1, <1>2, <1>3 DEF Progress
  <1>9. phase = "ABORT" => For(phase, priority') = For("CHANGE", priority')
    BY ForAbort
  <1>10. Owed'
    <2> SUFFICES ASSUME phase = "ABORT"
                 PROVE  /\ failedAt # None =>
                             /\ failedAt.priority \in Nat /\ failedAt.priority <= priority'
                             /\ For("CHANGE", failedAt.priority) # {}
                             /\ failedAt.count <= Cardinality(For("CHANGE", failedAt.priority))
                        /\ count' = Cardinality(For("CHANGE", priority'))
                               - (IF failedAt.priority = priority' THEN failedAt.count ELSE 0)
                        /\ ~Spoiled(request)' =>
                             /\ failedAt # None
                             /\ \A s \in Verifiers :
                                  NotYet(s)' /\ Priority[s] > failedAt.priority => memory[s] = Change(request')
                             /\ failedAt.count = Cardinality(Lacking(request', failedAt.priority))
      BY <1>1 DEF Owed, Lacking
    <2>1. ASSUME ~Spoiled(request)'
          PROVE  /\ failedAt # None
                 /\ \A s \in Verifiers : NotYet(s)' /\ Priority[s] > failedAt.priority
                                         => memory[s] = Change(request')
                 /\ failedAt.count = Cardinality(Lacking(request', failedAt.priority))
      <3>1. failedAt # None /\ failedAt.priority < priority
        BY <1>4, <2>1
      <3>2. \A s \in Verifiers : NotYet(s)' => Priority[s] < priority
        BY <1>1, <1>2, <1>3 DEF Verifiers
      <3> QED
        BY <2>1, <3>1, <3>2
    <2> QED
      BY <1>4, <1>9, <2>1
  <1>11. Settled'
    <2> SUFFICES ASSUME NEW s \in Subscriptions, memory[s].event = "CHANGE",
                        memory[s].request_id \notin agreed, ~Spoiled(memory[s].request_id)'
                 PROVE  memory[s].request_id = shm'.request_id /\ Pending(s, shm.request_id)'
      BY DEF Settled
    <2>1. memory[s].request_id = shm'.request_id
      OBVIOUS
    <2>2. CASE phase = "ABORT" /\ Priority[s] < priority /\ failedAt.priority <= Priority[s]
      <3>1. Priority[s] <= priority'
        BY <2>2, AcceptedIs
      <3> QED
        BY <1>1, <1>3, <2>1, <2>2, <3>1 DEF Pending
    <2>3. CASE shm'.event = "ABORT" /\ Priority[s] = priority
      BY <2>1, <2>3 DEF Pending
    <2> QED
      BY <2>1, <2>2, <2>3
  <1> QED
    BY <1>1, <1>5, <1>7, <1>8, <1>10, <1>11 DEF Notified, IInv, TypeOK

\* It ends; whoever it did not tell has nothing to be told.
LEMMA EndIs ==
  ASSUME IInv, Published, Ends, UNCHANGED <<listener, agreed, stored>>
  PROVE  Notified'
  <1> USE DEF Published, Ends
  <1>1. /\ pc' = "idle" /\ phase' = "CHANGE" /\ priority' = 0 /\ count' = 0
        /\ failedAt' = None /\ waits' = FALSE /\ ~Active' /\ ~Waiting'
    BY DEF Finished, Active, Waiting
  <1>2. Stage' /\ Progress' /\ Owed'
    BY <1>1 DEF Stage, Progress, Owed
  <1>3. Settled'
    <2> SUFFICES ASSUME NEW s \in Subscriptions, memory[s].event = "CHANGE",
                        memory[s].request_id \notin agreed, ~Spoiled(memory[s].request_id)'
                 PROVE  memory[s].request_id = shm'.request_id /\ Pending(s, shm.request_id)'
      BY DEF Settled
    <2>1. memory[s].request_id = shm'.request_id
      OBVIOUS
    <2>2. ASSUME phase = "ABORT", Priority[s] < priority, failedAt.priority <= Priority[s] PROVE FALSE
      <3>1. /\ memory[s] = Change(request') /\ s \in For("CHANGE", Priority[s])
            /\ Priority[s] \in Nat /\ priority \in Nat
        BY <2>1, AcceptedIs, AboveIs DEF For, IInv, TypeOK
      <3>2. failedAt # None /\ failedAt.priority \in Nat
        BY <2>1, <2>2
      <3>3. /\ Priority[s] = failedAt.priority
            /\ failedAt.count = Cardinality(For("CHANGE", failedAt.priority))
        BY <2>2, <3>1, <3>2, AcceptedIs
      <3>4. failedAt.count = Cardinality(Lacking(request', failedAt.priority))
        BY <2>1, <2>2, <3>3
      <3>5. PICK L \in SUBSET For("CHANGE", failedAt.priority) :
              L = Lacking(request', failedAt.priority) /\ s \notin L
        BY <3>1 DEF Lacking
      <3>6. L = For("CHANGE", failedAt.priority)
        BY <3>3, <3>4, <3>5, ForIs, FS_Subset
      <3> QED
        BY <3>1, <3>3, <3>5, <3>6
    <2> QED
      BY <2>1, <2>2 DEF Pending
  <1> QED
    BY <1>1, <1>2, <1>3, CountIs DEF Notified, ListenEvents

\* "done" or "abort" was processed, or its timeout is ignored.
LEMMA AdvanceKeeps ==
  ASSUME IInv, Waiting, phase # "CHANGE", Advance,
         UNCHANGED <<shm, pipe, request, changes, listener, history>>
  PROVE  IInv'
  <1>1. \A q : Spoiled(q)' <=> Spoiled(q)
    BY DEF Spoiled, Stray, Working, Event
  <1>2. Active /\ phase \in {"DONE", "ABORT"} /\ pc # "lock" /\ shm.event \in {phase, "NONE"}
    BY DEF Active, Waiting, IInv, Stage, TypeOK, ListenEvents
  <1>3. request = shm.request_id /\ request # 0 /\ shm.priority = priority
    BY <1>2 DEF IInv, Numbers, Stage
  <1>4. \A s \in Subscriptions : NotYet(s) <=> Priority[s] < priority
    BY <1>2 DEF NotYet
  <1>5. For(phase, priority) # {} /\ count # 0
    BY <1>2 DEF IInv, Stage
  <1>6. phase = "DONE" => /\ request \in agreed /\ count = Cardinality(For(phase, priority))
                          /\ \A s \in Subscriptions : Priority[s] < priority =>
                               memory[s] # [event |-> "DONE", request_id |-> request]
    BY <1>2, <1>4 DEF IInv, Stage, Outcome, Progress
  <1>7. phase = "ABORT" => request \notin agreed
    BY <1>2, <1>3 DEF IInv, Outcome
  <1>8. Published
    <2>1. \A s \in Subscriptions : memory[s].event = "CHANGE" =>
            \/ memory[s].request_id \in agreed
            \/ Spoiled(memory[s].request_id)'
            \/ /\ memory[s].request_id = shm'.request_id
               /\ \/ phase = "ABORT" /\ Priority[s] < priority /\ failedAt.priority <= Priority[s]
                  \/ shm'.event = "ABORT" /\ Priority[s] = priority
      BY <1>1, <1>2, <1>3, <1>4 DEF IInv, Settled, Pending
    <2>2. phase = "ABORT" =>
           /\ failedAt # None =>
                /\ failedAt.priority \in Nat /\ failedAt.priority <= priority
                /\ For("CHANGE", failedAt.priority) # {}
                /\ failedAt.count <= Cardinality(For("CHANGE", failedAt.priority))
           /\ count = Cardinality(For("CHANGE", priority))
                        - (IF failedAt.priority = priority THEN failedAt.count ELSE 0)
           /\ ~Spoiled(request)' =>
                /\ failedAt # None
                /\ \A s \in Verifiers : Priority[s] < priority /\ Priority[s] > failedAt.priority
                                        => memory[s] = Change(request)
                /\ failedAt.priority < priority =>
                     failedAt.count = Cardinality(Lacking(request', failedAt.priority))
      <3>1. Spoiled(request)' <=> Spoiled(request)
        BY <1>1 DEF Spoiled, Stray, Working, Event
      <3> QED
        BY <1>1, <1>2, <1>4, <3>1 DEF IInv, Owed, Verifiers
    <2> QED
      BY <1>2, <1>3, <1>5, <1>6, <1>7, <2>1, <2>2 DEF Published
  <1>9. Notified'
    BY <1>8, AdvanceIs, ContinueIs, EndIs DEF IInv
  <1>10. \A q \in Requests : Doomed(q) => Doomed(q)'
    BY <1>2, <1>9 DEF Doomed, Live, Notified
  <1>11. /\ Places' /\ Overtaking' /\ Tally' /\ Woken' /\ ErrorCount' /\ Kept'
         /\ \A told \in aborted' : Doomed(told[2])'
    BY <1>10, SteadyKeeps
  <1>12. TypeOK'
    BY <1>9 DEF Notified, IInv, TypeOK
  <1>13. Numbers'
    BY <1>3 DEF IInv, Numbers, Working
  <1>14. Outcome'
    BY <1>3, <1>9, <1>11 DEF IInv, Outcome, Notified
  <1> QED
    BY <1>9, <1>11, <1>12, <1>13, <1>14 DEF IInv, Notified

LEMMA ProcessedKeeps ==
  ASSUME IInv, Processed
  PROVE  IInv'
  BY AdvanceKeeps DEF Processed, Waiting

LEMMA SecondTimedOutKeeps ==
  ASSUME IInv, SecondTimedOut
  PROVE  IInv'
  BY AdvanceKeeps DEF SecondTimedOut, Waiting

LEMMA FailedCount ==
  ASSUME TypeOK
  PROVE  failedAt.count \in Int
  BY ChangeEventsAssumption DEF TypeOK, Counts, None

\* Nobody is left to be told, and the failed event is cleared.
LEMMA ClearKeeps ==
  ASSUME IInv, Clear
  PROVE  IInv'
  <1> USE DEF Clear
  <1>1. /\ shm'.event = "NONE" /\ shm'.request_id = shm.request_id
        /\ shm' \in [event : Events, request_id : 0 .. MaxChanges, priority : Nat, subscriber_count : Counts]
    BY CountIs DEF IInv, TypeOK, Events
  <1>2. /\ pc' = "idle" /\ phase' = "CHANGE" /\ priority' = 0 /\ count' = 0
        /\ failedAt' = None /\ waits' = FALSE /\ ~Active' /\ ~Waiting' /\ Active
    BY DEF Finished, Active, Waiting
  <1>3. shm.event = "ERROR" /\ count = 0 /\ failedAt.priority = priority /\ request # 0 /\ request = shm.request_id
    BY <1>2 DEF IInv, Stage, Numbers
  <1>4. TypeOK'
    BY <1>1, <1>2, CountIs DEF IInv, TypeOK, ListenEvents
  <1>5. Numbers'
    BY <1>1, <1>2 DEF IInv, Numbers, Working
  <1>6. Places' /\ Tally' /\ Woken' /\ ErrorCount'
    BY <1>1 DEF IInv, Places, Working, Tally, Woken, ErrorCount, ListenEvents
  <1>7. \A l \in Listeners : Working(l) => info[l] # Event' /\ info[l] # Event
    <2>1. Event'.event = "NONE" /\ Event.event = "ERROR"
      BY <1>1, <1>3 DEF Event
    <2> QED
      BY <2>1 DEF IInv, Places, ListenEvents
  <1>8. \A q : Spoiled(q) => Spoiled(q)'
    BY <1>7 DEF Spoiled, Stray, Working
  <1>9. \A q : Doomed(q) => Doomed(q)'
    BY <1>2 DEF Doomed, Live
  <1>10. Overtaking'
    BY <1>7, <1>8, <1>9 DEF IInv, Overtaking, Working
  <1>11. Stage' /\ Progress' /\ Owed'
    BY <1>1, <1>2 DEF Stage, Progress, Owed
  <1>12. Outcome'
    BY <1>1, <1>2, <1>9 DEF IInv, Outcome
  <1>13. Settled'
    <2> SUFFICES ASSUME NEW s \in Subscriptions, memory[s].event = "CHANGE",
                        memory[s].request_id = shm.request_id,
                        Pending(s, shm.request_id), ~Spoiled(shm.request_id)
                 PROVE  FALSE
      BY <1>1, <1>8 DEF IInv, Settled
    <2>1. Priority[s] \in Nat /\ priority \in Nat /\ failedAt.count \in Int
      <3>1. failedAt.count \in Int
        BY FailedCount DEF IInv
      <3> QED
        BY <3>1, AboveIs DEF IInv, TypeOK
    <2>2. Priority[s] = priority
      BY <1>3, <2>1 DEF Pending, NotYet
    <2>3. memory[s] = Change(request) /\ s \in For("CHANGE", priority)
      BY <1>3, <2>2, AcceptedIs DEF For
    <2>4. failedAt.count = Cardinality(For("CHANGE", priority))
      <3>1. Cardinality(For("CHANGE", priority)) \in Nat
        BY ForIs
      <3> QED
        BY <1>2, <1>3, <2>1, <3>1 DEF IInv, Owed
    <2>5. failedAt.count = Cardinality(Lacking(request, priority))
      BY <1>2, <1>3 DEF IInv, Owed
    <2>6. PICK L \in SUBSET For("CHANGE", priority) : L = Lacking(request, priority) /\ s \notin L
      <3>1. s \notin Lacking(request, priority)
        BY <2>3 DEF Lacking
      <3>2. Lacking(request, priority) \subseteq For("CHANGE", priority)
        BY DEF Lacking
      <3> QED
        BY <3>1, <3>2
    <2>7. L = For("CHANGE", priority)
      BY <2>4, <2>5, <2>6, ForIs, FS_Subset
    <2> QED
      BY <2>3, <2>6, <2>7
  <1>14. Kept'
    BY <1>8 DEF IInv, Kept
  <1> QED
    BY <1>4, <1>5, <1>6, <1>10, <1>11, <1>12, <1>13, <1>14 DEF IInv

\* Every subscriber of this priority has accepted.
LEMMA AcceptedKeeps ==
  ASSUME IInv, Accepted
  PROVE  IInv'
  <1> USE DEF Accepted
  <1>1. /\ shm'.event = "NONE" /\ shm'.request_id = shm.request_id
        /\ shm' \in [event : Events, request_id : 0 .. MaxChanges, priority : Nat, subscriber_count : Counts]
    BY DEF IInv, TypeOK, Events
  <1>2. Active /\ Waiting /\ pc = "wait" /\ request # 0 /\ request = shm.request_id
    BY DEF Active, Waiting, IInv, Numbers
  <1>3. request \in Requests /\ request \notin agreed /\ priority \in Nat
    <2>1. request \in 0 .. MaxChanges /\ MaxChanges \in Nat /\ priority \in Nat
      BY ChangeEventsAssumption DEF IInv, TypeOK
    <2> QED
      BY <1>2, <2>1 DEF IInv, Outcome, Requests
  <1>4. Places' /\ Tally' /\ Woken' /\ ErrorCount'
    BY <1>1 DEF IInv, Places, Working, Tally, Woken, ErrorCount, ListenEvents
  <1>5. \A l \in Listeners : Working(l) => info[l] # Event' /\ info[l] # Event
    <2>1. Event'.event = "NONE" /\ Event.event = "SUCCESS"
      BY <1>1 DEF Event
    <2> QED
      BY <2>1 DEF IInv, Places, ListenEvents
  <1>6. \A q : Spoiled(q) => Spoiled(q)'
    BY <1>5 DEF Spoiled, Stray, Working
  <1>8. \A s \in Verifiers : Priority[s] \in Nat /\ (Priority[s] >= priority => memory[s] = Change(request))
    <2> SUFFICES ASSUME NEW s \in Verifiers, Priority[s] >= priority
                 PROVE  memory[s] = Change(request)
      BY AboveIs DEF Verifiers
    <2>1. Priority[s] \in Nat /\ s \in Subscriptions /\ sr_shmsub_change_is_valid("CHANGE", s)
      BY AboveIs DEF Verifiers, sr_shmsub_change_is_valid
    <2>2. CASE Priority[s] > priority
      BY <1>2, <2>2 DEF IInv, Progress
    <2>3. CASE Priority[s] = priority
      BY <1>2, <2>1, <2>3 DEF IInv, Progress, For
    <2> QED
      BY <1>3, <2>1, <2>2, <2>3
  <1>9. CASE Below("CHANGE", priority) # {}
    <2>1. Continues /\ agreed' = agreed /\ stored' = stored
      <3>1. PICK s \in Subscriptions : sr_shmsub_change_is_valid("CHANGE", s) /\ Priority[s] < priority
        <4>1. PICK q \in 0 .. priority - 1 : For("CHANGE", q) # {}
          BY <1>9 DEF Below
        <4>2. q < priority
          BY <1>3, <4>1
        <4> QED
          BY <4>1, <4>2 DEF For
      <3>2. ~Ends
        BY <3>1 DEF Ends
      <3> QED
        BY <1>9, <3>2, AdvanceIs DEF IInv
    <2>2. /\ pc' = "lock" /\ phase' = "CHANGE" /\ failedAt' = failedAt /\ waits' = waits
          /\ priority' \in Nat /\ priority' < priority /\ For("CHANGE", priority') # {}
          /\ \A s \in Verifiers : Priority[s] < priority => Priority[s] <= priority'
          /\ count' = Cardinality(For("CHANGE", priority')) /\ count' # 0
          /\ Active' /\ ~Waiting'
      <3>1. Cardinality(For("CHANGE", priority')) \in Nat
        BY ForIs
      <3> QED
        BY <2>1, <3>1 DEF Continues, Active, Waiting, Verifiers, sr_shmsub_change_is_valid
    <2>3. count' \in Counts
      <3>1. Cardinality(For("CHANGE", priority')) \in Nat
        BY ForIs
      <3>2. count' \in Nat /\ count' <= Cardinality(For("CHANGE", priority'))
        BY <2>2, <3>1
      <3> QED
        BY <3>2, CountIs
    <2>4. TypeOK'
      BY <1>1, <2>1, <2>2, <2>3 DEF IInv, TypeOK
    <2>5. Numbers'
      BY <1>1, <1>2, <2>1 DEF IInv, Numbers, Working
    <2>6. \A q : Doomed(q)' <=> Doomed(q)
      BY <1>1, <1>2, <2>1, <2>2 DEF Doomed, Live
    <2>7. Overtaking'
      BY <1>5, <1>6, <2>6 DEF IInv, Overtaking, Working
    <2>8. Stage'
      BY <1>1, <2>2 DEF Stage
    <2>9. Outcome'
      BY <1>1, <1>2, <1>3, <2>1, <2>2, <2>6 DEF IInv, Outcome
    <2>10. Progress'
      <3>1. \A s \in Verifiers : Priority[s] > priority' => memory[s] = Change(request)
        BY <1>3, <1>8, <2>2
      <3>2. \A s \in Subscriptions : NotYet(s)' => NotYet(s)
        BY <1>3, <2>2, AboveIs DEF NotYet
      <3> QED
        BY <1>1, <1>2, <2>2, <3>1, <3>2 DEF IInv, Progress
    <2>11. Owed'
      BY <2>2 DEF Owed
    <2>12. Settled'
      BY <1>1, <1>2, <1>6, <2>1, <2>2 DEF IInv, Settled, Pending
    <2> QED
      BY <1>4, <1>6, <2>1, <2>4, <2>5, <2>7, <2>8, <2>9, <2>10, <2>11, <2>12 DEF IInv, Kept
  <1>10. \A s \in Verifiers : Below("CHANGE", priority) = {} => <<s, request>> \in accepted
    <2> SUFFICES ASSUME NEW s \in Verifiers, Below("CHANGE", priority) = {}
                 PROVE  <<s, request>> \in accepted
      OBVIOUS
    <2>1. s \in Subscriptions /\ sr_shmsub_change_is_valid("CHANGE", s)
      BY DEF Verifiers, sr_shmsub_change_is_valid
    <2>2. ~(Priority[s] < priority)
      BY <1>3, <2>1, BelowIs
    <2>3. memory[s] = Change(request)
      BY <1>3, <1>8, <2>2
    <2>4. memory[s].event = "CHANGE" /\ memory[s].request_id = request
      BY <2>3 DEF Change
    <2> QED
      BY <2>1, <2>4 DEF IInv, Outcome
  <1>11. Below("CHANGE", priority) = {} =>
           /\ agreed' = agreed \cup {request} /\ stored' \subseteq agreed'
           /\ stored' \subseteq Requests /\ agreed' \subseteq Requests
    BY <1>3 DEF IInv, TypeOK, Outcome, Store, StoreFails
  <1>12. CASE Below("CHANGE", priority) = {} /\ StoreFails
    <2>1. agreed' = agreed \cup {request} /\ Finished /\ ~Active' /\ ~Waiting' /\ phase' = "CHANGE"
      BY <1>12 DEF StoreFails, Finished, Active, Waiting
    <2>2. TypeOK'
      <3>1. 0 \in Counts /\ 0 \in Nat
        BY ChangeEventsAssumption, FewSubscriptions DEF Counts
      <3> QED
        BY <1>1, <1>11, <1>12, <2>1, <3>1 DEF IInv, TypeOK, Finished, ListenEvents
    <2>3. Numbers'
      <3>1. shm.request_id \in Nat
        BY DEF IInv, TypeOK
      <3> QED
        BY <1>1, <1>2, <2>1, <3>1 DEF IInv, Numbers, Working
    <2>4. \A q : Doomed(q) => Doomed(q)'
      BY <1>2, <2>1 DEF Doomed, Live
    <2>5. Overtaking'
      BY <1>5, <1>6, <2>4 DEF IInv, Overtaking, Working
    <2>6. Stage'
      BY <1>1, <2>1 DEF Stage, Finished
    <2>7. Outcome'
      BY <1>1, <1>2, <1>10, <1>11, <1>12, <2>1, <2>4 DEF IInv, Outcome
    <2>8. Progress' /\ Owed'
      BY <2>1 DEF Progress, Owed
    <2>9. Settled'
      BY <1>1, <1>2, <1>6, <2>1 DEF IInv, Settled
    <2> QED
      BY <1>4, <1>6, <2>1, <2>2, <2>3, <2>5, <2>6, <2>7, <2>8, <2>9 DEF IInv, Kept
  <1>13. CASE Below("CHANGE", priority) = {} /\ Store
    <2>1. agreed' = agreed \cup {request} /\ NextPriority("DONE", Above)
      BY <1>13 DEF Store
    <2>2. /\ pc' = "lock" /\ phase' = "DONE" /\ failedAt' = failedAt /\ waits' = waits
          /\ priority' \in Nat /\ For("DONE", priority') # {}
          /\ count' = Cardinality(For("DONE", priority')) /\ count' # 0
          /\ Active' /\ ~Waiting'
      BY <2>1, DoneIs DEF Active, Waiting
    <2>3. count' \in Counts
      <3>1. Cardinality(For("DONE", priority')) \in Nat
        BY ForIs
      <3>2. count' \in Nat /\ count' <= Cardinality(For("DONE", priority'))
        BY <2>2, <3>1
      <3> QED
        BY <3>2, CountIs
    <2>4. TypeOK'
      BY <1>1, <1>11, <1>13, <2>1, <2>2, <2>3 DEF IInv, TypeOK, ListenEvents
    <2>5. Numbers'
      <3>1. shm.request_id \in Nat
        BY DEF IInv, TypeOK
      <3> QED
        BY <1>1, <1>2, <2>1, <3>1 DEF IInv, Numbers, Working
    <2>6. \A q : Doomed(q) => Doomed(q)'
      BY <1>2, <2>1, <2>2 DEF Doomed, Live
    <2>7. Overtaking'
      BY <1>5, <1>6, <2>6 DEF IInv, Overtaking, Working
    <2>8. Stage'
      BY <1>1, <2>2 DEF Stage
    <2>10. Outcome'
      BY <1>1, <1>2, <1>10, <1>11, <1>13, <2>1, <2>2, <2>6 DEF IInv, Outcome
    <2>11. Progress'
      <3>1. \A s \in Subscriptions : memory[s] # [event |-> "DONE", request_id |-> request]
        BY <1>3 DEF IInv, Outcome
      <3> QED
        BY <2>2, <3>1 DEF Progress
    <2>12. Owed'
      BY <2>2 DEF Owed
    <2>13. Settled'
      BY <1>1, <1>2, <1>6, <2>1 DEF IInv, Settled
    <2> QED
      BY <1>4, <1>6, <2>1, <2>4, <2>5, <2>7, <2>8, <2>10, <2>11, <2>12, <2>13 DEF IInv, Kept
  <1> QED
    BY <1>9, <1>12, <1>13

\* An event is published.
LEMMA PublishKeeps ==
  ASSUME IInv, Publish
  PROVE  IInv'
  <1> USE DEF Publish
  <1>1. /\ pc = "lock" /\ Active /\ ~Waiting /\ shm.event \in {"NONE", "ERROR"}
        /\ phase \in {"CHANGE", "DONE", "ABORT"} /\ (phase = "CHANGE" => shm.event = "NONE")
    BY DEF CanLock, Active, Waiting, IInv, TypeOK, ListenEvents, Stage
  <1>2. PICK id : id = RequestId
    OBVIOUS
  <1>3. /\ id \in Requests /\ id \in Nat /\ id # 0 /\ id <= changes /\ shm.request_id <= id
        /\ request = 0 => id = shm.request_id + 1 /\ phase = "CHANGE" /\ priority = Top
        /\ request # 0 => id = request /\ id = shm.request_id
    <2>1. /\ shm.request_id \in 0 .. MaxChanges /\ changes \in 0 .. MaxChanges /\ MaxChanges \in Nat
          /\ shm.request_id <= changes /\ request \in {0, shm.request_id}
          /\ request = 0 => shm.request_id < changes /\ phase = "CHANGE" /\ priority = Top
      BY <1>1, ChangeEventsAssumption DEF IInv, TypeOK, Numbers
    <2> QED
      BY <1>2, <2>1 DEF RequestId, Requests
  <1>4. /\ shm'.event = phase /\ shm'.request_id = id /\ shm'.priority = priority
        /\ shm'.subscriber_count = count /\ request' = id
        /\ Event' = [event |-> phase, request_id |-> id]
    BY <1>2 DEF Event
  <1>5. shm' \in [event : Events, request_id : 0 .. MaxChanges, priority : Nat, subscriber_count : Counts]
    BY <1>1, <1>2, <1>3 DEF IInv, TypeOK, Events, ListenEvents, Requests
  <1>6. For(phase, priority) # {} /\ count # 0 /\ priority \in Nat
    BY <1>1 DEF IInv, Stage, TypeOK
  <1>7. phase # "DONE" => id \notin agreed
    <2>1. CASE request = 0
      <3>1. shm.request_id \in Nat /\ \A r \in agreed : r <= shm.request_id
        BY DEF IInv, TypeOK, Numbers
      <3> QED
        BY <1>3, <2>1, <3>1
    <2>2. CASE request # 0
      BY <1>1, <1>3, <2>2 DEF IInv, Outcome
    <2> QED
      BY <2>1, <2>2
  <1>8. phase = "DONE" => id \in agreed
    BY <1>1, <1>3 DEF IInv, Outcome
  \* Whoever is at work was overtaken before.
  <1>9. ASSUME NEW l \in Listeners, Working(l)
        PROVE  /\ info[l] # Event /\ info[l].event \in {"CHANGE", "ABORT"}
               /\ Doomed(info[l].request_id) /\ info[l].request_id <= shm.request_id
               /\ info[l].event = "ABORT" => Spoiled(info[l].request_id)
    <2>1. Event.event = shm.event /\ info[l].event \in ListenEvents
      BY <1>9 DEF Event, IInv, Places
    <2>2. info[l] # Event
      BY <1>1, <2>1 DEF ListenEvents
    <2> QED
      BY <1>9, <2>2 DEF IInv, Overtaking, Numbers
  <1>10. ASSUME NEW l \in Listeners, Working(l), info[l] = Event'
         PROVE  phase = "ABORT" /\ Spoiled(id)
    <2>1. info[l].event = phase /\ info[l].request_id = id
      BY <1>4, <1>10
    <2>2. Doomed(id) /\ id <= shm.request_id
      BY <1>9, <1>10, <2>1
    <2>3. shm.request_id \in Nat
      BY DEF IInv, TypeOK
    <2>4. request # 0
      BY <1>3, <2>2, <2>3
    <2>5. phase # "CHANGE"
      BY <1>1, <1>3, <2>2, <2>4 DEF Doomed, Live
    <2> QED
      BY <1>1, <1>9, <1>10, <2>1, <2>5
  <1>11. \A q : Spoiled(q) => Spoiled(q)'
    <2> SUFFICES ASSUME NEW q, NEW l \in Listeners, Stray(l), info[l] = Change(q)
                 PROVE  Stray(l)'
      BY DEF Spoiled
    <2>1. Working(l) /\ valid[l] > 0 /\ info[l].event = "CHANGE"
      BY DEF Stray, Change
    <2>2. info[l] # Event'
      BY <1>4, <1>10, <2>1
    <2> QED
      BY <2>1, <2>2 DEF Stray, Working
  <1>12. ASSUME InOrder', NEW l \in Listeners PROVE ~Handles(l)'
    BY <1>4, <1>10, <1>11, <1>12 DEF InOrder, Handles, Working
  <1>13. ASSUME NEW q, q <= shm.request_id, Doomed(q)
         PROVE  phase' \in {"CHANGE", "DONE", "ABORT"} /\ (Active' => phase' = phase) => Doomed(q)'
    <2>1. request = 0 => id # q
      <3>1. shm.request_id \in Nat
        BY DEF IInv, TypeOK
      <3> QED
        BY <1>3, <1>13, <3>1
    <2> QED
      BY <1>1, <1>3, <1>4, <1>13, <2>1 DEF Doomed, Live
  \* Whom the count is of.
  <1>14. ASSUME NEW s \in Subscriptions
         PROVE  Fresh(s)' <=> /\ s \in For(phase, priority) /\ memory[s] # Event'
                              /\ phase = "ABORT" => memory[s] = Change(id)
    BY <1>1, <1>4 DEF Fresh, sr_shmsub_change_listen_is_new_event, For, ListenEvents, Change
  <1>15. \A s \in For(phase, priority) : NotYet(s) /\ s \in Subscriptions
    BY <1>1 DEF For, NotYet
  <1>16. phase # "ABORT" => \A s \in For(phase, priority) : memory[s] # Event'
    <2> SUFFICES ASSUME phase # "ABORT", NEW s \in For(phase, priority) PROVE memory[s] # Event'
      OBVIOUS
    <2>1. CASE request = 0
      <3>1. memory[s].request_id <= shm.request_id /\ memory[s] \in Seen /\ shm.request_id \in Nat
        BY <1>15 DEF IInv, Numbers, TypeOK
      <3>2. memory[s].request_id # id
        BY <1>3, <2>1, <3>1 DEF Seen
      <3> QED
        BY <1>4, <3>2
    <2>2. CASE request # 0
      BY <1>1, <1>3, <1>4, <1>15, <2>2 DEF IInv, Progress, Change
    <2> QED
      BY <2>1, <2>2
  <1>17. ASSUME InOrder'
         PROVE  \E U \in SUBSET For(phase, priority) :
                  Cardinality(U) = count /\ \A s \in Subscriptions : Fresh(s)' <=> s \in U
    <2>1. CASE phase # "ABORT"
      <3>1. count = Cardinality(For(phase, priority))
        BY <1>1, <2>1 DEF IInv, Stage
      <3>2. \A s \in Subscriptions : Fresh(s)' <=> s \in For(phase, priority)
        BY <1>14, <1>16, <2>1
      <3> QED
        BY <3>1, <3>2
    <2>2. CASE phase = "ABORT"
      <3>1. ~Spoiled(id) /\ request = id /\ For(phase, priority) = For("CHANGE", priority)
        BY <1>3, <1>4, <1>11, <1>17, <2>2, ForAbort DEF InOrder
      <3>2. PICK L : L = Lacking(request, priority) /\ L \in SUBSET For("CHANGE", priority)
        BY DEF Lacking
      <3>3. \A s \in Subscriptions : Fresh(s)' <=> s \in For("CHANGE", priority) \ L
        <4> SUFFICES ASSUME NEW s \in Subscriptions
                     PROVE  Fresh(s)' <=> s \in For("CHANGE", priority) \ L
          OBVIOUS
        <4>1. s \in For("CHANGE", priority) \ L <=> s \in For("CHANGE", priority) /\ memory[s] = Change(id)
          BY <3>1, <3>2 DEF Lacking
        <4>2. memory[s] = Change(id) => memory[s] # Event'
          BY <1>4, <2>2 DEF Change
        <4> QED
          BY <1>14, <2>2, <3>1, <4>1, <4>2
      <3>4. /\ count = Cardinality(For("CHANGE", priority))
                         - (IF failedAt.priority = priority THEN failedAt.count ELSE 0)
            /\ failedAt.priority \in Nat /\ failedAt.priority <= priority
            /\ failedAt.count = Cardinality(Lacking(request, failedAt.priority))
            /\ \A s \in Verifiers : NotYet(s) /\ Priority[s] > failedAt.priority
                                    => memory[s] = Change(request)
        BY <1>1, <2>2, <3>1 DEF IInv, Owed
      <3>5. Cardinality(For("CHANGE", priority)) \in Nat /\ IsFiniteSet(For("CHANGE", priority))
        BY ForIs
      <3>6. CASE failedAt.priority = priority
        <4>1. Cardinality(For("CHANGE", priority) \ L)
                = Cardinality(For("CHANGE", priority)) - Cardinality(For("CHANGE", priority) \cap L)
          BY <3>5, FS_Difference
        <4>2. For("CHANGE", priority) \cap L = L
          BY <3>2
        <4>3. Cardinality(For("CHANGE", priority) \ L) = count
          BY <3>2, <3>4, <3>6, <4>1, <4>2
        <4> QED
          BY <3>1, <3>3, <4>3
      <3>7. CASE failedAt.priority # priority
        <4>1. ASSUME NEW s \in For("CHANGE", priority) PROVE s \notin L
          <5>1. s \in Verifiers /\ Priority[s] = priority
            BY <4>1 DEF For, Verifiers, sr_shmsub_change_is_valid
          <5>2. NotYet(s)
            BY <1>15, <3>1, <4>1
          <5>3. memory[s] = Change(request)
            BY <1>6, <3>4, <3>7, <5>1, <5>2
          <5> QED
            BY <3>2, <5>3 DEF Lacking
        <4>2. For("CHANGE", priority) \ L = For("CHANGE", priority)
          BY <4>1
        <4>3. count = Cardinality(For("CHANGE", priority))
          BY <3>4, <3>5, <3>7
        <4> QED
          BY <3>1, <3>3, <4>2, <4>3
      <3> QED
        BY <3>6, <3>7
    <2> QED
      BY <2>1, <2>2
  <1>18. Tally'
    <2> SUFFICES ASSUME InOrder'
                 PROVE  \E U \in SUBSET For(phase, priority) : Counted(U)'
      BY <1>4 DEF Tally
    <2>1. PICK U \in SUBSET For(phase, priority) :
            Cardinality(U) = count /\ \A s \in Subscriptions : Fresh(s)' <=> s \in U
      BY <1>17
    <2>2. U # {}
      BY <1>6, <2>1, FS_EmptySet
    <2>3. \A s \in U : s \in Subscriptions /\ memory[s] # Event'
      BY <1>14, <2>1, ForIs
    <2>4. Counted(U)'
      BY <1>4, <1>12, <2>1, <2>2, <2>3 DEF Counted
    <2> QED
      BY <2>1, <2>4
  <1>19. Woken'
    <2> SUFFICES ASSUME InOrder', NEW l \in Listeners, NEW k \in DOMAIN Subs[l], Fresh(Subs[l][k])'
                 PROVE  ~Handles(l)' /\ l \in pipe'
      BY DEF Woken
    <2>1. Subs[l][k] \in Subscriptions /\ Handler(Subs[l][k]) = l
      BY HandlerIs
    <2>2. Subs[l][k] \in For(phase, priority)
      BY <1>14, <2>1
    <2> QED
      BY <1>12, <2>1, <2>2
  <1>20. Places' /\ ErrorCount' /\ Kept'
    BY <1>1, <1>4, <1>11 DEF IInv, Places, Working, ErrorCount, Kept
  <1>21. pipe' \subseteq Listeners
    BY <1>15, HandlerIs DEF IInv, TypeOK
  <1>22. Numbers'
    <2>1. /\ \A s \in Subscriptions : memory[s].request_id \in Nat
          /\ \A l \in Listeners : info[l].request_id \in Nat
          /\ \A told \in accepted \cup aborted : told[2] \in Nat
          /\ \A r \in agreed \cup disturbed : r \in Nat
          /\ shm.request_id \in Nat
      BY DEF IInv, TypeOK, Seen, Told, Requests
    <2>2. ASSUME NEW n \in Nat, n <= shm.request_id PROVE n <= id
      BY <1>3, <2>1, <2>2
    <2>3. \A s \in Subscriptions : memory[s].request_id <= id
      BY <2>1, <2>2 DEF IInv, Numbers
    <2>4. \A l \in Listeners : Working(l) => info[l].request_id \in 1 .. id
      <3> SUFFICES ASSUME NEW l \in Listeners, Working(l) PROVE info[l].request_id \in 1 .. id
        OBVIOUS
      <3>1. info[l].request_id \in 1 .. shm.request_id
        BY DEF IInv, Numbers
      <3> QED
        BY <1>3, <2>1, <2>2, <3>1
    <2>5. /\ \A told \in accepted \cup aborted : told[2] <= id
          /\ \A r \in agreed \cup disturbed : r <= id
      BY <2>1, <2>2 DEF IInv, Numbers
    <2> QED
      BY <1>3, <1>4, <2>3, <2>4, <2>5 DEF Numbers, Working
  <1>23. ASSUME Active' => phase' = phase, phase' \in {"CHANGE", "DONE", "ABORT"}
         PROVE  Overtaking' /\ Outcome'
    <2>1. \A q : q <= shm.request_id /\ Doomed(q) => Doomed(q)'
      BY <1>13, <1>23
    <2>2. Overtaking'
      BY <1>9, <1>11, <2>1 DEF Overtaking, Working
    <2>3. \A told \in aborted' : Doomed(told[2])'
      BY <2>1 DEF IInv, Numbers, Outcome
    <2> QED
      BY <1>1, <1>4, <1>7, <1>8, <1>23, <2>2, <2>3 DEF IInv, Outcome
  <1>24. CASE phase = "CHANGE"
    <2>1. /\ pc' = "wait" /\ UNCHANGED <<phase, priority, count, failedAt, waits>>
          /\ Active' /\ Waiting'
      BY <1>24 DEF Active, Waiting
    <2>2. TypeOK'
      BY <1>3, <1>4, <1>5, <1>21, <2>1 DEF IInv, TypeOK, Requests
    <2>3. Stage'
      BY <1>1, <1>4, <1>6, <1>24, <2>1 DEF IInv, Stage
    <2>4. \A s \in Subscriptions : NotYet(s)' => NotYet(s)
      BY <1>1, <2>1 DEF NotYet
    <2>5. Progress'
      <3>1. CASE request = 0
        <4>1. \A s \in Verifiers : ~(Priority[s] > priority)
          BY <1>3, <3>1, TopIs, AboveIs DEF Verifiers
        <4>2. ASSUME NEW s \in Subscriptions PROVE memory[s] # Change(id)
          <5>1. memory[s].request_id <= shm.request_id /\ memory[s] \in Seen /\ shm.request_id \in Nat
            BY DEF IInv, Numbers, TypeOK
          <5>2. memory[s].request_id # id
            BY <1>3, <3>1, <5>1 DEF Seen
          <5> QED
            BY <5>2 DEF Change
        <4> QED
          BY <1>4, <1>24, <2>1, <4>1, <4>2 DEF Progress
      <3>2. CASE request # 0
        BY <1>1, <1>3, <1>4, <1>24, <2>1, <2>4, <3>2 DEF IInv, Progress
      <3> QED
        BY <3>1, <3>2
    <2>6. Owed'
      BY <1>24, <2>1 DEF Owed
    <2>7. Settled'
      <3> SUFFICES ASSUME NEW s \in Subscriptions, memory[s].event = "CHANGE",
                          memory[s].request_id = shm.request_id, Pending(s, shm.request_id)
                   PROVE  id = shm.request_id /\ Pending(s, id)'
        BY <1>4, <1>11 DEF IInv, Settled
      <3>1. shm.request_id # 0
        BY AcceptedIs DEF Requests
      <3>2. request = shm.request_id
        BY <1>1, <1>24 DEF Pending
      <3> QED
        BY <1>3, <1>4, <1>24, <2>1, <3>1, <3>2 DEF Pending
    <2> QED
      BY <1>1, <1>18, <1>19, <1>20, <1>22, <1>23, <2>1, <2>2, <2>3, <2>5, <2>6, <2>7 DEF IInv
  <1>25. CASE phase \in {"DONE", "ABORT"}
    <2>1. request = id /\ request # 0 /\ request = shm.request_id
      BY <1>3, <1>25
    <2>2. \A s \in Subscriptions : Priority[s] < priority => NotYet(s)
      BY DEF NotYet
    <2>3. phase = "DONE" => /\ count = Cardinality(For(phase, priority))
                            /\ \A s \in Subscriptions : Priority[s] < priority =>
                                 memory[s] # [event |-> "DONE", request_id |-> id]
      BY <1>1, <2>1, <2>2 DEF IInv, Stage, Progress
    <2>4. phase = "ABORT" =>
           /\ failedAt # None =>
                /\ failedAt.priority \in Nat /\ failedAt.priority <= priority
                /\ For("CHANGE", failedAt.priority) # {}
                /\ failedAt.count <= Cardinality(For("CHANGE", failedAt.priority))
           /\ count = Cardinality(For("CHANGE", priority))
                        - (IF failedAt.priority = priority THEN failedAt.count ELSE 0)
           /\ ~Spoiled(id) =>
                /\ failedAt # None
                /\ \A s \in Verifiers : Priority[s] < priority /\ Priority[s] > failedAt.priority
                                        => memory[s] = Change(id)
                /\ failedAt.priority < priority =>
                     failedAt.count = Cardinality(Lacking(id, failedAt.priority))
      BY <1>1, <2>1, <2>2 DEF IInv, Owed, Verifiers
    <2>5. \A s \in Subscriptions : memory[s].event = "CHANGE" =>
            \/ memory[s].request_id \in agreed
            \/ Spoiled(memory[s].request_id)'
            \/ /\ memory[s].request_id = id
               /\ \/ phase = "ABORT" /\ Priority[s] < priority /\ failedAt.priority <= Priority[s]
                  \/ phase = "ABORT" /\ Priority[s] = priority
      <3> SUFFICES ASSUME NEW s \in Subscriptions, memory[s].event = "CHANGE",
                          memory[s].request_id = shm.request_id, Pending(s, shm.request_id),
                          memory[s].request_id \notin agreed
                   PROVE  \/ phase = "ABORT" /\ Priority[s] < priority /\ failedAt.priority <= Priority[s]
                          \/ phase = "ABORT" /\ Priority[s] = priority
        BY <1>11, <2>1 DEF IInv, Settled
      <3>1. phase = "ABORT"
        BY <1>8, <1>25, <2>1
      <3> QED
        BY <1>1, <3>1 DEF Pending, NotYet
    <2>6. Spoiled(id) => Spoiled(request)'
      BY <1>4, <1>11 DEF Spoiled
    <2>7. Published
      BY <1>4, <1>6, <1>7, <1>8, <1>25, <2>1, <2>3, <2>4, <2>5, <2>6, <1>3 DEF Published
    <2>8. Notified' /\ (Active' => phase' = phase)
      <3>1. CASE waits
        <4>1. pc' = "wait" /\ UNCHANGED <<phase, priority, count, failedAt, waits>>
          BY <3>1
        <4> QED
          BY <2>7, <4>1, WaitIs
      <3>2. CASE ~waits
        <4>1. Advance
          BY <1>25, <3>2
        <4>2. CASE Continues
          BY <2>7, <4>2, ContinueIs DEF Continues
        <4>3. CASE Ends
          BY <2>7, <4>3, EndIs DEF Ends, Finished, Active
        <4> QED
          BY <4>1, <4>2, <4>3, AdvanceIs DEF IInv
      <3> QED
        BY <3>1, <3>2 DEF IInv, TypeOK
    <2>9. phase' \in {"CHANGE", "DONE", "ABORT"}
      BY <1>4, <1>25, <2>8 DEF Notified, Stage, ListenEvents
    <2>10. TypeOK'
      BY <1>3, <1>4, <1>5, <1>21, <2>8 DEF IInv, TypeOK, Requests, Notified
    <2> QED
      BY <1>18, <1>19, <1>20, <1>22, <1>23, <2>8, <2>9, <2>10 DEF IInv, Notified
  <1> QED
    BY <1>1, <1>24, <1>25

-----------------------------------------------------------------------------
(***************************************************************************)
(* The theorems.                                                           *)
(***************************************************************************)
LEMMA InitIInv ==
  Init => IInv
  <1> SUFFICES ASSUME Init PROVE IInv
    OBVIOUS
  <1> USE DEF Init
  <1>1. TypeOK
    <2>1. Nothing \in Seen /\ 0 \in Counts /\ 0 \in 0 .. MaxChanges
      BY CountIs, ChangeEventsAssumption DEF Nothing, Seen
    <2>2. shm \in [event : Events, request_id : 0 .. MaxChanges, priority : Nat, subscriber_count : Counts]
      BY <2>1 DEF Events
    <2> QED
      BY <2>1, <2>2 DEF TypeOK, ListenEvents
  <1>2. shm.event = "NONE" /\ shm.request_id = 0 /\ ~Active /\ \A l \in Listeners : ~Working(l)
    BY DEF Active, Working
  <1>3. \A s \in Subscriptions : memory[s].event = "NONE" /\ memory[s].request_id = 0
    BY DEF Nothing
  <1>4. Numbers
    BY <1>2, <1>3 DEF Numbers
  <1>5. Places
    BY <1>2 DEF Places, Working
  <1>6. Stage
    BY <1>2 DEF Stage, Active, Waiting
  <1>7. Outcome /\ Overtaking /\ Kept /\ Settled
    BY <1>2, <1>3 DEF Outcome, Overtaking, Kept, Settled
  <1>8. Tally /\ Woken /\ Progress /\ ErrorCount /\ Owed
    BY <1>2 DEF Tally, Woken, Progress, ErrorCount, Owed, ListenEvents
  <1> QED
    BY <1>1, <1>4, <1>5, <1>6, <1>7, <1>8 DEF IInv

LEMMA ListenerKeeps ==
  ASSUME IInv, NEW l \in Listeners, Listener(l)
  PROVE  IInv'
  <1>1. CASE Write(l)
    BY <1>1, WriteSomeKeeps, WriteLastKeeps
  <1> QED
    BY <1>1, StartKeeps, AcceptKeeps, RefuseKeeps, ShelveKeeps, AcceptLateKeeps, RefuseLateKeeps,
       WriteLateKeeps DEF Listener

LEMMA StutterKeeps ==
  ASSUME IInv, UNCHANGED vars
  PROVE  IInv'
  <1> USE DEF vars
  <1>1. /\ Event' = Event /\ (Active' <=> Active) /\ (Waiting' <=> Waiting)
        /\ \A l : Working(l)' <=> Working(l)
    BY DEF Event, Active, Waiting, Working
  <1>2. \A q \in Requests : Doomed(q) => Doomed(q)'
    BY <1>1 DEF Doomed, Live
  <1>3. /\ Places' /\ Overtaking' /\ Tally' /\ Woken' /\ ErrorCount' /\ Kept'
        /\ \A q : Spoiled(q) => Spoiled(q)'
        /\ \A told \in aborted' : Doomed(told[2])'
    BY <1>2, SteadyKeeps
  <1>4. TypeOK' /\ Numbers' /\ Stage'
    BY <1>1 DEF IInv, TypeOK, Numbers, Stage
  <1>5. Outcome'
    BY <1>1, <1>3 DEF IInv, Outcome
  <1>6. Progress' /\ Owed' /\ Settled'
    BY <1>1, <1>3 DEF IInv, Progress, Owed, Settled, Pending, NotYet, Lacking
  <1> QED
    BY <1>3, <1>4, <1>5, <1>6 DEF IInv

\* The inductive invariant holds of the notifier and its listeners.
THEOREM AlwaysIInv == Spec => []IInv
  <1>1. Init => IInv
    BY InitIInv
  <1>2. IInv /\ [Next]_vars => IInv'
    <2> SUFFICES ASSUME IInv, [Next]_vars PROVE IInv'
      OBVIOUS
    <2>1. CASE Notifier
      BY <2>1, PublishKeeps, ClearKeeps, LockTimedOutKeeps, AcceptedKeeps, RefusedKeeps,
         ProcessedKeeps, ExpireKeeps, CallbackTimedOutKeeps, SecondTimedOutKeeps DEF Notifier
    <2>2. CASE \E l \in Listeners : Listener(l)
      BY <2>2, ListenerKeeps
    <2> QED
      BY <2>1, <2>2, ApplyKeeps, StutterKeeps DEF Next
  <1> QED
    BY <1>1, <1>2, PTL DEF Spec

\* The variables of shm_sub.c have their types: subscriber_count stays a count.
THEOREM TypeCorrect == Spec => []TypeOK
  <1>1. IInv => TypeOK
    BY DEF IInv
  <1> QED
    BY <1>1, AlwaysIInv, PTL

\* sr_changes_notify_store stores data only when every verifier has accepted
\* them, and nobody is told afterwards that they are aborted.
THEOREM StoresAgreed == Spec => []StoredIsAgreed
  <1>1. IInv => StoredIsAgreed
    <2> SUFFICES ASSUME IInv, NEW r \in agreed, NEW s \in Verifiers
                 PROVE  <<s, r>> \in accepted /\ <<s, r>> \notin aborted
      BY DEF IInv, Outcome, StoredIsAgreed
    <2>1. \A told \in aborted : told[2] \notin agreed
      BY DEF IInv, Outcome, Doomed
    <2> QED
      BY <2>1 DEF IInv, Outcome
  <1> QED
    BY <1>1, AlwaysIInv, PTL

\* When everything is over, whoever has accepted a request that not everyone
\* accepted and that was not disturbed was told that it is aborted.
THEOREM AbortsReach == Spec => []AbortReachesAccepted
  <1>1. IInv => AbortReachesAccepted
    <2> SUFFICES ASSUME IInv, Over, NEW told \in accepted,
                        told[2] \notin agreed, told[2] \notin disturbed
                 PROVE  told \in aborted
      BY DEF AbortReachesAccepted
    <2>1. ~Active /\ (\A l \in Listeners : ~Working(l)) /\ shm.event \notin ListenEvents
      BY DEF Over, Quiet, Active, Working
    <2>2. ~Spoiled(told[2])
      BY <2>1 DEF Spoiled, Stray
    <2>3. told[1] \in Subscriptions
      BY DEF IInv, TypeOK, Told
    <2>4. ASSUME memory[told[1]] = Change(told[2]) PROVE FALSE
      <3>1. memory[told[1]].event = "CHANGE" /\ memory[told[1]].request_id = told[2]
        BY <2>4 DEF Change
      <3>2. Pending(told[1], shm.request_id)
        BY <2>2, <2>3, <3>1 DEF IInv, Settled
      <3> QED
        BY <2>1, <3>2 DEF Pending, ListenEvents
    <2> QED
      BY <2>2, <2>4 DEF IInv, Kept
  <1> QED
    BY <1>1, AlwaysIInv, PTL

\* When nobody is at work and nothing is left to read, an event that is still
\* in shared memory is the SUCCESS or the "abort" of a disturbed request.
THEOREM NoneLeft == Spec => []NoEventLeft
  <1>1. IInv => NoEventLeft
    <2> SUFFICES ASSUME IInv, Quiet, pipe = {}, shm.event # "NONE",
                        ~(shm.request_id \in disturbed /\ shm.event \in {"SUCCESS", "ABORT"})
                 PROVE  FALSE
      BY DEF NoEventLeft
    <2>1. ~Active /\ ~Waiting /\ \A l \in Listeners : ~Working(l)
      BY DEF Quiet, Active, Waiting, Working
    <2>2. /\ shm.event \in {"DONE", "ABORT"}
          /\ shm.event = "ABORT" => shm.request_id \notin disturbed
      <3>1. shm.event \in Events
        BY DEF IInv, TypeOK
      <3> QED
        BY <2>1, <3>1 DEF IInv, Stage, Events, ListenEvents
    <2>3. InOrder
      BY <2>1, <2>2 DEF InOrder, Spoiled, Stray
    <2>4. PICK U \in SUBSET For(shm.event, shm.priority) : Counted(U)
      BY <2>2, <2>3 DEF IInv, Tally, ListenEvents
    <2>5. PICK s \in U : s \in Subscriptions /\ Handler(s) \in Listeners
      BY <2>4, ForIs, HandlerIs DEF Counted
    <2>6. Fresh(s)
      BY <2>1, <2>4, <2>5 DEF Counted, Handles
    <2>7. PICK l \in Listeners, k \in DOMAIN Subs[Handler(s)] : l = Handler(s) /\ Subs[l][k] = s
      BY <2>5, HandlerIs
    <2> QED
      BY <2>1, <2>2, <2>3, <2>6, <2>7 DEF IInv, Woken, Handles
  <1> QED
    BY <1>1, AlwaysIInv, PTL

=============================================================================
