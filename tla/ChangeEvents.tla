---------------------------- MODULE ChangeEvents ----------------------------
(***************************************************************************)
(* How sysrepo tells the subscribers of a YANG module that its data change:*)
(* docker/libs/sysrepo/src/shm_sub.c and sr_changes_notify_store of        *)
(* sysrepo.c.  A notifier, the process that applies changes, publishes     *)
(* "change" in shared memory for one priority after the other, stores the  *)
(* data when every subscriber agrees, and then publishes "done"; when one  *)
(* refuses or is late it publishes "abort".  A listener handles the        *)
(* subscriptions of one process and answers through the same memory.       *)
(*                                                                         *)
(* One module and one datastore; the apply-changes locks let one notifier  *)
(* in at a time.  A section of code under the memory's READ or WRITE lock  *)
(* is one step: no callback runs in one and the locks' own timeouts are    *)
(* taken to suffice.  The subscriptions are fixed and take the whole       *)
(* module (no xpath), so that every change is one for each of them.        *)
(***************************************************************************)
EXTENDS Integers, Sequences, FiniteSets, FiniteSetsExt

CONSTANTS
    Listeners,   \* the processes that subscribe
    Subs,        \* each listener's subscriptions, in its array's order
    Priority,    \* the priority of each subscription
    DoneOnly,    \* the subscriptions with SR_SUBSCR_DONE_ONLY
    CountSize,   \* how many values subscriber_count has: 2^32
    FailingStore,\* whether storing the data can fail
    MaxChanges   \* bound: how often sr_apply_changes is called

Subscriptions == DOMAIN Priority

\* Every subscription is in one listener's array, once.  Somebody verifies
\* changes; without that there is nothing to coordinate.
ASSUME ChangeEventsAssumption ==
    /\ IsFiniteSet(Subscriptions)
    /\ Subs \in [Listeners -> Seq(Subscriptions)]
    /\ \A s \in Subscriptions : \E l \in Listeners : \E k \in DOMAIN Subs[l] : Subs[l][k] = s
    /\ \A l, m \in Listeners : \A j \in DOMAIN Subs[l], k \in DOMAIN Subs[m] :
         Subs[l][j] = Subs[m][k] => l = m /\ j = k
    /\ Priority \in [Subscriptions -> Nat]
    /\ Subscriptions \ DoneOnly # {}
    /\ CountSize \in Nat /\ CountSize > Cardinality(Subscriptions)
    /\ FailingStore \in BOOLEAN
    /\ MaxChanges \in Nat

Requests == 1 .. MaxChanges
Told == Subscriptions \X Requests

VARIABLES
    shm,         \* event, request_id, priority and subscriber_count
    memory,      \* each subscription: the event and request_id it last handled
    pipe,        \* the listeners with a byte in their event pipe
    pc,          \* the notifier: "idle", "lock", "wait" or "expired"
    phase,       \* what it publishes: "CHANGE", "DONE", "ABORT" or "clear"
    request,     \* mod->request_id
    priority,    \* cur_priority
    count,       \* subscriber_count
    failedAt,    \* err_priority and err_subscriber_count, or None
    waits,       \* sr_apply_changes waits for "done" and "abort" too
    lpc,         \* a listener: "idle", "callback" or "write"
    at,          \* the subscription it is at
    info,        \* sub_info: event and request_id it is handling
    valid,       \* valid_subscr_count
    failed,      \* a callback refused: err_code
    changes,     \* how often sr_apply_changes was called
    accepted,    \* history: whose callback accepted which request,
    aborted,     \*   who was told that it is aborted,
    agreed,      \*   which requests the notifier found accepted by all,
    stored,      \*   which of them were stored,
    disturbed    \*   and which requests were answered or aborted out of order

notifier == <<pc, phase, request, priority, count, failedAt, waits, changes>>
listener == <<memory, lpc, at, info, valid, failed>>
history == <<accepted, aborted, agreed, stored, disturbed>>
vars == <<shm, pipe, notifier, listener, history>>

None == [priority |-> -1, count |-> 0]

ListenEvents == {"CHANGE", "DONE", "ABORT"}
Events == ListenEvents \cup {"NONE", "SUCCESS", "ERROR"}
Seen == [event : ListenEvents \cup {"NONE"}, request_id : 0 .. MaxChanges]

Counts == 0 .. CountSize - 1

TypeOK ==
    /\ shm \in [event : Events, request_id : 0 .. MaxChanges,
                priority : Nat, subscriber_count : Counts]
    /\ memory \in [Subscriptions -> Seen]
    /\ pipe \subseteq Listeners
    /\ pc \in {"idle", "lock", "wait", "expired"}
    /\ phase \in ListenEvents \cup {"clear"}
    /\ request \in 0 .. MaxChanges
    /\ priority \in Nat /\ count \in Counts
    /\ failedAt \in [priority : Nat, count : Counts] \cup {None}
    /\ waits \in BOOLEAN
    /\ lpc \in [Listeners -> {"idle", "callback", "write"}]
    /\ at \in [Listeners -> Nat]
    /\ info \in [Listeners -> Seen]
    /\ valid \in [Listeners -> Counts]
    /\ failed \in [Listeners -> BOOLEAN]
    /\ changes \in 0 .. MaxChanges
    /\ accepted \subseteq Told /\ aborted \subseteq Told
    /\ agreed \subseteq Requests /\ stored \subseteq Requests /\ disturbed \subseteq Requests

Nothing == [event |-> "NONE", request_id |-> 0]

Init ==
    /\ shm = [event |-> "NONE", request_id |-> 0, priority |-> 0, subscriber_count |-> 0]
    /\ memory = [s \in Subscriptions |-> Nothing]
    /\ pipe = {}
    /\ pc = "idle" /\ phase = "CHANGE" /\ request = 0
    /\ priority = 0 /\ count = 0 /\ failedAt = None /\ waits = FALSE
    /\ lpc = [l \in Listeners |-> "idle"]
    /\ at = [l \in Listeners |-> 0]
    /\ info = [l \in Listeners |-> Nothing]
    /\ valid = [l \in Listeners |-> 0]
    /\ failed = [l \in Listeners |-> FALSE]
    /\ changes = 0
    /\ accepted = {} /\ aborted = {} /\ agreed = {} /\ stored = {} /\ disturbed = {}

-----------------------------------------------------------------------------
(***************************************************************************)
(* Whom an event is for.                                                   *)
(***************************************************************************)
sr_shmsub_change_is_valid(ev, s) == ev = "DONE" \/ s \notin DoneOnly

For(ev, p) ==
    {s \in Subscriptions : sr_shmsub_change_is_valid(ev, s) /\ Priority[s] = p}

\* The priorities of an event's subscriptions below p.
Below(ev, p) == {q \in 0 .. p - 1 : For(ev, q) # {}}

\* The fake last priority, above the actual highest.
Above == Max({Priority[s] : s \in Subscriptions}) + 1

Handler(s) == CHOOSE l \in Listeners : \E k \in DOMAIN Subs[l] : Subs[l][k] = s

-----------------------------------------------------------------------------
(***************************************************************************)
(* The notifier.  Where it goes when the subscriptions of priority p are   *)
(* through with ev:                                                        *)
(***************************************************************************)
Publishing(ev, p, n, f, w) ==
    /\ pc' = "lock" /\ phase' = ev /\ priority' = p /\ count' = n
    /\ failedAt' = f /\ waits' = w

\* Back in the caller, the notifier's variables are gone.
Finished ==
    /\ pc' = "idle" /\ phase' = "CHANGE" /\ priority' = 0 /\ count' = 0
    /\ failedAt' = None /\ waits' = FALSE

\* sr_shmsub_change_notify_next_subscription
NextPriority(ev, p) ==
    LET q == Max(Below(ev, p))
        n == Cardinality(For(ev, q))
                 - (IF ev = "ABORT" /\ failedAt.priority = q THEN failedAt.count ELSE 0)
    IN  IF Below(ev, p) = {} \/ n = 0 THEN Finished
        ELSE Publishing(ev, q, n, failedAt, waits)

\* "abort" ends with the priority whose subscriber failed.
Advance ==
    IF phase = "ABORT" /\ failedAt.priority = priority THEN Finished
    ELSE NextPriority(phase, priority)

sr_apply_changes ==
    /\ pc = "idle" /\ changes < MaxChanges
    /\ changes' = changes + 1
    /\ request' = 0
    /\ \E wait \in BOOLEAN, p \in {Max(Below("CHANGE", Above))} :
         Publishing("CHANGE", p, Cardinality(For("CHANGE", p)), None, wait)
    /\ UNCHANGED <<shm, pipe, listener, history>>

\* sr_shmsub_notify_new_wrlock: no event is left, or the one that may be.
CanLock ==
    \/ shm.event = "NONE"
    \/ shm.event = "ERROR" /\ phase \in {"ABORT", "clear"}

\* Mutant: every event of a change has a number of its own.
RequestIdOfItsOwn == shm.request_id + 1

\* The events of one change have one number.
RequestId == IF request = 0 THEN shm.request_id + 1 ELSE request

\* Write an event, wake its subscribers, and wait for them if need be.
Publish ==
    /\ pc = "lock" /\ CanLock /\ phase # "clear"
    /\ shm' = [event |-> phase, request_id |-> RequestId,
               priority |-> priority, subscriber_count |-> count]
    /\ request' = RequestId
    /\ pipe' = pipe \cup {Handler(s) : s \in For(phase, priority)}
    /\ IF phase = "CHANGE" \/ waits
       THEN pc' = "wait" /\ UNCHANGED <<phase, priority, count, failedAt, waits>>
       ELSE Advance
    /\ UNCHANGED <<changes, listener, history>>

\* Nobody is left to be told: the failed event is cleared.
Clear ==
    /\ pc = "lock" /\ CanLock /\ phase = "clear"
    /\ shm' = [shm EXCEPT !.event = "NONE", !.priority = priority, !.subscriber_count = 0]
    /\ Finished
    /\ UNCHANGED <<pipe, request, changes, listener, history>>

\* The previous event was not processed in time: sr_apply_changes fails.
LockTimedOut ==
    /\ pc = "lock" /\ ~CanLock
    /\ Finished
    /\ disturbed' = IF phase = "ABORT" THEN disturbed \cup {request} ELSE disturbed
    /\ UNCHANGED <<shm, pipe, request, changes, listener,
                   accepted, aborted, agreed, stored>>

\* Mutant: "abort" is published for everyone with the failed priority.
StartAbortForAll(m) ==
    \E p \in {Max(Below("ABORT", Above))} :
      Publishing("ABORT", p, Cardinality(For("ABORT", p)),
                 [priority |-> m.priority, count |-> 0], waits)

\* sr_shmsub_change_notify_change_abort: what failed is read from m, the memory
\* after the failure; those who have not processed it are not told.
StartAbort(m) ==
    LET f == IF m.event = "ERROR"
             THEN [priority |-> m.priority, count |-> m.subscriber_count] ELSE None
        p == Max(Below("ABORT", Above))
        n == Cardinality(For("ABORT", p)) - (IF f.priority = p THEN f.count ELSE 0)
    IN  Publishing(IF n = 0 THEN "clear" ELSE "ABORT", p, n, f, waits)

\* The data are written under the modules' WRITE lock; then "done" begins.
Store ==
    /\ stored' = stored \cup {request}
    /\ NextPriority("DONE", Above)

\* The lock is not upgraded or the data are not written; or they are, and the
\* lock is not downgraded.  sr_apply_changes fails and publishes nothing more.
StoreFails ==
    /\ FailingStore
    /\ stored' \in {stored, stored \cup {request}}
    /\ Finished

\* sr_shmsub_notify_finish_wrunlock: every subscriber of this priority has
\* accepted.  After the last priority the data are stored.
Accepted ==
    /\ pc = "wait" /\ phase = "CHANGE" /\ shm.event = "SUCCESS"
    /\ shm' = [shm EXCEPT !.event = "NONE"]
    /\ IF Below("CHANGE", priority) # {}
       THEN Advance /\ UNCHANGED <<agreed, stored>>
       ELSE agreed' = agreed \cup {request} /\ (Store \/ StoreFails)
    /\ UNCHANGED <<pipe, request, changes, listener,
                   accepted, aborted, disturbed>>

Refused ==
    /\ pc = "wait" /\ phase = "CHANGE" /\ shm.event = "ERROR"
    /\ StartAbort(shm)
    /\ UNCHANGED <<shm, pipe, request, changes, listener, history>>

\* "done" or "abort" was processed.
Processed ==
    /\ pc = "wait" /\ phase # "CHANGE" /\ shm.event = "NONE"
    /\ Advance
    /\ UNCHANGED <<shm, pipe, request, changes, listener, history>>

\* pthread_cond_timedwait times out; the mutex is yet to be locked, and the
\* readers have yet to leave.
Expire ==
    /\ pc = "wait" /\ shm.event \in ListenEvents
    /\ pc' = "expired"
    /\ UNCHANGED <<shm, pipe, phase, request, priority, count, failedAt, waits,
                   changes, listener, history>>

\* Mutant: the event stays as it is.
CallbackTimedOutSilently ==
    /\ pc = "expired" /\ phase = "CHANGE"
    /\ StartAbort([shm EXCEPT !.event = "ERROR"])
    /\ UNCHANGED <<shm, pipe, request, changes, listener, history>>

\* The event becomes an error, unless an answer has come after all: then it
\* stays and the timeout is reported nevertheless.
CallbackTimedOut ==
    /\ pc = "expired" /\ phase = "CHANGE"
    /\ shm' = IF shm.event = "CHANGE" THEN [shm EXCEPT !.event = "ERROR"] ELSE shm
    /\ StartAbort(shm')
    /\ disturbed' = IF shm.event = "SUCCESS" THEN disturbed \cup {request} ELSE disturbed
    /\ UNCHANGED <<pipe, request, changes, listener, accepted, aborted, agreed, stored>>

\* For "done" and "abort" the timeout is ignored.
SecondTimedOut ==
    /\ pc = "expired" /\ phase # "CHANGE"
    /\ Advance
    /\ UNCHANGED <<shm, pipe, request, changes, listener, history>>

Notifier ==
    \/ Publish \/ Clear \/ LockTimedOut \/ Accepted \/ Refused \/ Processed
    \/ Expire \/ CallbackTimedOut \/ SecondTimedOut

-----------------------------------------------------------------------------
(***************************************************************************)
(* A listener: sr_process_events, and for this module                      *)
(* sr_shmsub_change_listen_process_module_events.                          *)
(***************************************************************************)
\* "abort" only for a subscription that has successfully processed "change".
sr_shmsub_change_listen_is_new_event(s, seen) ==
    /\ shm.event \in ListenEvents
    /\ seen # [event |-> shm.event, request_id |-> shm.request_id]
    /\ shm.event = "ABORT" => seen = [event |-> "CHANGE", request_id |-> shm.request_id]
    /\ shm.priority = Priority[s]
    /\ sr_shmsub_change_is_valid(shm.event, s)

\* The positions after k of l's subscriptions for which the event is new.
New(l, k, seen) ==
    {n \in DOMAIN Subs[l] : n > k /\ sr_shmsub_change_listen_is_new_event(Subs[l][n], seen[Subs[l][n]])}

GoOn(l, k, seen) ==
    IF New(l, k, seen) = {}
    THEN lpc' = [lpc EXCEPT ![l] = "write"] /\ UNCHANGED at
    ELSE /\ lpc' = [lpc EXCEPT ![l] = "callback"]
         /\ at' = [at EXCEPT ![l] = Min(New(l, k, seen))]

\* Read the pipe, find the first subscription that has something to do.
Start(l) ==
    /\ lpc[l] = "idle" /\ l \in pipe
    /\ pipe' = pipe \ {l}
    /\ IF New(l, 0, memory) = {} THEN UNCHANGED listener
       ELSE /\ GoOn(l, 0, memory)
            /\ info' = [info EXCEPT ![l] = [event |-> shm.event, request_id |-> shm.request_id]]
            /\ UNCHANGED <<memory, valid, failed>>
    /\ UNCHANGED <<shm, notifier, history>>

\* Mutant: the memory is not looked at again.
OvertakenNever(l) == FALSE

\* sr_shmsub_change_listen_relock: the event is no longer the one in info.
Overtaken(l) == shm.event # info[l].event \/ shm.request_id # info[l].request_id

\* Back in the listener's loop, its variables are gone.
Return(l) ==
    /\ lpc' = [lpc EXCEPT ![l] = "idle"]
    /\ at' = [at EXCEPT ![l] = 0]
    /\ info' = [info EXCEPT ![l] = Nothing]
    /\ valid' = [valid EXCEPT ![l] = 0]
    /\ failed' = [failed EXCEPT ![l] = FALSE]

Sub(l) == Subs[l][at[l]]
Of(l, s) == <<s, info[l].request_id>>

\* The callback accepts, and so does everything after "change".
Accept(l) ==
    /\ lpc[l] = "callback" /\ ~Overtaken(l)
    /\ valid' = [valid EXCEPT ![l] = @ + 1]
    /\ memory' = [memory EXCEPT ![Sub(l)] = info[l]]
    /\ GoOn(l, at[l], memory')
    /\ accepted' = IF info[l].event = "CHANGE" THEN accepted \cup {Of(l, Sub(l))} ELSE accepted
    /\ aborted' = IF info[l].event = "ABORT" THEN aborted \cup {Of(l, Sub(l))} ELSE aborted
    /\ UNCHANGED <<shm, pipe, notifier, info, failed, agreed, stored, disturbed>>

\* It refuses: the event has failed, the other subscriptions are not asked.
Refuse(l) ==
    /\ lpc[l] = "callback" /\ ~Overtaken(l) /\ info[l].event = "CHANGE"
    /\ memory' = [memory EXCEPT ![Sub(l)] = [info[l] EXCEPT !.event = "ABORT"]]
    /\ failed' = [failed EXCEPT ![l] = TRUE]
    /\ lpc' = [lpc EXCEPT ![l] = "write"]
    /\ UNCHANGED <<shm, pipe, notifier, at, info, valid, history>>

\* It is put off; the application calls sr_process_events again.
Shelve(l) ==
    /\ lpc[l] = "callback" /\ ~Overtaken(l) /\ info[l].event = "CHANGE"
    /\ GoOn(l, at[l], memory)
    /\ pipe' = pipe \cup {l}
    /\ UNCHANGED <<shm, notifier, memory, info, valid, failed, history>>

\* The event was over with answers of l for "change" not yet written.
Unanswered(l) == info[l].event = "CHANGE" /\ valid[l] > 0

Disturb(l) ==
    disturbed' = IF Unanswered(l) THEN disturbed \cup {info[l].request_id} ELSE disturbed

\* It accepts after the event was over: an "abort" of the listener's own
\* follows, for this subscription and not for those before it.
AcceptLate(l) ==
    /\ lpc[l] = "callback" /\ Overtaken(l)
    /\ Return(l)
    /\ accepted' = IF info[l].event = "CHANGE" THEN accepted \cup {Of(l, Sub(l))} ELSE accepted
    /\ aborted' = IF info[l].event \in {"CHANGE", "ABORT"}
                  THEN aborted \cup {Of(l, Sub(l))} ELSE aborted
    /\ Disturb(l)
    /\ UNCHANGED <<shm, pipe, notifier, memory, agreed, stored>>

\* It does not accept, and the event is over: there is nothing to do again.
RefuseLate(l) ==
    /\ lpc[l] = "callback" /\ Overtaken(l) /\ info[l].event = "CHANGE"
    /\ Return(l)
    /\ Disturb(l)
    /\ UNCHANGED <<shm, pipe, notifier, memory, accepted, aborted, agreed, stored>>

\* sr_shmsub_multi_listen_write_event: the last answer, or a refusal.
Answer(l) ==
    CASE failed[l] -> "ERROR"
      [] ~failed[l] /\ shm.subscriber_count = valid[l] ->
             IF shm.event = "CHANGE" THEN "SUCCESS" ELSE "NONE"
      [] OTHER -> shm.event

Write(l) ==
    /\ lpc[l] = "write" /\ ~Overtaken(l)
    /\ shm' = [shm EXCEPT !.event = Answer(l), !.subscriber_count = (@ - valid[l]) % CountSize]
    /\ Return(l)
    /\ UNCHANGED <<pipe, notifier, memory, history>>

\* The event was over before the answer: the "abort" is for the subscription
\* the loop ended on, the last of the array, whichever have accepted.
WriteLate(l) ==
    LET s == Subs[l][Len(Subs[l])]
        own == info[l].event = "CHANGE" /\ ~failed[l] /\ sr_shmsub_change_is_valid("ABORT", s)
    IN  /\ lpc[l] = "write" /\ Overtaken(l)
        /\ Return(l)
        /\ aborted' = IF own THEN aborted \cup {Of(l, s)} ELSE aborted
        /\ Disturb(l)
        /\ UNCHANGED <<shm, pipe, notifier, memory, accepted, agreed, stored>>

Listener(l) ==
    \/ Start(l) \/ Accept(l) \/ Refuse(l) \/ Shelve(l) \/ AcceptLate(l)
    \/ RefuseLate(l) \/ Write(l) \/ WriteLate(l)

Next == sr_apply_changes \/ Notifier \/ \E l \in Listeners : Listener(l)

Spec == Init /\ [][Next]_vars

-----------------------------------------------------------------------------
Verifiers == Subscriptions \ DoneOnly

Quiet == pc = "idle" /\ \A l \in Listeners : lpc[l] = "idle"
Over == Quiet /\ shm.event \notin ListenEvents

(***************************************************************************)
(* Data are stored only when every verifier has accepted this very request,*)
(* and nobody who has is ever told that it was aborted: no late, shelved or*)
(* miscounted answer passes for agreement (shm_sub.c:921-940, 1931-1959).  *)
(***************************************************************************)
StoredIsAgreed ==
    \A r \in stored, s \in Verifiers : <<s, r>> \in accepted /\ <<s, r>> \notin aborted

(***************************************************************************)
(* The general rule: "in case the operation fails, only if the subscriber  *)
(* has successfully processed the first event, it will get the second      *)
(* SR_EV_ABORT event" (sysrepo.h:1263).  A failing store breaks it at once *)
(* (sysrepo.c:2362-2374); without one there is still the answer that comes *)
(* with the timeout.                                                       *)
(***************************************************************************)
SecondEvent ==
    Over => \A told \in accepted : told[2] \notin stored => told \in aborted

(***************************************************************************)
(* The same for a change that somebody refused or did not answer in time.  *)
(* However subscribers refuse, shelve, accept late and are passed over, the*)
(* counts in shared memory reach exactly those who have accepted           *)
(* (shm_sub.c:1131-1216).  Outside it are the change that all accepted and *)
(* that then fails to be stored, of which nobody is told (sysrepo.c:2362-  *)
(* 2374), and a request that is disturbed: its last answer came with the   *)
(* timeout (shm_sub.c:188-200), its "abort" was not processed in time      *)
(* (134), or a listener that had accepted was overtaken before it answered,*)
(* with one subscription as well as with several.  Such a listener leaves  *)
(* those before its last without an "abort" of its own (the TODO at 2237), *)
(* and it counts itself for the published "abort" although the notifier has*)
(* not counted it, so that another one's may be missed.                    *)
(***************************************************************************)
AbortReachesAccepted ==
    Over => \A told \in accepted :
              told[2] \notin agreed \cup disturbed => told \in aborted

(***************************************************************************)
(* An event that nobody will process or clear any more blocks every later  *)
(* change (shm_sub.c:123-128).  When the notifier is through and the       *)
(* listeners have nothing to read, one is left only of a disturbed request:*)
(* a SUCCESS written with the timeout, or an "abort" from whose count an   *)
(* overtaken listener takes more than is left, so that it wraps around.    *)
(* Otherwise "done" and "abort" are processed by as many as they count, and*)
(* a failed "change" is replaced or cleared (1158-1164, 1931-1959).        *)
(***************************************************************************)
NoEventLeft ==
    Quiet /\ pipe = {} /\ shm.event # "NONE" =>
      /\ shm.request_id \in disturbed
      /\ shm.event \in {"SUCCESS", "ABORT"}
=============================================================================
