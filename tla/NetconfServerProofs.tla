------------------------ MODULE NetconfServerProofs -------------------------
(***************************************************************************)
(* Proofs about the workers of the NETCONF server, for every set of        *)
(* threads and every finite set of sessions.                               *)
(*                                                                         *)
(* The argument: every session a thread works with has that thread as its  *)
(* only owner, and its entry's state says in which way.  Only a session    *)
(* whose state is NONE can be taken by a poll, so nobody takes one that    *)
(* is BUSY or INVALID, with or without the structure's lock.               *)
(***************************************************************************)
EXTENDS NetconfServer, TLAPS, FiniteSetTheorems

-----------------------------------------------------------------------------
(***************************************************************************)
(* The parts of the inductive invariant.                                   *)
(***************************************************************************)
Places == {"top", "add", "channel", "poll", "scan", "del", "free", "end"} \cup Working \cup Loose

\* TypeOK, with the bounds on the array and its indices left to the others.
Typed ==
  /\ sessions \in Seq(Sessions) /\ last \in Nat /\ holder \subseteq Threads
  /\ state \in [Sessions -> {"NONE", "BUSY", "INVALID"}]
  /\ status \in [Sessions -> {"absent", "RUNNING", "INVALID", "freed"}]
  /\ inuse \in [Sessions -> BOOLEAN]
  /\ input \in [Sessions -> {"none", "data"}]
  /\ pc \in [Threads -> Places]
  /\ cur \in [Threads -> Sessions \cup {NoSession}]
  /\ target \in [Threads -> Sessions \cup {NoSession}]
  /\ i \in [Threads -> Nat] /\ j \in [Threads -> Nat] /\ tries \in [Threads -> 0 .. 2]
  /\ quit \in BOOLEAN /\ ended \in [Sessions -> Nat] /\ delFailed \in BOOLEAN
  /\ fault \subseteq {"poll", "use", "free", "exit"}

\* No session is in the structure twice.
Once == \A k, m \in 1 .. Len(sessions) : sessions[k] = sessions[m] => k = m

\* One thread polls, the one that holds the structure, with its indices inside.
\* The index of a callback is one a session had when the callback got it.
Seeking(t) == pc[t] \in {"seek", "match"}

Polling ==
  /\ \A t \in Threads : t \in holder <=> pc[t] = "scan"
  /\ \A t, u \in holder : t = u
  /\ \A t \in holder : i[t] < Len(sessions) /\ j[t] < Len(sessions)
  /\ \A t \in Threads : t \notin holder => j[t] = 0 /\ (Seeking(t) \/ i[t] = 0)
  /\ \A t \in Threads : pc[t] = "seek" => i[t] <= Cardinality(Sessions)
  /\ \A t \in Threads : pc[t] = "match" => i[t] < Cardinality(Sessions)
  /\ last = 0 \/ last < Len(sessions)

\* A session that is yet to be added, one that is worked with, and one that
\* has ended.  A session a callback uses has been in the structure.
New(t) ==
  /\ cur[t] \in Sessions \ InPs
  /\ status[cur[t]] = "RUNNING" /\ state[cur[t]] = "NONE" /\ ended[cur[t]] = 0

Busy(t) ==
  /\ cur[t] \in InPs
  /\ ~Freed(cur[t]) /\ state[cur[t]] = "BUSY" /\ inuse[cur[t]]

Gone(t) ==
  /\ cur[t] \in Sessions /\ (pc[t] = "del" => cur[t] \in InPs)
  /\ status[cur[t]] = "INVALID" /\ state[cur[t]] = "INVALID"

Known(s) == s \in Sessions /\ status[s] # "absent" /\ \A t \in Threads : Adding(t) => cur[t] # s

Ending(t) == pc[t] \in {"del", "free"}

Owning(t) == Adding(t) \/ pc[t] \in Working \/ Ending(t)

Owned ==
  /\ \A t \in Threads : Adding(t) => New(t)
  /\ \A t \in Threads : pc[t] \in Working => Busy(t)
  /\ \A t \in Threads : Ending(t) => Gone(t)
  /\ \A t \in Threads : pc[t] \in {"match", "kill"} => Known(target[t])
  /\ \A t, u \in Threads : Owning(t) /\ Owning(u) /\ cur[t] = cur[u] => t = u

\* What the state of a session says about the rest of it.
States ==
  /\ \A s \in InPs : status[s] # "absent"
  /\ \A s \in Sessions :
       /\ status[s] = "absent" => state[s] = "NONE"
       /\ state[s] = "BUSY" => inuse[s]
       /\ ended[s] = IF state[s] = "INVALID" THEN 1 ELSE 0

\* Until a removal times out, no session in the structure is freed.
Intact == ~delFailed =>
  /\ fault \subseteq {"use", "exit"}
  /\ \A s \in InPs : ~Freed(s)
  /\ \A t \in Threads : pc[t] = "free" => cur[t] \notin InPs

IInv == Typed /\ Once /\ Polling /\ Owned /\ States /\ Intact

-----------------------------------------------------------------------------
(***************************************************************************)
(* The array of sessions.                                                  *)
(***************************************************************************)
\* A session is in the structure when it is at some index.
LEMMA InPsIs ==
  ASSUME NEW s
  PROVE  s \in InPs <=> \E k \in 1 .. Len(sessions) : sessions[k] = s
  BY DEF InPs

LEMMA InPsType ==
  ASSUME Typed
  PROVE  InPs \subseteq Sessions
  BY DEF Typed, InPs

\* The session a poll is at is in the structure.
LEMMA HereIs ==
  ASSUME IInv, NEW t \in Threads, pc[t] = "scan"
  PROVE  t \in holder /\ Here(t) \in InPs /\ Here(t) \in Sessions
  <1>1. i[t] \in Nat /\ i[t] < Len(sessions) /\ t \in holder /\ Len(sessions) \in Nat
    BY DEF IInv, Typed, Polling
  <1>2. i[t] + 1 \in 1 .. Len(sessions)
    BY <1>1
  <1> QED
    BY <1>1, <1>2, InPsIs, InPsType DEF Here, IInv

\* Removing a session: the others stay, each once.
LEMMA WithoutIs ==
  ASSUME Typed, Once, NEW s \in InPs, sessions' = Without(s)
  PROVE  /\ sessions' \in Seq(Sessions)
         /\ Len(sessions') = Len(sessions) - 1
         /\ Once'
         /\ InPs' = InPs \ {s}
  <1>1. PICK k \in 1 .. Len(sessions) : sessions[k] = s
    BY InPsIs
  <1>2. PICK n \in Nat : n = Len(sessions) /\ n # 0
    BY <1>1 DEF Typed
  <1>3. k = CHOOSE x \in 1 .. n : sessions[x] = s
    BY <1>1, <1>2 DEF Once
  <1>4. sessions' = [m \in 1 .. n - 1 |-> IF m = k THEN sessions[n] ELSE sessions[m]]
    BY <1>2, <1>3 DEF Without
  <1>5. \A m \in 1 .. n : sessions[m] \in Sessions
    BY <1>2 DEF Typed
  <1>6. sessions' \in [1 .. n - 1 -> Sessions]
    BY <1>2, <1>4, <1>5
  <1>7. sessions' \in Seq(Sessions) /\ Len(sessions') = n - 1
    BY <1>2, <1>6
  <1>8. Once'
    <2> SUFFICES ASSUME NEW a \in 1 .. n - 1, NEW b \in 1 .. n - 1, sessions'[a] = sessions'[b]
                 PROVE  a = b
      BY <1>7 DEF Once
    <2> QED
      BY <1>2, <1>4 DEF Once
  <1>9. ASSUME NEW x PROVE x \in InPs' <=> x \in InPs \ {s}
    <2>1. x \in InPs' <=> \E m \in 1 .. n - 1 : sessions'[m] = x
      BY <1>7 DEF InPs
    <2>2. x \in InPs <=> \E m \in 1 .. n : sessions[m] = x
      BY <1>2 DEF InPs
    <2>3. ASSUME NEW m \in 1 .. n - 1, sessions'[m] = x
          PROVE  x \in InPs \ {s}
      BY <1>1, <1>2, <1>4, <2>2, <2>3 DEF Once
    <2>4. ASSUME NEW m \in 1 .. n, sessions[m] = x, x # s
          PROVE  \E a \in 1 .. n - 1 : sessions'[a] = x
      <3>1. CASE m = n
        BY <1>1, <1>2, <1>4, <2>4, <3>1
      <3>2. CASE m # n
        BY <1>1, <1>2, <1>4, <2>4, <3>2
      <3> QED
        BY <3>1, <3>2
    <2> QED
      BY <2>1, <2>2, <2>3, <2>4
  <1> QED
    BY <1>2, <1>7, <1>8, <1>9

\* Adding a new one.
LEMMA AppendIs ==
  ASSUME Typed, Once, NEW s \in Sessions \ InPs, sessions' = Append(sessions, s)
  PROVE  /\ sessions' \in Seq(Sessions)
         /\ Len(sessions') = Len(sessions) + 1
         /\ Once'
         /\ InPs' = InPs \cup {s}
  <1>1. PICK n \in Nat : n = Len(sessions)
    BY DEF Typed
  <1>2. /\ sessions' \in Seq(Sessions) /\ Len(sessions') = n + 1
        /\ \A m \in 1 .. n : sessions'[m] = sessions[m]
        /\ sessions'[n + 1] = s
    BY <1>1 DEF Typed
  <1>3. \A m \in 1 .. n : sessions[m] # s
    BY <1>1 DEF InPs
  <1>4. Once'
    <2> SUFFICES ASSUME NEW a \in 1 .. n + 1, NEW b \in 1 .. n + 1, sessions'[a] = sessions'[b]
                 PROVE  a = b
      BY <1>2 DEF Once
    <2> QED
      BY <1>1, <1>2, <1>3 DEF Once
  <1>5. ASSUME NEW x PROVE x \in InPs' <=> x \in InPs \cup {s}
    <2>1. x \in InPs' <=> \E m \in 1 .. n + 1 : sessions'[m] = x
      BY <1>2 DEF InPs
    <2>2. x \in InPs <=> \E m \in 1 .. n : sessions[m] = x
      BY <1>1 DEF InPs
    <2> QED
      BY <1>1, <1>2, <2>1, <2>2
  <1> QED
    BY <1>1, <1>2, <1>4, <1>5

LEMMA CardinalityIs == Cardinality(Sessions) \in Nat /\ 0 <= Cardinality(Sessions)
  <1>1. Cardinality(Sessions) \in Nat
    BY FS_CardinalityType, SessionsAssumption
  <1> QED
    BY <1>1

\* There are no more sessions in the structure than sessions.
LEMMA Bounded ==
  ASSUME Typed, Once
  PROVE  Len(sessions) \in Nat /\ Cardinality(Sessions) \in Nat
         /\ Len(sessions) <= Cardinality(Sessions)
  <1>1. PICK n \in Nat : n = Len(sessions)
    BY DEF Typed
  <1>2. sessions \in [1 .. n -> Sessions]
    BY <1>1 DEF Typed
  <1>3. sessions \in Injection(1 .. n, Sessions)
    BY <1>1, <1>2 DEF Once, Injection, IsInjective
  <1>4. Cardinality(1 .. n) = n
    <2>1. 1 \in Int /\ n \in Int
      BY <1>1
    <2>2. Cardinality(1 .. n) = IF 1 > n THEN 0 ELSE n - 1 + 1
      BY <2>1, FS_Interval
    <2> QED
      BY <1>1, <2>2
  <1> QED
    BY <1>1, <1>3, <1>4, FS_Injection, FS_CardinalityType, SessionsAssumption

-----------------------------------------------------------------------------
(***************************************************************************)
(* What each step does to the invariant.                                   *)
(***************************************************************************)
USE DEF Goto, poll, sess, local, hist, Adding, Ending, Owning, Seeking, Freed, Use, Dispose

\* A thread that owns no session and does not poll goes elsewhere, perhaps after
\* an unlocked use of one.
LEMMA MoveKeeps ==
  ASSUME IInv, NEW t \in Threads,
         pc[t] \in {"top", "poll"} \cup Loose,
         NEW place \in {"top", "poll", "end"},
         Goto(t, place),
         cur' \in {cur, [cur EXCEPT ![t] = NoSession]},
         fault' \in {fault, fault \cup {"use"}},
         UNCHANGED <<poll, sess, target, i, j, tries, quit, ended, delFailed>>
  PROVE  IInv'
  <1>1. InPs' = InPs
    BY DEF InPs, Loose
  <1>2. Typed'
    <2>1. cur' \in [Threads -> Sessions \cup {NoSession}]
      BY DEF IInv, Typed
    <2>2. pc' \in [Threads -> Places] /\ fault' \subseteq {"poll", "use", "free", "exit"}
      BY DEF IInv, Typed, Places
    <2> QED
      BY <2>1, <2>2 DEF IInv, Typed
  <1>3. Once'
    BY <1>1 DEF IInv, Once, Loose
  <1>4. Polling'
    BY <1>1, CardinalityIs DEF IInv, Typed, Polling, Working, Loose
  <1>5. \A u \in Threads : Adding(u)' => New(u)'
    BY <1>1, InPsType, SessionsAssumption DEF IInv, Typed, Owned, New, Busy, Gone,
       States, Known, Working, Loose
  <1>6. \A u \in Threads : pc'[u] \in Working => Busy(u)'
    BY <1>1, InPsType, SessionsAssumption DEF IInv, Typed, Owned, New, Busy, Gone,
       Working, Loose
  <1>7. \A u \in Threads : Ending(u)' => Gone(u)'
    BY <1>1, InPsType, SessionsAssumption DEF IInv, Typed, Owned, New, Busy, Gone,
       Working, Loose
  <1>8. \A u \in Threads : pc'[u] \in {"match", "kill"} => Known(target[u])'
    BY <1>1, InPsType, SessionsAssumption DEF IInv, Typed, Owned, New, Busy, Gone,
       Known, States, Working, Loose
  <1>9. \A u, v \in Threads : Owning(u)' /\ Owning(v)' /\ cur'[u] = cur'[v] => u = v
    BY <1>1, InPsType, SessionsAssumption DEF IInv, Typed, Owned, New, Busy, Gone,
       Working, Loose
  <1>10. States'
    BY <1>1, InPsType, SessionsAssumption DEF IInv, Typed, Owned, New, Busy, Gone,
       States, Working, Loose
  <1>11. Intact'
    BY <1>1, InPsType, SessionsAssumption DEF IInv, Typed, Owned, New, Busy, Gone,
       Intact, Working, Loose
  <1> QED
    BY <1>1, <1>2, <1>3, <1>4, <1>5, <1>6, <1>7, <1>8, <1>9, <1>10, <1>11 DEF IInv,
       Owned

\* worker_thread has a new session, from an endpoint or a channel.
LEMMA OpenKeeps ==
  ASSUME IInv, NEW t \in Threads,
         pc[t] \in {"top", "ssh"},
         NEW place \in {"add", "channel"},
         Goto(t, place),
         NEW s \in Sessions,
         status[s] = "absent",
         status' = [status EXCEPT ![s] = "RUNNING"],
         cur' = [cur EXCEPT ![t] = s],
         fault' \in {fault, fault \cup {"use"}},
         UNCHANGED <<poll, inuse, input, target, i, j, tries, quit, ended, delFailed>>
  PROVE  IInv'
  <1>1. InPs' = InPs
    BY DEF InPs, States
  <1>2. Typed'
    <2>1. pc' \in [Threads -> Places] /\ fault' \subseteq {"poll", "use", "free", "exit"}
      BY DEF IInv, Typed, Places
    <2> QED
      BY <2>1 DEF IInv, Typed
  <1>3. Once'
    BY <1>1 DEF IInv, Once, States
  <1>4. Polling'
    BY <1>1, CardinalityIs DEF IInv, Typed, Polling, Working, States
  <1>5. \A u \in Threads : Adding(u)' => New(u)'
    BY <1>1, InPsType, SessionsAssumption DEF IInv, Typed, Owned, New, Busy, Gone,
       States, Known, Working
  <1>6. \A u \in Threads : pc'[u] \in Working => Busy(u)'
    BY <1>1, InPsType, SessionsAssumption DEF IInv, Typed, Owned, New, Busy, Gone,
       Working, States
  <1>7. \A u \in Threads : Ending(u)' => Gone(u)'
    BY <1>1, InPsType, SessionsAssumption DEF IInv, Typed, Owned, New, Busy, Gone,
       Working, States
  <1>8. \A u \in Threads : pc'[u] \in {"match", "kill"} => Known(target[u])'
    BY <1>1, InPsType, SessionsAssumption DEF IInv, Typed, Owned, New, Busy, Gone,
       Known, States, Working
  <1>9. \A u, v \in Threads : Owning(u)' /\ Owning(v)' /\ cur'[u] = cur'[v] => u = v
    BY <1>1, InPsType, SessionsAssumption DEF IInv, Typed, Owned, New, Busy, Gone,
       Working, States
  <1>10. States'
    BY <1>1, InPsType, SessionsAssumption DEF IInv, Typed, Owned, New, Busy, Gone,
       States, Working
  <1>11. Intact'
    BY <1>1, InPsType, SessionsAssumption DEF IInv, Typed, Owned, New, Busy, Gone,
       Intact, Working, States
  <1> QED
    BY <1>1, <1>2, <1>3, <1>4, <1>5, <1>6, <1>7, <1>8, <1>9, <1>10, <1>11 DEF IInv,
       Owned

\* The session is in the structure.
LEMMA AddKeeps ==
  ASSUME IInv, NEW t \in Threads,
         nc_ps_add_session(t)
  PROVE  IInv'
  <1>1. /\ sessions' \in Seq(Sessions) /\ Len(sessions') = Len(sessions) + 1 /\ Once'
        /\ InPs' = InPs \cup {cur[t]} /\ cur[t] \in Sessions \ InPs
    BY AppendIs DEF IInv, Owned, New, nc_ps_add_session
  <1>2. Typed'
    BY <1>1, InPsType, SessionsAssumption DEF IInv, Typed, Places, Working, Loose, Owned, New,
       Busy, Gone, nc_ps_add_session, AfterAdd, Free
  <1>4. Polling'
    BY <1>1 DEF IInv, Typed, Polling, Working, nc_ps_add_session, AfterAdd, Free
  <1>5. \A u \in Threads : Adding(u)' => New(u)'
    BY <1>1, InPsType, SessionsAssumption DEF IInv, Typed, Owned, New, Busy, Gone,
       States, Known, Working, nc_ps_add_session, AfterAdd, Free
  <1>6. \A u \in Threads : pc'[u] \in Working => Busy(u)'
    BY <1>1, InPsType, SessionsAssumption DEF IInv, Typed, Owned, New, Busy, Gone,
       Working, nc_ps_add_session, AfterAdd, Free
  <1>7. \A u \in Threads : Ending(u)' => Gone(u)'
    BY <1>1, InPsType, SessionsAssumption DEF IInv, Typed, Owned, New, Busy, Gone,
       Working, nc_ps_add_session, AfterAdd, Free
  <1>8. \A u \in Threads : pc'[u] \in {"match", "kill"} => Known(target[u])'
    BY <1>1, InPsType, SessionsAssumption DEF IInv, Typed, Owned, New, Busy, Gone,
       Known, States, Working, nc_ps_add_session, AfterAdd, Free
  <1>9. \A u, v \in Threads : Owning(u)' /\ Owning(v)' /\ cur'[u] = cur'[v] => u = v
    BY <1>1, InPsType, SessionsAssumption DEF IInv, Typed, Owned, New, Busy, Gone,
       Working, nc_ps_add_session, AfterAdd, Free
  <1>10. States'
    BY <1>1, InPsType, SessionsAssumption DEF IInv, Typed, Owned, New, Busy, Gone,
       States, Working, nc_ps_add_session, AfterAdd, Free
  <1>11. Intact'
    BY <1>1, InPsType, SessionsAssumption DEF IInv, Typed, Owned, New, Busy, Gone,
       Intact, Working, nc_ps_add_session, AfterAdd, Free
  <1> QED
    BY <1>1, <1>2, <1>4, <1>5, <1>6, <1>7, <1>8, <1>9, <1>10, <1>11 DEF IInv, Owned

\* It cannot be added and is freed.
LEMMA DropKeeps ==
  ASSUME IInv, NEW t \in Threads,
         Adding(t),
         Dispose(cur[t]),
         cur' = [cur EXCEPT ![t] = NoSession],
         Goto(t, AfterAdd(t)),
         tries' = [tries EXCEPT ![t] = 0],
         UNCHANGED <<poll, inuse, target, i, j, quit, hist>>
  PROVE  IInv'
  <1>1. InPs' = InPs
    BY DEF InPs, AfterAdd
  <1>2. Typed'
    BY <1>1, InPsType, SessionsAssumption DEF IInv, Typed, Places, Working, Loose, Owned, New,
       Busy, Gone, AfterAdd
  <1>3. Once'
    BY <1>1 DEF IInv, Once, AfterAdd
  <1>4. Polling'
    BY <1>1 DEF IInv, Typed, Polling, Working, AfterAdd
  <1>5. \A u \in Threads : Adding(u)' => New(u)'
    BY <1>1, InPsType, SessionsAssumption DEF IInv, Typed, Owned, New, Busy, Gone,
       States, Known, Working, AfterAdd
  <1>6. \A u \in Threads : pc'[u] \in Working => Busy(u)'
    BY <1>1, InPsType, SessionsAssumption DEF IInv, Typed, Owned, New, Busy, Gone,
       Working, AfterAdd
  <1>7. \A u \in Threads : Ending(u)' => Gone(u)'
    BY <1>1, InPsType, SessionsAssumption DEF IInv, Typed, Owned, New, Busy, Gone,
       Working, AfterAdd
  <1>8. \A u \in Threads : pc'[u] \in {"match", "kill"} => Known(target[u])'
    BY <1>1, InPsType, SessionsAssumption DEF IInv, Typed, Owned, New, Busy, Gone,
       Known, States, Working, AfterAdd
  <1>9. \A u, v \in Threads : Owning(u)' /\ Owning(v)' /\ cur'[u] = cur'[v] => u = v
    BY <1>1, InPsType, SessionsAssumption DEF IInv, Typed, Owned, New, Busy, Gone,
       Working, AfterAdd
  <1>10. States'
    BY <1>1, InPsType, SessionsAssumption DEF IInv, Typed, Owned, New, Busy, Gone,
       States, Working, AfterAdd
  <1>11. Intact'
    BY <1>1, InPsType, SessionsAssumption DEF IInv, Typed, Owned, New, Busy, Gone,
       Intact, Working, AfterAdd
  <1> QED
    BY <1>1, <1>2, <1>3, <1>4, <1>5, <1>6, <1>7, <1>8, <1>9, <1>10, <1>11 DEF IInv,
       Owned

\* A thread begins to poll.
LEMMA LockKeeps ==
  ASSUME IInv, NEW t \in Threads,
         pc[t] = "poll",
         Free,
         sessions # <<>>,
         Goto(t, "scan"),
         holder' = holder \cup {t},
         i' = [i EXCEPT ![t] = StartIndex],
         j' = [j EXCEPT ![t] = StartIndex],
         UNCHANGED <<sessions, last, state, sess, cur, target, tries, quit, hist>>
  PROVE  IInv'
  <1>1. InPs' = InPs
    BY DEF InPs, Free
  <1>a. StartIndex \in Nat /\ StartIndex < Len(sessions)
    BY DEF IInv, Typed, Polling, StartIndex
  <1>2. Typed'
    BY <1>1, <1>a, InPsType, SessionsAssumption DEF IInv, Typed, Places, Working, Loose, Owned,
       New, Busy, Gone, Free
  <1>3. Once'
    BY <1>1 DEF IInv, Once, Free
  <1>4. Polling'
    BY <1>1, <1>a DEF IInv, Typed, Polling, Working, Free
  <1>5. \A u \in Threads : Adding(u)' => New(u)'
    BY <1>1, <1>a, InPsType, SessionsAssumption DEF IInv, Typed, Owned, New, Busy, Gone,
       States, Known, Working, Free
  <1>6. \A u \in Threads : pc'[u] \in Working => Busy(u)'
    BY <1>1, <1>a, InPsType, SessionsAssumption DEF IInv, Typed, Owned, New, Busy, Gone,
       Working, Free
  <1>7. \A u \in Threads : Ending(u)' => Gone(u)'
    BY <1>1, <1>a, InPsType, SessionsAssumption DEF IInv, Typed, Owned, New, Busy, Gone,
       Working, Free
  <1>8. \A u \in Threads : pc'[u] \in {"match", "kill"} => Known(target[u])'
    BY <1>1, <1>a, InPsType, SessionsAssumption DEF IInv, Typed, Owned, New, Busy, Gone,
       Known, States, Working, Free
  <1>9. \A u, v \in Threads : Owning(u)' /\ Owning(v)' /\ cur'[u] = cur'[v] => u = v
    BY <1>1, <1>a, InPsType, SessionsAssumption DEF IInv, Typed, Owned, New, Busy, Gone,
       Working, Free
  <1>10. States'
    BY <1>1, <1>a, InPsType, SessionsAssumption DEF IInv, Typed, Owned, New, Busy, Gone,
       States, Working, Free
  <1>11. Intact'
    BY <1>1, <1>a, InPsType, SessionsAssumption DEF IInv, Typed, Owned, New, Busy, Gone,
       Intact, Working, Free
  <1> QED
    BY <1>1, <1>2, <1>3, <1>4, <1>5, <1>6, <1>7, <1>8, <1>9, <1>10, <1>11 DEF IInv,
       Owned

\* It goes on to the next session.
LEMMA SkipKeeps ==
  ASSUME IInv, NEW t \in Threads,
         SkipSession(t)
  PROVE  IInv'
  <1>0. PICK h \in InPs : h = Here(t) /\ h \in Sessions /\ t \in holder
    BY HereIs DEF SkipSession, Silent, Advance
  <1>1. InPs' = InPs
    BY DEF InPs, SkipSession, Silent, Advance
  <1>a. NextIndex(t) \in Nat /\ NextIndex(t) < Len(sessions)
    BY <1>0 DEF IInv, Typed, Polling, NextIndex
  <1>2. Typed'
    BY <1>0, <1>1, <1>a, InPsType, SessionsAssumption DEF IInv, Typed, Places, Working, Loose,
       Owned, New, Busy, Gone, SkipSession, Silent, Advance
  <1>3. Once'
    BY <1>1 DEF IInv, Once, SkipSession, Silent, Advance
  <1>4. Polling'
    BY <1>0, <1>1, <1>a DEF IInv, Typed, Polling, Working, SkipSession, Silent, Advance
  <1>5. \A u \in Threads : Adding(u)' => New(u)'
    BY <1>0, <1>1, <1>a, InPsType, SessionsAssumption DEF IInv, Typed, Owned, New, Busy,
       Gone, States, Known, Working, SkipSession, Silent, Advance
  <1>6. \A u \in Threads : pc'[u] \in Working => Busy(u)'
    BY <1>0, <1>1, <1>a, InPsType, SessionsAssumption DEF IInv, Typed, Owned, New, Busy,
       Gone, Working, SkipSession, Silent, Advance
  <1>7. \A u \in Threads : Ending(u)' => Gone(u)'
    BY <1>0, <1>1, <1>a, InPsType, SessionsAssumption DEF IInv, Typed, Owned, New, Busy,
       Gone, Working, SkipSession, Silent, Advance
  <1>8. \A u \in Threads : pc'[u] \in {"match", "kill"} => Known(target[u])'
    BY <1>0, <1>1, <1>a, InPsType, SessionsAssumption DEF IInv, Typed, Owned, New, Busy,
       Gone, Known, States, Working, SkipSession, Silent, Advance
  <1>9. \A u, v \in Threads : Owning(u)' /\ Owning(v)' /\ cur'[u] = cur'[v] => u = v
    BY <1>0, <1>1, <1>a, InPsType, SessionsAssumption DEF IInv, Typed, Owned, New, Busy,
       Gone, Working, SkipSession, Silent, Advance
  <1>10. States'
    BY <1>0, <1>1, <1>a, InPsType, SessionsAssumption DEF IInv, Typed, Owned, New, Busy,
       Gone, States, Working, SkipSession, Silent, Advance
  <1>11. Intact'
    BY <1>0, <1>1, <1>a, InPsType, SessionsAssumption DEF IInv, Typed, Owned, New, Busy,
       Gone, Intact, Working, SkipSession, Silent, Advance
  <1> QED
    BY <1>1, <1>2, <1>3, <1>4, <1>5, <1>6, <1>7, <1>8, <1>9, <1>10, <1>11 DEF IInv,
       Owned

\* It gives the structure back and has no session to go on with; the
\* connection of the one it was at may be broken.
LEMMA LeaveKeeps ==
  ASSUME IInv, NEW t \in Threads,
         pc[t] = "scan",
         ~Freed(Here(t)),
         status[Here(t)] = "RUNNING" \/ status' = status,
         status' \in {status, [status EXCEPT ![Here(t)] = "INVALID"]},
         input' \in [Sessions -> {"none", "data"}],
         last' \in {last, i[t]},
         cur' \in {cur, [cur EXCEPT ![t] = Here(t)]},
         Release(t),
         NEW place \in {"top", "after", "ssh"},
         Goto(t, place),
         UNCHANGED <<sessions, state, inuse, target, tries, quit, hist>>
  PROVE  IInv'
  <1>0. PICK h \in InPs : h = Here(t) /\ h \in Sessions /\ t \in holder
    BY HereIs DEF Release
  <1>1. InPs' = InPs
    BY DEF InPs, Release
  <1>2. Typed'
    <2>1. status' \in [Sessions -> {"absent", "RUNNING", "INVALID", "freed"}]
      BY <1>0 DEF IInv, Typed
    <2>2. cur' \in [Threads -> Sessions \cup {NoSession}]
      BY <1>0 DEF IInv, Typed
    <2>3. last' \in Nat
      BY DEF IInv, Typed
    <2>4. /\ holder' \subseteq Threads /\ pc' \in [Threads -> Places]
          /\ i' \in [Threads -> Nat] /\ j' \in [Threads -> Nat]
      BY DEF IInv, Typed, Places, Loose, Release
    <2> QED
      BY <2>1, <2>2, <2>3, <2>4 DEF IInv, Typed
  <1>3. Once'
    BY <1>1 DEF IInv, Once, Release
  <1>4. Polling'
    BY <1>0, <1>1 DEF IInv, Typed, Polling, Working, Release
  <1>5. \A u \in Threads : Adding(u)' => New(u)'
    BY <1>0, <1>1, InPsType, SessionsAssumption DEF IInv, Typed, Owned, New, Busy, Gone,
       States, Known, Working, Release
  <1>6. \A u \in Threads : pc'[u] \in Working => Busy(u)'
    BY <1>0, <1>1, InPsType, SessionsAssumption DEF IInv, Typed, Owned, New, Busy, Gone,
       Working, Release
  <1>7. \A u \in Threads : Ending(u)' => Gone(u)'
    BY <1>0, <1>1, InPsType, SessionsAssumption DEF IInv, Typed, Owned, New, Busy, Gone,
       Working, Release
  <1>8. \A u \in Threads : pc'[u] \in {"match", "kill"} => Known(target[u])'
    BY <1>0, <1>1, InPsType, SessionsAssumption DEF IInv, Typed, Owned, New, Busy, Gone,
       Known, States, Working, Release
  <1>9. \A u, v \in Threads : Owning(u)' /\ Owning(v)' /\ cur'[u] = cur'[v] => u = v
    BY <1>0, <1>1, InPsType, SessionsAssumption DEF IInv, Typed, Owned, New, Busy, Gone,
       Working, Release
  <1>10. States'
    BY <1>0, <1>1, InPsType, SessionsAssumption DEF IInv, Typed, Owned, New, Busy, Gone,
       States, Working, Release
  <1>11. Intact'
    BY <1>0, <1>1, InPsType, SessionsAssumption DEF IInv, Typed, Owned, New, Busy, Gone,
       Intact, Working, Release
  <1> QED
    BY <1>1, <1>2, <1>3, <1>4, <1>5, <1>6, <1>7, <1>8, <1>9, <1>10, <1>11 DEF IInv,
       Owned

\* It finds a session that was freed, which is in the structure because its
\* removal timed out.
LEMMA PollFreedKeeps ==
  ASSUME IInv, NEW t \in Threads,
         PollFreed(t)
  PROVE  IInv'
  <1>0. PICK h \in InPs : h = Here(t) /\ h \in Sessions /\ t \in holder
    BY HereIs DEF PollFreed
  <1>1. InPs' = InPs
    BY DEF InPs, PollFreed
  <1>2. Typed'
    BY <1>0, <1>1, InPsType, SessionsAssumption DEF IInv, Typed, Places, Working, Loose, Owned,
       New, Busy, Gone, PollFreed
  <1>3. Once'
    BY <1>1 DEF IInv, Once, PollFreed
  <1>4. Polling'
    BY <1>0, <1>1 DEF IInv, Typed, Polling, Working, PollFreed
  <1>5. \A u \in Threads : Adding(u)' => New(u)'
    BY <1>0, <1>1, InPsType, SessionsAssumption DEF IInv, Typed, Owned, New, Busy, Gone,
       States, Known, Working, PollFreed
  <1>6. \A u \in Threads : pc'[u] \in Working => Busy(u)'
    BY <1>0, <1>1, InPsType, SessionsAssumption DEF IInv, Typed, Owned, New, Busy, Gone,
       Working, PollFreed
  <1>7. \A u \in Threads : Ending(u)' => Gone(u)'
    BY <1>0, <1>1, InPsType, SessionsAssumption DEF IInv, Typed, Owned, New, Busy, Gone,
       Working, PollFreed
  <1>8. \A u \in Threads : pc'[u] \in {"match", "kill"} => Known(target[u])'
    BY <1>0, <1>1, InPsType, SessionsAssumption DEF IInv, Typed, Owned, New, Busy, Gone,
       Known, States, Working, PollFreed
  <1>9. \A u, v \in Threads : Owning(u)' /\ Owning(v)' /\ cur'[u] = cur'[v] => u = v
    BY <1>0, <1>1, InPsType, SessionsAssumption DEF IInv, Typed, Owned, New, Busy, Gone,
       Working, PollFreed
  <1>10. States'
    BY <1>0, <1>1, InPsType, SessionsAssumption DEF IInv, Typed, Owned, New, Busy, Gone,
       States, Working, PollFreed
  <1>11. Intact'
    BY <1>0, <1>1, InPsType, SessionsAssumption DEF IInv, Typed, Owned, New, Busy, Gone,
       Intact, Working, PollFreed
  <1> QED
    BY <1>1, <1>2, <1>3, <1>4, <1>5, <1>6, <1>7, <1>8, <1>9, <1>10, <1>11 DEF IInv,
       Owned

\* It finds that a session has ended.
LEMMA EndedKeeps ==
  ASSUME IInv, NEW t \in Threads,
         Available(t),
         status[Here(t)] # "absent",
         status' = [status EXCEPT ![Here(t)] = "INVALID"],
         state' = [state EXCEPT ![Here(t)] = "INVALID"],
         ended' = [ended EXCEPT ![Here(t)] = @ + 1],
         Event(t, Here(t), "del"),
         UNCHANGED <<inuse, input, delFailed, fault>>
  PROVE  IInv'
  <1>0. PICK h \in InPs : h = Here(t) /\ h \in Sessions /\ t \in holder
    BY HereIs DEF Available, Event, Release, States
  <1>1. InPs' = InPs
    BY DEF InPs, Available, Event, Release, States
  <1>2. Typed'
    BY <1>0, <1>1, InPsType, SessionsAssumption DEF IInv, Typed, Places, Working, Loose, Owned,
       New, Busy, Gone, Available, Event, Release, States
  <1>3. Once'
    BY <1>1 DEF IInv, Once, Available, Event, Release, States
  <1>4. Polling'
    BY <1>0, <1>1 DEF IInv, Typed, Polling, Working, Available, Event, Release, States
  <1>5. \A u \in Threads : Adding(u)' => New(u)'
    BY <1>0, <1>1, InPsType, SessionsAssumption DEF IInv, Typed, Owned, New, Busy, Gone,
       States, Known, Working, Available, Event, Release
  <1>6. \A u \in Threads : pc'[u] \in Working => Busy(u)'
    BY <1>0, <1>1, InPsType, SessionsAssumption DEF IInv, Typed, Owned, New, Busy, Gone,
       Working, Available, Event, Release, States
  <1>7. \A u \in Threads : Ending(u)' => Gone(u)'
    BY <1>0, <1>1, InPsType, SessionsAssumption DEF IInv, Typed, Owned, New, Busy, Gone,
       Working, Available, Event, Release, States
  <1>8. \A u \in Threads : pc'[u] \in {"match", "kill"} => Known(target[u])'
    BY <1>0, <1>1, InPsType, SessionsAssumption DEF IInv, Typed, Owned, New, Busy, Gone,
       Known, States, Working, Available, Event, Release
  <1>9. \A u, v \in Threads : Owning(u)' /\ Owning(v)' /\ cur'[u] = cur'[v] => u = v
    BY <1>0, <1>1, InPsType, SessionsAssumption DEF IInv, Typed, Owned, New, Busy, Gone,
       Working, Available, Event, Release, States
  <1>10. States'
    BY <1>0, <1>1, InPsType, SessionsAssumption DEF IInv, Typed, Owned, New, Busy, Gone,
       States, Working, Available, Event, Release
  <1>11. Intact'
    BY <1>0, <1>1, InPsType, SessionsAssumption DEF IInv, Typed, Owned, New, Busy, Gone,
       Intact, Working, Available, Event, Release, States
  <1> QED
    BY <1>1, <1>2, <1>3, <1>4, <1>5, <1>6, <1>7, <1>8, <1>9, <1>10, <1>11 DEF IInv,
       Owned

\* It finds a request, and owns the session from here on.
LEMMA RpcKeeps ==
  ASSUME IInv, NEW t \in Threads,
         FoundRpc(t)
  PROVE  IInv'
  <1>0. PICK h \in InPs : h = Here(t) /\ h \in Sessions /\ t \in holder
    BY HereIs DEF FoundRpc, Available, Event, Release, States
  <1>1. InPs' = InPs
    BY DEF InPs, FoundRpc, Available, Event, Release, States
  <1>2. Typed'
    BY <1>0, <1>1, InPsType, SessionsAssumption DEF IInv, Typed, Places, Working, Loose, Owned,
       New, Busy, Gone, FoundRpc, Available, Event, Release, States
  <1>3. Once'
    BY <1>1 DEF IInv, Once, FoundRpc, Available, Event, Release, States
  <1>4. Polling'
    BY <1>0, <1>1 DEF IInv, Typed, Polling, Working, FoundRpc, Available, Event,
       Release, States
  <1>5. \A u \in Threads : Adding(u)' => New(u)'
    BY <1>0, <1>1, InPsType, SessionsAssumption DEF IInv, Typed, Owned, New, Busy, Gone,
       States, Known, Working, FoundRpc, Available, Event, Release
  <1>6. \A u \in Threads : pc'[u] \in Working => Busy(u)'
    BY <1>0, <1>1, InPsType, SessionsAssumption DEF IInv, Typed, Owned, New, Busy, Gone,
       Working, FoundRpc, Available, Event, Release, States
  <1>7. \A u \in Threads : Ending(u)' => Gone(u)'
    BY <1>0, <1>1, InPsType, SessionsAssumption DEF IInv, Typed, Owned, New, Busy, Gone,
       Working, FoundRpc, Available, Event, Release, States
  <1>8. \A u \in Threads : pc'[u] \in {"match", "kill"} => Known(target[u])'
    BY <1>0, <1>1, InPsType, SessionsAssumption DEF IInv, Typed, Owned, New, Busy, Gone,
       Known, States, Working, FoundRpc, Available, Event, Release
  <1>9. \A u, v \in Threads : Owning(u)' /\ Owning(v)' /\ cur'[u] = cur'[v] => u = v
    BY <1>0, <1>1, InPsType, SessionsAssumption DEF IInv, Typed, Owned, New, Busy, Gone,
       Working, FoundRpc, Available, Event, Release, States
  <1>10. States'
    BY <1>0, <1>1, InPsType, SessionsAssumption DEF IInv, Typed, Owned, New, Busy, Gone,
       States, Working, FoundRpc, Available, Event, Release
  <1>11. Intact'
    BY <1>0, <1>1, InPsType, SessionsAssumption DEF IInv, Typed, Owned, New, Busy, Gone,
       Intact, Working, FoundRpc, Available, Event, Release, States
  <1> QED
    BY <1>1, <1>2, <1>3, <1>4, <1>5, <1>6, <1>7, <1>8, <1>9, <1>10, <1>11 DEF IInv,
       Owned

\* A thread goes on with the request; the connection may break over it.
LEMMA WorkKeeps ==
  ASSUME IInv, NEW t \in Threads,
         pc[t] \in {"recv", "rpc", "replied", "closed"},
         NEW place \in {"rpc", "replied", "closed", "seek", "finish"},
         Goto(t, place),
         status' \in {status, [status EXCEPT ![cur[t]] = "INVALID"]},
         input' \in [Sessions -> {"none", "data"}],
         UNCHANGED <<poll, inuse, local, quit, hist>>
  PROVE  IInv'
  <1>1. InPs' = InPs
    BY DEF InPs
  <1>2. Typed'
    <2>1. cur[t] \in Sessions
      BY InPsType DEF IInv, Owned, Busy, Working
    <2>2. status' \in [Sessions -> {"absent", "RUNNING", "INVALID", "freed"}]
      BY <2>1 DEF IInv, Typed
    <2> QED
      BY <2>2 DEF IInv, Typed, Places, Working
  <1>3. Once'
    BY <1>1 DEF IInv, Once
  <1>4. Polling'
    <2>1. i[t] = 0 /\ t \notin holder
      BY DEF IInv, Typed, Polling
    <2> QED
      BY <1>1, <2>1, CardinalityIs DEF IInv, Typed, Polling
  <1>5. \A u \in Threads : Adding(u)' => New(u)'
    BY <1>1, InPsType, SessionsAssumption DEF IInv, Typed, Owned, New, Busy, Gone,
       States, Known, Working
  <1>6. \A u \in Threads : pc'[u] \in Working => Busy(u)'
    BY <1>1, InPsType, SessionsAssumption DEF IInv, Typed, Owned, New, Busy, Gone,
       Working
  <1>7. \A u \in Threads : Ending(u)' => Gone(u)'
    BY <1>1, InPsType, SessionsAssumption DEF IInv, Typed, Owned, New, Busy, Gone,
       Working
  <1>8. \A u \in Threads : pc'[u] \in {"match", "kill"} => Known(target[u])'
    BY <1>1, InPsType, SessionsAssumption DEF IInv, Typed, Owned, New, Busy, Gone,
       Known, States, Working
  <1>9. \A u, v \in Threads : Owning(u)' /\ Owning(v)' /\ cur'[u] = cur'[v] => u = v
    BY <1>1, InPsType, SessionsAssumption DEF IInv, Typed, Owned, New, Busy, Gone,
       Working
  <1>10. States'
    BY <1>1, InPsType, SessionsAssumption DEF IInv, Typed, Owned, New, Busy, Gone,
       States, Working
  <1>11. Intact'
    BY <1>1, InPsType, SessionsAssumption DEF IInv, Typed, Owned, New, Busy, Gone,
       Intact, Working
  <1> QED
    BY <1>1, <1>2, <1>3, <1>4, <1>5, <1>6, <1>7, <1>8, <1>9, <1>10, <1>11 DEF IInv,
       Owned

\* A callback gets a session of the structure.
LEMMA GetKeeps ==
  ASSUME IInv, NEW t \in Threads,
         pc[t] = "seek",
         Goto(t, "match"),
         i[t] < Cardinality(Sessions),
         NEW x \in InPs,
         target' = [target EXCEPT ![t] = x],
         UNCHANGED <<poll, sess, cur, i, j, tries, quit, hist>>
  PROVE  IInv'
  <1>1. InPs' = InPs
    BY DEF InPs, States
  <1>2. Typed'
    BY <1>1, InPsType, SessionsAssumption DEF IInv, Typed, Places, Working, Loose,
       Owned, New, Busy, Gone, States
  <1>3. Once'
    BY <1>1 DEF IInv, Once, States
  <1>4. Polling'
    BY <1>1, CardinalityIs DEF IInv, Typed, Polling, Working, States
  <1>5. \A u \in Threads : Adding(u)' => New(u)'
    BY <1>1, InPsType, SessionsAssumption DEF IInv, Typed, Owned, New, Busy, Gone,
       States, Known, Working
  <1>6. \A u \in Threads : pc'[u] \in Working => Busy(u)'
    BY <1>1, InPsType, SessionsAssumption DEF IInv, Typed, Owned, New, Busy, Gone,
       Working, States
  <1>7. \A u \in Threads : Ending(u)' => Gone(u)'
    BY <1>1, InPsType, SessionsAssumption DEF IInv, Typed, Owned, New, Busy, Gone,
       Working, States
  <1>8. \A u \in Threads : pc'[u] \in {"match", "kill"} => Known(target[u])'
    BY <1>1, InPsType, SessionsAssumption DEF IInv, Typed, Owned, New, Busy, Gone,
       Known, States, Working
  <1>9. \A u, v \in Threads : Owning(u)' /\ Owning(v)' /\ cur'[u] = cur'[v] => u = v
    BY <1>1, InPsType, SessionsAssumption DEF IInv, Typed, Owned, New, Busy, Gone,
       Working, States
  <1>10. States'
    BY <1>1, InPsType, SessionsAssumption DEF IInv, Typed, Owned, New, Busy, Gone,
       States, Working
  <1>11. Intact'
    BY <1>1, InPsType, SessionsAssumption DEF IInv, Typed, Owned, New, Busy, Gone,
       Intact, Working, States
  <1> QED
    BY <1>1, <1>2, <1>3, <1>4, <1>5, <1>6, <1>7, <1>8, <1>9, <1>10, <1>11 DEF IInv,
       Owned

\* It goes on, or stops looking.
LEMMA SearchKeeps ==
  ASSUME IInv, NEW t \in Threads,
         Seeking(t),
         NEW place \in {"seek", "replied", "kill"},
         Goto(t, place),
         NEW k \in Nat,
         i' = [i EXCEPT ![t] = k],
         k <= Cardinality(Sessions),
         place = "seek" \/ k = 0,
         target' \in {target, [target EXCEPT ![t] = NoSession]},
         place = "kill" => pc[t] = "match" /\ target' = target,
         fault' \in {fault, fault \cup {"use"}},
         UNCHANGED <<poll, sess, cur, j, tries, quit, ended, delFailed>>
  PROVE  IInv'
  <1>1. InPs' = InPs
    BY DEF InPs, States
  <1>2. Typed'
    <2>1. target' \in [Threads -> Sessions \cup {NoSession}]
      BY DEF IInv, Typed
    <2>2. /\ pc' \in [Threads -> Places] /\ i' \in [Threads -> Nat]
          /\ fault' \subseteq {"poll", "use", "free", "exit"}
      BY DEF IInv, Typed, Places, Working
    <2> QED
      BY <2>1, <2>2 DEF IInv, Typed
  <1>3. Once'
    BY <1>1 DEF IInv, Once, States
  <1>4. Polling'
    BY <1>1, CardinalityIs DEF IInv, Typed, Polling, Working, States
  <1>5. \A u \in Threads : Adding(u)' => New(u)'
    BY <1>1, InPsType, SessionsAssumption DEF IInv, Typed, Owned, New, Busy, Gone,
       States, Known, Working
  <1>6. \A u \in Threads : pc'[u] \in Working => Busy(u)'
    BY <1>1, InPsType, SessionsAssumption DEF IInv, Typed, Owned, New, Busy, Gone,
       Working, States
  <1>7. \A u \in Threads : Ending(u)' => Gone(u)'
    BY <1>1, InPsType, SessionsAssumption DEF IInv, Typed, Owned, New, Busy, Gone,
       Working, States
  <1>8. \A u \in Threads : pc'[u] \in {"match", "kill"} => Known(target[u])'
    BY <1>1, InPsType, SessionsAssumption DEF IInv, Typed, Owned, New, Busy, Gone,
       Known, States, Working
  <1>9. \A u, v \in Threads : Owning(u)' /\ Owning(v)' /\ cur'[u] = cur'[v] => u = v
    BY <1>1, InPsType, SessionsAssumption DEF IInv, Typed, Owned, New, Busy, Gone,
       Working, States
  <1>10. States'
    BY <1>1, InPsType, SessionsAssumption DEF IInv, Typed, Owned, New, Busy, Gone,
       States, Working
  <1>11. Intact'
    BY <1>1, InPsType, SessionsAssumption DEF IInv, Typed, Owned, New, Busy, Gone,
       Intact, Working, States
  <1> QED
    BY <1>1, <1>2, <1>3, <1>4, <1>5, <1>6, <1>7, <1>8, <1>9, <1>10, <1>11 DEF IInv,
       Owned

LEMMA SeekKeeps ==
  ASSUME IInv, NEW t \in Threads, Seek(t)
  PROVE  IInv'
  <1>1. pc[t] = "seek" /\ UNCHANGED <<poll, sess, cur, j, tries, quit, hist>>
    BY DEF Seek
  <1>2. CASE Free /\ i[t] < Len(sessions)
    <2>1. i[t] \in Nat /\ Len(sessions) \in Nat
      BY DEF IInv, Typed
    <2>2. i[t] + 1 \in 1 .. Len(sessions) /\ i[t] < Cardinality(Sessions)
      BY <1>2, <2>1, Bounded DEF IInv
    <2>3. sessions[i[t] + 1] \in InPs
      BY <2>2, InPsIs
    <2>4. /\ target' = [target EXCEPT ![t] = sessions[i[t] + 1]]
          /\ Goto(t, "match") /\ UNCHANGED i
      BY <1>2 DEF Seek
    <2> QED
      BY <1>1, <2>2, <2>3, <2>4, GetKeeps
  <1>3. CASE ~(Free /\ i[t] < Len(sessions))
    <2>1. i' = [i EXCEPT ![t] = 0] /\ Goto(t, "replied") /\ UNCHANGED target
      BY <1>3 DEF Seek
    <2>2. 0 \in Nat /\ 0 <= Cardinality(Sessions) /\ "replied" \in {"seek", "replied", "kill"}
      BY CardinalityIs
    <2> QED
      BY <1>1, <2>1, <2>2, SearchKeeps
  <1> QED
    BY <1>2, <1>3

LEMMA MatchKeeps ==
  ASSUME IInv, NEW t \in Threads, PassOver(t) \/ Match(t)
  PROVE  IInv'
  <1>1. /\ pc[t] = "match" /\ i[t] \in Nat /\ i[t] < Cardinality(Sessions)
        /\ fault' \in {fault, fault \cup {"use"}}
        /\ UNCHANGED <<poll, sess, cur, j, tries, quit, ended, delFailed>>
    BY DEF PassOver, Match, IInv, Typed, Polling
  <1>2. CASE PassOver(t)
    <2>1. /\ i' = [i EXCEPT ![t] = i[t] + 1] /\ i[t] + 1 \in Nat
          /\ i[t] + 1 <= Cardinality(Sessions)
          /\ Goto(t, "seek") /\ target' = [target EXCEPT ![t] = NoSession]
      BY <1>1, <1>2, CardinalityIs DEF PassOver
    <2> QED
      BY <1>1, <2>1, SearchKeeps
  <1>3. CASE Match(t)
    <2>1. i' = [i EXCEPT ![t] = 0]
      BY <1>3 DEF Match
    <2>2. \/ Goto(t, "replied") /\ target' = [target EXCEPT ![t] = NoSession]
          \/ Goto(t, "kill") /\ UNCHANGED target
      BY <1>3 DEF Match
    <2>3. 0 \in Nat /\ 0 <= Cardinality(Sessions)
      BY CardinalityIs
    <2>4. CASE Goto(t, "replied") /\ target' = [target EXCEPT ![t] = NoSession]
      BY <1>1, <2>1, <2>3, <2>4, SearchKeeps
    <2>5. CASE Goto(t, "kill") /\ UNCHANGED target
      BY <1>1, <2>1, <2>3, <2>5, SearchKeeps
    <2> QED
      BY <2>2, <2>4, <2>5
  <1> QED
    BY <1>2, <1>3

\* It kills the session, if there still is one.
LEMMA KillKeeps ==
  ASSUME IInv, NEW t \in Threads,
         Kill(t)
  PROVE  IInv'
  <1>1. InPs' = InPs
    BY DEF InPs, Kill, States
  <1>2. Typed'
    BY <1>1, InPsType, SessionsAssumption DEF IInv, Typed, Places, Working, Loose, Owned, New,
       Busy, Gone, Kill, States
  <1>3. Once'
    BY <1>1 DEF IInv, Once, Kill, States
  <1>4. Polling'
    BY <1>1 DEF IInv, Typed, Polling, Working, Kill, States
  <1>5. \A u \in Threads : Adding(u)' => New(u)'
    BY <1>1, InPsType, SessionsAssumption DEF IInv, Typed, Owned, New, Busy, Gone,
       States, Known, Working, Kill
  <1>6. \A u \in Threads : pc'[u] \in Working => Busy(u)'
    BY <1>1, InPsType, SessionsAssumption DEF IInv, Typed, Owned, New, Busy, Gone,
       Working, Kill, States
  <1>7. \A u \in Threads : Ending(u)' => Gone(u)'
    BY <1>1, InPsType, SessionsAssumption DEF IInv, Typed, Owned, New, Busy, Gone,
       Working, Kill, States
  <1>8. \A u \in Threads : pc'[u] \in {"match", "kill"} => Known(target[u])'
    BY <1>1, InPsType, SessionsAssumption DEF IInv, Typed, Owned, New, Busy, Gone,
       Known, States, Working, Kill
  <1>9. \A u, v \in Threads : Owning(u)' /\ Owning(v)' /\ cur'[u] = cur'[v] => u = v
    BY <1>1, InPsType, SessionsAssumption DEF IInv, Typed, Owned, New, Busy, Gone,
       Working, Kill, States
  <1>10. States'
    BY <1>1, InPsType, SessionsAssumption DEF IInv, Typed, Owned, New, Busy, Gone,
       States, Working, Kill
  <1>11. Intact'
    BY <1>1, InPsType, SessionsAssumption DEF IInv, Typed, Owned, New, Busy, Gone,
       Intact, Working, Kill, States
  <1> QED
    BY <1>1, <1>2, <1>3, <1>4, <1>5, <1>6, <1>7, <1>8, <1>9, <1>10, <1>11 DEF IInv,
       Owned

\* The request is finished, and so is the session.
LEMMA FinishOverKeeps ==
  ASSUME IInv, NEW t \in Threads,
         pc[t] = "finish",
         status[cur[t]] # "RUNNING",
         state' = [state EXCEPT ![cur[t]] = "INVALID"],
         inuse' = [inuse EXCEPT ![cur[t]] = FALSE],
         ended' = [ended EXCEPT ![cur[t]] = @ + 1],
         Goto(t, "del"),
         UNCHANGED <<sessions, last, holder, status, input, local, quit, delFailed, fault>>
  PROVE  IInv'
  <1>1. InPs' = InPs
    BY DEF InPs, States
  <1>2. Typed'
    BY <1>1, InPsType, SessionsAssumption DEF IInv, Typed, Places, Working, Loose,
       Owned, New, Busy, Gone, States
  <1>3. Once'
    BY <1>1 DEF IInv, Once, States
  <1>4. Polling'
    BY <1>1, CardinalityIs DEF IInv, Typed, Polling, Working, States
  <1>5. \A u \in Threads : Adding(u)' => New(u)'
    BY <1>1, InPsType, SessionsAssumption DEF IInv, Typed, Owned, New, Busy, Gone,
       States, Known, Working
  <1>6. \A u \in Threads : pc'[u] \in Working => Busy(u)'
    BY <1>1, InPsType, SessionsAssumption DEF IInv, Typed, Owned, New, Busy, Gone,
       Working, States
  <1>7. \A u \in Threads : Ending(u)' => Gone(u)'
    BY <1>1, InPsType, SessionsAssumption DEF IInv, Typed, Owned, New, Busy, Gone,
       Working, States
  <1>8. \A u \in Threads : pc'[u] \in {"match", "kill"} => Known(target[u])'
    BY <1>1, InPsType, SessionsAssumption DEF IInv, Typed, Owned, New, Busy, Gone,
       Known, States, Working
  <1>9. \A u, v \in Threads : Owning(u)' /\ Owning(v)' /\ cur'[u] = cur'[v] => u = v
    BY <1>1, InPsType, SessionsAssumption DEF IInv, Typed, Owned, New, Busy, Gone,
       Working, States
  <1>10. States'
    BY <1>1, InPsType, SessionsAssumption DEF IInv, Typed, Owned, New, Busy, Gone,
       States, Working
  <1>11. Intact'
    BY <1>1, InPsType, SessionsAssumption DEF IInv, Typed, Owned, New, Busy, Gone,
       Intact, Working, States
  <1> QED
    BY <1>1, <1>2, <1>3, <1>4, <1>5, <1>6, <1>7, <1>8, <1>9, <1>10, <1>11 DEF IInv,
       Owned

\* The request is finished, the session is not.
LEMMA FinishDoneKeeps ==
  ASSUME IInv, NEW t \in Threads,
         pc[t] = "finish",
         state' = [state EXCEPT ![cur[t]] = "NONE"],
         inuse' = [inuse EXCEPT ![cur[t]] = FALSE],
         NEW place \in {"after", "top"},
         Goto(t, place),
         cur' \in {cur, [cur EXCEPT ![t] = NoSession]},
         UNCHANGED <<sessions, last, holder, status, input, target, i, j, tries, quit, hist>>
  PROVE  IInv'
  <1>1. InPs' = InPs
    BY DEF InPs, States
  <1>2. Typed'
    <2>1. cur' \in [Threads -> Sessions \cup {NoSession}]
      BY DEF IInv, Typed
    <2>2. /\ pc' \in [Threads -> Places] /\ inuse' \in [Sessions -> BOOLEAN]
          /\ state' \in [Sessions -> {"NONE", "BUSY", "INVALID"}]
      BY DEF IInv, Typed, Places, Loose
    <2> QED
      BY <2>1, <2>2 DEF IInv, Typed
  <1>3. Once'
    BY <1>1 DEF IInv, Once, States
  <1>4. Polling'
    BY <1>1, CardinalityIs DEF IInv, Typed, Polling, Working, States
  <1>5. \A u \in Threads : Adding(u)' => New(u)'
    BY <1>1, InPsType, SessionsAssumption DEF IInv, Typed, Owned, New, Busy, Gone,
       States, Known, Working
  <1>6. \A u \in Threads : pc'[u] \in Working => Busy(u)'
    BY <1>1, InPsType, SessionsAssumption DEF IInv, Typed, Owned, New, Busy, Gone,
       Working, States
  <1>7. \A u \in Threads : Ending(u)' => Gone(u)'
    BY <1>1, InPsType, SessionsAssumption DEF IInv, Typed, Owned, New, Busy, Gone,
       Working, States
  <1>8. \A u \in Threads : pc'[u] \in {"match", "kill"} => Known(target[u])'
    BY <1>1, InPsType, SessionsAssumption DEF IInv, Typed, Owned, New, Busy, Gone,
       Known, States, Working
  <1>9. \A u, v \in Threads : Owning(u)' /\ Owning(v)' /\ cur'[u] = cur'[v] => u = v
    BY <1>1, InPsType, SessionsAssumption DEF IInv, Typed, Owned, New, Busy, Gone,
       Working, States
  <1>10. States'
    BY <1>1, InPsType, SessionsAssumption DEF IInv, Typed, Owned, New, Busy, Gone,
       States, Working
  <1>11. Intact'
    BY <1>1, InPsType, SessionsAssumption DEF IInv, Typed, Owned, New, Busy, Gone,
       Intact, Working, States
  <1> QED
    BY <1>1, <1>2, <1>3, <1>4, <1>5, <1>6, <1>7, <1>8, <1>9, <1>10, <1>11 DEF IInv,
       Owned

LEMMA FinishKeeps ==
  ASSUME IInv, NEW t \in Threads, Finish(t)
  PROVE  IInv'
  <1>1. pc[t] = "finish" /\ cur[t] \in Sessions
    BY InPsType DEF Finish, Working, IInv, Owned, Busy
  <1>2. CASE status[cur[t]] # "RUNNING"
    BY <1>1, <1>2, FinishOverKeeps DEF Finish, Return
  <1>3. CASE status[cur[t]] = "RUNNING"
    <2>1. /\ state' = [state EXCEPT ![cur[t]] = "NONE"]
          /\ inuse' = [inuse EXCEPT ![cur[t]] = FALSE]
          /\ UNCHANGED <<sessions, last, holder, status, input, target, i, j, tries,
                         quit, delFailed, fault>>
      BY <1>3 DEF Finish
    <2>2. UNCHANGED ended
      BY <1>1, <1>3 DEF Finish, Return, IInv, Typed
    <2>3. /\ Goto(t, "after") \/ Goto(t, "top")
          /\ cur' \in {cur, [cur EXCEPT ![t] = NoSession]}
      BY <1>3 DEF Finish, Return
    <2> QED
      BY <1>1, <2>1, <2>2, <2>3, FinishDoneKeeps
  <1> QED
    BY <1>2, <1>3

\* A session that has ended is removed.
LEMMA DelKeeps ==
  ASSUME IInv, NEW t \in Threads,
         nc_ps_del_session(t)
  PROVE  IInv'
  <1>1. /\ sessions' \in Seq(Sessions) /\ Len(sessions') = Len(sessions) - 1 /\ Once'
        /\ InPs' = InPs \ {cur[t]}
    BY WithoutIs DEF IInv, nc_ps_del_session
  <1>2. Typed'
    BY <1>1, InPsType, SessionsAssumption DEF IInv, Typed, Places, Working, Loose, Owned, New,
       Busy, Gone, nc_ps_del_session, Free
  <1>4. Polling'
    BY <1>1 DEF IInv, Typed, Polling, Working, nc_ps_del_session, Free
  <1>5. \A u \in Threads : Adding(u)' => New(u)'
    BY <1>1, InPsType, SessionsAssumption DEF IInv, Typed, Owned, New, Busy, Gone,
       States, Known, Working, nc_ps_del_session, Free
  <1>6. \A u \in Threads : pc'[u] \in Working => Busy(u)'
    BY <1>1, InPsType, SessionsAssumption DEF IInv, Typed, Owned, New, Busy, Gone,
       Working, nc_ps_del_session, Free
  <1>7. \A u \in Threads : Ending(u)' => Gone(u)'
    BY <1>1, InPsType, SessionsAssumption DEF IInv, Typed, Owned, New, Busy, Gone,
       Working, nc_ps_del_session, Free
  <1>8. \A u \in Threads : pc'[u] \in {"match", "kill"} => Known(target[u])'
    BY <1>1, InPsType, SessionsAssumption DEF IInv, Typed, Owned, New, Busy, Gone,
       Known, States, Working, nc_ps_del_session, Free
  <1>9. \A u, v \in Threads : Owning(u)' /\ Owning(v)' /\ cur'[u] = cur'[v] => u = v
    BY <1>1, InPsType, SessionsAssumption DEF IInv, Typed, Owned, New, Busy, Gone,
       Working, nc_ps_del_session, Free
  <1>10. States'
    BY <1>1, InPsType, SessionsAssumption DEF IInv, Typed, Owned, New, Busy, Gone,
       States, Working, nc_ps_del_session, Free
  <1>11. Intact'
    BY <1>1, InPsType, SessionsAssumption DEF IInv, Typed, Owned, New, Busy, Gone,
       Intact, Working, nc_ps_del_session, Free
  <1> QED
    BY <1>1, <1>2, <1>4, <1>5, <1>6, <1>7, <1>8, <1>9, <1>10, <1>11 DEF IInv, Owned

\* It cannot be removed.
LEMMA DelTimedOutKeeps ==
  ASSUME IInv, NEW t \in Threads,
         DelTimedOut(t)
  PROVE  IInv'
  <1>1. InPs' = InPs
    BY DEF InPs, DelTimedOut
  <1>2. Typed'
    BY <1>1, InPsType, SessionsAssumption DEF IInv, Typed, Places, Working, Loose, Owned, New,
       Busy, Gone, DelTimedOut
  <1>3. Once'
    BY <1>1 DEF IInv, Once, DelTimedOut
  <1>4. Polling'
    BY <1>1 DEF IInv, Typed, Polling, Working, DelTimedOut
  <1>5. \A u \in Threads : Adding(u)' => New(u)'
    BY <1>1, InPsType, SessionsAssumption DEF IInv, Typed, Owned, New, Busy, Gone,
       States, Known, Working, DelTimedOut
  <1>6. \A u \in Threads : pc'[u] \in Working => Busy(u)'
    BY <1>1, InPsType, SessionsAssumption DEF IInv, Typed, Owned, New, Busy, Gone,
       Working, DelTimedOut
  <1>7. \A u \in Threads : Ending(u)' => Gone(u)'
    BY <1>1, InPsType, SessionsAssumption DEF IInv, Typed, Owned, New, Busy, Gone,
       Working, DelTimedOut
  <1>8. \A u \in Threads : pc'[u] \in {"match", "kill"} => Known(target[u])'
    BY <1>1, InPsType, SessionsAssumption DEF IInv, Typed, Owned, New, Busy, Gone,
       Known, States, Working, DelTimedOut
  <1>9. \A u, v \in Threads : Owning(u)' /\ Owning(v)' /\ cur'[u] = cur'[v] => u = v
    BY <1>1, InPsType, SessionsAssumption DEF IInv, Typed, Owned, New, Busy, Gone,
       Working, DelTimedOut
  <1>10. States'
    BY <1>1, InPsType, SessionsAssumption DEF IInv, Typed, Owned, New, Busy, Gone,
       States, Working, DelTimedOut
  <1>11. Intact'
    BY <1>1, InPsType, SessionsAssumption DEF IInv, Typed, Owned, New, Busy, Gone,
       Intact, Working, DelTimedOut
  <1> QED
    BY <1>1, <1>2, <1>3, <1>4, <1>5, <1>6, <1>7, <1>8, <1>9, <1>10, <1>11 DEF IInv,
       Owned

\* It is freed, by its only owner and so once.
LEMMA FreeKeeps ==
  ASSUME IInv, NEW t \in Threads,
         nc_session_free(t)
  PROVE  IInv'
  <1>1. InPs' = InPs
    BY DEF InPs, nc_session_free, States
  <1>2. Typed'
    BY <1>1, InPsType, SessionsAssumption DEF IInv, Typed, Places, Working, Loose, Owned, New,
       Busy, Gone, nc_session_free, States
  <1>3. Once'
    BY <1>1 DEF IInv, Once, nc_session_free, States
  <1>4. Polling'
    BY <1>1 DEF IInv, Typed, Polling, Working, nc_session_free, States
  <1>5. \A u \in Threads : Adding(u)' => New(u)'
    BY <1>1, InPsType, SessionsAssumption DEF IInv, Typed, Owned, New, Busy, Gone,
       States, Known, Working, nc_session_free
  <1>6. \A u \in Threads : pc'[u] \in Working => Busy(u)'
    BY <1>1, InPsType, SessionsAssumption DEF IInv, Typed, Owned, New, Busy, Gone,
       Working, nc_session_free, States
  <1>7. \A u \in Threads : Ending(u)' => Gone(u)'
    BY <1>1, InPsType, SessionsAssumption DEF IInv, Typed, Owned, New, Busy, Gone,
       Working, nc_session_free, States
  <1>8. \A u \in Threads : pc'[u] \in {"match", "kill"} => Known(target[u])'
    BY <1>1, InPsType, SessionsAssumption DEF IInv, Typed, Owned, New, Busy, Gone,
       Known, States, Working, nc_session_free
  <1>9. \A u, v \in Threads : Owning(u)' /\ Owning(v)' /\ cur'[u] = cur'[v] => u = v
    BY <1>1, InPsType, SessionsAssumption DEF IInv, Typed, Owned, New, Busy, Gone,
       Working, nc_session_free, States
  <1>10. States'
    BY <1>1, InPsType, SessionsAssumption DEF IInv, Typed, Owned, New, Busy, Gone,
       States, Working, nc_session_free
  <1>11. Intact'
    BY <1>1, InPsType, SessionsAssumption DEF IInv, Typed, Owned, New, Busy, Gone,
       Intact, Working, nc_session_free, States
  <1> QED
    BY <1>1, <1>2, <1>3, <1>4, <1>5, <1>6, <1>7, <1>8, <1>9, <1>10, <1>11 DEF IInv,
       Owned

\* The end of main: nobody owns a session any more.
LEMMA CloseOneKeeps ==
  ASSUME IInv, CloseOne
  PROVE  IInv'
  <1>1. PICK s \in InPs : s = sessions[1]
    <2>1. Len(sessions) \in Nat /\ Len(sessions) # 0
      BY DEF IInv, Typed, CloseOne
    <2> QED
      BY <2>1, InPsIs
  <1>2. /\ sessions' \in Seq(Sessions) /\ Len(sessions') = Len(sessions) - 1 /\ Once'
        /\ InPs' = InPs \ {s} /\ s \in Sessions
    BY <1>1, WithoutIs, InPsType DEF IInv, CloseOne
  <1>3. Typed'
    BY <1>1, <1>2 DEF IInv, Typed, CloseOne
  <1>4. Polling'
    <2>1. holder = {}
      BY DEF IInv, Typed, Polling, CloseOne, AllEnd
    <2> QED
      BY <1>2, <2>1 DEF IInv, Polling, CloseOne
  <1>5. Owned'
    BY DEF IInv, Owned, CloseOne, AllEnd, Working
  <1>6. States'
    BY <1>1, <1>2 DEF IInv, Typed, States, CloseOne
  <1>7. Intact'
    BY <1>1, <1>2, InPsType DEF IInv, Typed, Intact, CloseOne, AllEnd
  <1> QED
    BY <1>2, <1>3, <1>4, <1>5, <1>6, <1>7 DEF IInv

\* What nobody's session, place or index depends on may change.
LEMMA UnmovedKeeps ==
  ASSUME IInv, Typed',
         fault' \in {fault, fault \cup {"exit"}},
         UNCHANGED <<poll, status, inuse, pc, cur, target, i, j, ended, delFailed>>
  PROVE  IInv'
  <1>1. InPs' = InPs
    BY DEF InPs
  <1> QED
    BY <1>1 DEF IInv, Once, Polling, Owned, New, Busy, Gone, Known, States, Intact

LEMMA StepKeeps ==
  ASSUME IInv, NEW t \in Threads, Step(t)
  PROVE  IInv'
  <1>1. CASE Accept(t)
    <2>1. PICK s \in Sessions : /\ status[s] = "absent"
                               /\ status' = [status EXCEPT ![s] = "RUNNING"]
                               /\ cur' = [cur EXCEPT ![t] = s]
      BY <1>1 DEF Accept, Open
    <2> QED
      BY <1>1, <2>1, OpenKeeps DEF Accept
  <1>2. CASE NothingToAccept(t)
    BY <1>2, MoveKeeps DEF NothingToAccept
  <1>3. CASE nc_ps_add_session(t)
    BY <1>3, AddKeeps
  <1>4. CASE NoSysrepoSession(t)
    <2>1. tries' = [tries EXCEPT ![t] = 0]
      BY <1>4 DEF NoSysrepoSession, IInv, Typed
    <2> QED
      BY <1>4, <2>1, DropKeeps DEF NoSysrepoSession
  <1>5. CASE AddTimedOut(t)
    <2>1. CASE tries[t] < 2
      <3>1. /\ tries' = [tries EXCEPT ![t] = @ + 1] /\ tries[t] \in 0 .. 1
            /\ UNCHANGED <<poll, sess, pc, cur, target, i, j, quit, hist>>
        BY <1>5, <2>1 DEF AddTimedOut, IInv, Typed
      <3>2. Typed'
        BY <3>1 DEF IInv, Typed
      <3> QED
        BY <3>1, <3>2, UnmovedKeeps
    <2>2. CASE ~(tries[t] < 2)
      BY <1>5, <2>2, DropKeeps DEF AddTimedOut
    <2> QED
      BY <2>1, <2>2
  <1>6. CASE PollLock(t)
    <2>1. CASE sessions = <<>>
      BY <1>6, <2>1, MoveKeeps DEF PollLock
    <2>2. CASE sessions # <<>>
      BY <1>6, <2>2, LockKeeps DEF PollLock
    <2> QED
      BY <2>1, <2>2
  <1>7. CASE PollLockTimedOut(t)
    BY <1>7, MoveKeeps DEF PollLockTimedOut
  <1>8. CASE SkipSession(t)
    BY <1>8, SkipKeeps
  <1>9. CASE PollTimedOut(t)
    <2>1. input \in [Sessions -> {"none", "data"}]
      BY DEF IInv, Typed
    <2> QED
      BY <1>9, <2>1, LeaveKeeps DEF PollTimedOut, Silent, RoundOver
  <1>10. CASE PollFreed(t)
    BY <1>10, PollFreedKeeps
  <1>11. CASE FoundEnded(t)
    <2>1. Here(t) \in InPs /\ Here(t) \in Sessions
      BY <1>11, HereIs DEF FoundEnded, Available
    <2>2. status[Here(t)] = "INVALID"
      BY <1>11, <2>1 DEF FoundEnded, Available, IInv, Typed, States
    <2>3. status' = [status EXCEPT ![Here(t)] = "INVALID"]
      BY <1>11, <2>2 DEF FoundEnded, IInv, Typed
    <2> QED
      BY <1>11, <2>2, <2>3, EndedKeeps DEF FoundEnded
  <1>12. CASE FoundLost(t)
    BY <1>12, EndedKeeps DEF FoundLost
  <1>13. CASE FoundError(t)
    <2>1. input \in [Sessions -> {"none", "data"}]
      BY DEF IInv, Typed
    <2> QED
      BY <1>13, <2>1, LeaveKeeps DEF FoundError
  <1>14. CASE FoundSsh(t)
    <2>1. input' \in [Sessions -> {"none", "data"}]
      BY <1>14 DEF FoundSsh, IInv, Typed
    <2>2. PICK place \in {"after", "ssh"} : Event(t, Here(t), place)
      BY <1>14 DEF FoundSsh
    <2> QED
      BY <1>14, <2>1, <2>2, LeaveKeeps DEF FoundSsh, Available, Event
  <1>15. CASE FoundRpc(t)
    BY <1>15, RpcKeeps
  <1>16. CASE Recv(t)
    <2>1. /\ input' \in [Sessions -> {"none", "data"}]
          /\ status' \in {status, [status EXCEPT ![cur[t]] = "INVALID"]}
      BY <1>16 DEF Recv, IInv, Typed
    <2>2. PICK place \in {"finish", "rpc"} : Goto(t, place)
      BY <1>16 DEF Recv
    <2>3. pc[t] = "recv" /\ UNCHANGED <<poll, inuse, local, quit, hist>>
      BY <1>16 DEF Recv
    <2> QED
      BY <2>1, <2>2, <2>3, WorkKeeps
  <1>17. CASE Execute(t)
    <2>1. input' \in [Sessions -> {"none", "data"}]
      BY <1>17 DEF Execute, IInv, Typed
    <2> QED
      BY <1>17, <2>1, WorkKeeps DEF Execute
  <1>18. CASE Seek(t) \/ PassOver(t) \/ Match(t) \/ Kill(t)
    BY <1>18, SeekKeeps, MatchKeeps, KillKeeps
  <1>19. CASE Reply(t)
    <2>1. input' \in [Sessions -> {"none", "data"}]
      BY <1>19 DEF Reply, IInv, Typed
    <2> QED
      BY <1>19, <2>1, WorkKeeps DEF Reply
  <1>20. CASE Finish(t)
    BY <1>20, FinishKeeps
  <1>21. CASE nc_ps_del_session(t)
    BY <1>21, DelKeeps
  <1>22. CASE DelTimedOut(t)
    BY <1>22, DelTimedOutKeeps
  <1>23. CASE nc_session_free(t)
    BY <1>23, FreeKeeps
  <1>24. CASE Announce(t) \/ Count(t)
    <2>1. pc[t] \in Loose
      BY <1>24 DEF Announce, Count, Loose
    <2> QED
      BY <1>24, <2>1, MoveKeeps DEF Announce, Count
  <1>25. CASE nc_session_accept_ssh_channel(t)
    <2>1. pc[t] = "ssh" /\ pc[t] \in Loose /\ fault' \in {fault, fault \cup {"use"}}
      BY <1>25 DEF nc_session_accept_ssh_channel, Loose
    <2>2. CASE Goto(t, "top") /\ cur' = [cur EXCEPT ![t] = NoSession] /\ UNCHANGED status
      BY <1>25, <2>1, <2>2, MoveKeeps DEF nc_session_accept_ssh_channel
    <2>3. ASSUME NEW s \in Sessions, status[s] = "absent", Goto(t, "channel"),
                 status' = [status EXCEPT ![s] = "RUNNING"], cur' = [cur EXCEPT ![t] = s]
          PROVE  IInv'
      BY <1>25, <2>1, <2>3, OpenKeeps DEF nc_session_accept_ssh_channel
    <2> QED
      BY <1>25, <2>2, <2>3 DEF nc_session_accept_ssh_channel, Open
  <1> QED
    BY <1>1, <1>2, <1>3, <1>4, <1>5, <1>6, <1>7, <1>8, <1>9, <1>10, <1>11, <1>12, <1>13,
       <1>14, <1>15, <1>16, <1>17, <1>18, <1>19, <1>20, <1>21, <1>22, <1>23,
       <1>24, <1>25 DEF Step

(***************************************************************************)
(* IInv is an inductive invariant.                                         *)
(***************************************************************************)
THEOREM AlwaysIInv == Spec => []IInv
  <1>1. Init => IInv
    <2> SUFFICES ASSUME Init PROVE IInv
      OBVIOUS
    <2>1. sessions = <<>> /\ InPs = {}
      BY DEF Init, InPs
    <2>2. Typed
      <3>1. /\ sessions \in Seq(Sessions) /\ last \in Nat /\ holder \subseteq Threads
            /\ state \in [Sessions -> {"NONE", "BUSY", "INVALID"}]
            /\ status \in [Sessions -> {"absent", "RUNNING", "INVALID", "freed"}]
            /\ inuse \in [Sessions -> BOOLEAN]
            /\ input \in [Sessions -> {"none", "data"}]
        BY <2>1 DEF Init
      <3>2. /\ pc \in [Threads -> Places]
            /\ cur \in [Threads -> Sessions \cup {NoSession}]
            /\ target \in [Threads -> Sessions \cup {NoSession}]
            /\ i \in [Threads -> Nat] /\ j \in [Threads -> Nat] /\ tries \in [Threads -> 0 .. 2]
        BY DEF Init, Places
      <3> QED
        BY <3>1, <3>2 DEF Init, Typed
    <2> QED
      BY <2>1, <2>2 DEF Init, IInv, Once, Polling, Owned, States, Intact, Working
  <1>2. IInv /\ [Next]_vars => IInv'
    <2> SUFFICES ASSUME IInv, [Next]_vars PROVE IInv'
      OBVIOUS
    <2>1. ASSUME NEW t \in Threads, Step(t) PROVE IInv'
      BY <2>1, StepKeeps
    <2>2. ASSUME NEW s \in Sessions, Send(s) PROVE IInv'
      <3>1. Typed'
        BY <2>2 DEF Send, IInv, Typed
      <3> QED
        BY <2>2, <3>1, UnmovedKeeps DEF Send
    <2>3. CASE signal_handler
      <3>1. Typed'
        BY <2>3 DEF signal_handler, IInv, Typed
      <3> QED
        BY <2>3, <3>1, UnmovedKeeps DEF signal_handler
    <2>4. CASE CloseOne
      BY <2>4, CloseOneKeeps
    <2>5. CASE UNCHANGED vars
      <3>1. Typed'
        BY <2>5 DEF vars, IInv, Typed
      <3> QED
        BY <2>5, <3>1, UnmovedKeeps DEF vars
    <2> QED
      BY <2>1, <2>2, <2>3, <2>4, <2>5 DEF Next, Terminated
  <1> QED
    BY <1>1, <1>2, PTL DEF Spec

-----------------------------------------------------------------------------
(***************************************************************************)
(* The state of the workers, of the structure (session_server.c:1053-1062) *)
(* and of the sessions has its types; the array never holds more sessions  *)
(* than there are.                                                         *)
(***************************************************************************)
THEOREM TypeCorrect == Spec => []TypeOK
  <1>1. IInv => TypeOK
    <2> SUFFICES ASSUME IInv PROVE TypeOK
      OBVIOUS
    <2>1. PICK n \in Nat : n = Len(sessions)
      BY DEF IInv, Typed
    <2>2. PICK m \in Nat : m = Cardinality(Sessions) /\ n <= m
      BY <2>1, Bounded DEF IInv
    <2>3. sessions \in [1 .. n -> Sessions] /\ n \in 0 .. m
      BY <2>1, <2>2 DEF IInv, Typed
    <2>4. sessions \in UNION {[1 .. k -> Sessions] : k \in 0 .. m}
      BY <2>3
    <2>5. last \in 0 .. m
      BY <2>1, <2>2 DEF IInv, Typed, Polling
    <2>6. i \in [Threads -> 0 .. m] /\ j \in [Threads -> 0 .. m]
      <3>1. \A t \in Threads : i[t] \in 0 .. m /\ j[t] \in 0 .. m
        <4> SUFFICES ASSUME NEW t \in Threads PROVE i[t] \in 0 .. m /\ j[t] \in 0 .. m
          OBVIOUS
        <4>1. i[t] \in Nat /\ j[t] \in Nat
          BY DEF IInv, Typed
        <4>2. CASE t \in holder
          BY <2>1, <2>2, <4>1, <4>2 DEF IInv, Polling
        <4>3. CASE t \notin holder
          BY <2>2, <4>1, <4>3 DEF IInv, Polling
        <4> QED
          BY <4>2, <4>3
      <3> QED
        BY <3>1 DEF IInv, Typed
    <2> QED
      BY <2>2, <2>4, <2>5, <2>6 DEF IInv, Typed, TypeOK, Places
  <1> QED
    BY <1>1, AlwaysIInv, PTL

(***************************************************************************)
(* A session exists until it is added, while it is polled, while its       *)
(* request is executed and its entry written without the structure's lock  *)
(* (session_server.c:1639-1665), and from the report of its end until it   *)
(* is freed, as long as no removal times out.  The uses of a session with  *)
(* no lock held (main.c:959-1000, common.c:171-192, netconf.c:523-536) are *)
(* steps of the specification and outside this claim.                      *)
(***************************************************************************)
THEOREM SafePoll == Spec => []PollIsSafe
  <1>1. IInv => PollIsSafe
    BY DEF IInv, Intact, Owned, New, Busy, Gone, PollIsSafe
  <1> QED
    BY <1>1, AlwaysIInv, PTL

(***************************************************************************)
(* The end of a session is reported once (session_server.c:1566-1584), and *)
(* until a removal times out nobody frees a session twice.                 *)
(***************************************************************************)
THEOREM OneRelease == Spec => []FreedOnce
  <1>1. IInv => FreedOnce
    BY DEF IInv, Intact, States, FreedOnce
  <1> QED
    BY <1>1, AlwaysIInv, PTL

(***************************************************************************)
(* A session is BUSY only under its RPC lock (session_server.c:1576), and  *)
(* no two workers execute requests of one session.                         *)
(***************************************************************************)
THEOREM BusyMeansLocked == Spec => []BusyIsLocked
  <1>1. IInv => BusyIsLocked
    BY InPsType DEF IInv, States, Owned, BusyIsLocked
  <1> QED
    BY <1>1, AlwaysIInv, PTL

(***************************************************************************)
(* The indices of nc_ps_poll stay inside the array, whatever is added and  *)
(* removed between two polls (session_server.c:1524-1528, 1053-1062).      *)
(***************************************************************************)
THEOREM PollInBounds == Spec => []IndicesInside
  <1>1. IInv => IndicesInside
    BY DEF IInv, Typed, Polling, IndicesInside
  <1> QED
    BY <1>1, AlwaysIInv, PTL
=============================================================================
