--------------------------- MODULE NetconfServer ----------------------------
(***************************************************************************)
(* The NETCONF server of the container: the worker threads of netopeer2    *)
(* (docker/libs/netopeer2/src/main.c, common.c, netconf.c) that share one  *)
(* pollsession structure of libnetconf2 (session_server.c).  A worker      *)
(* accepts a session, polls the sessions in turn, executes the request it  *)
(* finds, and removes and frees a session that has ended.                  *)
(*                                                                         *)
(* The structure's lock is PsLock's, without its order: a thread gets it   *)
(* when nobody holds it, and a thread that finds it held may time out.     *)
(* nc_ps_poll keeps it over many steps, the other calls over one.  A       *)
(* request is executed under the session's RPC lock only; the callback of  *)
(* a <kill-session> runs in a thread of sysrepo for which the worker waits.*)
(* A worker also uses sessions with no lock at all: the one nc_ps_poll     *)
(* returned, the one it has just added, and those a callback looks         *)
(* through.  Any other worker may have freed such a session.               *)
(*                                                                         *)
(* A use of a session that was freed, or a second release of one, is where *)
(* the model ends, and so is the exit() of a second signal: fault says     *)
(* which.                                                                  *)
(***************************************************************************)
EXTENDS Integers, Sequences, FiniteSets

CONSTANTS
    Threads,    \* the workers
    Sessions    \* bound: the sessions clients open, over the server's life

NoSession == "no session"

ASSUME SessionsAssumption == IsFiniteSet(Sessions) /\ NoSession \notin Sessions

VARIABLES
    sessions,   \* ps->sessions: the sessions in the structure
    last,       \* ps->last_event_session
    holder,     \* the threads in nc_ps_poll that hold the structure
    state,      \* NC_PS_STATE_* of each session in the structure
    status,     \* NC_STATUS_* of each session
    inuse,      \* rpc_inuse: the session's RPC lock is taken
    input,      \* "data": the client has sent something that nobody has read
    pc,         \* where each thread is
    cur,        \* the session it is working with
    target,     \* the session its request's callback has got from the structure
    i, j,       \* nc_ps_poll's indices: the current one and the last one; i is
                \* the callback's as well
    tries,      \* failed attempts to add a session
    quit,       \* ~loop_continue
    ended,      \* history: how often each session was reported to have ended
    delFailed,  \* history: a nc_ps_del_session timed out
    fault       \* history: "poll", unlocked "use" or "free" of a session that
                \* was freed, or "exit"

poll == <<sessions, last, holder, state>>
sess == <<status, inuse, input>>
local == <<cur, target, i, j, tries>>
hist == <<ended, delFailed, fault>>
vars == <<poll, sess, pc, local, quit, hist>>

Working == {"recv", "rpc", "seek", "match", "kill", "replied", "closed", "finish"}
\* The thread is about to use cur[t], which nothing protects.
Loose == {"after", "ssh", "added", "joined"}

TypeOK ==
    /\ sessions \in UNION {[1 .. n -> Sessions] : n \in 0 .. Cardinality(Sessions)}
    /\ last \in 0 .. Cardinality(Sessions)
    /\ holder \subseteq Threads
    /\ state \in [Sessions -> {"NONE", "BUSY", "INVALID"}]
    /\ status \in [Sessions -> {"absent", "RUNNING", "INVALID", "freed"}]
    /\ inuse \in [Sessions -> BOOLEAN]
    /\ input \in [Sessions -> {"none", "data"}]
    /\ pc \in [Threads -> {"top", "add", "channel", "poll", "scan", "del", "free", "end"} \cup Working \cup Loose]
    /\ cur \in [Threads -> Sessions \cup {NoSession}]
    /\ target \in [Threads -> Sessions \cup {NoSession}]
    /\ i \in [Threads -> 0 .. Cardinality(Sessions)]
    /\ j \in [Threads -> 0 .. Cardinality(Sessions)]
    /\ tries \in [Threads -> 0 .. 2]
    /\ quit \in BOOLEAN
    /\ ended \in [Sessions -> Nat]
    /\ delFailed \in BOOLEAN
    /\ fault \subseteq {"poll", "use", "free", "exit"}

Init ==
    /\ sessions = <<>> /\ last = 0 /\ holder = {}
    /\ state = [s \in Sessions |-> "NONE"]
    /\ status = [s \in Sessions |-> "absent"]
    /\ inuse = [s \in Sessions |-> FALSE]
    /\ input = [s \in Sessions |-> "none"]
    /\ pc = [t \in Threads |-> "top"]
    /\ cur = [t \in Threads |-> NoSession]
    /\ target = [t \in Threads |-> NoSession]
    /\ i = [t \in Threads |-> 0] /\ j = [t \in Threads |-> 0]
    /\ tries = [t \in Threads |-> 0]
    /\ quit = FALSE
    /\ ended = [s \in Sessions |-> 0] /\ delFailed = FALSE /\ fault = {}

Goto(t, place) == pc' = [pc EXCEPT ![t] = place]

InPs == {sessions[k] : k \in 1 .. Len(sessions)}
Free == holder = {}
Freed(s) == status[s] = "freed"

\* s is freed, and what its client has sent is gone with the connection.
Dispose(s) ==
    /\ status' = [status EXCEPT ![s] = "freed"]
    /\ input' = [input EXCEPT ![s] = "none"]

\* s is used with no lock held.
Use(s) == fault' = IF Freed(s) THEN fault \cup {"use"} ELSE fault

-----------------------------------------------------------------------------
(***************************************************************************)
(* The clients, and the signal that stops the server.                      *)
(***************************************************************************)
Send(s) ==
    /\ status[s] = "RUNNING" /\ input[s] = "none"
    /\ input' = [input EXCEPT ![s] = "data"]
    /\ UNCHANGED <<poll, status, inuse, pc, local, quit, hist>>

signal_handler ==
    /\ \/ ~quit /\ quit' = TRUE /\ UNCHANGED fault
       \/ quit /\ fault' = fault \cup {"exit"} /\ UNCHANGED quit
    /\ UNCHANGED <<poll, sess, pc, local, ended, delFailed>>

-----------------------------------------------------------------------------
(***************************************************************************)
(* worker_thread: accept, np2srv_new_session_cb, then poll.                *)
(***************************************************************************)
\* Thread t has a new session.
Open(t) ==
    \E s \in Sessions :
      /\ status[s] = "absent"
      /\ status' = [status EXCEPT ![s] = "RUNNING"]
      /\ cur' = [cur EXCEPT ![t] = s]

Accept(t) ==
    /\ pc[t] = "top" /\ ~quit
    /\ Open(t)
    /\ Goto(t, "add")
    /\ UNCHANGED <<poll, inuse, input, target, i, j, tries, quit, hist>>

\* Mutant: the loop does not look at loop_continue.
NothingToAcceptEver(t) ==
    /\ pc[t] = "top"
    /\ Goto(t, "poll")
    /\ UNCHANGED <<poll, sess, local, quit, hist>>

NothingToAccept(t) ==
    /\ pc[t] = "top"
    /\ Goto(t, IF quit THEN "end" ELSE "poll")
    /\ UNCHANGED <<poll, sess, local, quit, hist>>

\* np2srv_new_session_cb is called before the poll, and after it for a new
\* channel.
Adding(t) == pc[t] \in {"add", "channel"}

AfterAdd(t) == IF pc[t] = "add" THEN "poll" ELSE "top"

nc_ps_add_session(t) ==
    /\ Adding(t) /\ Free
    /\ sessions' = Append(sessions, cur[t])
    /\ state' = [state EXCEPT ![cur[t]] = "NONE"]
    /\ tries' = [tries EXCEPT ![t] = 0]
    /\ Goto(t, IF pc[t] = "add" THEN "added" ELSE "joined")
    /\ UNCHANGED <<last, holder, sess, cur, target, i, j, quit, hist>>

\* The netconf-session-start notification, about a session that the others
\* can already poll.
Announce(t) ==
    /\ pc[t] \in {"added", "joined"}
    /\ Use(cur[t])
    /\ cur' = [cur EXCEPT ![t] = NoSession]
    /\ Goto(t, IF pc[t] = "added" THEN "poll" ELSE "top")
    /\ UNCHANGED <<poll, sess, target, i, j, tries, quit, ended, delFailed>>

\* Without a sysrepo session of its own, the session is freed.
NoSysrepoSession(t) ==
    /\ Adding(t) /\ tries[t] = 0
    /\ Dispose(cur[t])
    /\ cur' = [cur EXCEPT ![t] = NoSession]
    /\ Goto(t, AfterAdd(t))
    /\ UNCHANGED <<poll, inuse, target, i, j, tries, quit, hist>>

\* Mutant: the session is tried to be added until it works.
AddTriedForever(t) ==
    /\ Adding(t) /\ ~Free
    /\ tries' = [tries EXCEPT ![t] = @ + 1]
    /\ UNCHANGED <<poll, sess, pc, cur, target, i, j, quit, hist>>

\* Three timeouts, and it is freed as well.
AddTimedOut(t) ==
    /\ Adding(t) /\ ~Free
    /\ \/ /\ tries[t] < 2
          /\ tries' = [tries EXCEPT ![t] = @ + 1]
          /\ UNCHANGED <<status, input, pc, cur>>
       \/ /\ tries[t] = 2
          /\ tries' = [tries EXCEPT ![t] = 0]
          /\ Dispose(cur[t])
          /\ cur' = [cur EXCEPT ![t] = NoSession]
          /\ Goto(t, AfterAdd(t))
    /\ UNCHANGED <<poll, inuse, target, i, j, quit, hist>>

-----------------------------------------------------------------------------
(***************************************************************************)
(* nc_ps_poll, holding the structure: one session per step, from the one   *)
(* after the last event's around to it.                                    *)
(***************************************************************************)
\* Mutant: the polling starts at the last event's session again.
SameIndex == last

StartIndex == IF last = Len(sessions) - 1 THEN 0 ELSE last + 1

PollLock(t) ==
    /\ pc[t] = "poll" /\ Free
    /\ IF sessions = <<>>
       THEN Goto(t, "top") /\ UNCHANGED <<holder, i, j>>
       ELSE /\ Goto(t, "scan")
            /\ holder' = holder \cup {t}
            /\ i' = [i EXCEPT ![t] = StartIndex]
            /\ j' = [j EXCEPT ![t] = StartIndex]
    /\ UNCHANGED <<sessions, last, state, sess, cur, target, tries, quit, hist>>

PollLockTimedOut(t) ==
    /\ pc[t] = "poll" /\ ~Free
    /\ Goto(t, "top")
    /\ UNCHANGED <<poll, sess, local, quit, hist>>

Here(t) == sessions[i[t] + 1]

NextIndex(t) == IF i[t] = Len(sessions) - 1 THEN 0 ELSE i[t] + 1

\* The thread gives the structure back.
Release(t) ==
    /\ holder' = holder \ {t}
    /\ i' = [i EXCEPT ![t] = 0] /\ j' = [j EXCEPT ![t] = 0]

\* Nothing happened here: the next session, or another round.
Advance(t) ==
    /\ i' = [i EXCEPT ![t] = NextIndex(t)]
    /\ UNCHANGED <<pc, holder, j>>

\* Nothing happened here, the round is over and so is the time.
RoundOver(t) == NextIndex(t) = j[t] /\ Release(t) /\ Goto(t, "top")

\* The RPC lock is taken, the session is to be freed, or there is no input
\* (or the IO lock cannot be had in time).
Silent(t) ==
    /\ pc[t] = "scan" /\ ~Freed(Here(t))
    /\ inuse[Here(t)] \/ state[Here(t)] = "INVALID"
         \/ (state[Here(t)] = "NONE" /\ status[Here(t)] = "RUNNING")

SkipSession(t) ==
    /\ Silent(t) /\ Advance(t)
    /\ UNCHANGED <<sessions, last, state, sess, cur, target, tries, quit, hist>>

PollTimedOut(t) ==
    /\ Silent(t) /\ RoundOver(t)
    /\ UNCHANGED <<sessions, last, state, sess, cur, target, tries, quit, hist>>

\* A session that was freed but is still in the structure.
PollFreed(t) ==
    /\ pc[t] = "scan" /\ Freed(Here(t))
    /\ fault' = fault \cup {"poll"}
    /\ UNCHANGED <<poll, sess, pc, local, quit, ended, delFailed>>

\* Something happened: nc_ps_poll gives the structure back and goes on with
\* the session.  When it returns, worker_thread goes to "del" if the result
\* has NC_PSPOLL_SESSION_TERM, to "top" if it has only NC_PSPOLL_ERROR, and
\* else counts and logs the result with the session in hand.
Event(t, s, place) ==
    /\ cur' = [cur EXCEPT ![t] = s]
    /\ last' = i[t]
    /\ Release(t)
    /\ Goto(t, place)
    /\ UNCHANGED <<sessions, target, tries, quit>>

Available(t) ==
    pc[t] = "scan" /\ ~Freed(Here(t)) /\ ~inuse[Here(t)] /\ state[Here(t)] = "NONE"

\* Mutant: a session that ended keeps its state, every poll reports it.
FoundEndedAgain(t) ==
    /\ Available(t) /\ status[Here(t)] # "RUNNING"
    /\ ended' = [ended EXCEPT ![Here(t)] = @ + 1]
    /\ Event(t, Here(t), "del")
    /\ UNCHANGED <<state, sess, delFailed, fault>>

\* The session was ended by somebody else: killed.
FoundEnded(t) ==
    /\ Available(t) /\ status[Here(t)] # "RUNNING"
    /\ state' = [state EXCEPT ![Here(t)] = "INVALID"]
    /\ ended' = [ended EXCEPT ![Here(t)] = @ + 1]
    /\ Event(t, Here(t), "del")
    /\ UNCHANGED <<sess, delFailed, fault>>

\* The connection is closed, broken, or idle for too long.
FoundLost(t) ==
    /\ Available(t) /\ status[Here(t)] = "RUNNING"
    /\ status' = [status EXCEPT ![Here(t)] = "INVALID"]
    /\ state' = [state EXCEPT ![Here(t)] = "INVALID"]
    /\ ended' = [ended EXCEPT ![Here(t)] = @ + 1]
    /\ Event(t, Here(t), "del")
    /\ UNCHANGED <<inuse, input, delFailed, fault>>

\* NC_PSPOLL_ERROR: poll() fails, which the next poll finds in the status;
\* or the session is BUSY although its RPC lock could be taken.
FoundError(t) ==
    /\ pc[t] = "scan" /\ ~Freed(Here(t)) /\ ~inuse[Here(t)]
    /\ state[Here(t)] \in {"NONE", "BUSY"} /\ status[Here(t)] = "RUNNING"
    /\ status' = IF state[Here(t)] = "BUSY" THEN status
                 ELSE [status EXCEPT ![Here(t)] = "INVALID"]
    /\ Release(t)
    /\ Goto(t, "top")
    /\ UNCHANGED <<sessions, last, state, inuse, input, cur, target, tries,
                   quit, hist>>

\* A message of the SSH protocol, or a new channel.
FoundSsh(t) ==
    /\ Available(t) /\ status[Here(t)] = "RUNNING" /\ input[Here(t)] = "data"
    /\ input' = [input EXCEPT ![Here(t)] = "none"]
    /\ \E place \in {"after", "ssh"} : Event(t, Here(t), place)
    /\ UNCHANGED <<state, status, inuse, hist>>

\* Mutant: neither the state nor the RPC lock keeps the others away.
FoundRpcUnlocked(t) ==
    /\ Available(t) /\ status[Here(t)] = "RUNNING" /\ input[Here(t)] = "data"
    /\ Event(t, Here(t), "recv")
    /\ UNCHANGED <<state, sess, hist>>

\* A request: the RPC lock is kept when the structure is given back.
FoundRpc(t) ==
    /\ Available(t) /\ status[Here(t)] = "RUNNING" /\ input[Here(t)] = "data"
    /\ state' = [state EXCEPT ![Here(t)] = "BUSY"]
    /\ inuse' = [inuse EXCEPT ![Here(t)] = TRUE]
    /\ Event(t, Here(t), "recv")
    /\ UNCHANGED <<status, input, hist>>

-----------------------------------------------------------------------------
(***************************************************************************)
(* nc_server_recv_rpc_io: the session was killed meanwhile; a good request;*)
(* or one that cannot be read or is no request, where the connection may   *)
(* break, over the error reply too.                                        *)
(***************************************************************************)
Recv(t) ==
    LET s == cur[t]
    IN  /\ pc[t] = "recv"
        /\ \/ /\ status[s] # "RUNNING"
              /\ Goto(t, "finish")
              /\ UNCHANGED <<status, input>>
           \/ /\ status[s] = "RUNNING"
              /\ Goto(t, "rpc")
              /\ UNCHANGED <<status, input>>
           \/ /\ status[s] = "RUNNING"
              /\ input' = [input EXCEPT ![s] = "none"]
              /\ status' \in {status, [status EXCEPT ![s] = "INVALID"]}
              /\ Goto(t, "finish")
        /\ UNCHANGED <<poll, inuse, local, quit, hist>>

(***************************************************************************)
(* nc_server_send_reply_io calls back for the request: any of them, a      *)
(* <close-session>, or one that looks for a session.                       *)
(***************************************************************************)
Execute(t) ==
    /\ pc[t] = "rpc"
    /\ \E place \in {"replied", "closed", "seek"} : Goto(t, place)
    /\ UNCHANGED <<poll, sess, local, quit, hist>>

(***************************************************************************)
(* np2srv_rpc_kill_cb looks through the structure for another session's    *)
(* id, np2srv_rpc_subscribe_cb for its own: both take and leave the lock   *)
(* for each session, and use the session after that.                       *)
(***************************************************************************)
\* nc_ps_get_session: no session at the index, or no lock, ends the search.
Seek(t) ==
    /\ pc[t] = "seek"
    /\ IF Free /\ i[t] < Len(sessions)
       THEN /\ target' = [target EXCEPT ![t] = sessions[i[t] + 1]]
            /\ Goto(t, "match")
            /\ UNCHANGED i
       ELSE /\ i' = [i EXCEPT ![t] = 0]
            /\ Goto(t, "replied")
            /\ UNCHANGED target
    /\ UNCHANGED <<poll, sess, cur, j, tries, quit, hist>>

\* Not the id that is looked for: the search goes on.
PassOver(t) ==
    /\ pc[t] = "match"
    /\ Use(target[t])
    /\ i' = [i EXCEPT ![t] = @ + 1]
    /\ target' = [target EXCEPT ![t] = NoSession]
    /\ Goto(t, "seek")
    /\ UNCHANGED <<poll, sess, cur, j, tries, quit, ended, delFailed>>

\* A subscription has found its own session, or a <kill-session> its target.
Match(t) ==
    /\ pc[t] = "match"
    /\ Use(target[t])
    /\ i' = [i EXCEPT ![t] = 0]
    /\ IF target[t] = cur[t]
       THEN Goto(t, "replied") /\ target' = [target EXCEPT ![t] = NoSession]
       ELSE Goto(t, "kill") /\ UNCHANGED target
    /\ UNCHANGED <<poll, sess, cur, j, tries, quit, ended, delFailed>>

Kill(t) ==
    /\ pc[t] = "kill"
    /\ Use(target[t])
    /\ status' = IF Freed(target[t]) THEN status ELSE [status EXCEPT ![target[t]] = "INVALID"]
    /\ target' = [target EXCEPT ![t] = NoSession]
    /\ Goto(t, "replied")
    /\ UNCHANGED <<poll, inuse, input, cur, i, j, tries, quit, ended, delFailed>>

\* The reply is written or not, and the connection may break over it.  A
\* session whose term_reason the callback set has had its last reply.
Reply(t) ==
    LET s == cur[t]
    IN  /\ pc[t] \in {"replied", "closed"}
        /\ \/ pc[t] = "replied" /\ UNCHANGED status
           \/ status' = [status EXCEPT ![s] = "INVALID"]
        /\ input' = [input EXCEPT ![s] = "none"]
        /\ Goto(t, "finish")
        /\ UNCHANGED <<poll, inuse, local, quit, hist>>

(***************************************************************************)
(* The rest of nc_ps_poll: the session's state, written without the        *)
(* structure's lock, and the RPC lock is given back.  An error that leaves *)
(* the session running ends the round at once.                             *)
(***************************************************************************)
Return(t) ==
    LET s == cur[t]  over == status[s] # "RUNNING"
    IN  /\ ended' = [ended EXCEPT ![s] = IF over THEN @ + 1 ELSE @]
        /\ \/ over /\ Goto(t, "del") /\ UNCHANGED cur
           \/ ~over /\ Goto(t, "after") /\ UNCHANGED cur
           \/ ~over /\ Goto(t, "top") /\ cur' = [cur EXCEPT ![t] = NoSession]

\* Mutant: the RPC lock is given back, the state stays.
FinishKeepsBusy(t) ==
    /\ pc[t] = "finish"
    /\ inuse' = [inuse EXCEPT ![cur[t]] = FALSE]
    /\ Return(t)
    /\ UNCHANGED <<poll, status, input, target, i, j, tries, quit, delFailed, fault>>

Finish(t) ==
    LET s == cur[t]
    IN  /\ pc[t] = "finish"
        /\ state' = [state EXCEPT ![s] = IF status[s] # "RUNNING" THEN "INVALID" ELSE "NONE"]
        /\ inuse' = [inuse EXCEPT ![s] = FALSE]
        /\ Return(t)
        /\ UNCHANGED <<sessions, last, holder, status, input, target, i, j, tries,
                       quit, delFailed, fault>>

(***************************************************************************)
(* worker_thread with the session nc_ps_poll returned: it counts and logs  *)
(* the request, and accepts a new channel as a session.                    *)
(***************************************************************************)
Count(t) ==
    /\ pc[t] = "after"
    /\ Use(cur[t])
    /\ cur' = [cur EXCEPT ![t] = NoSession]
    /\ Goto(t, "top")
    /\ UNCHANGED <<poll, sess, target, i, j, tries, quit, ended, delFailed>>

nc_session_accept_ssh_channel(t) ==
    /\ pc[t] = "ssh"
    /\ Use(cur[t])
    /\ \/ /\ cur' = [cur EXCEPT ![t] = NoSession]
          /\ Goto(t, "top")
          /\ UNCHANGED status
       \/ /\ status[cur[t]] = "RUNNING"
          /\ Open(t)
          /\ Goto(t, "channel")
    /\ UNCHANGED <<poll, inuse, input, target, i, j, tries, quit, ended, delFailed>>

-----------------------------------------------------------------------------
(***************************************************************************)
(* np2srv_del_session_cb: a session that ended is removed and freed.       *)
(***************************************************************************)
\* _nc_ps_del_session: the last session takes the removed one's place.
Without(s) ==
    LET n == Len(sessions)
        k == CHOOSE k \in 1 .. n : sessions[k] = s
    IN  [m \in 1 .. n - 1 |-> IF m = k THEN sessions[n] ELSE sessions[m]]

\* Mutant: last_event_session is not reset.
DelKeepsLast(t) ==
    /\ pc[t] = "del" /\ Free /\ cur[t] \in InPs
    /\ sessions' = Without(cur[t])
    /\ Goto(t, "free")
    /\ UNCHANGED <<last, holder, state, sess, local, quit, hist>>

nc_ps_del_session(t) ==
    /\ pc[t] = "del" /\ Free /\ cur[t] \in InPs
    /\ sessions' = Without(cur[t])
    /\ last' = 0
    /\ Goto(t, "free")
    /\ UNCHANGED <<holder, state, sess, local, quit, hist>>

\* The error is logged, and the session is freed all the same.
DelTimedOut(t) ==
    /\ pc[t] = "del" /\ ~Free
    /\ delFailed' = TRUE
    /\ Goto(t, "free")
    /\ UNCHANGED <<poll, sess, local, quit, ended, fault>>

nc_session_free(t) ==
    /\ pc[t] = "free"
    /\ fault' = IF Freed(cur[t]) THEN fault \cup {"free"} ELSE fault
    /\ Dispose(cur[t])
    /\ cur' = [cur EXCEPT ![t] = NoSession]
    /\ Goto(t, "top")
    /\ UNCHANGED <<poll, inuse, target, i, j, tries, quit, ended, delFailed>>

\* The end of main: with the workers joined, the sessions that are left.
AllEnd == \A t \in Threads : pc[t] = "end"

CloseOne ==
    /\ AllEnd /\ sessions # <<>>
    /\ fault' = IF Freed(sessions[1]) THEN fault \cup {"free"} ELSE fault
    /\ Dispose(sessions[1])
    /\ sessions' = Without(sessions[1]) /\ last' = 0
    /\ UNCHANGED <<holder, state, inuse, pc, local, quit, ended, delFailed>>

Terminated == ((AllEnd /\ sessions = <<>>) \/ fault # {}) /\ UNCHANGED vars

-----------------------------------------------------------------------------
Step(t) ==
    \/ Accept(t) \/ NothingToAccept(t)
    \/ nc_ps_add_session(t) \/ NoSysrepoSession(t) \/ AddTimedOut(t) \/ Announce(t)
    \/ PollLock(t) \/ PollLockTimedOut(t)
    \/ SkipSession(t) \/ PollTimedOut(t) \/ PollFreed(t)
    \/ FoundEnded(t) \/ FoundLost(t) \/ FoundError(t) \/ FoundSsh(t) \/ FoundRpc(t)
    \/ Recv(t) \/ Execute(t) \/ Reply(t) \/ Finish(t)
    \/ Seek(t) \/ PassOver(t) \/ Match(t) \/ Kill(t)
    \/ Count(t) \/ nc_session_accept_ssh_channel(t)
    \/ nc_ps_del_session(t) \/ DelTimedOut(t) \/ nc_session_free(t)

Sound == fault = {}

Next ==
    \/ Sound /\ \E t \in Threads : Step(t)
    \/ Sound /\ \E s \in Sessions : Send(s)
    \/ Sound /\ (signal_handler \/ CloseOne)
    \/ Terminated

Spec == Init /\ [][Next]_vars

\* The workers run, main waits for them, and a poll has a finite timeout.
FairSpec ==
    /\ Spec
    /\ \A t \in Threads : WF_vars(Sound /\ Step(t)) /\ SF_vars(Sound /\ PollTimedOut(t))
    /\ WF_vars(Sound /\ CloseOne)

-----------------------------------------------------------------------------
(***************************************************************************)
(* A session exists in the hands of the worker that is to add it, while it *)
(* is polled, while its request is executed, entry included although that  *)
(* is written without the structure's lock (session_server.c:1639-1665),   *)
(* and from the report of its end until that worker frees it: whatever the *)
(* other workers remove, unless a removal timed out.  It says nothing of   *)
(* the uses in between, with no lock held (main.c:959-1000,                *)
(* common.c:171-192, netconf.c:523-536): those do meet freed sessions, and *)
(* fault = {"use"} is how such a run ends.                                 *)
(***************************************************************************)
PollIsSafe == ~delFailed =>
    /\ "poll" \notin fault
    /\ \A t \in Threads : pc[t] \in Working => cur[t] \in InPs
    /\ \A t \in Threads :
         pc[t] \in Working \cup {"add", "channel", "del", "free"} => ~Freed(cur[t])

(***************************************************************************)
(* The end of a session is reported to one worker, which frees it: nobody  *)
(* frees it a second time (session_server.c:1566-1584, main.c:996, 305).   *)
(***************************************************************************)
FreedOnce == ~delFailed =>
    /\ \A s \in Sessions : ended[s] <= 1
    /\ "free" \notin fault

(***************************************************************************)
(* "it definitely should not be busy because we have the lock"             *)
(* (session_server.c:1576): a session is BUSY only under its RPC lock, and *)
(* no two threads work on one session.                                     *)
(***************************************************************************)
BusyIsLocked ==
    /\ \A s \in InPs : state[s] = "BUSY" => inuse[s] \/ Freed(s)
    /\ \A t, u \in Threads :
         pc[t] \in Working /\ pc[u] \in Working /\ cur[t] = cur[u] => t = u

(***************************************************************************)
(* The indices of nc_ps_poll are inside the array, whatever was added and  *)
(* removed since the last poll (session_server.c:1524-1528, 1053-1062).    *)
(***************************************************************************)
IndicesInside ==
    /\ sessions # <<>> => last < Len(sessions)
    /\ \A t \in holder : i[t] < Len(sessions) /\ j[t] < Len(sessions)

(***************************************************************************)
(* A session that was killed, closed or lost is freed in the end, however  *)
(* busy the others are (session_server.c:1522-1619, main.c:996).           *)
(***************************************************************************)
EndedIsFreed ==
    \A s \in Sessions : status[s] = "INVALID" ~> status[s] = "freed" \/ fault # {}

(***************************************************************************)
(* After the signal every worker ends and no session is left               *)
(* (main.c:940, 1288-1315).                                                *)
(***************************************************************************)
ServerStops == quit ~> (AllEnd /\ sessions = <<>>) \/ fault # {}
=============================================================================
