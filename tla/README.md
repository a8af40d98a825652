# TSN controller: TLA+ models, checks and proofs

The repository holds a configuration controller for Time-Sensitive Networking
switches. The program under `src/App` reads `config.json` (switches, their ports,
and for each port a list of gate states with the time each one lasts), and writes
one XML instance of the IEEE 802.1Qbv scheduling YANG model per switch into
`App/Output`. Those files are meant for a NETCONF server: the container under
`src/docker` holds one, netopeer2 on libnetconf2 and sysrepo, as third-party source.
An older program, `App/Client/ReadFile.c`, stores configurations in MySQL.

The project models the program itself and the older database client, and of the
container the three mechanisms a configuration passes through on its way to a switch
that depend on threads and processes at once: the lock of the polled sessions, the
workers of the server, and the events by which sysrepo has a change agreed on.

## 1. Inventory

| Part | Source | State | Operations | Interacts with |
|---|---|---|---|---|
| JSON tree | `App/json/json.c` | heap nodes with `left` (first child), `right` (sibling), `parent` | `json_parse` / `json_build` (token loop), `json_free` (loop without stack) | called by the controller |
| JSON readers | `App/json/json.c` | none | `json_node`, `json_item`, `json_items`, `json_next`, `json_real`, `json_is_*`, `json_foreach` (callback per node) | tree; calls back into `read_json` |
| JSON text | `App/json/json.c` | none | `json_scan`, `json_copy`, `json_encode` | feeds `json_build` |
| Lists | `App/switch/switch.c` | three nested linked lists | create, push, print, free | filled by `read_json`, walked by the XML writer |
| Controller | `App/Client/Main.c` | the lists, the open file, `../Output` | `parse`, `read_json`, `read_values`, `xml_write_*`, `main` | all of the above |
| Gate states, files | `App/Client/utils.c` | none | `binaryToDecimal`, `file_read` | controller |
| Database client (older) | `App/Client/ReadFile.c`, `docker/libs/mydata.sql` | MySQL table `info`, connections | store, show, select | other clients, through the table; not in the current Makefile |
| Line reader (older) | `App/Client/parser.c` | array of switches | `ReadConfigFile`, `WriteXmlInstance` | database client |
| Container | `docker/docker-files/wrapper.sh` | MySQL service | start, watchdog loop | - |
| Pollsession lock | `libnetconf2/src/session_server.c` | ring buffer of tickets, condition variable | `nc_ps_lock`, `nc_ps_unlock` | every thread that uses the structure |
| Pollsession, sessions | `libnetconf2/src/session_server.c`, `session.c` | array of sessions, their state and status, RPC lock | add, delete, get, `nc_ps_poll`, `nc_session_free` | called by the workers |
| NETCONF server workers | `netopeer2/src/main.c`, `common.c`, `netconf.c` | loop flag | `worker_thread`, session callbacks, `<kill-session>`, end of `main` | clients, pollsession |
| Change events | `sysrepo/src/shm_sub.c`, `sysrepo.c` | event, request, priority and count in shared memory; what each subscription has seen | change, done, abort; listen and answer | one notifier, several listening processes |

What is hard here, and what makes each part correct:

* **JSON tree.** `json_free` keeps only a cursor: it cuts `left` links going down and
  climbs by `parent` pointers, on complete trees and on whatever existed when
  `json_build` gave up. Correct means: it never touches a freed node, it ends, and it
  leaves nothing behind. `json_build` decides on token, content, type, name and
  position of the cursor at once. Correct means: it accepts a definite language and
  the trees it hands out have the shape the readers rely on.
* **Controller.** One sequential program, but its effects are files that outlive it:
  errors in the middle of the document, crashes in the middle of a file, several runs
  over the same directory, and values carried over in a local that is never reset.
  Correct means: the files say what the configuration says, an error changes no file,
  a crash damages at most one, and the next complete run repairs it.
* **Database client.** Several clients, no transactions, `exit(1)` between rows.
  Correct means: the lists of a switch are numbered without gaps, a list that was
  announced as added is whole and stays so, and a list holds the rows of two stores
  only if the two overlapped.
* **Pollsession lock.** A queue in a ring buffer that threads leave from its middle
  when they time out. Correct means: one thread at a time, in the order of arrival, no
  ticket left or lost, no wakeup lost.
* **Server workers.** Sessions are added, polled, killed and freed by any worker, and a
  request is executed without the structure's lock. Correct means: what a worker adds,
  polls, executes or ends exists while it does, each session is freed once, and in the
  end. The code also uses sessions with no lock at all; there nothing keeps them alive.
* **Change events.** One word of shared memory carries question and answer, counts say
  who is missing, and everyone may be late. Correct means: data are stored only when
  all have agreed, whoever agreed in vain is told, and no event stays for good; the
  first holds always, the other two with exceptions that are stated below.

`PROJECT.json` lists the hazards line by line under `hazards`.

## 2. Modules

| Module | What it is |
|---|---|
| `JsonTree` | `json_parse`, `json_build`, `json_free` on a heap of `MaxNodes` nodes, and the refinement mapping to `JsonGrammar` |
| `JsonGrammar` | abstract specification: the language `json_build` recognises, a pushdown automaton without nodes or memory |
| `JsonTreeProofs` | theorems about `JsonTree` |
| `GateValue`, `GateStates`, `MCGateStates` | what `binaryToDecimal` computes, its loop, and the TLC instance |
| `Recursion` | a theorem the proofs share: a function defined by recursion on numbers exists |
| `GateStatesProofs` | theorems about `GateStates` |
| `Controller`, `MCController` | the controller over several runs, and the configurations TLC uses |
| `ControllerProofs` | theorems about `Controller` |
| `ListStore`, `MCListStore` | the database clients on one table, and the configurations TLC uses |
| `ListStoreProofs` | theorems about `ListStore` |
| `Turnstile` | abstract specification: a line of threads in front of the pollsession structure |
| `PsLock` | the ticket queue of `nc_ps_lock` and `nc_ps_unlock`, which implements `Turnstile` |
| `PsLockProofs` | theorems about `PsLock`, the refinement of `Turnstile` among them |
| `NetconfServer` | the workers and the sessions; its lock is what `PsLock` provides, without the order |
| `NetconfServerProofs` | theorems about `NetconfServer` |
| `ChangeEvents`, `MCChangeEvents` | notifier and listeners of one YANG module, and the subscriptions TLC uses |
| `ChangeEventsProofs` | theorems about `ChangeEvents` |

### JsonTree

The fields of `struct json` are functions from nodes to values (`type`, `named`,
`left`, `right`, `parent`); nodes are numbered in the order of their allocation;
`live` is the set allocated and not freed. A text is an arbitrary sequence of scan
results: `json_scan` yields the next structural character (token) and the kind of
what precedes it (content: nothing, a scalar of some type, or junk that `strtod` does
not read to its end), or reports malformed text (`ScanError`). One action is one round
of the loop of `json_build` (`OpenGroup`, `SetName`, `NextSibling`, `CloseGroup`,
`Accept`, `Reject`, `OutOfMemory`) or of `json_free` (`FreeDescend`, `FreeNode`,
`FreeReturn`). The texts of names and values are left out: nothing here depends on
them. Any allocation may fail. Two history variables: `open`, the groups being built
and later the nodes `json_free` has entered, and `orphans`, children whose only
reference `json_build` overwrote.

`JsonGrammar` states the accepted language. It is JSON with two leniencies of the
code, each an action of its own: a group may follow a group just closed
(`ReopenGroup`), and the first member of an object may lack its value
(`CloseEmptyMember`). The refinement also covers rejection: a syntax error is
reported only where no rule of the grammar applies.

### Controller

A document is a tree of records from the set `Nodes`, in the shape `JsonTree` accepts (a
group has at least one child; `{}` and `[]` hold one EMPTY child; `NodesAssumption`).
`Faithful` is about well-formed configurations: a switch is its name and a non-empty
array of ports, a port its number and its entries, an entry an interval and gate states,
and nothing else, with port number and gate states that fit an `int` (`WellFormed`). The
two casts of `json_real`'s `unsigned long` to `int` (Main.c:63, 94) are `ToInt`, for an
`int` of `IntSize` values; intervals stay `unsigned long` in the code. `json_foreach` is an agenda of subtrees
still to visit; each visit is one call of `read_json` (`SkipNode`, `ReadSwitch`,
`MissingPorts`). Lists are sequences of cells with their `size`; a new list is one cell
of size 0 with unset data. Unset memory (`current_port_values`, the head cell of an
empty list) is a choice from `Garbage`. `xml_write_instance` opens a file (truncating
it), writes it port by port into a buffer, and closes it; `fopen` may fail, which
crashes the program. What `fprintf` and `fclose` return is not looked at: a closed file
may be `"lost"`, that is, hold less than was written, and the run goes on. `Killed` ends the program anywhere and leaves any part of the
buffered output on disk. `StartAgain` is the operator's next run. The XML text is
reduced to what it says: port number, announced length, entries (index, gate value,
interval) and the denominator of the cycle time. Assumed: switch names fit their
20-character buffer, a string does not start with a digit where a number is expected,
numbers fit an `unsigned long`.

### ListStore

Each SQL statement is one step. `FindLast` is the query for the greatest
`list_number`, `Insert` one row, `Duplicate` a row the primary key refuses, which ends
the client. Every turn of the loop opens a connection and none is closed: a full server
refuses the next one (`ConnectRefused`). `Killed` may happen anywhere and stands for a
failed statement too. What a configuration holds is a constant: rows are cells
(port, index, value), and nothing is assumed of them, so that a repeated port or a
switch without rows occurs. History: `stores` records for each store the switch, the
number, and which stores' rows the query saw; a row records its store.

### Turnstile and PsLock

What runs under the mutex `ps->lock` is one step, and the mutex itself is taken to be
had in time; waiting on the condition variable is `Woken`, `TimedOutInTurn` or
`TimedOut`. A thread inside stays as long as it likes. Tickets are numbers modulo
`Tickets` (2^8 in the code). Until one wraps (`wrapped`) the queue implements the line
of `Turnstile`: the k-th thread in line is the owner of the k-th ticket, and a thread that
gives up takes out its own place and no other. After 256
arrivals without the queue ever being empty, tickets need not be unique any more, and
the properties say nothing. That takes no unusual run: two threads that each ask again
while the other is inside get there. A server whose workers poll without a pause is then
outside what is checked and proved here from its first wrap on.

### NetconfServer

One action per call or per round of the polling loop, with the structure's lock held
over the whole of `nc_ps_poll`'s loop and over single steps elsewhere. `Found*` are the
outcomes of polling one session, `Recv`, `Execute`, `Reply` and `Finish` the request,
under the session's RPC lock only; `Seek`, `PassOver`, `Match` and `Kill` are a callback
that looks through the sessions (`<kill-session>`, and the search for its own session of
a subscription). A call that finds the structure held may
time out at any time (the timeouts are finite, the poll of another worker need not be
shorter). When a removal times out (`delFailed`), `np2srv_del_session_cb` frees the
session although it is still in the array: the model goes on to the use of it, records
it in `fault` and stops, and the properties say that nothing else leads to a poll of a
freed session or a second release.

A session is also used with no lock held: after `nc_ps_poll` returned it (`Count`,
`nc_session_accept_ssh_channel`), after it was added (`Announce`), and after
`nc_ps_get_session` returned it (`PassOver`, `Match`, `Kill`). Another worker may have
found the connection lost and freed it: such a use is the fault `"use"`. TLC reaches it
from each of these places, without a removal that timed out, and no property denies it.
The second signal's `exit` ends the model as well (`"exit"`).

Left out: failures of the RPC and IO locks, exhausted memory, call home threads,
`nc_max_sessions` (never set), and the reasons a session ended for.

### ChangeEvents

The shared memory is one record. A section under its READ or WRITE lock is one step;
between them, callbacks run and the event may be over (`Overtaken`). The notifier goes
through the priorities with `Publish` and one of `Accepted`, `Refused`, `Processed`, or
`Expire` followed by `CallbackTimedOut` or `SecondTimedOut`: a timed wait gives up the
time first and gets the mutex back later. The pipes are a set of listeners with a byte
to read. `subscriber_count` is a number modulo `CountSize` (2^32). A notifier may or may
not wait for done and abort (netopeer2 does not by default). Left out: several modules
in one change, `xpath` filters, the update event, subscribing and unsubscribing while
events are under way, and the death of a process. History: who accepted and who was
told of an abort, which requests all agreed on (`agreed`) and which were `stored`, and
which were `disturbed`: the last answer came with the timeout, the abort was not published
since an earlier event was not processed, or a listener that had accepted was overtaken
before it wrote its answer. The last one needs only one subscription per listener: an
overtaken listener still counts itself for the abort, the notifier has not counted it, and
the abort is over before another listener has seen it (three listeners of one priority
are enough). With `FailingStore` the store may fail after all agreed, at any of its three
steps (sysrepo.c:2362-2374); the code then publishes neither done nor abort.

## 3. Runs

| Run | Expect | Shows |
|---|---|---|
| `json_tree` | pass | the invariants below, termination of `json_free`, refinement of `JsonGrammar`; 4 nodes, 170 851 states |
| `gate_states` | pass | every one of the 256 gate lists decodes to the number with the same bits; the loop invariant also on numbers that are not gate lists |
| `controller` | pass | 39 configurations, two runs, kills, failing opens and writes; 219 079 states |
| `json_leak` | violation | `[][1]` is accepted and leaks the first group's child (json.c:745 says all memory is freed) |
| `json_empty_member` | violation | `{"a":}` passes the test meant for `{}` and `[]` (json.c:348) |
| `cycle_time` | violation | `hypercycle =+ period` gives every port the last period of the last port; the YANG model asks for the port's own cycle |
| `cycle_rational` | violation | with the periods of `config.json` the denominator written is 0 |
| `list_store` | pass | two clients, four kinds of configuration, three connections, kills and a restart |
| `ps_lock` | pass | four threads at a queue of three with four tickets, `Turnstile` implemented |
| `netconf_server` | pass | two workers, two sessions, safety and liveness; 90 527 states |
| `change_events` | pass | two changes, five subscriptions of two listeners, two priorities, a store that may fail; 755 324 states |
| `change_second_event` | violation | an answer between the notifier's timeout and its check leaves SUCCESS in the memory: the subscriber that accepted gets no abort, against sysrepo.h:1263-1264 (without failing stores) |

Properties of `json_tree`: `TreeLinks` (no live node points to a freed one, links in
both directions agree, one reference per node), `WalkOnLiveNodes` (no use after free,
no double free), `WholeTreeFreed` and `OnlyOrphansLeft` (what may stay allocated),
`AcceptedShape` (what the readers rely on), `SiblingsKept` (no sibling link is
overwritten), `FreeTerminates`, `RecognisesGrammar`.

Properties of `controller`: `Faithful` (after a run on a well-formed configuration the
file of each named switch describes it entry by entry, the last one of a name winning,
and other files are untouched, whatever earlier runs left; a file that could not be
written in full excepted), `NoOutputOnError`, `OneTornFile` (at most the open file lacks
its end), `ControlLists` (announced lengths and indices, also for odd
configurations), `RunsEnd`.

Properties of `list_store`: `DenseLists`, `MixedOnlyInWindow` (rows of two stores under
one number: each had queried before the other's first row), `AddedIsStored` (what was
announced as added is there, all of it, by this store), `StoredStays`, `StoreEnds`.

Properties of `ps_lock`: `Exclusion` (also the assertion at session_server.c:934),
`NoTicketLost`, `NoLostWakeup`, `FirstComeFirstServed` (the refinement), `TurnComes`
(without relying on a timeout). All of them are stated up to the first wrap of a ticket.

Properties of `netconf_server`: `PollIsSafe` (a session exists while it is added,
polled, worked with under its RPC lock, and until the worker told of its end frees it, its
entry included; not the uses without a lock), `FreedOnce`, `BusyIsLocked` (the comment at session_server.c:1576),
`IndicesInside`, `EndedIsFreed` (however busy the others are), `ServerStops`.

Properties of `change_events`: `StoredIsAgreed`; `AbortReachesAccepted` (the rule of
sysrepo.h:1263 for changes that somebody refused or did not answer, the disturbed ones
excepted); `NoEventLeft` (when all is quiet, only the SUCCESS or the abort of a disturbed
request can be left; either blocks every later change of the module). The rule without
exceptions is `SecondEvent`, which `change_second_event` refutes with subscriptions that
have a listener each and a store that does not fail.

**Bounds.** Four nodes suffice for a group with two siblings, nesting of three, a
re-opened group with an orphan that has a sibling, and an allocation failing at each
of these points; the proofs remove the bound. Two runs suffice for a run over the
output of an earlier one, complete, failed or torn. Configurations have up to three
switches (two of one name), two ports, three entries, each kind of missing part, and
numbers above an `int` of 20 bits (`IntSize`; TLC's own numbers have 32).
Two clients with two stores reach every order of two queries and four INSERTs, a crash
between any two, a partial list found by the next store, and one client using up the
connections of the other; the proofs remove the bounds. Four threads at three slots
reach the full queue, a timeout in the middle with threads behind it, every position of
the buffer's start and the wrap of a ticket. Two workers and two sessions reach each
pair of a poll with an add, a removal, a kill or a request on the same or the other
session; the array then has lengths 0 to 2. Two changes suffice for an event that is
still there, or an answer still to come, when the next change begins; five
subscriptions for a listener with two of one priority, two listeners of one priority, a
priority after another, and one that only wants done.

**Fairness.** `json_free` and `main` are loops of one thread that wait for nothing:
weak fairness of their steps says only that the program is given the processor.
Nothing is assumed of kills or of the operator. In `ListStore` the same holds of a
client except at its prompt, given that the server answers. In `PsLock` a thread that was
woken runs, and a thread inside leaves (`TurnComes` is about the lock, given that).
In `NetconfServer` the workers run; `PollTimedOut` is strongly fair, since a poll has a
finite timeout (`NP2SRV_POLL_IO_TIMEOUT`) that the clock, not the sessions, decides.
`ChangeEvents` is checked for safety only; it stops when the changes are used up, so
deadlock is not checked there.

## 4. Proofs

`JsonTreeProofs` proves, for every `MaxNodes` in Nat and every set of contents:

| Theorem | Statement |
|---|---|
| `TypeCorrect` | `Spec => []TypeOK` |
| `LinksAgree` | `Spec => []TreeLinks` |
| `FreeIsSafe` | `Spec => []WalkOnLiveNodes` |
| `FreeLeavesOrphans` | `Spec => []OnlyOrphansLeft` |
| `FreeIsComplete` | `Spec => []WholeTreeFreed` |
| `SiblingsAreKept` | `Spec => SiblingsKept` |
| `ReadersShape` | `Spec => []AcceptedShape` |
| `FollowsGrammar` | `Spec => RecognisesGrammar` |

None of these is inductive alone. The invariant `IInv` adds: nodes not yet allocated
have no links (`Fresh`); references go from older to younger nodes and parents are
older than their children (`Ordered`); the open nodes form one path of ancestors of
the cursor, ordered by age (`Path`, `Building`); while freeing, the cursor and the
nodes entered are referred to by nothing allocated, and the entered ones have no
children left (`Freeing`); and every live node is the root, an orphan, on the path, or
referred to by a live node (`Coverage`). The path is what stands in for the stack that
`json_free` does not have. `FreeIsComplete` then takes the oldest node left at the end:
it would be referred to by an older one. There is one lemma per action. The only
assumptions are the two on the constants, which TLC evaluates in the runs; `IInv` was
checked with TLC on the instance of `json_tree` before it was proved.

`ReadersShape` needs a second invariant on top (`ShapeInv`), about a document that has lost
no child. Memory not yet allocated is EMPTY and nameless (`Blank`); only the root has no
parent, and a group's first child is its oldest (`Rooted`); exactly the groups have
children (`Grouped`); members have names and elements have none (`Naming`); the cursor and
the open groups are the youngest of their siblings (`Youngest`); and an EMPTY node other
than the cursor is alone in a closed group (`Emptied`). The last one is the delicate test
at json.c:348: a group closes on an EMPTY cursor only if that is its first child, which as
the youngest is then the only one.

`FollowsGrammar` is the refinement of `JsonGrammar`: the stack is the types of the open
groups by depth, that is, by how many open groups are no younger. `Opened` says that there
is one group at each depth (`Layered`) and that neither an open group nor a cursor with a
value lacks a name in an object; since the cursor is younger than every open group and its
parent is the youngest of them, opening pushes and closing pops (`OnTop`). The checks of
`json_build` are then shown to be those of the grammar, in both directions (`CanReadIs`),
which makes a rejection a rejection there too.

`PsLockProofs` proves, for every set of threads, queue length and number of tickets:
`TypeCorrect` (`TypeOK`), `OneInside` (`Exclusion`), `TicketsKept` (`NoTicketLost`) and
`WokenInTurn` (`NoLostWakeup`). The invariant is `TypeOK` and, until a ticket wraps,
`InLine`: tickets increase along the queue, a thread inside has the first one, every
thread that waits or is inside has its ticket in the queue and every ticket in the queue
has such a thread, no two threads share one, and a waiting thread whose ticket is first
has been woken. That they increase is what makes a removed ticket the only one of its
value, and the arithmetic of the ring buffer (a position names one slot) is proved once
as lemmas.

`ListStoreProofs` proves, for every set of clients, switches, rows and configurations,
and every number of connections, stores and restarts: `TypeCorrect` (`TypeOK`), `Dense`
(`DenseLists`), `Windowed` (`MixedOnlyInWindow`), `AddedStored` (`AddedIsStored`) and
`RowsStay` (`StoredStays`). The invariant adds to types and dense lists: a client that inserts is at its own store, whose
number it uses, and the lists below that number exist (`Inserting`; rows are never
removed, so they stay); a row has the switch and the number of its store
(`RowsOfStores`); and a store's number is above those of the stores it saw and of the rows
there were at first (`AboveSeen`). `AddedStored` needs a second one on top (`AInv`): the
rows a client's store has in the table are the ones before the row it is at (`Filled`), no
two inserting clients share a store (`Apart`), and an added store has all of its rows
(`Whole`). The assumptions are the types of the configurations
and that the first table is dense; TLC evaluates both.

`PsLockProofs` also proves `ServedInOrder`: `Spec => FirstComeFirstServed`, that is, the
ring buffer implements `Turnstile`. The mapping chooses the thread of each ticket in the
queue; `InLine` makes that choice unique, so that joining appends to the line, leaving
takes its head, and a ticket removed from the middle (the loop that moves the ones behind
it) takes out one place of the line (`RemovedLine`). One lemma per action; a wrapped ticket
maps to a stutter.

`NetconfServerProofs` proves, for every set of threads and every finite set of sessions:

| Theorem | Statement |
|---|---|
| `TypeCorrect` | `Spec => []TypeOK` |
| `SafePoll` | `Spec => []PollIsSafe` |
| `OneRelease` | `Spec => []FreedOnce` |
| `BusyMeansLocked` | `Spec => []BusyIsLocked` |
| `PollInBounds` | `Spec => []IndicesInside` |

The invariant: no session is in the array twice (`Once`); one thread polls, the holder, and
its indices are inside the array (`Polling`); a worker owns the session it adds, works with
or ends, no two own the same, and what it owns is new, busy under its RPC lock, or gone
(`Owned`); a session in its hands without a lock is not owned, and nothing is claimed of it; what a session's state says of its status, its lock and the number of its ends
(`States`); and until a removal times out nothing in the array is freed (`Intact`).
Ownership is what the code never writes down: it is the reason why `nc_ps_poll` may write
an entry after giving the lock back.

`GateStatesProofs` proves, for every number an `int` holds: `Decodes` (`LoopDecodes`) and
`KeepsGates` (`GatesKept`). `Decoded` is a recursive function; `Recursion` shows that a
function with such an equation exists (by the least number for which approximations would
differ or be missing, so without an induction theorem over operators). That eight digits and eight bits
agree is unfolded place by place.

`ChangeEventsProofs` proves, for any listeners, subscriptions, priorities and number of
changes: `TypeCorrect` (`TypeOK`), `StoresAgreed` (`StoredIsAgreed`), `AbortsReach`
(`AbortReachesAccepted`) and `NoneLeft` (`NoEventLeft`). The assumptions: finitely many
subscriptions, each in exactly one place of one listener, one that is asked, and a count
type that can count them (2^32 in the code). The invariant says which events there can be
when the notifier is where (`Stage`), that only a listener at a failed request is overtaken
(`Overtaking`), and, the heart of it, that the count in shared memory is the number of
subscriptions for which the event is still new and of those whose listener has handled it
and has yet to write its answer (`Tally`, `ErrorCount`). From there: how far change, done and abort have
come (`Progress`, `Owed`), that whoever is still to answer has been woken (`Woken`), and
that whoever accepted what not all agreed on has been told, is still to be, or accepted a
disturbed request (`Settled`, `Kept`). Whether the store can fail is a constant, so the
theorems hold with and without it.

`ControllerProofs` proves, for every set of documents and names, starting without output files, and any
number of runs and kills:

| Theorem | Statement |
|---|---|
| `TypeCorrect` | `Spec => []TypeOK` |
| `WritesWhatItRead` | `Spec => []Faithful` |
| `ErrorsTouchNothing` | `Spec => []NoOutputOnError` |
| `TearsOneFile` | `Spec => []OneTornFile` |
| `ListsAreAnnounced` | `Spec => []ControlLists` |

The invariant: a switch in the list has ports and each port entries (`AllLegible`); files
are as before until the document has been read (`Untouched`), and no switch without ports
is behind `json_foreach` (`Ahead`, `Checked`), so that an error cannot follow a write; the
buffer holds the first ports of the switch written (`Writing`), and no file but that one is
torn (`Sound`). For `Faithful`: what is ahead of `json_foreach` is the rest of one switch's
subtree followed by the switches not yet read, and the list holds those before it
(`Ordered`); the files of the names already written are those of the last switch of the
name so far (`Output`). That the lists come out in order rests on lemmas about pushing
(`Pushed` is a recursive function, by `Recursion`), that nothing unset survives in them on
every well-formed entry having both members, and that the casts change nothing on the
numbers of a well-formed configuration fitting an `int` (`ToInt` is the identity there, for
every even `IntSize` above 1000). `MaxRuns`, `IntSize` and the shape of the documents are
the only assumptions.

All these invariants were also checked with TLC, on the instances of the runs.

Only model-checked: all liveness (`FreeTerminates`, `RunsEnd`, `StoreEnds`, `TurnComes`,
`EndedIsFreed`, `ServerStops`), which is out of the prover's reach. The five violations are
counterexamples TLC finds. Every other property of a passing run is stated by a theorem.

## 5. Not modelled

Of the program's own code:

* `json_scan`, `json_copy` and `json_encode` (characters; `JsonTree` takes the result of
  a scan as its input), and `json_print`, which only prints.
* The three lists as heap cells and `free_switch_list` cell by cell: `Controller` has
  them as sequences.
* `ReadConfigFile` and `WriteXmlInstance` of `parser.c`: the reader frees each switch
  right after storing the pointer to it (parser.c:157), and what the array then holds is
  the allocator's. `ListStore` takes any configuration instead.
* `wrapper.sh`: a shell loop without state of its own. The demonstration programs
  (`json/main.c`, `Main-david.c`), `ReadFile2.c` (an earlier copy), the XML text.

Of the container, over 99 % of the repository's lines: libyang and libssh, and of
libnetconf2, netopeer2 and sysrepo everything but the parts above, that is parsers and
printers of YANG, XML, JSON and LYB, schema and data trees, XPath, transports, the
command line client and the plugins. They are sequential library code on large data
structures, where a small model would leave out what they are about; the three parts
modelled are where several threads or processes meet. Also left out, with state and
concurrency of their own: call home, NACM, sysrepo's RPC, operational and notification
subscriptions and its main shared memory. Hence the map covers about one percent of the
repository's lines, and nearly all of what the program does with state.
