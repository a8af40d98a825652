----------------------------- MODULE ListStore ------------------------------
(***************************************************************************)
(* The database client, App/Client/ReadFile.c: "store" puts the control    *)
(* lists of a configuration into the table info of docker/libs/mydata.sql, *)
(* "show" and "select" print from it.  Several clients work on one server. *)
(*                                                                         *)
(* Each statement is a transaction of its own (nothing turns autocommit    *)
(* off), so between the query for a switch's last list_number and the      *)
(* INSERTs that use it, and between any two INSERTs, other clients act.    *)
(* Every turn of the main loop opens a connection and none is closed: they *)
(* end with the process.  A configuration is what ReadConfigFile left in   *)
(* the array of switches, whatever that is.                                *)
(***************************************************************************)
EXTENDS Naturals, Sequences, FiniteSets

CONSTANTS
    Clients,        \* the client processes
    Switches,       \* switch_number
    Cells,          \* the rows of a switch: [port, index, value]
    Configs,        \* what "store" may find: sequences of [switch, rows]
    FirstRows,      \* the table when the first client starts
    MaxConnections, \* connections the server accepts
    MaxStores,      \* bound: switches stored, over all clients
    MaxRestarts     \* bound: starts of clients that were gone

ASSUME ConfigsAssumption ==
    Configs \subseteq Seq([switch : Switches, rows : Seq(Cells)])

ASSUME FirstRowsAssumption ==
    /\ FirstRows \subseteq [switch : Switches, list : Nat \ {0}, cell : Cells, store : {0}]
    /\ \A r \in FirstRows : \A l \in 1 .. r.list :
         \E q \in FirstRows : q.switch = r.switch /\ q.list = l

VARIABLES
    info,     \* the table; a row's store is history: which store inserted it
    pc,       \* where each client is: "loop" "prompt" "switch" "insert" "gone"
    config,   \* ptr_switches of each client
    at,       \* at[c].i, at[c].k: the switch and the row to insert next
    list,     \* list_number
    conns,    \* connections each client holds
    restarts, \* how often a client was started again
    stores,   \* history: what each store looked up, was to insert, and its end
    mine      \* history: the store each client is at

vars == <<info, pc, config, at, list, conns, restarts, stores, mine>>

Store == [switch : Switches, rows : Seq(Cells), list : Nat \ {0},
          seen : SUBSET Nat, added : BOOLEAN]

TypeOK ==
    /\ info \subseteq [switch : Switches, list : Nat \ {0}, cell : Cells, store : Nat]
    /\ pc \in [Clients -> {"loop", "prompt", "switch", "insert", "gone"}]
    /\ config \in [Clients -> Configs \cup {<<>>}]
    /\ at \in [Clients -> [i : Nat \ {0}, k : Nat \ {0}]]
    /\ list \in [Clients -> Nat \ {0}]
    /\ conns \in [Clients -> Nat]
    /\ restarts \in Nat
    /\ stores \in Seq(Store)
    /\ mine \in [Clients -> 0 .. Len(stores)]

Init ==
    /\ info = FirstRows
    /\ pc = [c \in Clients |-> "loop"]
    /\ config = [c \in Clients |-> <<>>]
    /\ at = [c \in Clients |-> [i |-> 1, k |-> 1]]
    /\ list = [c \in Clients |-> 1]
    /\ conns = [c \in Clients |-> 0]
    /\ restarts = 0
    /\ stores = <<>>
    /\ mine = [c \in Clients |-> 0]

-----------------------------------------------------------------------------
(***************************************************************************)
(* The table.                                                              *)
(***************************************************************************)
Of(switch) == {r \in info : r.switch = switch}

\* The primary key: (switch_number, port_number, list_number, index_).
SameKey(r, q) ==
    /\ r.switch = q.switch /\ r.list = q.list
    /\ r.cell.port = q.cell.port /\ r.cell.index = q.cell.index

\* Mutant: the table has no primary key.
TakenNever(row) == FALSE

Taken(row) == \E r \in info : SameKey(r, row)

\* Mutant: the list is the last one, not the one after it.
LastListNotIncremented(switch, n) ==
    IF Of(switch) = {} THEN n = 0
    ELSE \E r \in Of(switch) : r.list = n + 1 /\ \A q \in Of(switch) : q.list <= r.list

\* The query for the last list_number, in descending order: n is the first
\* row's, 0 when there is no row.
LastList(switch, n) ==
    IF Of(switch) = {} THEN n = 0
    ELSE \E r \in Of(switch) : r.list = n /\ \A q \in Of(switch) : q.list <= n

\* Mutant: the first list of a switch is counted up as well.
NewListAlwaysCounted(n) == IF n = 0 THEN 2 ELSE n + 1

\* Mutant: list_number++ is missing.
NewListNotCounted(n) == n

\* list_number: 1 without a row, one more than the last list's otherwise.
NewList(n) == n + 1

-----------------------------------------------------------------------------
(***************************************************************************)
(* The main loop.  exit(1) and a kill alike end the process, and with it   *)
(* its variables and its connections.                                      *)
(***************************************************************************)
Goto(c, place) == pc' = [pc EXCEPT ![c] = place]

Forget(c) ==
    /\ config' = [config EXCEPT ![c] = <<>>]
    /\ at' = [at EXCEPT ![c] = [i |-> 1, k |-> 1]]
    /\ list' = [list EXCEPT ![c] = 1]
    /\ mine' = [mine EXCEPT ![c] = 0]

Exit(c) ==
    /\ Goto(c, "gone")
    /\ Forget(c)
    /\ conns' = [conns EXCEPT ![c] = 0]
    /\ UNCHANGED <<info, restarts, stores>>

Total(n) ==
    LET sum[S \in SUBSET Clients] ==
          IF S = {} THEN 0
          ELSE LET c == CHOOSE c \in S : TRUE IN n[c] + sum[S \ {c}]
    IN  sum[Clients]

Full == Total(conns) >= MaxConnections

mysql_real_connect(c) ==
    /\ pc[c] = "loop"
    /\ ~Full
    /\ conns' = [conns EXCEPT ![c] = @ + 1]
    /\ Goto(c, "prompt")
    /\ UNCHANGED <<info, config, at, list, restarts, stores, mine>>

ConnectRefused(c) == pc[c] = "loop" /\ Full /\ Exit(c)

\* "store" and "store-upload": ReadConfigFile, then InsertConfigInDB.
StoreCommand(c) ==
    /\ pc[c] = "prompt"
    /\ \E cfg \in Configs :
         /\ Len(stores) + Len(cfg) <= MaxStores
         /\ config' = [config EXCEPT ![c] = cfg]
    /\ at' = [at EXCEPT ![c].i = 1]
    /\ Goto(c, "switch")
    /\ UNCHANGED <<info, list, conns, restarts, stores, mine>>

\* "show", "select", anything else and the end of the input only read.
OtherCommand(c) ==
    /\ pc[c] = "prompt"
    /\ Goto(c, "loop")
    /\ UNCHANGED <<info, config, at, list, conns, restarts, stores, mine>>

-----------------------------------------------------------------------------
(***************************************************************************)
(* InsertConfigInDB: per switch the query for the last list_number, then   *)
(* an INSERT per row.                                                      *)
(***************************************************************************)
Cur(c) == config[c][at[c].i]

FindLast(c) ==
    /\ pc[c] = "switch"
    /\ at[c].i <= Len(config[c])
    /\ \E n \in {0} \cup {r.list : r \in info} :
         /\ LastList(Cur(c).switch, n)
         /\ list' = [list EXCEPT ![c] = NewList(n)]
         /\ stores' = Append(stores,
              [switch |-> Cur(c).switch, rows |-> Cur(c).rows, list |-> NewList(n),
               seen |-> {r.store : r \in info}, added |-> FALSE])
    /\ mine' = [mine EXCEPT ![c] = Len(stores) + 1]
    /\ at' = [at EXCEPT ![c].k = 1]
    /\ Goto(c, "insert")
    /\ UNCHANGED <<info, config, conns, restarts>>

Row(c) ==
    [switch |-> Cur(c).switch, list |-> list[c], cell |-> Cur(c).rows[at[c].k],
     store |-> mine[c]]

Insert(c) ==
    /\ pc[c] = "insert"
    /\ at[c].k <= Len(Cur(c).rows)
    /\ ~Taken(Row(c))
    /\ info' = info \cup {Row(c)}
    /\ at' = [at EXCEPT ![c].k = @ + 1]
    /\ UNCHANGED <<pc, config, list, conns, restarts, stores, mine>>

\* Mutant: a row the server refuses is passed over.
DuplicatePassedOver(c) ==
    /\ pc[c] = "insert"
    /\ at[c].k <= Len(Cur(c).rows)
    /\ Taken(Row(c))
    /\ at' = [at EXCEPT ![c].k = @ + 1]
    /\ UNCHANGED <<info, pc, config, list, conns, restarts, stores, mine>>

\* Mutant: a refused INSERT is tried again.
DuplicateTriedAgain(c) ==
    /\ pc[c] = "insert"
    /\ at[c].k <= Len(Cur(c).rows)
    /\ Taken(Row(c))
    /\ UNCHANGED vars

Duplicate(c) ==
    /\ pc[c] = "insert"
    /\ at[c].k <= Len(Cur(c).rows)
    /\ Taken(Row(c))
    /\ Exit(c)

\* "[DATABASE] Configuration added in database", and on to the next switch.
Added(c) ==
    /\ pc[c] = "insert"
    /\ at[c].k > Len(Cur(c).rows)
    /\ stores' = [stores EXCEPT ![mine[c]].added = TRUE]
    /\ at' = [at EXCEPT ![c].i = @ + 1]
    /\ Goto(c, "switch")
    /\ UNCHANGED <<info, config, list, conns, restarts, mine>>

StoreReturns(c) ==
    /\ pc[c] = "switch"
    /\ at[c].i > Len(config[c])
    /\ Goto(c, "loop")
    /\ Forget(c)
    /\ UNCHANGED <<info, conns, restarts, stores>>

(***************************************************************************)
(* A client is killed, or a statement fails and it calls exit(1); somebody *)
(* starts it again.                                                        *)
(***************************************************************************)
Killed(c) == pc[c] # "gone" /\ Exit(c)

StartAgain(c) ==
    /\ pc[c] = "gone"
    /\ restarts < MaxRestarts
    /\ restarts' = restarts + 1
    /\ Goto(c, "loop")
    /\ UNCHANGED <<info, config, at, list, conns, stores, mine>>

Step(c) ==
    \/ mysql_real_connect(c) \/ ConnectRefused(c)
    \/ FindLast(c) \/ Insert(c) \/ Duplicate(c) \/ Added(c) \/ StoreReturns(c)

Command(c) == StoreCommand(c) \/ OtherCommand(c)

AllGone == (\A c \in Clients : pc[c] = "gone") /\ restarts = MaxRestarts /\ UNCHANGED vars

Next ==
    \/ \E c \in Clients : Step(c) \/ Command(c) \/ Killed(c) \/ StartAgain(c)
    \/ AllGone

Spec == Init /\ [][Next]_vars

\* The program runs on its own except at the prompt, and the server answers.
FairSpec == Spec /\ \A c \in Clients : WF_vars(Step(c))

-----------------------------------------------------------------------------
(***************************************************************************)
(* The lists of a switch are numbered 1, 2, 3 ... without a gap, whatever  *)
(* clients do at once and wherever one dies (ReadFile.c:113-140): "show"   *)
(* and the next store rely on the greatest number alone.                   *)
(***************************************************************************)
DenseLists ==
    \A r \in info : \A l \in 1 .. r.list : \E q \in Of(r.switch) : q.list = l

(***************************************************************************)
(* Two stores put rows under one list_number only if each of them queried  *)
(* for the last list before the other's first INSERT: the window of the    *)
(* race is from ReadFile.c:116 to the first 173, and a partial list that a *)
(* dead client left is never added to.                                     *)
(***************************************************************************)
MixedOnlyInWindow ==
    \A r, q \in info :
      (r.switch = q.switch /\ r.list = q.list /\ r.store # q.store) =>
        /\ r.store # 0 /\ q.store # 0
        /\ r.store \notin stores[q.store].seen
        /\ q.store \notin stores[r.store].seen

(***************************************************************************)
(* "Configuration added in database" (ReadFile.c:181) is printed only when *)
(* the table holds every row of the switch under the store's list number,  *)
(* each inserted by this very store, and under no other number.            *)
(***************************************************************************)
AddedIsStored ==
    \A s \in 1 .. Len(stores) : stores[s].added =>
      {[switch |-> r.switch, list |-> r.list, cell |-> r.cell] : r \in {r \in info : r.store = s}}
        = {[switch |-> stores[s].switch, list |-> stores[s].list, cell |-> stores[s].rows[k]]
             : k \in 1 .. Len(stores[s].rows)}

(***************************************************************************)
(* No step changes or removes a row or a store's outcome, and a row enters *)
(* under a key that was free: a configuration that was added stays as it   *)
(* was added, whoever else writes (ReadFile.c:164-177, mydata.sql's key).  *)
(***************************************************************************)
StoredStays ==
    [][/\ info \subseteq info'
       /\ \A s \in 1 .. Len(stores) : stores[s].added => stores'[s] = stores[s]
       /\ \A r \in info' \ info : \A q \in info' : SameKey(r, q) => r = q]_vars

(***************************************************************************)
(* A store that began ends: the client is back in its loop or gone, also   *)
(* when another client inserts under the same number (ReadFile.c:173-177). *)
(***************************************************************************)
StoreEnds ==
    \A c \in Clients : pc[c] \in {"switch", "insert"} ~> pc[c] \in {"loop", "gone"}
=============================================================================
