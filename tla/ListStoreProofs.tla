-------------------------- MODULE ListStoreProofs ---------------------------
(***************************************************************************)
(* Proofs about the database client, for any number of clients, switches,  *)
(* rows and configurations, and wherever a client is killed.               *)
(*                                                                         *)
(* The argument: a client that inserts works under a list number below     *)
(* which its switch has every list already, since rows are never removed;  *)
(* and a store numbers its list above everything its query has seen.       *)
(***************************************************************************)
EXTENDS ListStore, SequenceTheorems, TLAPS

-----------------------------------------------------------------------------
(***************************************************************************)
(* The parts of the inductive invariant.                                   *)
(***************************************************************************)
\* A client that inserts is at a switch of its configuration and at its own
\* store, and the lists below its own exist.
Pending(c) ==
  /\ at[c].i \in 1 .. Len(config[c])
  /\ mine[c] \in 1 .. Len(stores)
  /\ stores[mine[c]].switch = Cur(c).switch
  /\ stores[mine[c]].list = list[c]
  /\ \A l \in 1 .. list[c] - 1 : \E q \in Of(Cur(c).switch) : q.list = l

Inserting == \A c \in Clients : pc[c] = "insert" => Pending(c)

\* A row that a store inserted is one of its switch and its list.
RowsOfStores ==
  \A r \in info : r.store # 0 =>
    /\ r.store \in 1 .. Len(stores)
    /\ r.switch = stores[r.store].switch
    /\ r.list = stores[r.store].list

\* A store's list is above the lists of the stores whose rows it has seen, and
\* above those that were there before the first one.
AboveSeen ==
  \A s \in 1 .. Len(stores) :
    /\ \A q \in stores[s].seen : q # 0 =>
         /\ q \in 1 .. Len(stores)
         /\ stores[q].switch = stores[s].switch => stores[q].list < stores[s].list
    /\ \A r \in info : r.store = 0 /\ r.switch = stores[s].switch => r.list < stores[s].list

IInv == TypeOK /\ Inserting /\ DenseLists /\ RowsOfStores /\ AboveSeen

\* For AddedIsStored: the rows of store s in the table are its first n.
RowOf(s, k) ==
  [switch |-> stores[s].switch, list |-> stores[s].list, cell |-> stores[s].rows[k], store |-> s]

Holds(s, n) ==
  /\ \A k \in 1 .. n : RowOf(s, k) \in info
  /\ \A r \in info : r.store = s => \E k \in 1 .. n : r = RowOf(s, k)

\* A client has inserted the rows before the one it is at, and nobody else is
\* at its store; a store that was added holds all its rows.
Filling(c) ==
  /\ stores[mine[c]].rows = Cur(c).rows
  /\ ~stores[mine[c]].added
  /\ at[c].k <= Len(Cur(c).rows) + 1
  /\ Holds(mine[c], at[c].k - 1)

Filled == \A c \in Clients : pc[c] = "insert" => Filling(c)

Apart ==
  \A c, d \in Clients : pc[c] = "insert" /\ pc[d] = "insert" /\ mine[c] = mine[d] => c = d

Whole == \A s \in 1 .. Len(stores) : stores[s].added => Holds(s, Len(stores[s].rows))

AInv == Filled /\ Apart /\ Whole

\* The steps that leave the table and the stores alone: every client that
\* inserts after one has inserted before it, at the same place.
Elsewhere ==
  /\ info' = info /\ stores' = stores
  /\ \A c \in Clients : pc'[c] = "insert" =>
       pc[c] = "insert" /\ config'[c] = config[c] /\ at'[c] = at[c]
         /\ list'[c] = list[c] /\ mine'[c] = mine[c]

-----------------------------------------------------------------------------
(***************************************************************************)
(* What types say of the places a client reads.                            *)
(***************************************************************************)
OneSwitch == [switch : Switches, rows : Seq(Cells)]

LEMMA ConfigType ==
  ASSUME TypeOK, NEW c \in Clients
  PROVE  config[c] \in Seq(OneSwitch)
  <1>1. config[c] \in Configs \/ config[c] = <<>>
    BY DEF TypeOK
  <1>2. Configs \subseteq Seq(OneSwitch)
    BY ConfigsAssumption DEF OneSwitch
  <1>3. <<>> \in Seq(OneSwitch)
    OBVIOUS
  <1> QED
    BY <1>1, <1>2, <1>3

LEMMA CurType ==
  ASSUME TypeOK, NEW c \in Clients, at[c].i \in 1 .. Len(config[c])
  PROVE  Cur(c) \in [switch : Switches, rows : Seq(Cells)]
  <1>1. config[c] \in Seq(OneSwitch)
    BY ConfigType
  <1>2. config[c][at[c].i] \in OneSwitch
    BY <1>1
  <1> QED
    BY <1>2 DEF Cur, OneSwitch

LEMMA RowType ==
  ASSUME TypeOK, NEW c \in Clients, Insert(c), Pending(c)
  PROVE  Row(c) \in [switch : Switches, list : Nat \ {0}, cell : Cells, store : Nat \ {0}]
  <1>1. Cur(c) \in [switch : Switches, rows : Seq(Cells)]
    BY CurType DEF Pending
  <1>2. at[c].k \in 1 .. Len(Cur(c).rows)
    <2>1. at[c].k \in Nat \ {0} /\ at[c].k <= Len(Cur(c).rows)
      BY DEF TypeOK, Insert
    <2> QED
      BY <1>1, <2>1
  <1>3. Cur(c).rows[at[c].k] \in Cells /\ Cur(c).switch \in Switches
    BY <1>1, <1>2
  <1>4. list[c] \in Nat \ {0} /\ mine[c] \in Nat \ {0}
    BY DEF TypeOK, Pending
  <1> QED
    BY <1>3, <1>4 DEF Row

-----------------------------------------------------------------------------
(***************************************************************************)
(* Type correctness, which needs that a client inserts at a switch of its  *)
(* configuration.                                                          *)
(***************************************************************************)
LEMMA ForgetType ==
  ASSUME TypeOK, NEW c \in Clients, Forget(c)
  PROVE  /\ config' \in [Clients -> Configs \cup {<<>>}]
         /\ at' \in [Clients -> [i : Nat \ {0}, k : Nat \ {0}]]
         /\ list' \in [Clients -> Nat \ {0}]
         /\ mine' \in [Clients -> 0 .. Len(stores)]
  <1>1. Len(stores) \in Nat
    BY DEF TypeOK
  <1> QED
    BY <1>1 DEF TypeOK, Forget

LEMMA ExitType ==
  ASSUME TypeOK, NEW c \in Clients, Exit(c)
  PROVE  TypeOK'
  <1>1. Forget(c)
    BY DEF Exit
  <1> QED
    BY <1>1, ForgetType DEF TypeOK, Exit, Goto

\* What the query finds: the greatest list of the switch, and all below it.
LEMMA LastListIs ==
  ASSUME TypeOK, DenseLists, NEW switch, NEW n \in {0} \cup {r.list : r \in info},
         LastList(switch, n)
  PROVE  /\ n \in Nat
         /\ \A q \in Of(switch) : q.list <= n
         /\ \A l \in 1 .. n : \E q \in Of(switch) : q.list = l
  <1>1. n \in Nat
    BY DEF TypeOK
  <1>2. CASE Of(switch) = {}
    BY <1>1, <1>2 DEF LastList
  <1>3. CASE Of(switch) # {}
    <2>1. PICK r \in Of(switch) : r.list = n /\ \A q \in Of(switch) : q.list <= n
      BY <1>3 DEF LastList
    <2>2. r \in info /\ r.switch = switch
      BY DEF Of
    <2> QED
      BY <1>1, <2>1, <2>2 DEF DenseLists
  <1> QED
    BY <1>2, <1>3

\* A new store ends the history, the others stay.
LEMMA FindLastEffect ==
  ASSUME IInv, NEW c \in Clients, FindLast(c)
  PROVE  \E n \in Nat :
           /\ LastList(Cur(c).switch, n)
           /\ \A q \in Of(Cur(c).switch) : q.list <= n
           /\ \A l \in 1 .. n : \E q \in Of(Cur(c).switch) : q.list = l
           /\ list' = [list EXCEPT ![c] = n + 1]
           /\ stores' = Append(stores,
                [switch |-> Cur(c).switch, rows |-> Cur(c).rows, list |-> n + 1,
                 seen |-> {r.store : r \in info}, added |-> FALSE])
  <1>1. PICK n \in {0} \cup {r.list : r \in info} :
          /\ LastList(Cur(c).switch, n)
          /\ list' = [list EXCEPT ![c] = NewList(n)]
          /\ stores' = Append(stores,
                [switch |-> Cur(c).switch, rows |-> Cur(c).rows, list |-> NewList(n),
                 seen |-> {r.store : r \in info}, added |-> FALSE])
    BY DEF FindLast
  <1>2. /\ n \in Nat
        /\ \A q \in Of(Cur(c).switch) : q.list <= n
        /\ \A l \in 1 .. n : \E q \in Of(Cur(c).switch) : q.list = l
    BY <1>1, LastListIs DEF IInv
  <1> QED
    BY <1>1, <1>2 DEF NewList

LEMMA FindLastType ==
  ASSUME IInv, NEW c \in Clients, FindLast(c)
  PROVE  TypeOK'
  <1>1. PICK n \in Nat :
           /\ list' = [list EXCEPT ![c] = n + 1]
           /\ stores' = Append(stores,
                [switch |-> Cur(c).switch, rows |-> Cur(c).rows, list |-> n + 1,
                 seen |-> {r.store : r \in info}, added |-> FALSE])
    BY FindLastEffect
  <1>2. at[c].i \in 1 .. Len(config[c])
    <2>1. at[c].i \in Nat \ {0} /\ at[c].i <= Len(config[c]) /\ Len(config[c]) \in Nat
      BY ConfigType DEF IInv, TypeOK, FindLast
    <2> QED
      BY <2>1
  <1>3. Cur(c) \in [switch : Switches, rows : Seq(Cells)]
    BY <1>2, CurType DEF IInv
  <1>4. {r.store : r \in info} \in SUBSET Nat
    BY DEF IInv, TypeOK
  <1>5. [switch |-> Cur(c).switch, rows |-> Cur(c).rows, list |-> n + 1,
         seen |-> {r.store : r \in info}, added |-> FALSE] \in Store
    BY <1>3, <1>4 DEF Store
  <1>6. stores' \in Seq(Store) /\ Len(stores') = Len(stores) + 1 /\ Len(stores) \in Nat
    BY <1>1, <1>5 DEF IInv, TypeOK
  <1>7. mine' \in [Clients -> 0 .. Len(stores')]
    BY <1>6 DEF IInv, TypeOK, FindLast
  <1>8. list' \in [Clients -> Nat \ {0}]
    BY <1>1 DEF IInv, TypeOK
  <1>9. at' = [at EXCEPT ![c].k = 1] /\ pc' = [pc EXCEPT ![c] = "insert"]
        /\ UNCHANGED <<info, config, conns, restarts>>
    BY DEF FindLast, Goto
  <1>10. at' \in [Clients -> [i : Nat \ {0}, k : Nat \ {0}]]
    <2> DEFINE R == [i : Nat \ {0}, k : Nat \ {0}]
    <2>1. at \in [Clients -> R]
      BY DEF IInv, TypeOK
    <2>2. at[c] \in R
      BY <2>1
    <2>3. [at[c] EXCEPT !.k = 1] \in R
      BY <2>2
    <2>4. at' = [at EXCEPT ![c] = [at[c] EXCEPT !.k = 1]]
      BY <1>9
    <2> HIDE DEF R
    <2>5. at' \in [Clients -> R]
      BY <2>1, <2>3, <2>4
    <2> QED
      BY <2>5 DEF R
  <1>11. pc' \in [Clients -> {"loop", "prompt", "switch", "insert", "gone"}]
    BY <1>9 DEF IInv, TypeOK
  <1> QED
    BY <1>6, <1>7, <1>8, <1>9, <1>10, <1>11 DEF IInv, TypeOK

LEMMA InsertType ==
  ASSUME IInv, NEW c \in Clients, Insert(c)
  PROVE  TypeOK'
  <1>1. TypeOK /\ Pending(c)
    BY DEF IInv, Inserting, Insert
  <1>2. Row(c) \in [switch : Switches, list : Nat \ {0}, cell : Cells, store : Nat]
    BY <1>1, RowType
  <1>3. info' \subseteq [switch : Switches, list : Nat \ {0}, cell : Cells, store : Nat]
    BY <1>1, <1>2 DEF TypeOK, Insert
  <1>4. at' \in [Clients -> [i : Nat \ {0}, k : Nat \ {0}]]
    <2>1. at[c] \in [i : Nat \ {0}, k : Nat \ {0}] /\ at[c].k + 1 \in Nat \ {0}
      BY <1>1 DEF TypeOK
    <2>2. [at[c] EXCEPT !.k = at[c].k + 1] \in [i : Nat \ {0}, k : Nat \ {0}]
      BY <2>1
    <2>3. at' = [at EXCEPT ![c] = [at[c] EXCEPT !.k = at[c].k + 1]]
      BY DEF Insert
    <2> QED
      BY <1>1, <2>2, <2>3 DEF TypeOK
  <1> QED
    BY <1>1, <1>3, <1>4 DEF TypeOK, Insert

\* The store is marked, nothing else of the history changes.
LEMMA AddedEffect ==
  ASSUME IInv, NEW c \in Clients, Added(c)
  PROVE  /\ stores' \in Seq(Store) /\ Len(stores') = Len(stores) /\ Len(stores) \in Nat
         /\ \A s \in 1 .. Len(stores) :
              /\ stores'[s].switch = stores[s].switch /\ stores'[s].list = stores[s].list
              /\ stores'[s].seen = stores[s].seen /\ stores'[s].rows = stores[s].rows
              /\ s # mine[c] \/ stores[s].added => stores'[s] = stores[s]
  <1>1. TypeOK /\ mine[c] \in 1 .. Len(stores)
    BY DEF IInv, Inserting, Added, Pending
  <1>2. stores \in Seq(Store) /\ Len(stores) \in Nat
    BY <1>1 DEF TypeOK
  <1> DEFINE m == mine[c]
             marked == [stores[m] EXCEPT !.added = TRUE]
  <1>3. stores' = [stores EXCEPT ![m] = marked]
    BY DEF Added
  <1>4. stores[m] \in Store
    BY <1>1, <1>2
  <1>5. /\ marked \in Store
        /\ marked.switch = stores[m].switch /\ marked.list = stores[m].list
        /\ marked.seen = stores[m].seen /\ marked.rows = stores[m].rows
        /\ stores[m].added => marked = stores[m]
    BY <1>4 DEF Store
  <1> HIDE DEF m, marked
  <1>6. stores' \in Seq(Store) /\ Len(stores') = Len(stores)
    <2>1. m \in 1 .. Len(stores)
      BY <1>1 DEF m
    <2> QED
      BY <1>2, <1>3, <1>5, <2>1, ExceptSeq
  <1>7. \A s \in 1 .. Len(stores) : stores'[s] = IF s = m THEN marked ELSE stores[s]
    BY <1>2, <1>3
  <1>8. m = mine[c]
    BY DEF m
  <1> QED
    BY <1>2, <1>5, <1>6, <1>7, <1>8

LEMMA AddedType ==
  ASSUME IInv, NEW c \in Clients, Added(c)
  PROVE  TypeOK'
  <1>1. stores' \in Seq(Store) /\ Len(stores') = Len(stores)
    BY AddedEffect
  <1>2. at' \in [Clients -> [i : Nat \ {0}, k : Nat \ {0}]]
    BY DEF IInv, TypeOK, Added
  <1> QED
    BY <1>1, <1>2 DEF IInv, TypeOK, Added, Goto

LEMMA TypeStep ==
  ASSUME IInv, [Next]_vars
  PROVE  TypeOK'
  <1>0. TypeOK
    BY DEF IInv
  <1>1. ASSUME NEW c \in Clients, mysql_real_connect(c)
        PROVE  TypeOK'
    BY <1>0, <1>1 DEF mysql_real_connect, Goto, TypeOK
  <1>2. ASSUME NEW c \in Clients, StoreCommand(c)
        PROVE  TypeOK'
    <2>1. config' \in [Clients -> Configs \cup {<<>>}]
      BY <1>0, <1>2 DEF StoreCommand, TypeOK
    <2>2. at' \in [Clients -> [i : Nat \ {0}, k : Nat \ {0}]]
      <3>1. at[c] \in [i : Nat \ {0}, k : Nat \ {0}]
        BY <1>0, <1>2 DEF TypeOK
      <3>2. [at[c] EXCEPT !.i = 1] \in [i : Nat \ {0}, k : Nat \ {0}]
        BY <3>1
      <3>3. at' = [at EXCEPT ![c] = [at[c] EXCEPT !.i = 1]]
        BY <1>2 DEF StoreCommand
      <3> QED
        BY <1>0, <3>2, <3>3 DEF TypeOK
    <2> QED
      BY <1>0, <1>2, <2>1, <2>2 DEF StoreCommand, Goto, TypeOK
  <1>3. ASSUME NEW c \in Clients, OtherCommand(c)
        PROVE  TypeOK'
    BY <1>0, <1>3 DEF OtherCommand, Goto, TypeOK
  <1>4. ASSUME NEW c \in Clients, ConnectRefused(c) \/ Duplicate(c) \/ Killed(c)
        PROVE  TypeOK'
    <2>1. Exit(c)
      BY <1>4 DEF ConnectRefused, Duplicate, Killed
    <2> QED
      BY <1>0, <2>1, ExitType
  <1>5. ASSUME NEW c \in Clients, StoreReturns(c)
        PROVE  TypeOK'
    <2>1. Forget(c)
      BY <1>5 DEF StoreReturns
    <2> QED
      BY <1>0, <1>5, <2>1, ForgetType DEF StoreReturns, Goto, TypeOK
  <1>6. ASSUME NEW c \in Clients, StartAgain(c)
        PROVE  TypeOK'
    BY <1>0, <1>6 DEF StartAgain, Goto, TypeOK
  <1>7. CASE UNCHANGED vars
    BY <1>0, <1>7 DEF vars, TypeOK
  <1> QED
    BY <1>1, <1>2, <1>3, <1>4, <1>5, <1>6, <1>7, FindLastType, InsertType, AddedType
    DEF Next, Step, Command, AllGone

-----------------------------------------------------------------------------
(***************************************************************************)
(* The other parts, for each kind of step.                                 *)
(***************************************************************************)
LEMMA ElsewhereKeeps ==
  ASSUME IInv, Elsewhere
  PROVE  Inserting' /\ DenseLists' /\ RowsOfStores' /\ AboveSeen'
  <1>1. Inserting'
    <2> SUFFICES ASSUME NEW c \in Clients, pc'[c] = "insert"
                 PROVE  Pending(c)'
      BY DEF Inserting
    <2>1. Pending(c)
      BY DEF Elsewhere, IInv, Inserting
    <2>2. Cur(c)' = Cur(c)
      BY DEF Elsewhere, Cur
    <2>3. \A s : Of(s)' = Of(s)
      BY DEF Elsewhere, Of
    <2> QED
      BY <2>1, <2>2, <2>3 DEF Pending, Elsewhere
  <1>2. DenseLists'
    BY DEF IInv, DenseLists, Elsewhere, Of
  <1>3. RowsOfStores' /\ AboveSeen'
    BY DEF IInv, RowsOfStores, AboveSeen, Elsewhere
  <1> QED
    BY <1>1, <1>2, <1>3

LEMMA ElsewhereSteps ==
  ASSUME IInv, NEW c \in Clients,
         \/ mysql_real_connect(c) \/ ConnectRefused(c) \/ Duplicate(c) \/ StoreReturns(c)
         \/ Command(c) \/ Killed(c) \/ StartAgain(c)
  PROVE  Elsewhere
  <1> USE DEF IInv, TypeOK, Goto
  <1>1. CASE Exit(c)
    BY <1>1 DEF Exit, Forget, Elsewhere
  <1>2. CASE mysql_real_connect(c)
    BY <1>2 DEF mysql_real_connect, Elsewhere
  <1>3. CASE StoreReturns(c)
    BY <1>3 DEF StoreReturns, Forget, Elsewhere
  <1>4. CASE StoreCommand(c)
    BY <1>4 DEF StoreCommand, Elsewhere
  <1>5. CASE OtherCommand(c)
    BY <1>5 DEF OtherCommand, Elsewhere
  <1>6. CASE StartAgain(c)
    BY <1>6 DEF StartAgain, Elsewhere
  <1> QED
    BY <1>1, <1>2, <1>3, <1>4, <1>5, <1>6 DEF ConnectRefused, Duplicate, Killed, Command

\* The query: the new store is above all it sees, and its lists are there.
LEMMA FindLastKeeps ==
  ASSUME IInv, NEW c \in Clients, FindLast(c)
  PROVE  Inserting' /\ DenseLists' /\ RowsOfStores' /\ AboveSeen'
  <1> DEFINE S == Cur(c).switch
  <1>1. PICK n \in Nat :
           /\ \A q \in Of(S) : q.list <= n
           /\ \A l \in 1 .. n : \E q \in Of(S) : q.list = l
           /\ list' = [list EXCEPT ![c] = n + 1]
           /\ stores' = Append(stores,
                [switch |-> S, rows |-> Cur(c).rows, list |-> n + 1,
                 seen |-> {r.store : r \in info}, added |-> FALSE])
    BY FindLastEffect
  <1> DEFINE new == [switch |-> S, rows |-> Cur(c).rows, list |-> n + 1,
                     seen |-> {r.store : r \in info}, added |-> FALSE]
  <1>2. new.switch = S /\ new.list = n + 1 /\ new.seen = {r.store : r \in info}
    OBVIOUS
  <1>3. stores' = Append(stores, new)
    BY <1>1
  <1>4. stores \in Seq(Store) /\ Len(stores) \in Nat
    BY DEF IInv, TypeOK
  <1> HIDE DEF new
  <1>5. /\ Len(stores') = Len(stores) + 1
        /\ \A s \in 1 .. Len(stores) : stores'[s] = stores[s]
        /\ stores'[Len(stores) + 1] = new
    BY <1>3, <1>4
  <1>6. info' = info /\ config' = config
    BY DEF FindLast
  <1>7. \A s : Of(s)' = Of(s)
    BY <1>6 DEF Of
  <1>8. Inserting'
    <2> SUFFICES ASSUME NEW d \in Clients, pc'[d] = "insert"
                 PROVE  Pending(d)'
      BY DEF Inserting
    <2>1. CASE d = c
      <3>1. at[c] \in [i : Nat \ {0}, k : Nat \ {0}] /\ at[c].i <= Len(config[c])
        BY DEF IInv, TypeOK, FindLast
      <3>2. at'[c].i = at[c].i
        BY <3>1 DEF IInv, TypeOK, FindLast
      <3>3. Len(config[c]) \in Nat
        BY ConfigType DEF IInv
      <3>4. at'[c].i \in 1 .. Len(config'[c])
        BY <3>1, <3>2, <3>3, <1>6
      <3>5. Cur(c)' = Cur(c)
        BY <3>2, <1>6 DEF Cur
      <3>6. mine'[c] = Len(stores) + 1 /\ list'[c] = n + 1
        BY <1>1 DEF IInv, TypeOK, FindLast
      <3>7. \A l \in 1 .. list'[c] - 1 : \E q \in Of(S) : q.list = l
        BY <3>6, <1>1
      <3>8. mine'[c] \in 1 .. Len(stores')
        BY <3>6, <1>4, <1>5
      <3>9. stores'[mine'[c]].switch = S /\ stores'[mine'[c]].list = list'[c]
        BY <3>6, <1>5, <1>2
      <3> QED
        BY <2>1, <3>4, <3>5, <3>7, <3>8, <3>9, <1>7 DEF Pending
    <2>2. CASE d # c
      <3>1. /\ pc[d] = "insert" /\ at'[d] = at[d] /\ mine'[d] = mine[d] /\ list'[d] = list[d]
        BY <2>2, <1>1 DEF IInv, TypeOK, FindLast, Goto
      <3>2. Pending(d)
        BY <3>1 DEF IInv, Inserting
      <3>3. Cur(d)' = Cur(d)
        BY <3>1, <1>6 DEF Cur
      <3>4. mine'[d] \in 1 .. Len(stores') /\ stores'[mine'[d]] = stores[mine[d]]
        BY <3>1, <3>2, <1>4, <1>5 DEF Pending
      <3> QED
        BY <3>1, <3>2, <3>3, <3>4, <1>6, <1>7 DEF Pending
    <2> QED
      BY <2>1, <2>2
  <1>9. DenseLists'
    BY <1>6, <1>7 DEF IInv, DenseLists
  <1>10. RowsOfStores'
    BY <1>4, <1>5, <1>6 DEF IInv, RowsOfStores
  <1>11. AboveSeen'
    <2>1. \A r \in info : r.switch = S => r.list < n + 1
      <3> SUFFICES ASSUME NEW r \in info, r.switch = S
                   PROVE  r.list < n + 1
        OBVIOUS
      <3>1. r \in Of(S) /\ r.list \in Nat
        BY DEF Of, IInv, TypeOK
      <3> QED
        BY <3>1, <1>1
    <2>2. ASSUME NEW s \in 1 .. Len(stores)
          PROVE  /\ \A q \in stores'[s].seen : q # 0 =>
                      /\ q \in 1 .. Len(stores')
                      /\ stores'[q].switch = stores'[s].switch => stores'[q].list < stores'[s].list
                 /\ \A r \in info' : r.store = 0 /\ r.switch = stores'[s].switch
                                      => r.list < stores'[s].list
      BY <2>2, <1>4, <1>5, <1>6 DEF IInv, AboveSeen
    <2>3. /\ \A q \in new.seen : q # 0 =>
              /\ q \in 1 .. Len(stores')
              /\ stores'[q].switch = new.switch => stores'[q].list < new.list
          /\ \A r \in info' : r.store = 0 /\ r.switch = new.switch => r.list < new.list
      <3>1. ASSUME NEW q \in new.seen, q # 0
            PROVE  /\ q \in 1 .. Len(stores')
                   /\ stores'[q].switch = new.switch => stores'[q].list < new.list
        <4>1. PICK r \in info : r.store = q
          BY <3>1, <1>2
        <4>2. q \in 1 .. Len(stores) /\ r.switch = stores[q].switch /\ r.list = stores[q].list
          BY <4>1, <3>1 DEF IInv, RowsOfStores
        <4> QED
          BY <4>2, <2>1, <1>2, <1>4, <1>5
      <3> QED
        BY <3>1, <2>1, <1>2, <1>6
    <2>4. \A s \in 1 .. Len(stores') : s \in 1 .. Len(stores) \/ s = Len(stores) + 1
      BY <1>4, <1>5
    <2> QED
      BY <2>2, <2>3, <2>4, <1>5 DEF AboveSeen
  <1> QED
    BY <1>8, <1>9, <1>10, <1>11

\* The new row is of the client's own store and list, above dense lists.
LEMMA InsertKeeps ==
  ASSUME IInv, NEW c \in Clients, Insert(c)
  PROVE  Inserting' /\ DenseLists' /\ RowsOfStores' /\ AboveSeen'
  <1>1. TypeOK /\ Pending(c)
    BY DEF IInv, Inserting, Insert
  <1>2. PICK row : row = Row(c)
    OBVIOUS
  <1>3. row \in [switch : Switches, list : Nat \ {0}, cell : Cells, store : Nat \ {0}]
    BY <1>2, <1>1, RowType
  <1>4. row.switch = Cur(c).switch /\ row.list = list[c] /\ row.store = mine[c]
    BY <1>2 DEF Row
  <1>5. info' = info \cup {row} /\ stores' = stores
    BY <1>2 DEF Insert
  <1>6. row.store # 0
    BY <1>3
  <1>7. \A s : Of(s) \subseteq Of(s)'
    BY <1>5 DEF Of
  <1>8. row \in Of(row.switch)'
    BY <1>5 DEF Of
  <1>9. Inserting'
    <2> SUFFICES ASSUME NEW d \in Clients, pc'[d] = "insert"
                 PROVE  Pending(d)'
      BY DEF Inserting
    <2>1. pc[d] = "insert" /\ config'[d] = config[d] /\ mine'[d] = mine[d] /\ list'[d] = list[d]
      BY DEF Insert
    <2>2. at[d] \in [i : Nat \ {0}, k : Nat \ {0}] /\ at'[d].i = at[d].i
      BY <1>1 DEF TypeOK, Insert
    <2>3. Pending(d)
      BY <2>1 DEF IInv, Inserting
    <2>4. Cur(d)' = Cur(d)
      BY <2>1, <2>2 DEF Cur
    <2> QED
      BY <2>1, <2>2, <2>3, <2>4, <1>5, <1>7 DEF Pending
  <1>10. DenseLists'
    <2> SUFFICES ASSUME NEW r \in info', NEW l \in 1 .. r.list
                 PROVE  \E q \in Of(r.switch)' : q.list = l
      BY DEF DenseLists
    <2>1. CASE r \in info
      <3>1. PICK q \in Of(r.switch) : q.list = l
        BY <2>1 DEF IInv, DenseLists
      <3> QED
        BY <3>1, <1>7
    <2>2. CASE r = row /\ l = row.list
      BY <2>2, <1>8
    <2>3. CASE r = row /\ l # row.list
      <3>1. l \in 1 .. list[c] - 1
        BY <2>3, <1>3, <1>4
      <3>2. PICK q \in Of(Cur(c).switch) : q.list = l
        BY <3>1, <1>1 DEF Pending
      <3> QED
        BY <3>2, <2>3, <1>4, <1>7
    <2> QED
      BY <2>1, <2>2, <2>3, <1>5
  <1>11. RowsOfStores'
    BY <1>1, <1>4, <1>5 DEF IInv, RowsOfStores, Pending
  <1>12. AboveSeen'
    BY <1>5, <1>6 DEF IInv, AboveSeen
  <1> QED
    BY <1>9, <1>10, <1>11, <1>12

LEMMA AddedKeeps ==
  ASSUME IInv, NEW c \in Clients, Added(c)
  PROVE  Inserting' /\ DenseLists' /\ RowsOfStores' /\ AboveSeen'
  <1>1. /\ Len(stores') = Len(stores) /\ Len(stores) \in Nat
        /\ \A s \in 1 .. Len(stores) :
             /\ stores'[s].switch = stores[s].switch /\ stores'[s].list = stores[s].list
             /\ stores'[s].seen = stores[s].seen
    BY AddedEffect
  <1>2. info' = info
    BY DEF Added
  <1>3. \A s : Of(s)' = Of(s)
    BY <1>2 DEF Of
  <1>4. Inserting'
    <2> SUFFICES ASSUME NEW d \in Clients, pc'[d] = "insert"
                 PROVE  Pending(d)'
      BY DEF Inserting
    <2>1. pc[d] = "insert" /\ at'[d] = at[d]
      BY DEF Added, Goto, IInv, TypeOK
    <2>2. config'[d] = config[d] /\ mine'[d] = mine[d] /\ list'[d] = list[d]
      BY DEF Added
    <2>3. Pending(d)
      BY <2>1 DEF IInv, Inserting
    <2>4. Cur(d)' = Cur(d)
      BY <2>1, <2>2 DEF Cur
    <2> QED
      BY <2>1, <2>2, <2>3, <2>4, <1>1, <1>3 DEF Pending
  <1>5. DenseLists'
    BY <1>2, <1>3 DEF IInv, DenseLists
  <1>6. RowsOfStores'
    BY <1>1, <1>2 DEF IInv, RowsOfStores
  <1>7. AboveSeen'
    <2>1. \A s \in 1 .. Len(stores) : \A q \in stores[s].seen : q # 0 => q \in 1 .. Len(stores)
      BY DEF IInv, AboveSeen
    <2> QED
      BY <2>1, <1>1, <1>2 DEF IInv, AboveSeen
  <1> QED
    BY <1>4, <1>5, <1>6, <1>7

-----------------------------------------------------------------------------
LEMMA InitIInv ==
  ASSUME Init
  PROVE  IInv
  <1> USE DEF Init
  <1>1. Len(stores) = 0 /\ stores \in Seq(Store)
    OBVIOUS
  <1>2. info \subseteq [switch : Switches, list : Nat \ {0}, cell : Cells, store : Nat]
    BY FirstRowsAssumption
  <1>3. TypeOK
    BY <1>1, <1>2 DEF TypeOK
  <1>4. Inserting
    BY DEF Inserting
  <1>5. DenseLists
    BY FirstRowsAssumption DEF DenseLists, Of
  <1>6. RowsOfStores
    BY FirstRowsAssumption DEF RowsOfStores
  <1>7. AboveSeen
    BY <1>1 DEF AboveSeen
  <1> QED
    BY <1>3, <1>4, <1>5, <1>6, <1>7 DEF IInv

LEMMA NextIInv ==
  ASSUME IInv, [Next]_vars
  PROVE  IInv'
  <1>1. TypeOK'
    BY TypeStep
  <1>2. Inserting' /\ DenseLists' /\ RowsOfStores' /\ AboveSeen'
    <2>1. CASE UNCHANGED vars
      <3>1. Elsewhere
        BY <2>1 DEF vars, Elsewhere
      <3> QED
        BY <3>1, ElsewhereKeeps
    <2>2. ASSUME NEW c \in Clients, Step(c) \/ Command(c) \/ Killed(c) \/ StartAgain(c)
          PROVE  Inserting' /\ DenseLists' /\ RowsOfStores' /\ AboveSeen'
      BY <2>2, ElsewhereSteps, ElsewhereKeeps, FindLastKeeps, InsertKeeps, AddedKeeps DEF Step
    <2> QED
      BY <2>1, <2>2 DEF Next, AllGone
  <1> QED
    BY <1>1, <1>2 DEF IInv

(***************************************************************************)
(* The inductive invariant holds in every reachable state of the client    *)
(* loop and InsertConfigInDB.                                              *)
(***************************************************************************)
THEOREM AlwaysIInv == Spec => []IInv
  <1>1. Init => IInv
    BY InitIInv
  <1>2. IInv /\ [Next]_vars => IInv'
    BY NextIInv
  <1> QED
    BY <1>1, <1>2, PTL DEF Spec

(***************************************************************************)
(* Type correctness of the table and the clients' variables.               *)
(***************************************************************************)
THEOREM TypeCorrect == Spec => []TypeOK
  <1>1. IInv => TypeOK
    BY DEF IInv
  <1> QED
    BY <1>1, AlwaysIInv, PTL

(***************************************************************************)
(* The lists of each switch are numbered without a gap, for any number of  *)
(* clients and wherever they die (ReadFile.c:113-178).                     *)
(***************************************************************************)
THEOREM Dense == Spec => []DenseLists
  <1>1. IInv => DenseLists
    BY DEF IInv
  <1> QED
    BY <1>1, AlwaysIInv, PTL

(***************************************************************************)
(* Rows of two stores share a list number only when each store's query     *)
(* came before the other's first INSERT (ReadFile.c:113-178).              *)
(***************************************************************************)
THEOREM Windowed == Spec => []MixedOnlyInWindow
  <1>1. ASSUME IInv PROVE MixedOnlyInWindow
    <2>1. ASSUME NEW r \in info, NEW q \in info,
                 r.switch = q.switch, r.list = q.list, r.store # q.store
          PROVE  r.store # 0 /\ r.store \notin stores[q.store].seen
      <3>1. r.list \in Nat /\ q.list \in Nat /\ ~(q.list < q.list)
        BY <1>1 DEF IInv, TypeOK
      <3>2. ASSUME r.store = 0 PROVE FALSE
        <4>1. q.store \in 1 .. Len(stores) /\ q.switch = stores[q.store].switch
                /\ q.list = stores[q.store].list
          BY <3>2, <2>1, <1>1 DEF IInv, RowsOfStores
        <4>2. r.list < q.list
          BY <4>1, <3>2, <2>1, <1>1 DEF IInv, AboveSeen
        <4> QED
          BY <4>2, <3>1, <2>1
      <3>3. q.store # 0 => r.store \notin stores[q.store].seen
        <4> SUFFICES ASSUME q.store # 0, r.store \in stores[q.store].seen
                     PROVE  FALSE
          OBVIOUS
        <4>1. q.store \in 1 .. Len(stores) /\ q.switch = stores[q.store].switch
                /\ q.list = stores[q.store].list
          BY <1>1 DEF IInv, RowsOfStores
        <4>2. r.switch = stores[r.store].switch /\ r.list = stores[r.store].list
          BY <3>2, <1>1 DEF IInv, RowsOfStores
        <4>3. stores[r.store].list < stores[q.store].list
          BY <4>1, <4>2, <3>2, <2>1, <1>1 DEF IInv, AboveSeen
        <4> QED
          BY <4>1, <4>2, <4>3, <3>1, <2>1
      <3>4. q.store # 0
        <4> SUFFICES ASSUME q.store = 0 PROVE FALSE
          OBVIOUS
        <4>1. r.store \in 1 .. Len(stores) /\ r.switch = stores[r.store].switch
                /\ r.list = stores[r.store].list
          BY <3>2, <1>1 DEF IInv, RowsOfStores
        <4>2. q.list < r.list
          BY <4>1, <2>1, <1>1 DEF IInv, AboveSeen
        <4> QED
          BY <4>2, <3>1, <2>1
      <3> QED
        BY <3>2, <3>3, <3>4
    <2> QED
      BY <2>1 DEF MixedOnlyInWindow
  <1> QED
    BY <1>1, AlwaysIInv, PTL

(***************************************************************************)
(* A step removes no row, changes no outcome of an added configuration and *)
(* inserts only under a free key (ReadFile.c:164-181, mydata.sql:25-33).   *)
(***************************************************************************)
THEOREM RowsStay == Spec => StoredStays
  <1> DEFINE Stays ==
        /\ info \subseteq info'
        /\ \A s \in 1 .. Len(stores) : stores[s].added => stores'[s] = stores[s]
        /\ \A r \in info' \ info : \A q \in info' : SameKey(r, q) => r = q
  <1>1. ASSUME IInv, Elsewhere PROVE Stays
    BY <1>1 DEF Elsewhere
  <1>2. ASSUME IInv, NEW c \in Clients, FindLast(c) PROVE Stays
    <2>1. PICK n \in Nat : stores' = Append(stores,
                [switch |-> Cur(c).switch, rows |-> Cur(c).rows, list |-> n + 1,
                 seen |-> {r.store : r \in info}, added |-> FALSE])
      BY <1>2, FindLastEffect
    <2>2. stores \in Seq(Store) /\ info' = info
      BY <1>2 DEF IInv, TypeOK, FindLast
    <2> QED
      BY <2>1, <2>2
  <1>3. ASSUME IInv, NEW c \in Clients, Insert(c) PROVE Stays
    <2>1. info' = info \cup {Row(c)} /\ stores' = stores /\ ~Taken(Row(c))
      BY <1>3 DEF Insert
    <2>2. ASSUME NEW q \in info, SameKey(Row(c), q) PROVE FALSE
      BY <2>1, <2>2 DEF Taken, SameKey
    <2> QED
      BY <2>1, <2>2
  <1>4. ASSUME IInv, NEW c \in Clients, Added(c) PROVE Stays
    BY <1>4, AddedEffect DEF Added
  <1>5. IInv /\ [Next]_vars => [Stays]_vars
    <2> SUFFICES ASSUME IInv, Next PROVE [Stays]_vars
      OBVIOUS
    <2>1. CASE UNCHANGED vars
      BY <2>1
    <2>2. ASSUME NEW c \in Clients, Step(c) \/ Command(c) \/ Killed(c) \/ StartAgain(c)
          PROVE  Stays
      <3>1. CASE FindLast(c) \/ Insert(c) \/ Added(c)
        BY <3>1, <1>2, <1>3, <1>4
      <3>2. CASE ~(FindLast(c) \/ Insert(c) \/ Added(c))
        <4>1. Elsewhere
          BY <3>2, <2>2, ElsewhereSteps DEF Step
        <4> QED
          BY <4>1, <1>1
      <3> QED
        BY <3>1, <3>2
    <2> QED
      BY <2>1, <2>2 DEF Next, AllGone
  <1> QED
    BY <1>5, AlwaysIInv, PTL DEF Spec, StoredStays

-----------------------------------------------------------------------------
(***************************************************************************)
(* AddedIsStored: each store's rows in the table are a prefix of its own.  *)
(***************************************************************************)
LEMMA ElsewhereWhole ==
  ASSUME IInv, AInv, Elsewhere
  PROVE  AInv'
  <1>1. \A s, n : Holds(s, n)' = Holds(s, n)
    BY DEF Elsewhere, Holds, RowOf
  <1>2. Filled'
    <2> SUFFICES ASSUME NEW c \in Clients, pc'[c] = "insert"
                 PROVE  Filling(c)'
      BY DEF Filled
    <2>1. Filling(c)
      BY DEF Elsewhere, AInv, Filled
    <2>2. Cur(c)' = Cur(c)
      BY DEF Elsewhere, Cur
    <2> QED
      BY <1>1, <2>1, <2>2 DEF Filling, Elsewhere
  <1>3. Apart'
    BY DEF AInv, Apart, Elsewhere
  <1>4. Whole'
    BY <1>1 DEF AInv, Whole, Elsewhere
  <1> QED
    BY <1>2, <1>3, <1>4 DEF AInv

LEMMA FindLastWhole ==
  ASSUME IInv, AInv, NEW c \in Clients, FindLast(c)
  PROVE  AInv'
  <1>1. PICK n \in Nat : stores' = Append(stores,
                [switch |-> Cur(c).switch, rows |-> Cur(c).rows, list |-> n + 1,
                 seen |-> {r.store : r \in info}, added |-> FALSE])
    BY FindLastEffect
  <1>2. PICK new : new = [switch |-> Cur(c).switch, rows |-> Cur(c).rows, list |-> n + 1,
                          seen |-> {r.store : r \in info}, added |-> FALSE]
    OBVIOUS
  <1>3. new.rows = Cur(c).rows /\ ~new.added
    BY <1>2
  <1>4. stores \in Seq(Store) /\ Len(stores) \in Nat
    BY DEF IInv, TypeOK
  <1>5. /\ Len(stores') = Len(stores) + 1
        /\ \A s \in 1 .. Len(stores) : stores'[s] = stores[s]
        /\ stores'[Len(stores) + 1] = new
    BY <1>1, <1>2, <1>4
  <1>6. info' = info /\ config' = config
    BY DEF FindLast
  <1>7. mine'[c] = Len(stores) + 1
    BY DEF IInv, TypeOK, FindLast
  <1>8. ASSUME NEW d \in Clients, d # c, pc'[d] = "insert"
        PROVE  /\ pc[d] = "insert" /\ at'[d] = at[d] /\ mine'[d] = mine[d]
               /\ mine[d] \in 1 .. Len(stores)
    <2>1. pc[d] = "insert" /\ at'[d] = at[d] /\ mine'[d] = mine[d]
      BY <1>8 DEF IInv, TypeOK, FindLast, Goto
    <2> QED
      BY <2>1 DEF IInv, Inserting, Pending
  <1>9. ASSUME NEW s \in 1 .. Len(stores), NEW m
        PROVE  Holds(s, m)' = Holds(s, m)
    BY <1>9, <1>5, <1>6 DEF Holds, RowOf
  <1>10. Filled'
    <2> SUFFICES ASSUME NEW d \in Clients, pc'[d] = "insert"
                 PROVE  Filling(d)'
      BY DEF Filled
    <2>1. CASE d = c
      <3>1. at'[c].i = at[c].i /\ at'[c].k = 1
        <4>1. at[c] \in [i : Nat \ {0}, k : Nat \ {0}]
          BY DEF IInv, TypeOK
        <4>2. at'[c] = [at[c] EXCEPT !.k = 1]
          BY DEF IInv, TypeOK, FindLast
        <4> QED
          BY <4>1, <4>2
      <3>2. Cur(c)' = Cur(c)
        BY <3>1, <1>6 DEF Cur
      <3>3. Len(Cur(c).rows) \in Nat
        <4>1. at[c].i \in Nat \ {0} /\ at[c].i <= Len(config[c]) /\ Len(config[c]) \in Nat
          BY ConfigType DEF IInv, TypeOK, FindLast
        <4>2. Cur(c) \in [switch : Switches, rows : Seq(Cells)]
          BY <4>1, CurType DEF IInv
        <4> QED
          BY <4>2
      <3>4. Holds(mine[c], at[c].k - 1)'
        <4>1. \A r \in info : r.store # Len(stores) + 1
          BY <1>4 DEF IInv, RowsOfStores
        <4> QED
          BY <4>1, <3>1, <1>6, <1>7 DEF Holds
      <3> QED
        BY <2>1, <3>1, <3>2, <3>3, <3>4, <1>3, <1>5, <1>7 DEF Filling
    <2>2. CASE d # c
      <3>1. /\ pc[d] = "insert" /\ at'[d] = at[d] /\ mine'[d] = mine[d]
            /\ mine[d] \in 1 .. Len(stores)
        BY <2>2, <1>8
      <3>2. Filling(d)
        BY <3>1 DEF AInv, Filled
      <3>3. Cur(d)' = Cur(d)
        BY <3>1, <1>6 DEF Cur
      <3>4. Holds(mine[d], at[d].k - 1)'
        <4>1. PICK s \in 1 .. Len(stores), m \in {at[d].k - 1} : s = mine[d]
          BY <3>1
        <4>2. Holds(s, m)'
          BY <4>1, <3>2, <1>9 DEF Filling
        <4> QED
          BY <4>1, <4>2, <3>1 DEF Holds, RowOf
      <3> QED
        BY <3>1, <3>2, <3>3, <3>4, <1>5 DEF Filling
    <2> QED
      BY <2>1, <2>2
  <1>11. Apart'
    <2> SUFFICES ASSUME NEW a \in Clients, NEW b \in Clients, pc'[a] = "insert",
                        pc'[b] = "insert", mine'[a] = mine'[b]
                 PROVE  a = b
      BY DEF Apart
    <2>1. CASE a # c /\ b # c
      BY <2>1, <1>8 DEF AInv, Apart
    <2>2. CASE a = c /\ b # c
      BY <2>2, <1>4, <1>7, <1>8
    <2>3. CASE a # c /\ b = c
      BY <2>3, <1>4, <1>7, <1>8
    <2> QED
      BY <2>1, <2>2, <2>3
  <1>12. Whole'
    <2> SUFFICES ASSUME NEW s \in 1 .. Len(stores'), stores'[s].added
                 PROVE  Holds(s, Len(stores[s].rows))'
      BY DEF Whole
    <2>1. s \in 1 .. Len(stores)
      BY <1>3, <1>4, <1>5
    <2>2. PICK m : m = Len(stores[s].rows)
      OBVIOUS
    <2>3. Holds(s, m)'
      BY <2>1, <2>2, <1>5, <1>9 DEF AInv, Whole
    <2> QED
      BY <2>1, <2>2, <2>3, <1>5 DEF Holds, RowOf
  <1> QED
    BY <1>10, <1>11, <1>12 DEF AInv

LEMMA InsertWhole ==
  ASSUME IInv, AInv, NEW c \in Clients, Insert(c)
  PROVE  AInv'
  <1>1. TypeOK /\ Pending(c) /\ Filling(c) /\ pc[c] = "insert"
    BY DEF IInv, Inserting, AInv, Filled, Insert
  <1>2. PICK m, k : m = mine[c] /\ k = at[c].k
    OBVIOUS
  <1>3. k \in Nat \ {0} /\ at[c] \in [i : Nat \ {0}, k : Nat \ {0}]
    BY <1>1, <1>2 DEF TypeOK
  <1>4. PICK row : row = Row(c)
    OBVIOUS
  <1>5. info' = info \cup {row} /\ stores' = stores /\ row.store = m
    BY <1>2, <1>4 DEF Insert, Row
  <1>6. row = RowOf(m, k)
    BY <1>1, <1>2, <1>4 DEF Pending, Filling, Row, RowOf
  <1>7. \A s, n : RowOf(s, n)' = RowOf(s, n)
    BY <1>5 DEF RowOf
  <1>8. ASSUME NEW s, NEW n, s # m, Holds(s, n)
        PROVE  Holds(s, n)'
    BY <1>5, <1>7, <1>8 DEF Holds
  <1>9. Holds(m, k)'
    <2>1. Holds(m, k - 1)
      BY <1>1, <1>2 DEF Filling
    <2>2. \A j \in 1 .. k : j \in 1 .. k - 1 \/ j = k
      BY <1>3
    <2>3. k \in 1 .. k /\ \A j \in 1 .. k - 1 : j \in 1 .. k
      BY <1>3
    <2>4. \A j \in 1 .. k : RowOf(m, j) \in info'
      BY <2>1, <2>2, <1>5, <1>6 DEF Holds
    <2>5. \A r \in info' : r.store = m => \E j \in 1 .. k : r = RowOf(m, j)
      BY <2>1, <2>3, <1>5, <1>6 DEF Holds
    <2> QED
      BY <2>4, <2>5, <1>7 DEF Holds
  <1>10. Filled'
    <2> SUFFICES ASSUME NEW d \in Clients, pc'[d] = "insert"
                 PROVE  Filling(d)'
      BY DEF Filled
    <2>1. pc[d] = "insert" /\ config'[d] = config[d] /\ mine'[d] = mine[d]
      BY DEF Insert
    <2>2. Filling(d)
      BY <2>1 DEF AInv, Filled
    <2>3. CASE d = c
      <3>1. at'[c] = [at[c] EXCEPT !.k = at[c].k + 1]
        BY <1>1 DEF TypeOK, Insert
      <3>2. at'[c].i = at[c].i /\ at'[c].k = k + 1
        BY <3>1, <1>2, <1>3
      <3>3. Cur(c)' = Cur(c)
        BY <2>1, <2>3, <3>2 DEF Cur
      <3>4. Len(Cur(c).rows) \in Nat
        <4>1. Cur(c) \in [switch : Switches, rows : Seq(Cells)]
          BY <1>1, CurType DEF Pending
        <4> QED
          BY <4>1
      <3>5. k + 1 <= Len(Cur(c).rows) + 1
        BY <3>4, <1>2, <1>3 DEF Insert
      <3>6. Holds(mine[c], at[c].k - 1)'
        <4>1. at'[c].k - 1 = k /\ mine'[c] = m
          BY <3>2, <1>2, <1>3, <2>1, <2>3
        <4> QED
          BY <4>1, <1>9 DEF Holds, RowOf
      <3> QED
        BY <2>1, <2>2, <2>3, <3>2, <3>3, <3>5, <3>6, <1>5 DEF Filling
    <2>4. CASE d # c
      <3>1. at'[d] = at[d]
        BY <2>4, <1>1 DEF TypeOK, Insert
      <3>2. mine[d] # m
        BY <2>1, <2>4, <1>1, <1>2 DEF AInv, Apart
      <3>3. Cur(d)' = Cur(d)
        BY <2>1, <3>1 DEF Cur
      <3>4. Holds(mine[d], at[d].k - 1)'
        <4>1. PICK s, n : s = mine[d] /\ n = at[d].k - 1
          OBVIOUS
        <4>2. Holds(s, n)'
          BY <4>1, <3>2, <2>2, <1>8 DEF Filling
        <4> QED
          BY <4>1, <4>2, <3>1, <2>1 DEF Holds, RowOf
      <3> QED
        BY <2>1, <2>2, <3>1, <3>3, <3>4, <1>5 DEF Filling
    <2> QED
      BY <2>3, <2>4
  <1>11. Apart'
    BY DEF AInv, Apart, Insert
  <1>12. Whole'
    <2> SUFFICES ASSUME NEW s \in 1 .. Len(stores), stores[s].added
                 PROVE  Holds(s, Len(stores[s].rows))'
      BY <1>5 DEF Whole
    <2>1. s # m
      BY <1>1, <1>2 DEF Filling
    <2>2. PICK n : n = Len(stores[s].rows)
      OBVIOUS
    <2>3. Holds(s, n)'
      BY <2>1, <2>2, <1>8 DEF AInv, Whole
    <2> QED
      BY <2>2, <2>3, <1>5 DEF Holds, RowOf
  <1> QED
    BY <1>10, <1>11, <1>12 DEF AInv

\* The store is announced when the client is past its last row.
LEMMA AddedWhole ==
  ASSUME IInv, AInv, NEW c \in Clients, Added(c)
  PROVE  AInv'
  <1>1. TypeOK /\ Pending(c) /\ Filling(c) /\ pc[c] = "insert"
    BY DEF IInv, Inserting, AInv, Filled, Added
  <1>2. /\ Len(stores') = Len(stores) /\ Len(stores) \in Nat
        /\ \A s \in 1 .. Len(stores) :
             /\ stores'[s].switch = stores[s].switch /\ stores'[s].list = stores[s].list
             /\ stores'[s].rows = stores[s].rows
             /\ s # mine[c] => stores'[s] = stores[s]
    BY AddedEffect
  <1>3. info' = info
    BY DEF Added
  <1>4. ASSUME NEW s \in 1 .. Len(stores), NEW n
        PROVE  Holds(s, n)' = Holds(s, n)
    BY <1>2, <1>3, <1>4 DEF Holds, RowOf
  <1>5. Filled'
    <2> SUFFICES ASSUME NEW d \in Clients, pc'[d] = "insert"
                 PROVE  Filling(d)'
      BY DEF Filled
    <2>1. d # c /\ pc[d] = "insert" /\ at'[d] = at[d]
      BY <1>1 DEF TypeOK, Added, Goto
    <2>2. config'[d] = config[d] /\ mine'[d] = mine[d]
      BY DEF Added
    <2>3. Filling(d) /\ mine[d] # mine[c] /\ mine[d] \in 1 .. Len(stores)
      BY <2>1, <1>1 DEF AInv, Filled, Apart, IInv, Inserting, Pending
    <2>4. Cur(d)' = Cur(d)
      BY <2>1, <2>2 DEF Cur
    <2>5. Holds(mine[d], at[d].k - 1)'
      <3>1. PICK s \in 1 .. Len(stores), n \in {at[d].k - 1} : s = mine[d]
        BY <2>3
      <3>2. Holds(s, n)'
        BY <3>1, <2>3, <1>4 DEF Filling
      <3> QED
        BY <3>1, <3>2, <2>1, <2>2 DEF Holds, RowOf
    <2> QED
      BY <2>1, <2>2, <2>3, <2>4, <2>5, <1>2 DEF Filling
  <1>6. Apart'
    <2>1. \A d \in Clients : pc'[d] = "insert" => pc[d] = "insert"
      BY <1>1 DEF TypeOK, Added, Goto
    <2> QED
      BY <2>1 DEF AInv, Apart, Added
  <1>7. Whole'
    <2> SUFFICES ASSUME NEW s \in 1 .. Len(stores), stores'[s].added
                 PROVE  Holds(s, Len(stores[s].rows))'
      BY <1>2 DEF Whole
    <2>1. PICK n : n = Len(stores[s].rows)
      OBVIOUS
    <2>2. Holds(s, n)
      <3>1. CASE s = mine[c]
        <4>1. Cur(c) \in [switch : Switches, rows : Seq(Cells)]
          BY <1>1, CurType DEF Pending
        <4>2. at[c].k \in Nat /\ Len(Cur(c).rows) \in Nat
          BY <4>1, <1>1 DEF TypeOK
        <4>3. at[c].k - 1 = Len(Cur(c).rows)
          BY <4>2, <1>1 DEF Filling, Added
        <4> QED
          BY <4>3, <3>1, <2>1, <1>1 DEF Filling
      <3>2. CASE s # mine[c]
        BY <3>2, <2>1, <1>2 DEF AInv, Whole
      <3> QED
        BY <3>1, <3>2
    <2>3. Holds(s, n)'
      BY <2>2, <1>4
    <2> QED
      BY <2>1, <2>3, <1>2 DEF Holds, RowOf
  <1> QED
    BY <1>5, <1>6, <1>7 DEF AInv

LEMMA NextAInv ==
  ASSUME IInv, AInv, [Next]_vars
  PROVE  AInv'
  <1>1. CASE UNCHANGED vars
    <2>1. Elsewhere
      BY <1>1 DEF vars, Elsewhere
    <2> QED
      BY <2>1, ElsewhereWhole
  <1>2. ASSUME NEW c \in Clients, Step(c) \/ Command(c) \/ Killed(c) \/ StartAgain(c)
        PROVE  AInv'
    BY <1>2, ElsewhereSteps, ElsewhereWhole, FindLastWhole, InsertWhole, AddedWhole DEF Step
  <1> QED
    BY <1>1, <1>2 DEF Next, AllGone

(***************************************************************************)
(* "Configuration added in database" (ReadFile.c:181) is only said of a    *)
(* switch whose rows are all in the table, under its store's number and by *)
(* this store, and they stay its only rows.                                *)
(***************************************************************************)
THEOREM AddedStored == Spec => []AddedIsStored
  <1>1. ASSUME Init PROVE AInv
    <2>1. Len(stores) = 0
      BY <1>1 DEF Init
    <2>2. \A c \in Clients : pc[c] # "insert"
      BY <1>1 DEF Init
    <2> QED
      BY <2>1, <2>2 DEF AInv, Filled, Apart, Whole
  <1>2. IInv /\ AInv /\ [Next]_vars => AInv'
    BY NextAInv
  <1>3. ASSUME IInv, AInv PROVE AddedIsStored
    <2> SUFFICES ASSUME NEW s \in 1 .. Len(stores), stores[s].added
                 PROVE  {[switch |-> r.switch, list |-> r.list, cell |-> r.cell] : r \in {r \in info : r.store = s}}
                        = {[switch |-> stores[s].switch, list |-> stores[s].list, cell |-> stores[s].rows[k]]
                             : k \in 1 .. Len(stores[s].rows)}
      BY DEF AddedIsStored
    <2>1. Holds(s, Len(stores[s].rows))
      BY <1>3 DEF AInv, Whole
    <2>2. ASSUME NEW r \in info, r.store = s
          PROVE  \E k \in 1 .. Len(stores[s].rows) :
                   [switch |-> r.switch, list |-> r.list, cell |-> r.cell]
                   = [switch |-> stores[s].switch, list |-> stores[s].list, cell |-> stores[s].rows[k]]
      <3>1. PICK k \in 1 .. Len(stores[s].rows) : r = RowOf(s, k)
        BY <2>1, <2>2 DEF Holds
      <3>2. r.switch = stores[s].switch /\ r.list = stores[s].list /\ r.cell = stores[s].rows[k]
        BY <3>1 DEF RowOf
      <3> QED
        BY <3>2
    <2>3. ASSUME NEW k \in 1 .. Len(stores[s].rows)
          PROVE  \E r \in {r \in info : r.store = s} :
                   [switch |-> stores[s].switch, list |-> stores[s].list, cell |-> stores[s].rows[k]]
                   = [switch |-> r.switch, list |-> r.list, cell |-> r.cell]
      <3>1. PICK r : r = RowOf(s, k)
        OBVIOUS
      <3>2. r \in info
        BY <3>1, <2>1 DEF Holds
      <3>3. /\ r.switch = stores[s].switch /\ r.list = stores[s].list
            /\ r.cell = stores[s].rows[k] /\ r.store = s
        BY <3>1 DEF RowOf
      <3> QED
        BY <3>2, <3>3
    <2>4. ASSUME NEW x \in {[switch |-> r.switch, list |-> r.list, cell |-> r.cell] : r \in {r \in info : r.store = s}}
          PROVE  x \in {[switch |-> stores[s].switch, list |-> stores[s].list, cell |-> stores[s].rows[k]]
                          : k \in 1 .. Len(stores[s].rows)}
      <3>1. PICK r \in {r \in info : r.store = s} :
              x = [switch |-> r.switch, list |-> r.list, cell |-> r.cell]
        BY <2>4, Zenon
      <3>2. r \in info /\ r.store = s
        OBVIOUS
      <3>3. PICK k \in 1 .. Len(stores[s].rows) :
              x = [switch |-> stores[s].switch, list |-> stores[s].list, cell |-> stores[s].rows[k]]
        BY <3>1, <3>2, <2>2, Zenon
      <3> QED
        BY <3>3, Zenon
    <2>5. ASSUME NEW x \in {[switch |-> stores[s].switch, list |-> stores[s].list, cell |-> stores[s].rows[k]]
                              : k \in 1 .. Len(stores[s].rows)}
          PROVE  x \in {[switch |-> r.switch, list |-> r.list, cell |-> r.cell] : r \in {r \in info : r.store = s}}
      <3>1. PICK k \in 1 .. Len(stores[s].rows) :
              x = [switch |-> stores[s].switch, list |-> stores[s].list, cell |-> stores[s].rows[k]]
        BY <2>5, Zenon
      <3>2. PICK r \in {r \in info : r.store = s} :
              x = [switch |-> r.switch, list |-> r.list, cell |-> r.cell]
        BY <3>1, <2>3, Zenon
      <3> QED
        BY <3>2, Zenon
    <2> QED
      BY <2>4, <2>5, Zenon
  <1> QED
    BY <1>1, <1>2, <1>3, AlwaysIInv, PTL DEF Spec
=============================================================================
