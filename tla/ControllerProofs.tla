-------------------------- MODULE ControllerProofs --------------------------
(***************************************************************************)
(* Proofs about Controller, for every set of documents, every garbage and  *)
(* every number of runs: TypeOK, Faithful, NoOutputOnError, OneTornFile    *)
(* and ControlLists are invariants.                                        *)
(*                                                                         *)
(* First the operators: what Push, read_values and ReadPorts build, found  *)
(* by comparing the recursive functions with their closed forms, and that  *)
(* the ports read from a well-formed switch are written as Described says  *)
(* (WholeIsDescribed).                                                     *)
(*                                                                         *)
(* Then the inductive invariant IInv.  Faithful speaks of a run that has   *)
(* ended; it rests on a chain of facts about the phases before it:         *)
(*   Ordered  json_foreach has some subtrees of switches ahead of it and   *)
(*            then the switches not yet read, and switch_list holds those  *)
(*            read before, in the document's order;                        *)
(*   Writing  the buffer holds the first ports of the current switch;      *)
(*   Output   the files of the switches written so far hold the last of    *)
(*            each name, and no other file was touched.                    *)
(* NoOutputOnError rests on Ahead (a top-level switch without ports is     *)
(* still ahead of json_foreach, or the program has ended), OneTornFile on  *)
(* Sound, ControlLists on AllLegible (no list that is written is empty).   *)
(***************************************************************************)
EXTENDS Controller, TLAPS, FiniteSetTheorems, SequenceTheorems, Recursion

-----------------------------------------------------------------------------
(***************************************************************************)
(* Sequences of whatever elements.                                         *)
(***************************************************************************)
IsSeq(s) == s \in Seq({s[i] : i \in DOMAIN s})

LEMMA SeqIs ==
  ASSUME NEW s, IsSeq(s)
  PROVE  Len(s) \in Nat /\ DOMAIN s = 1 .. Len(s)
  BY DEF IsSeq

LEMMA FunctionIsSeq ==
  ASSUME NEW n \in Nat, NEW S, NEW s \in [1 .. n -> S]
  PROVE  IsSeq(s) /\ Len(s) = n /\ DOMAIN s = 1 .. n
  <1>1. s \in Seq(S) /\ Len(s) = n /\ DOMAIN s = 1 .. n
    OBVIOUS
  <1>2. s \in [1 .. n -> {s[i] : i \in 1 .. n}]
    OBVIOUS
  <1>3. s \in Seq({s[i] : i \in 1 .. n})
    BY <1>2
  <1> QED
    BY <1>1, <1>3 DEF IsSeq

LEMMA AppendIs ==
  ASSUME NEW s, NEW x, IsSeq(s)
  PROVE  /\ IsSeq(Append(s, x)) /\ Len(Append(s, x)) = Len(s) + 1
         /\ Append(s, x)[Len(s) + 1] = x
         /\ \A i \in 1 .. Len(s) : Append(s, x)[i] = s[i]
  <1> DEFINE S == {s[i] : i \in DOMAIN s} \cup {x}
  <1>1. s \in Seq(S)
    <2>1. s \in Seq({s[i] : i \in DOMAIN s})
      BY DEF IsSeq
    <2>2. {s[i] : i \in DOMAIN s} \subseteq S
      OBVIOUS
    <2> HIDE DEF S
    <2> QED
      BY <2>1, <2>2
  <1>2. x \in S
    OBVIOUS
  <1> HIDE DEF S
  <1>3. /\ Append(s, x) \in Seq(S) /\ Len(Append(s, x)) = Len(s) + 1 /\ Len(s) \in Nat
        /\ Append(s, x)[Len(s) + 1] = x
        /\ \A i \in 1 .. Len(s) : Append(s, x)[i] = s[i]
    BY <1>1, <1>2
  <1>4. Append(s, x) \in [1 .. Len(s) + 1 -> S] /\ Len(s) + 1 \in Nat
    <2>1. PICK t \in Seq(S) : t = Append(s, x)
      BY <1>3
    <2>2. PICK n \in Nat : n = Len(s) + 1 /\ Len(t) = n
      BY <1>3, <2>1
    <2>3. t \in [1 .. n -> S]
      BY <2>1, <2>2, LenProperties
    <2> QED
      BY <2>1, <2>2, <2>3
  <1>5. IsSeq(Append(s, x))
    BY <1>4, FunctionIsSeq
  <1> QED
    BY <1>3, <1>5

\* The least and the largest of some numbers.
LEMMA MinIs ==
  ASSUME NEW S \in SUBSET Nat, S # {}
  PROVE  Min(S) \in S /\ \A x \in S : Min(S) <= x
  <1>1. PICK x \in S : \A y \in S : x <= y
    BY LeastNumber
  <1> QED
    BY <1>1 DEF Min

LEMMA MaxIs ==
  ASSUME NEW n \in Nat, NEW S \in SUBSET (1 .. n), NEW m \in S, \A x \in S : x <= m
  PROVE  Max(S) = m
  <1>1. \A x \in S : x \in Nat /\ m >= x
    OBVIOUS
  <1>2. Max(S) \in S /\ \A x \in S : Max(S) >= x
    BY <1>1 DEF Max
  <1>3. PICK M \in Nat : M = Max(S)
    BY <1>1, <1>2
  <1>4. M >= m /\ m >= M /\ m \in Nat
    BY <1>1, <1>2, <1>3
  <1> QED
    BY <1>3, <1>4

-----------------------------------------------------------------------------
(***************************************************************************)
(* The lists of switch.c.                                                  *)
(***************************************************************************)
\* Cells of the given data, with their sizes.
Cells(data) == [k \in 1 .. Len(data) |-> [data |-> data[k], size |-> k]]

LEMMA PushIs ==
  ASSUME NEW list, NEW x, IsSeq(list), Len(list) > 0,
         \A i \in DOMAIN list : list[i].size = i
  PROVE  Push(list, x) = Append(list, [data |-> x, size |-> Len(list) + 1])
  <1>1. Len(list) \in Nat /\ 1 \in DOMAIN list /\ Len(list) \in DOMAIN list
    BY SeqIs
  <1>2. list[1].size # 0 /\ Last(list).size = Len(list)
    BY <1>1 DEF Last
  <1> QED
    BY <1>2 DEF Push

LEMMA PushFirst ==
  ASSUME NEW g, NEW x
  PROVE  Push(Created(g), x) = << [data |-> x, size |-> 1] >>
  BY DEF Push, Created

LEMMA PushedIs ==
  ASSUME NEW g, NEW data, IsSeq(data)
  PROVE  /\ Len(data) = 0 => Pushed(g, data) = Created(g)
         /\ Len(data) > 0 => Pushed(g, data) = Cells(data)
  <1> DEFINE n == Len(data)
             UpTo(i) == [k \in 1 .. i |-> [data |-> data[k], size |-> k]]
             F(h) == [i \in 0 .. n |-> IF i = 0 THEN Created(g) ELSE Push(h[i - 1], data[i])]
             list == CHOOSE h : h = F(h)
             c == [i \in 0 .. n |-> IF i = 0 THEN Created(g) ELSE UpTo(i)]
  <1>0. n \in Nat
    BY SeqIs
  <1>1. ASSUME NEW i \in 1 .. n
        PROVE  UpTo(i) = Push(IF i = 1 THEN Created(g) ELSE UpTo(i - 1), data[i])
    <2>1. CASE i = 1
      <3>1. UpTo(1) = << [data |-> data[1], size |-> 1] >>
        OBVIOUS
      <3> QED
        BY <2>1, <3>1, PushFirst
    <2>2. CASE i # 1
      <3>1. i - 1 \in Nat /\ i - 1 > 0 /\ i \in Nat
        BY <1>0, <2>2
      <3> DEFINE S == {UpTo(i)[k] : k \in 1 .. i}
                 u == UpTo(i - 1)
      <3>2. u \in [1 .. i - 1 -> S]
        <4>1. \A k \in 1 .. i - 1 : k \in 1 .. i /\ u[k] = UpTo(i)[k]
          BY <3>1
        <4> QED
          BY <4>1
      <3>3. \A k \in DOMAIN u : u[k].size = k
        OBVIOUS
      <3>4. IsSeq(u) /\ Len(u) = i - 1 /\ DOMAIN u = 1 .. i - 1
        <4> HIDE DEF u, S
        <4> QED
          BY <3>1, <3>2, FunctionIsSeq
      <3>5. \A k \in 1 .. i - 1 : u[k] = UpTo(i)[k]
        BY <3>1
      <3>6. UpTo(i)[i] = [data |-> data[i], size |-> i]
        BY <3>1
      <3>7. UpTo(i) \in [1 .. i -> S]
        OBVIOUS
      <3> HIDE DEF u, UpTo, S
      <3>8. Push(u, data[i]) = Append(u, [data |-> data[i], size |-> i])
        <4>1. Len(u) + 1 = i
          BY <3>1, <3>4
        <4> QED
          BY <3>1, <3>3, <3>4, <4>1, PushIs
      <3>9. Append(u, [data |-> data[i], size |-> i]) = UpTo(i)
        <4>1. u \in Seq(S) /\ Len(u) = i - 1 /\ UpTo(i)[i] \in S /\ UpTo(i) \in Seq(S) /\ Len(UpTo(i)) = i
          BY <3>1, <3>2, <3>7
        <4> QED
          BY <3>1, <3>5, <3>6, <4>1
      <3> QED
        BY <2>2, <3>8, <3>9 DEF u
    <2> QED
      BY <2>1, <2>2
  <1>2. c = F(c)
    <2>1. ASSUME NEW i \in 0 .. n, i # 0
          PROVE  c[i] = Push(c[i - 1], data[i])
      <3>1. i \in 1 .. n /\ i - 1 \in 0 .. n /\ (i - 1 = 0 <=> i = 1)
        BY <1>0, <2>1
      <3>2. c[i] = UpTo(i)
        BY <2>1
      <3>3. c[i - 1] = IF i = 1 THEN Created(g) ELSE UpTo(i - 1)
        BY <3>1
      <3> HIDE DEF c, UpTo
      <3> QED
        BY <1>1, <3>1, <3>2, <3>3
    <2>2. c[0] = Created(g)
      BY <1>0
    <2>3. F(c) = [i \in 0 .. n |-> c[i]]
      <3> HIDE DEF c
      <3> QED
        BY <2>1, <2>2
    <2>4. c = [i \in 0 .. n |-> c[i]]
      OBVIOUS
    <2> QED
      BY <2>3, <2>4
  <1>3. list = F(list)
    <2> HIDE DEF c, F
    <2> QED
      BY <1>2
  <1>4. \A i \in 0 .. n : list[i] = c[i]
    <2> DEFINE Differ == {i \in Nat : i <= n /\ list[i] # c[i]}
    <2> HIDE DEF list, c
    <2> SUFFICES ASSUME Differ # {} PROVE FALSE
      BY <1>0
    <2>1. PICK i \in Differ : \A j \in Differ : i <= j
      <3>1. Differ \in SUBSET Nat
        OBVIOUS
      <3> HIDE DEF Differ
      <3> QED
        BY <3>1, LeastNumber
    <2>2. i \in 0 .. n /\ list[i] # c[i]
      BY <1>0, <2>1
    <2>3. /\ list[i] = IF i = 0 THEN Created(g) ELSE Push(list[i - 1], data[i])
          /\ c[i] = IF i = 0 THEN Created(g) ELSE Push(c[i - 1], data[i])
      BY <1>2, <1>3, <2>2
    <2>4. i # 0 => list[i - 1] = c[i - 1]
      <3>1. i # 0 => i - 1 \in Nat /\ i - 1 <= n /\ ~(i <= i - 1)
        BY <1>0, <2>2
      <3> QED
        BY <2>1, <3>1
    <2> QED
      BY <2>2, <2>3, <2>4
  <1>5. Pushed(g, data) = list[n]
    BY DEF Pushed
  <1>6. c[n] = IF n = 0 THEN Created(g) ELSE UpTo(n)
    BY <1>0
  <1>7. UpTo(n) = Cells(data)
    BY DEF Cells
  <1> HIDE DEF list, c, UpTo
  <1>8. Pushed(g, data) = IF n = 0 THEN Created(g) ELSE Cells(data)
    BY <1>0, <1>4, <1>5, <1>6, <1>7
  <1> QED
    BY <1>0, <1>8

LEMMA CellsIs ==
  ASSUME NEW data, IsSeq(data)
  PROVE  /\ IsSeq(Cells(data)) /\ Len(Cells(data)) = Len(data) /\ DOMAIN Cells(data) = 1 .. Len(data)
         /\ \A k \in 1 .. Len(data) : Cells(data)[k] = [data |-> data[k], size |-> k]
  <1> DEFINE S == {[data |-> data[k], size |-> k] : k \in 1 .. Len(data)}
  <1>1. Len(data) \in Nat
    BY SeqIs
  <1>2. Cells(data) \in [1 .. Len(data) -> S]
    BY DEF Cells
  <1>3. \A k \in 1 .. Len(data) : Cells(data)[k] = [data |-> data[k], size |-> k]
    BY DEF Cells
  <1> HIDE DEF S
  <1> QED
    BY <1>1, <1>2, <1>3, FunctionIsSeq

LEMMA CreatedIs ==
  ASSUME NEW g
  PROVE  /\ IsSeq(Created(g)) /\ Len(Created(g)) = 1 /\ DOMAIN Created(g) = 1 .. 1
         /\ Created(g)[1] = [data |-> g, size |-> 0]
  <1>1. Created(g) \in [1 .. 1 -> {[data |-> g, size |-> 0]}]
    BY DEF Created
  <1> QED
    BY <1>1, FunctionIsSeq DEF Created

-----------------------------------------------------------------------------
(***************************************************************************)
(* The readers of json.c.                                                  *)
(***************************************************************************)
LEMMA KidsAre ==
  ASSUME NEW n \in Nodes \cup {NoNode}
  PROVE  /\ n.kids \in Seq(Nodes) /\ Len(n.kids) \in Nat /\ DOMAIN n.kids = 1 .. Len(n.kids)
         /\ \A i \in DOMAIN n.kids : n.kids[i] \in Nodes
         /\ n.type = "ARRAY" => Len(n.kids) > 0
         /\ n.type \in {"STRING", "NUMBER"} => DOMAIN n.kids = {}
  <1>0. NoNode.kids = <<>> /\ NoNode.type = "NONE"
    BY DEF NoNode
  <1>1. n.kids \in Seq(Nodes)
    <2>1. CASE n \in Nodes
      BY <2>1, NodesAssumption
    <2>2. CASE n = NoNode
      <3>1. <<>> \in Seq(Nodes)
        OBVIOUS
      <3> QED
        BY <1>0, <2>2, <3>1
    <2> QED
      BY <2>1, <2>2
  <1>2. Len(n.kids) \in Nat /\ DOMAIN n.kids = 1 .. Len(n.kids)
        /\ \A i \in DOMAIN n.kids : n.kids[i] \in Nodes
    BY <1>1
  <1>3. n.type = "ARRAY" => Len(n.kids) > 0
    <2> SUFFICES ASSUME n.type = "ARRAY" PROVE Len(n.kids) > 0
      OBVIOUS
    <2>1. n \in Nodes
      BY <1>0
    <2>2. n.kids # <<>>
      BY <2>1, NodesAssumption
    <2> QED
      BY <1>1, <1>2, <2>2
  <1>4. n.type \in {"STRING", "NUMBER"} => DOMAIN n.kids = {}
    <2> SUFFICES ASSUME n.type \in {"STRING", "NUMBER"} PROVE DOMAIN n.kids = {}
      OBVIOUS
    <2>1. n \in Nodes
      BY <1>0
    <2>2. n.kids = <<>>
      BY <2>1, NodesAssumption
    <2> QED
      BY <2>2
  <1> QED
    BY <1>1, <1>2, <1>3, <1>4

LEMMA JsonNodeIs ==
  ASSUME NEW n \in Nodes, NEW name
  PROVE  /\ json_node(n, name) \in Nodes \cup {NoNode}
         /\ json_node(n, name).type \in {"STRING", "NUMBER", "ARRAY"} =>
              /\ json_node(n, name) \in Nodes
              /\ \E i \in DOMAIN n.kids : json_node(n, name) = n.kids[i] /\ n.kids[i].name = name
  <1> DEFINE hits == {i \in DOMAIN n.kids : n.kids[i].name = name}
  <1>1. /\ Len(n.kids) \in Nat /\ DOMAIN n.kids = 1 .. Len(n.kids)
        /\ \A i \in DOMAIN n.kids : n.kids[i] \in Nodes
    BY KidsAre
  <1>2. CASE hits = {}
    <2>1. json_node(n, name) = NoNode
      BY <1>2 DEF json_node
    <2>2. NoNode.type = "NONE"
      BY DEF NoNode
    <2> QED
      BY <2>1, <2>2
  <1>3. CASE hits # {}
    <2>1. json_node(n, name) = n.kids[Min(hits)]
      BY <1>3 DEF json_node
    <2>2. hits \in SUBSET Nat
      BY <1>1
    <2>3. Min(hits) \in hits
      <3> HIDE DEF hits
      <3> QED
        BY <1>3, <2>2, MinIs
    <2>4. PICK i \in DOMAIN n.kids : i = Min(hits) /\ n.kids[i].name = name
      BY <2>3
    <2> QED
      BY <1>1, <2>1, <2>4
  <1> QED
    BY <1>2, <1>3

\* A switch has a child that is a string.
LEMMA SwitchHasString ==
  ASSUME NEW n \in Nodes, IsSwitch(n)
  PROVE  \E i \in DOMAIN n.kids : n.kids[i].type = "STRING" /\ n.kids[i].name = "switch"
  <1>1. json_node(n, "switch").type = "STRING"
    BY DEF IsSwitch, json_is_string
  <1> QED
    BY <1>1, JsonNodeIs

-----------------------------------------------------------------------------
(***************************************************************************)
(* What read_json reads.  The ports of a switch can be written: it has     *)
(* ports, and each has a control list that is not empty.                   *)
(***************************************************************************)
Legible(ports) ==
  /\ IsSeq(ports) /\ Len(ports) > 0
  /\ \A k \in DOMAIN ports : IsSeq(ports[k].data.values) /\ Len(ports[k].data.values) > 0

LEMMA PushedLength ==
  ASSUME NEW g, NEW data, IsSeq(data)
  PROVE  IsSeq(Pushed(g, data)) /\ Len(Pushed(g, data)) > 0
  <1>1. Len(data) \in Nat
    BY SeqIs
  <1>2. CASE Len(data) = 0
    <2>1. Pushed(g, data) = Created(g)
      BY <1>2, PushedIs
    <2>2. IsSeq(Created(g)) /\ Len(Created(g)) > 0
      <3>1. IsSeq(Created(g)) /\ Len(Created(g)) = 1
        BY CreatedIs
      <3> QED
        BY <3>1
    <2> QED
      BY <2>1, <2>2
  <1>3. CASE Len(data) > 0
    BY <1>1, <1>3, PushedIs, CellsIs
  <1> QED
    BY <1>1, <1>2, <1>3

LEMMA ReadValuesIs ==
  ASSUME NEW n \in Nodes \cup {NoNode}, NEW g
  PROVE  IsSeq(read_values(n, g)) /\ Len(read_values(n, g)) > 0
  <1> DEFINE F(h) == [i \in 0 .. Len(n.kids) |-> IF i = 0 THEN g ELSE Assigned(h[i - 1], n.kids[i])]
             entry == CHOOSE h : h = F(h)
             data == [i \in 1 .. Len(n.kids) |-> entry[i]]
             S == {entry[i] : i \in 1 .. Len(n.kids)}
  <1>1. read_values(n, g) = Pushed(g, data)
    BY DEF read_values
  <1> HIDE DEF entry
  <1>2. data \in [1 .. Len(n.kids) -> S] /\ Len(n.kids) \in Nat
    BY KidsAre
  <1> HIDE DEF data, S
  <1>3. IsSeq(data)
    BY <1>2, FunctionIsSeq
  <1> QED
    BY <1>1, <1>3, PushedLength

LEMMA ReadPortsIs ==
  ASSUME NEW p \in Nodes, json_is_array(p), NEW g
  PROVE  /\ Legible(ReadPorts(p, g)) /\ Len(ReadPorts(p, g)) = Len(p.kids)
         /\ DOMAIN ReadPorts(p, g) = DOMAIN p.kids
         /\ \A k \in DOMAIN p.kids : ReadPorts(p, g)[k].data = ReadPort(p.kids[k], g[k])
  <1> DEFINE data == [i \in 1 .. Len(p.kids) |-> ReadPort(p.kids[i], g[i])]
             S == {ReadPort(p.kids[i], g[i]) : i \in 1 .. Len(p.kids)}
  <1>1. /\ Len(p.kids) \in Nat /\ Len(p.kids) > 0 /\ DOMAIN p.kids = 1 .. Len(p.kids)
        /\ \A i \in DOMAIN p.kids : p.kids[i] \in Nodes
    BY KidsAre DEF json_is_array
  <1>2. PICK g0 : ReadPorts(p, g) = Pushed(g0, data)
    BY DEF ReadPorts
  <1>3. data \in [1 .. Len(p.kids) -> S] /\ \A k \in 1 .. Len(p.kids) : data[k] = ReadPort(p.kids[k], g[k])
    OBVIOUS
  <1> HIDE DEF data, S
  <1>4. IsSeq(data) /\ Len(data) = Len(p.kids)
    BY <1>1, <1>3, FunctionIsSeq
  <1>5. ReadPorts(p, g) = Cells(data)
    BY <1>1, <1>2, <1>4, PushedIs
  <1>6. /\ IsSeq(ReadPorts(p, g)) /\ Len(ReadPorts(p, g)) = Len(p.kids)
        /\ DOMAIN ReadPorts(p, g) = 1 .. Len(p.kids)
        /\ \A k \in 1 .. Len(p.kids) : ReadPorts(p, g)[k].data = ReadPort(p.kids[k], g[k])
    <2>1. ASSUME NEW k \in 1 .. Len(p.kids)
          PROVE  ReadPorts(p, g)[k].data = ReadPort(p.kids[k], g[k])
      <3>1. ReadPorts(p, g)[k] = [data |-> data[k], size |-> k]
        BY <1>4, <1>5, CellsIs
      <3>2. PICK x : x = data[k]
        OBVIOUS
      <3>3. ReadPorts(p, g)[k].data = x
        BY <3>1, <3>2
      <3> QED
        BY <1>3, <3>2, <3>3
    <2> QED
      BY <1>4, <1>5, <2>1, CellsIs
  <1>7. ASSUME NEW k \in 1 .. Len(p.kids)
        PROVE  IsSeq(ReadPorts(p, g)[k].data.values) /\ Len(ReadPorts(p, g)[k].data.values) > 0
    <2>1. ReadPorts(p, g)[k].data.values = read_values(json_node(p.kids[k], "values"), g[k])
      <3>1. ReadPorts(p, g)[k].data = ReadPort(p.kids[k], g[k])
        BY <1>6
      <3>2. ReadPort(p.kids[k], g[k]).values = read_values(json_node(p.kids[k], "values"), g[k])
        BY DEF ReadPort
      <3> QED
        BY <3>1, <3>2
    <2>2. json_node(p.kids[k], "values") \in Nodes \cup {NoNode}
      BY <1>1, JsonNodeIs
    <2> QED
      BY <2>1, <2>2, ReadValuesIs
  <1> QED
    BY <1>1, <1>6, <1>7 DEF Legible

\* A well-formed control list is read as it stands.
\* A number that an int can hold is not changed by the cast.
LEMMA ToIntIs ==
  ASSUME NEW v \in Int, v >= 0, v <= IntMax
  PROVE  ToInt(v) = v
  <1>1. PICK h \in Nat : h = IntSize \div 2 /\ h <= IntSize
    BY IntSizeAssumption
  <1>2. v < IntSize /\ IntSize \in Nat \ {0}
    BY <1>1, IntSizeAssumption DEF IntMax
  <1>3. v % IntSize = v
    BY <1>2
  <1> QED
    BY <1>3 DEF ToInt

LEMMA ReadEntries ==
  ASSUME NEW v \in Nodes, WellFormedList(v), NEW g
  PROVE  /\ IsSeq(read_values(v, g)) /\ Len(read_values(v, g)) = Len(v.kids)
         /\ \A k \in 1 .. Len(v.kids) :
              read_values(v, g)[k].data = [period |-> v.kids[k].kids[1].value,
                                           gates  |-> v.kids[k].kids[2].value]
  <1> DEFINE n == Len(v.kids)
             F(h) == [i \in 0 .. n |-> IF i = 0 THEN g ELSE Assigned(h[i - 1], v.kids[i])]
             E(i) == [period |-> v.kids[i].kids[1].value, gates |-> v.kids[i].kids[2].value]
             c == [i \in 0 .. n |-> IF i = 0 THEN g ELSE E(i)]
             entry == CHOOSE h : h = F(h)
             data == [i \in 1 .. n |-> entry[i]]
             S == {E(i) : i \in 1 .. n}
  <1>1. n \in Nat /\ n > 0 /\ DOMAIN v.kids = 1 .. n /\ \A i \in 1 .. n : v.kids[i] \in Nodes
    BY KidsAre DEF WellFormedList, json_is_array
  <1>2. ASSUME NEW i \in 1 .. n, NEW old PROVE Assigned(old, v.kids[i]) = E(i)
    <2>1. WellFormedEntry(v.kids[i]) /\ v.kids[i] \in Nodes
      BY <1>1 DEF WellFormedList
    <2>2. /\ Len(v.kids[i].kids) = 2
          /\ json_is_real(json_item(v.kids[i], 0)) /\ json_is_real(json_item(v.kids[i], 1))
          /\ json_item(v.kids[i], 1).value <= IntMax
      BY <2>1 DEF WellFormedEntry
    <2>3. /\ json_item(v.kids[i], 0) = v.kids[i].kids[1] /\ json_item(v.kids[i], 1) = v.kids[i].kids[2]
      BY <2>2 DEF json_item
    <2>4. /\ json_real(v.kids[i].kids[1]) = v.kids[i].kids[1].value
          /\ json_real(v.kids[i].kids[2]) = v.kids[i].kids[2].value
      BY <2>2, <2>3 DEF json_is_real, json_real
    <2>5. ToInt(v.kids[i].kids[2].value) = v.kids[i].kids[2].value
      <3>1. 2 \in DOMAIN v.kids[i].kids
        BY <2>1, <2>2, KidsAre
      <3>2. v.kids[i].kids[2] \in Nodes
        BY <2>1, <3>1, KidsAre
      <3>3. v.kids[i].kids[2].value \in Int
        BY <3>2, NodesAssumption
      <3> QED
        BY <2>2, <2>3, <3>3, ToIntIs DEF json_is_real
    <2> QED
      BY <2>2, <2>3, <2>4, <2>5 DEF Assigned
  <1>3. c = F(c)
    <2>1. F(c) = [i \in 0 .. n |-> IF i = 0 THEN g ELSE E(i)]
      <3> HIDE DEF c, E
      <3>1. ASSUME NEW i \in 0 .. n, i # 0 PROVE Assigned(c[i - 1], v.kids[i]) = E(i)
        <4>1. i \in 1 .. n
          BY <1>1, <3>1
        <4> QED
          BY <1>2, <4>1
      <3> QED
        BY <3>1
    <2> QED
      BY <2>1
  <1>4. entry = F(entry)
    <2> HIDE DEF c, F
    <2> QED
      BY <1>3
  <1>5. read_values(v, g) = Pushed(g, data)
    BY DEF read_values
  <1> HIDE DEF entry, E
  <1>6. \A i \in 1 .. n : entry[i] = E(i)
    <2>1. ASSUME NEW i \in 1 .. n PROVE entry[i] = Assigned(entry[i - 1], v.kids[i])
      <3>1. i \in 0 .. n /\ i # 0
        BY <1>1
      <3> QED
        BY <1>4, <3>1
    <2> QED
      BY <1>2, <2>1
  <1>7. data \in [1 .. n -> S] /\ \A i \in 1 .. n : data[i] = E(i)
    BY <1>6
  <1> HIDE DEF data, S
  <1>8. IsSeq(data) /\ Len(data) = n
    BY <1>1, <1>7, FunctionIsSeq
  <1>9. read_values(v, g) = Cells(data)
    BY <1>1, <1>5, <1>8, PushedIs
  <1>10. /\ IsSeq(read_values(v, g)) /\ Len(read_values(v, g)) = n
         /\ \A k \in 1 .. n : read_values(v, g)[k].data = E(k)
    <2>1. ASSUME NEW k \in 1 .. n PROVE read_values(v, g)[k].data = E(k)
      <3>1. read_values(v, g)[k] = [data |-> data[k], size |-> k]
        BY <1>8, <1>9, CellsIs
      <3>2. PICK x : x = data[k]
        OBVIOUS
      <3>3. read_values(v, g)[k].data = x
        BY <3>1, <3>2
      <3> QED
        BY <1>7, <3>2, <3>3
    <2> QED
      BY <1>8, <1>9, <2>1, CellsIs
  <1> QED
    BY <1>10 DEF E

\* All that is written for a list of ports, the cycle time aside.
WholeOf(ports) == WithoutCycleTime([i \in 1 .. Len(ports) |-> XmlPort(ports, i)])

LEMMA WholeIsDescribed ==
  ASSUME NEW s \in Nodes, WellFormedSwitch(s), NEW g
  PROVE  WholeOf(ReadPorts(json_node(s, "port_list"), g)) = Described(s)
  <1>1. PICK p \in Nodes : p = json_node(s, "port_list") /\ WellFormedPorts(p) /\ json_is_array(p)
    BY JsonNodeIs DEF WellFormedSwitch, WellFormedPorts, json_is_array
  <1>2. PICK ports : ports = ReadPorts(p, g)
    OBVIOUS
  <1>3. /\ Len(ports) = Len(p.kids) /\ DOMAIN p.kids = 1 .. Len(p.kids)
        /\ \A k \in DOMAIN p.kids : ports[k].data = ReadPort(p.kids[k], g[k]) /\ p.kids[k] \in Nodes
    BY <1>1, <1>2, ReadPortsIs, KidsAre
  <1>4. ASSUME NEW i \in DOMAIN p.kids
        PROVE  /\ XmlPort(ports, i).name = DescribedPort(p.kids[i]).name
               /\ XmlPort(ports, i).length = DescribedPort(p.kids[i]).length
               /\ XmlPort(ports, i).entries = DescribedPort(p.kids[i]).entries
    <2>1. PICK q \in Nodes : q = p.kids[i] /\ WellFormedPort(q)
      BY <1>1, <1>3 DEF WellFormedPorts
    <2>2. PICK v \in Nodes : v = json_node(q, "values") /\ WellFormedList(v)
      BY <2>1, JsonNodeIs DEF WellFormedPort, WellFormedList, json_is_array
    <2>3. PICK values : values = read_values(v, g[i])
      OBVIOUS
    <2>4. /\ ports[i].data.values = values
          /\ ports[i].data.number = ToInt(json_real(json_node(q, "port_number")))
      <3>1. ports[i].data = ReadPort(q, g[i])
        BY <1>3, <2>1
      <3>2. ReadPort(q, g[i]).values = read_values(v, g[i])
            /\ ReadPort(q, g[i]).number = ToInt(json_real(json_node(q, "port_number")))
        BY <2>2 DEF ReadPort
      <3> QED
        BY <2>3, <3>1, <3>2
    <2>5. ToInt(json_real(json_node(q, "port_number"))) = json_node(q, "port_number").value
      <3>1. PICK m : m = json_node(q, "port_number") /\ json_is_real(m) /\ m.value <= IntMax
        BY <2>1 DEF WellFormedPort
      <3>2. m \in Nodes
        BY <2>1, <3>1, JsonNodeIs DEF json_is_real
      <3>3. m.value \in Int /\ json_real(m) = m.value /\ m.value >= 0
        BY <3>1, <3>2, NodesAssumption DEF json_is_real, json_real
      <3> QED
        BY <3>1, <3>3, ToIntIs
    <2>6. /\ IsSeq(values) /\ Len(values) = Len(v.kids) /\ DOMAIN v.kids = 1 .. Len(v.kids)
          /\ \A k \in 1 .. Len(v.kids) : values[k].data = [period |-> v.kids[k].kids[1].value,
                                                          gates  |-> v.kids[k].kids[2].value]
      BY <2>2, <2>3, ReadEntries, KidsAre
    <2>7. ASSUME NEW k \in 1 .. Len(v.kids)
          PROVE  XmlEntry(values, k) = DescribedEntry(v.kids[k], k)
      <3>1. PICK a, b : a = v.kids[k].kids[1].value /\ b = v.kids[k].kids[2].value
        OBVIOUS
      <3>2. values[k].data.period = a /\ values[k].data.gates = b
        <4>1. values[k].data = [period |-> a, gates |-> b]
          BY <2>6, <3>1
        <4> QED
          BY <4>1
      <3>3. b \in Int /\ b >= 0
        <4>1. PICK e \in Nodes : e = v.kids[k] /\ WellFormedEntry(e)
          BY <2>2, <2>6, KidsAre DEF WellFormedList
        <4>2. e.kids[2] \in Nodes /\ json_item(e, 1) = e.kids[2] /\ json_is_real(e.kids[2])
          BY <4>1, KidsAre DEF WellFormedEntry, json_item
        <4> QED
          BY <3>1, <4>1, <4>2, NodesAssumption DEF json_is_real
      <3> QED
        BY <3>1, <3>2, <3>3 DEF XmlEntry, DescribedEntry, binaryToDecimal
    <2>8. /\ XmlPort(ports, i).name = json_node(q, "port_number").value
          /\ XmlPort(ports, i).length = Len(v.kids)
          /\ XmlPort(ports, i).entries = [k \in 1 .. Len(v.kids) |-> XmlEntry(values, k)]
      BY <2>4, <2>5, <2>6 DEF XmlPort, ListLength
    <2>9. /\ DescribedPort(q).name = json_node(q, "port_number").value
          /\ DescribedPort(q).length = Len(v.kids)
          /\ DescribedPort(q).entries = [k \in 1 .. Len(v.kids) |-> DescribedEntry(v.kids[k], k)]
      BY <2>2, <2>6 DEF DescribedPort
    <2> QED
      BY <2>1, <2>7, <2>8, <2>9
  <1>5. ASSUME NEW i \in DOMAIN p.kids
        PROVE  [name |-> XmlPort(ports, i).name, length |-> XmlPort(ports, i).length,
                entries |-> XmlPort(ports, i).entries] = DescribedPort(p.kids[i])
    BY <1>4 DEF DescribedPort
  <1>6. WholeOf(ports) = [i \in DOMAIN p.kids |->
          [name |-> XmlPort(ports, i).name, length |-> XmlPort(ports, i).length,
           entries |-> XmlPort(ports, i).entries]]
    BY <1>3 DEF WholeOf, WithoutCycleTime
  <1>7. Described(s) = [i \in DOMAIN p.kids |-> DescribedPort(p.kids[i])]
    BY <1>1 DEF Described
  <1>8. WholeOf(ports) = Described(s)
    BY <1>5, <1>6, <1>7
  <1> QED
    BY <1>1, <1>2, <1>8

-----------------------------------------------------------------------------
(***************************************************************************)
(* The inductive invariant.                                                *)
(***************************************************************************)
Typed ==
  /\ doc \in Configs
  /\ agenda \in Seq(Nodes)
  /\ IsSeq(switches) /\ Len(switches) > 0
  /\ \/ switches = NoSwitches
     \/ \A i \in DOMAIN switches : switches[i].size = i
  /\ current \in 1 .. Len(switches) + 1
  /\ IsSeq(out)
  /\ DOMAIN files = Names
  /\ \A f \in Names : files[f].state \in {"absent", "torn"} \cup Closed
  /\ DOMAIN before = Names
  /\ pc \in {"parse", "foreach", "print", "open", "write", "done", "exit", "crash"}
  /\ runs \in 1 .. MaxRuns

\* A switch in the list has ports, and each of its ports has entries.
AllLegible ==
  switches[1].size # 0 => \A i \in DOMAIN switches : Legible(switches[i].data.ports)

\* Memory is as it was at the start of the program before and after it runs.
Fresh == pc \in {"parse", "done", "exit", "crash"} =>
           agenda = <<>> /\ switches = NoSwitches /\ current = 1 /\ out = <<>>

\* Nothing was written yet.
Untouched == pc \in {"parse", "foreach", "print", "exit"} => files = before

\* A switch without ports is still ahead of json_foreach, and there is none
\* once it has returned.
Bad(n) == IsSwitch(n) /\ ~HasPorts(n)

NoBad == \A i \in DOMAIN doc.kids : ~Bad(doc.kids[i])

Ahead ==
  pc = "foreach" => \/ agenda = <<doc>>
                    \/ \A i \in DOMAIN doc.kids : Bad(doc.kids[i]) =>
                          \E j \in DOMAIN agenda : agenda[j] = doc.kids[i]

Checked == (pc \in {"print", "open", "write"} => NoBad) /\ (files # before => NoBad)

\* xml_write_instance runs on a list with a switch, and the buffer holds the
\* first ports of the switch it is at.
Writing ==
  /\ pc \in {"foreach", "print"} => current = 1
  /\ pc \in {"open", "write"} => switches[1].size # 0
  /\ pc = "write" => /\ current <= Len(switches)
                     /\ Len(out) <= Len(Ports)
                     /\ \A i \in 1 .. Len(out) : out[i] = XmlPort(Ports, i)

\* No file but the one of the switch written is torn.
WholeBut(x) == \A f \in Names : f # x => files[f] = before[f] \/ files[f].state \in Closed

Sound ==
  /\ pc \in {"open", "done"} => \A f \in Names : files[f] = before[f] \/ files[f].state \in Closed
  /\ pc = "write" => WholeBut(Here.name)
  /\ pc = "crash" => \E x : WholeBut(x)

\* The files of the switches already written, the last one of each name.
Name(i) == switches[i].data.name

Written(f) ==
  /\ (\A i \in 1 .. current - 1 : Name(i) # f) => files[f] = before[f]
  /\ \A i \in 1 .. current - 1 :
       (Name(i) = f /\ \A j \in 1 .. current - 1 : Name(j) = f => j <= i) =>
         \/ files[f].state = "lost"
         \/ /\ files[f].state = "whole"
            /\ WithoutCycleTime(files[f].ports) = WholeOf(switches[i].data.ports)

Output ==
  /\ pc = "open" => \A f \in Names : Written(f)
  /\ pc = "write" => \A f \in Names : f # Here.name => Written(f)

\* The subtrees of a well-formed switch.
Inner(n) ==
  \/ DOMAIN n.kids = {}
  \/ WellFormedEntry(n)
  \/ WellFormedList(n)
  \/ WellFormedPort(n)
  \/ WellFormedPorts(n)

\* The first k switches of the document are in the list.
Held(k) ==
  /\ k = 0 => switches = NoSwitches
  /\ k > 0 => /\ Len(switches) = k
              /\ \A i \in 1 .. k :
                   /\ switches[i].size = i
                   /\ Name(i) = json_node(doc.kids[i], "switch").text
                   /\ WholeOf(switches[i].data.ports) = Described(doc.kids[i])

\* Ahead of json_foreach are m subtrees of the switches read, and then the
\* other switches of the document.
Upcoming(k, m) ==
  /\ Len(agenda) = m + (Len(doc.kids) - k)
  /\ \A i \in 1 .. m : Inner(agenda[i])
  /\ \A i \in 1 .. Len(doc.kids) - k : agenda[m + i] = doc.kids[k + i]

Ordered ==
  WellFormed(doc) =>
    /\ pc = "foreach" =>
         \/ agenda = <<doc>> /\ switches = NoSwitches
         \/ \E k \in 0 .. Len(doc.kids), m \in 0 .. Len(agenda) : Held(k) /\ Upcoming(k, m)
    /\ pc \in {"print", "open", "write"} => Held(Len(doc.kids))

IInv ==
  /\ Typed
  /\ AllLegible
  /\ Fresh
  /\ Untouched
  /\ Ahead
  /\ Checked
  /\ Writing
  /\ Sound
  /\ ControlLists
  /\ Output
  /\ Ordered
  /\ Faithful

-----------------------------------------------------------------------------
(***************************************************************************)
(* The subtrees of a well-formed switch are no switches.                   *)
(***************************************************************************)
LEMMA EntryKids ==
  ASSUME NEW e \in Nodes, WellFormedEntry(e), NEW i \in DOMAIN e.kids
  PROVE  e.kids[i].type = "NUMBER"
  <1>1. Len(e.kids) = 2 /\ DOMAIN e.kids = 1 .. Len(e.kids)
    BY KidsAre DEF WellFormedEntry
  <1>2. json_is_real(json_item(e, 0)) /\ json_is_real(json_item(e, 1))
    BY DEF WellFormedEntry
  <1>3. json_item(e, 0) = e.kids[1] /\ json_item(e, 1) = e.kids[2]
    BY <1>1 DEF json_item
  <1>4. e.kids[1].type = "NUMBER" /\ e.kids[2].type = "NUMBER"
    BY <1>2, <1>3 DEF json_is_real
  <1>5. i = 1 \/ i = 2
    BY <1>1
  <1> QED
    BY <1>4, <1>5

LEMMA PortKids ==
  ASSUME NEW p \in Nodes, WellFormedPort(p), NEW i \in DOMAIN p.kids
  PROVE  p.kids[i].type = "NUMBER" \/ WellFormedList(p.kids[i])
  <1>1. Len(p.kids) = 2 /\ DOMAIN p.kids = 1 .. Len(p.kids)
    BY KidsAre DEF WellFormedPort
  <1>2. json_node(p, "port_number").type = "NUMBER" /\ WellFormedList(json_node(p, "values"))
    BY DEF WellFormedPort, json_is_real
  <1>3. PICK a \in DOMAIN p.kids : p.kids[a].type = "NUMBER"
    BY <1>2, JsonNodeIs
  <1>4. json_node(p, "values").type = "ARRAY"
    BY <1>2 DEF WellFormedList, json_is_array
  <1>5. PICK b \in DOMAIN p.kids : p.kids[b] = json_node(p, "values")
    BY <1>4, JsonNodeIs
  <1>6. a # b
    BY <1>3, <1>4, <1>5
  <1>7. i = a \/ i = b
    BY <1>1, <1>6
  <1> QED
    BY <1>2, <1>3, <1>5, <1>7

LEMMA SwitchKids ==
  ASSUME NEW s \in Nodes, WellFormedSwitch(s), NEW i \in DOMAIN s.kids
  PROVE  s.kids[i].type = "STRING" \/ WellFormedPorts(s.kids[i])
  <1>1. Len(s.kids) = 2 /\ DOMAIN s.kids = 1 .. Len(s.kids)
    BY KidsAre DEF WellFormedSwitch
  <1>2. IsSwitch(s) /\ WellFormedPorts(json_node(s, "port_list"))
    BY DEF WellFormedSwitch
  <1>3. PICK a \in DOMAIN s.kids : s.kids[a].type = "STRING"
    BY <1>2, SwitchHasString
  <1>4. json_node(s, "port_list").type = "ARRAY"
    BY <1>2 DEF WellFormedPorts, json_is_array
  <1>5. PICK b \in DOMAIN s.kids : s.kids[b] = json_node(s, "port_list")
    BY <1>4, JsonNodeIs
  <1>6. a # b
    BY <1>3, <1>4, <1>5
  <1>7. i = a \/ i = b
    BY <1>1, <1>6
  <1> QED
    BY <1>2, <1>3, <1>5, <1>7

LEMMA LeafIsInner ==
  ASSUME NEW n \in Nodes, n.type \in {"STRING", "NUMBER"}
  PROVE  Inner(n)
  BY KidsAre DEF Inner

LEMMA InnerKids ==
  ASSUME NEW n \in Nodes, Inner(n), NEW i \in DOMAIN n.kids
  PROVE  Inner(n.kids[i])
  <1>1. n.kids[i] \in Nodes
    BY KidsAre
  <1>2. CASE WellFormedEntry(n)
    BY <1>1, <1>2, EntryKids, LeafIsInner
  <1>3. CASE WellFormedList(n)
    BY <1>3 DEF WellFormedList, Inner
  <1>4. CASE WellFormedPort(n)
    <2>1. n.kids[i].type = "NUMBER" \/ WellFormedList(n.kids[i])
      BY <1>4, PortKids
    <2>2. CASE n.kids[i].type = "NUMBER"
      BY <1>1, <2>2, LeafIsInner
    <2>3. CASE WellFormedList(n.kids[i])
      BY <2>3 DEF Inner
    <2> QED
      BY <2>1, <2>2, <2>3
  <1>5. CASE WellFormedPorts(n)
    BY <1>5 DEF WellFormedPorts, Inner
  <1> QED
    BY <1>2, <1>3, <1>4, <1>5 DEF Inner

LEMMA SwitchKidsAreInner ==
  ASSUME NEW s \in Nodes, WellFormedSwitch(s), NEW i \in DOMAIN s.kids
  PROVE  Inner(s.kids[i])
  <1>1. s.kids[i] \in Nodes
    BY KidsAre
  <1>2. CASE s.kids[i].type = "STRING"
    BY <1>1, <1>2, LeafIsInner
  <1>3. CASE WellFormedPorts(s.kids[i])
    BY <1>3 DEF Inner
  <1> QED
    BY <1>2, <1>3, SwitchKids

\* A string has no children.
LEMMA StringIsLeaf ==
  ASSUME NEW n \in Nodes, n.type = "STRING"
  PROVE  Len(n.kids) # 2
  <1>1. DOMAIN n.kids = {} /\ DOMAIN n.kids = 1 .. Len(n.kids) /\ Len(n.kids) \in Nat
    BY KidsAre
  <1> SUFFICES ASSUME Len(n.kids) = 2 PROVE FALSE
    OBVIOUS
  <1>2. 1 \in 1 .. Len(n.kids)
    OBVIOUS
  <1> QED
    BY <1>1, <1>2

LEMMA InnerIsNoSwitch ==
  ASSUME NEW n \in Nodes, Inner(n)
  PROVE  ~IsSwitch(n)
  <1> SUFFICES ASSUME IsSwitch(n) PROVE FALSE
    OBVIOUS
  <1>1. PICK i \in DOMAIN n.kids : n.kids[i].type = "STRING"
    BY SwitchHasString
  <1>2. n.kids[i] \in Nodes
    BY KidsAre
  <1>3. CASE WellFormedEntry(n)
    BY <1>1, <1>3, EntryKids
  <1>4. CASE WellFormedList(n)
    BY <1>1, <1>4 DEF WellFormedList, WellFormedEntry, json_is_array
  <1>5. CASE WellFormedPort(n)
    <2>1. WellFormedList(n.kids[i])
      BY <1>1, <1>5, PortKids
    <2> QED
      BY <1>1, <2>1 DEF WellFormedList, json_is_array
  <1>6. CASE WellFormedPorts(n)
    <2>1. Len(n.kids[i].kids) = 2
      BY <1>6 DEF WellFormedPorts, WellFormedPort
    <2> QED
      BY <1>1, <1>2, <2>1, StringIsLeaf
  <1> QED
    BY <1>1, <1>3, <1>4, <1>5, <1>6 DEF Inner

LEMMA DocumentIsNoSwitch ==
  ASSUME NEW d \in Nodes, WellFormed(d)
  PROVE  ~IsSwitch(d)
  <1> SUFFICES ASSUME IsSwitch(d) PROVE FALSE
    OBVIOUS
  <1>1. PICK i \in DOMAIN d.kids : d.kids[i].type = "STRING"
    BY SwitchHasString
  <1>2. d.kids[i] \in Nodes /\ Len(d.kids[i].kids) = 2
    BY KidsAre DEF WellFormed, WellFormedSwitch
  <1> QED
    BY <1>1, <1>2, StringIsLeaf

-----------------------------------------------------------------------------
(***************************************************************************)
(* What is written for the ports of a switch.                              *)
(***************************************************************************)
\* What ControlLists says of a port.
Announced(p) ==
  /\ p.length = Len(p.entries) /\ p.length > 0
  /\ {p.entries[k].index : k \in DOMAIN p.entries} = 0 .. p.length - 1

LEMMA XmlAnnounced ==
  ASSUME NEW ports, Legible(ports), NEW i \in DOMAIN ports
  PROVE  Announced(XmlPort(ports, i))
  <1>1. PICK values : values = ports[i].data.values
    OBVIOUS
  <1>2. IsSeq(values) /\ Len(values) > 0
    BY <1>1 DEF Legible
  <1>3. PICK n \in Nat : n = Len(values) /\ n > 0
    BY <1>2, SeqIs
  <1> DEFINE entries == [k \in 1 .. n |-> XmlEntry(values, k)]
             S == {XmlEntry(values, k) : k \in 1 .. n}
  <1>4. XmlPort(ports, i).length = n /\ XmlPort(ports, i).entries = entries
    BY <1>1, <1>3 DEF XmlPort, ListLength
  <1>5. entries \in [1 .. n -> S]
    OBVIOUS
  <1>6. Len(entries) = n /\ DOMAIN entries = 1 .. n
    <2> HIDE DEF entries, S
    <2> QED
      BY <1>5, FunctionIsSeq
  <1>7. \A k \in 1 .. n : entries[k].index = k - 1
    BY DEF XmlEntry
  <1>8. {entries[k].index : k \in 1 .. n} = 0 .. n - 1
    <2> HIDE DEF entries
    <2>1. ASSUME NEW x \in 0 .. n - 1 PROVE x \in {entries[k].index : k \in 1 .. n}
      <3>1. x + 1 \in 1 .. n /\ (x + 1) - 1 = x
        OBVIOUS
      <3>2. entries[x + 1].index = x
        BY <1>7, <3>1
      <3> QED
        BY <3>1, <3>2
    <2>2. ASSUME NEW k \in 1 .. n PROVE entries[k].index \in 0 .. n - 1
      BY <1>7
    <2> QED
      BY <2>1, <2>2
  <1> HIDE DEF entries
  <1> QED
    BY <1>3, <1>4, <1>6, <1>8 DEF Announced

LEMMA ControlListsAre ==
  ControlLists <=> \A f \in Names : files[f].state = "whole" =>
                      \A i \in DOMAIN files[f].ports : Announced(files[f].ports[i])
  BY DEF ControlLists, Announced

\* Once all ports are in the buffer, it holds what the file should.
LEMMA AllWritten ==
  ASSUME NEW ports, IsSeq(ports), NEW o, IsSeq(o), Len(o) = Len(ports),
         \A i \in 1 .. Len(o) : o[i] = XmlPort(ports, i)
  PROVE  WithoutCycleTime(o) = WholeOf(ports) /\ DOMAIN o = 1 .. Len(ports)
  <1>1. DOMAIN o = 1 .. Len(ports)
    BY SeqIs
  <1>2. WithoutCycleTime(o) = [i \in 1 .. Len(ports) |->
           [name |-> XmlPort(ports, i).name, length |-> XmlPort(ports, i).length,
            entries |-> XmlPort(ports, i).entries]]
    BY <1>1 DEF WithoutCycleTime
  <1>3. WholeOf(ports) = [i \in 1 .. Len(ports) |->
           [name |-> XmlPort(ports, i).name, length |-> XmlPort(ports, i).length,
            entries |-> XmlPort(ports, i).entries]]
    BY DEF WholeOf, WithoutCycleTime
  <1> QED
    BY <1>1, <1>2, <1>3

-----------------------------------------------------------------------------
(***************************************************************************)
(* The invariant holds initially.                                          *)
(***************************************************************************)
LEMMA NoSwitchesIs ==
  /\ IsSeq(NoSwitches) /\ Len(NoSwitches) = 1 /\ DOMAIN NoSwitches = 1 .. 1
  /\ NoSwitches[1].size = 0
  <1>1. PICK x : NoSwitches = Created(x)
    BY DEF NoSwitches
  <1>2. NoSwitches[1] = [data |-> x, size |-> 0]
    BY <1>1, CreatedIs
  <1>3. IsSeq(NoSwitches) /\ Len(NoSwitches) = 1 /\ DOMAIN NoSwitches = 1 .. 1
    BY <1>1, CreatedIs
  <1> QED
    BY <1>2, <1>3

LEMMA EmptyIsSeq == IsSeq(<<>>)
  BY DEF IsSeq

LEMMA InitIInv == Init => IInv
  <1> SUFFICES ASSUME Init PROVE IInv
    OBVIOUS
  <1>1. \A f \in Names : files[f].state = "absent"
    BY DEF Init, File
  <1>2. Typed
    <2>1. /\ doc \in Configs /\ agenda \in Seq(Nodes) /\ DOMAIN files = Names /\ DOMAIN before = Names
          /\ pc = "parse" /\ out = <<>> /\ switches = NoSwitches
      BY DEF Init
    <2>2. runs \in 1 .. MaxRuns
      BY MaxRunsAssumption DEF Init
    <2>3. current \in 1 .. Len(switches) + 1 /\ Len(switches) > 0
      BY NoSwitchesIs DEF Init
    <2> QED
      BY <1>1, <2>1, <2>2, <2>3, NoSwitchesIs, EmptyIsSeq DEF Typed
  <1>3. AllLegible
    BY NoSwitchesIs DEF Init, AllLegible
  <1>4. Fresh /\ Untouched
    BY DEF Init, Fresh, Untouched
  <1>5. Ahead /\ Checked
    BY DEF Init, Ahead, Checked
  <1>6. Writing /\ Sound
    BY DEF Init, Writing, Sound
  <1>7. ControlLists
    BY <1>1, ControlListsAre
  <1>8. Output /\ Ordered /\ Faithful
    BY DEF Init, Output, Ordered, Faithful
  <1> QED
    BY <1>2, <1>3, <1>4, <1>5, <1>6, <1>7, <1>8 DEF IInv

-----------------------------------------------------------------------------
(***************************************************************************)
(* The steps that end the program.                                         *)
(***************************************************************************)
LEMMA EndsKeeps ==
  ASSUME IInv, NEW how \in {"exit", "crash", "done"}, Ends(how), UNCHANGED <<doc, before, runs>>,
         DOMAIN files' = Names, \A f \in Names : files'[f].state \in {"absent", "torn"} \cup Closed,
         how = "exit" => files' = before, files' # before => NoBad,
         how = "done" => \A f \in Names : files'[f] = before[f] \/ files'[f].state \in Closed,
         how = "crash" => \E x : \A f \in Names :
                             f # x => files'[f] = before[f] \/ files'[f].state \in Closed,
         ControlLists', how = "done" => Faithful'
  PROVE  IInv'
  <1>1. Typed'
    <2>1. /\ doc' \in Configs /\ agenda' \in Seq(Nodes) /\ DOMAIN files' = Names
          /\ DOMAIN before' = Names /\ out' = <<>> /\ switches' = NoSwitches
          /\ pc' \in {"done", "exit", "crash"} /\ runs' \in 1 .. MaxRuns
      BY DEF Ends, IInv, Typed
    <2>2. current' \in 1 .. Len(switches') + 1 /\ Len(switches') > 0
      BY NoSwitchesIs DEF Ends
    <2> QED
      BY <2>1, <2>2, NoSwitchesIs, EmptyIsSeq DEF Typed
  <1>2. AllLegible'
    BY NoSwitchesIs DEF Ends, AllLegible
  <1>3. Fresh' /\ Untouched'
    BY DEF Ends, Fresh, Untouched
  <1>4. Ahead' /\ Checked'
    BY DEF Ends, Ahead, Checked, NoBad
  <1>5. Writing'
    BY DEF Ends, Writing
  <1>6. Sound'
    BY DEF Ends, Sound, WholeBut
  <1>7. Output' /\ Ordered'
    BY DEF Ends, Output, Ordered
  <1>8. Faithful'
    BY DEF Ends, Faithful
  <1> QED
    BY <1>1, <1>2, <1>3, <1>4, <1>5, <1>6, <1>7, <1>8 DEF IInv

\* A program that stops without touching a file, where it had none open.
LEMMA StopsKeeps ==
  ASSUME IInv, NEW how \in {"exit", "crash"}, Ends(how), UNCHANGED <<doc, before, runs, files>>,
         pc # "write", how = "exit" => files = before,
         pc \in {"parse", "foreach", "print", "open"}
  PROVE  IInv'
  <1>1. DOMAIN files' = Names /\ \A f \in Names : files'[f].state \in {"absent", "torn"} \cup Closed
    BY DEF IInv, Typed
  <1>2. files' # before => NoBad
    BY DEF IInv, Checked
  <1>3. \A f \in Names : files'[f] = before[f] \/ files'[f].state \in Closed
    BY DEF IInv, Untouched, Sound
  <1>4. ControlLists'
    BY DEF IInv, ControlLists
  <1> QED
    BY <1>1, <1>2, <1>3, <1>4, EndsKeeps

LEMMA KilledKeeps ==
  ASSUME IInv, Killed
  PROVE  IInv'
  <1>1. CASE pc # "write"
    BY <1>1, StopsKeeps DEF Killed
  <1>2. CASE pc = "write"
    <2>1. PICK p : files' = [files EXCEPT ![Here.name] = File("torn", p)]
      BY <1>2 DEF Killed
    <2>2. PICK x : x = Here.name
      OBVIOUS
    <2>3. \A f \in Names : f # x => files'[f] = files[f]
      BY <2>1, <2>2 DEF IInv, Typed
    <2>4. x \in Names => files'[x].state = "torn"
      BY <2>1, <2>2 DEF IInv, Typed, File
    <2>5. DOMAIN files' = Names
      BY <2>1 DEF IInv, Typed
    <2>6. \A f \in Names : files'[f].state \in {"absent", "torn"} \cup Closed
      BY <2>3, <2>4 DEF IInv, Typed
    <2>7. NoBad
      BY <1>2 DEF IInv, Checked
    <2>8. \A f \in Names : f # x => files'[f] = before[f] \/ files'[f].state \in Closed
      BY <1>2, <2>2, <2>3 DEF IInv, Sound, WholeBut
    <2>9. ControlLists'
      <3>1. \A f \in Names : files[f].state = "whole" =>
               \A i \in DOMAIN files[f].ports : Announced(files[f].ports[i])
        BY ControlListsAre DEF IInv
      <3>2. \A f \in Names : files'[f].state = "whole" =>
               \A i \in DOMAIN files'[f].ports : Announced(files'[f].ports[i])
        BY <2>3, <2>4, <3>1
      <3> QED
        BY <3>2 DEF ControlLists, Announced
    <2>10. Ends("crash") /\ UNCHANGED <<doc, before, runs>>
      BY DEF Killed
    <2> QED
      BY <2>5, <2>6, <2>7, <2>8, <2>9, <2>10, EndsKeeps
  <1> QED
    BY <1>1, <1>2

-----------------------------------------------------------------------------
(***************************************************************************)
(* The other steps outside json_foreach.                                   *)
(***************************************************************************)
LEMMA ParseKeeps ==
  ASSUME IInv, parse
  PROVE  IInv'
  <1>1. CASE Ends("exit")
    BY <1>1, StopsKeeps DEF parse, IInv, Untouched
  <1>2. CASE agenda' = <<doc>> /\ pc' = "foreach" /\ UNCHANGED <<switches, current, out>>
    <2>1. /\ UNCHANGED <<doc, files, before, runs, switches, current, out>>
          /\ pc = "parse" /\ pc' = "foreach" /\ agenda' = <<doc>>
      BY <1>2 DEF parse
    <2>2. switches = NoSwitches /\ current = 1 /\ files = before
      BY <2>1 DEF IInv, Fresh, Untouched
    <2>3. Typed'
      <3>1. doc \in Nodes
        BY NodesAssumption DEF IInv, Typed
      <3>2. agenda' \in Seq(Nodes)
        BY <2>1, <3>1
      <3> QED
        BY <2>1, <3>2 DEF IInv, Typed
    <2>4. AllLegible' /\ Fresh' /\ Untouched'
      BY <2>1, <2>2 DEF IInv, AllLegible, Fresh, Untouched
    <2>5. Ahead' /\ Checked'
      BY <2>1, <2>2 DEF Ahead, Checked
    <2>6. Writing' /\ Sound'
      BY <2>1, <2>2 DEF Writing, Sound
    <2>7. ControlLists'
      BY <2>1 DEF IInv, ControlLists
    <2>8. Output' /\ Ordered' /\ Faithful'
      BY <2>1, <2>2 DEF Output, Ordered, Faithful
    <2> QED
      BY <2>3, <2>4, <2>5, <2>6, <2>7, <2>8 DEF IInv
  <1> QED
    BY <1>1, <1>2 DEF parse

LEMMA StartAgainKeeps ==
  ASSUME IInv, StartAgain
  PROVE  IInv'
  <1>1. /\ UNCHANGED <<files, agenda, switches, current, out>>
        /\ pc \in {"done", "exit", "crash"} /\ pc' = "parse" /\ doc' \in Configs
        /\ before' = files /\ runs' = runs + 1 /\ runs < MaxRuns
    BY DEF StartAgain, memory
  <1>2. agenda = <<>> /\ switches = NoSwitches /\ current = 1 /\ out = <<>>
    BY <1>1 DEF IInv, Fresh
  <1>3. Typed'
    <2>1. runs' \in 1 .. MaxRuns
      BY <1>1, MaxRunsAssumption DEF IInv, Typed
    <2> QED
      BY <1>1, <2>1 DEF IInv, Typed
  <1>4. AllLegible' /\ Fresh' /\ Untouched'
    BY <1>1, <1>2 DEF IInv, AllLegible, Fresh, Untouched
  <1>5. Ahead' /\ Checked'
    BY <1>1, <1>2 DEF Ahead, Checked
  <1>6. Writing' /\ Sound'
    BY <1>1, <1>2 DEF Writing, Sound
  <1>7. ControlLists'
    BY <1>1 DEF IInv, ControlLists
  <1>8. Output' /\ Ordered' /\ Faithful'
    BY <1>1, <1>2 DEF Output, Ordered, Faithful
  <1> QED
    BY <1>3, <1>4, <1>5, <1>6, <1>7, <1>8 DEF IInv

LEMMA ForeachReturnKeeps ==
  ASSUME IInv, ForeachReturn
  PROVE  IInv'
  <1>1. /\ UNCHANGED <<doc, agenda, switches, current, out, files, before, runs>>
        /\ pc = "foreach" /\ pc' = "print" /\ agenda = <<>>
    BY DEF ForeachReturn
  <1>2. agenda # <<doc>> /\ DOMAIN agenda = {} /\ Len(agenda) = 0
    BY <1>1
  <1>3. NoBad
    BY <1>1, <1>2 DEF IInv, Ahead, NoBad
  <1>4. WellFormed(doc) => Held(Len(doc.kids))
    <2> SUFFICES ASSUME WellFormed(doc) PROVE Held(Len(doc.kids))
      OBVIOUS
    <2>1. PICK k \in 0 .. Len(doc.kids), m \in 0 .. Len(agenda) : Held(k) /\ Upcoming(k, m)
      BY <1>1, <1>2 DEF IInv, Ordered
    <2>2. Len(doc.kids) \in Nat
      BY KidsAre, NodesAssumption DEF IInv, Typed
    <2>3. m = 0 /\ Len(agenda) = m + (Len(doc.kids) - k)
      BY <1>2, <2>1 DEF Upcoming
    <2>4. k = Len(doc.kids)
      BY <1>2, <2>2, <2>3
    <2> QED
      BY <2>1, <2>4
  <1>5. Typed'
    BY <1>1 DEF IInv, Typed
  <1>6. AllLegible' /\ Fresh' /\ Untouched'
    BY <1>1 DEF IInv, AllLegible, Fresh, Untouched
  <1>7. Ahead' /\ Checked'
    BY <1>1, <1>3 DEF Ahead, Checked, NoBad
  <1>8. Writing' /\ Sound'
    BY <1>1 DEF IInv, Writing, Sound
  <1>9. ControlLists'
    BY <1>1 DEF IInv, ControlLists
  <1>10. Ordered'
    BY <1>1, <1>4 DEF Ordered, Held, Name
  <1>11. Output' /\ Faithful'
    BY <1>1 DEF Output, Faithful
  <1> QED
    BY <1>5, <1>6, <1>7, <1>8, <1>9, <1>10, <1>11 DEF IInv

LEMMA PrintKeeps ==
  ASSUME IInv, switch_print_list
  PROVE  IInv'
  <1>1. CASE switches[1].size = 0
    BY <1>1, StopsKeeps DEF switch_print_list
  <1>2. CASE switches[1].size # 0
    <2>1. /\ UNCHANGED <<doc, agenda, switches, current, out, files, before, runs>>
          /\ pc = "print" /\ pc' = "open"
      BY <1>2 DEF switch_print_list, memory
    <2>2. files = before /\ current = 1
      BY <2>1 DEF IInv, Untouched, Writing
    <2>3. Typed'
      BY <2>1 DEF IInv, Typed
    <2>4. AllLegible' /\ Fresh' /\ Untouched'
      BY <2>1 DEF IInv, AllLegible, Fresh, Untouched
    <2>5. Ahead' /\ Checked'
      BY <2>1 DEF IInv, Ahead, Checked, NoBad
    <2>6. Writing' /\ Sound'
      BY <1>2, <2>1, <2>2 DEF Writing, Sound
    <2>7. ControlLists'
      BY <2>1 DEF IInv, ControlLists
    <2>8. Output'
      <3>1. \A f \in Names : Written(f)'
        BY <2>1, <2>2 DEF Written
      <3> QED
        BY <2>1, <3>1 DEF Output
    <2>9. Ordered' /\ Faithful'
      BY <2>1 DEF IInv, Ordered, Held, Name, Faithful
    <2> QED
      BY <2>3, <2>4, <2>5, <2>6, <2>7, <2>8, <2>9 DEF IInv
  <1> QED
    BY <1>1, <1>2

LEMMA WritePortKeeps ==
  ASSUME IInv, WritePort
  PROVE  IInv'
  <1>1. /\ UNCHANGED <<doc, agenda, switches, current, files, before, pc, runs>>
        /\ pc = "write" /\ Len(out) < Len(Ports)
        /\ out' = Append(out, XmlPort(Ports, Len(out) + 1))
    BY DEF WritePort
  <1>2. IsSeq(out)
    BY DEF IInv, Typed
  <1>3. PICK x : x = XmlPort(Ports, Len(out) + 1)
    OBVIOUS
  <1>4. /\ IsSeq(out') /\ Len(out') = Len(out) + 1
        /\ out'[Len(out) + 1] = x /\ \A i \in 1 .. Len(out) : out'[i] = out[i]
    BY <1>1, <1>2, <1>3, AppendIs
  <1>5. PICK n \in Nat : n = Len(out)
    BY <1>2, SeqIs
  <1>6. current \in DOMAIN switches /\ Legible(Ports)
    <2>1. current <= Len(switches) /\ switches[1].size # 0
      BY <1>1 DEF IInv, Writing
    <2>2. current \in DOMAIN switches
      BY <2>1, SeqIs DEF IInv, Typed
    <2> QED
      BY <2>1, <2>2 DEF IInv, AllLegible, Ports, Here
  <1>7. Writing'
    <2>1. Len(Ports) \in Nat
      BY <1>6, SeqIs DEF Legible
    <2>2. Ports' = Ports
      BY <1>1 DEF Ports, Here
    <2>3. \A i \in 1 .. n + 1 : out'[i] = XmlPort(Ports, i)
      <3>1. ASSUME NEW i \in 1 .. n + 1 PROVE out'[i] = XmlPort(Ports, i)
        <4>1. CASE i \in 1 .. n
          BY <1>1, <1>4, <1>5, <4>1 DEF IInv, Writing
        <4>2. CASE i = n + 1
          BY <1>3, <1>4, <1>5, <4>2
        <4> QED
          BY <4>1, <4>2
      <3> QED
        BY <3>1
    <2>4. Len(out') <= Len(Ports)
      BY <1>1, <1>4, <1>5, <2>1
    <2> QED
      BY <1>1, <1>4, <1>5, <2>2, <2>3, <2>4 DEF IInv, Writing
  <1>8. Typed'
    BY <1>1, <1>4 DEF IInv, Typed
  <1>9. AllLegible' /\ Fresh' /\ Untouched'
    BY <1>1 DEF IInv, AllLegible, Fresh, Untouched
  <1>10. Ahead' /\ Checked'
    BY <1>1 DEF IInv, Ahead, Checked, NoBad
  <1>11. Sound'
    BY <1>1 DEF IInv, Sound, WholeBut, Here
  <1>12. ControlLists'
    BY <1>1 DEF IInv, ControlLists
  <1>13. Output'
    BY <1>1 DEF IInv, Output, Written, Name, Here
  <1>14. Ordered' /\ Faithful'
    BY <1>1 DEF IInv, Ordered, Held, Name, Faithful
  <1> QED
    BY <1>7, <1>8, <1>9, <1>10, <1>11, <1>12, <1>13, <1>14 DEF IInv

LEMMA OpenFileKeeps ==
  ASSUME IInv, OpenFile
  PROVE  IInv'
  <1>1. CASE Ends("crash") /\ UNCHANGED files
    BY <1>1, StopsKeeps DEF OpenFile
  <1>2. CASE /\ files' = [files EXCEPT ![Here.name] = File("torn", <<>>)]
             /\ out' = <<>> /\ pc' = "write" /\ UNCHANGED <<agenda, switches, current>>
    <2>1. /\ UNCHANGED <<doc, agenda, switches, current, before, runs>>
          /\ pc = "open" /\ pc' = "write" /\ current <= Len(switches) /\ out' = <<>>
      BY <1>2 DEF OpenFile
    <2>2. PICK x : x = Here.name
      OBVIOUS
    <2>3. x = Here'.name
      BY <2>1, <2>2 DEF Here
    <2>4. DOMAIN files' = Names /\ \A f \in Names : f # x => files'[f] = files[f]
      BY <1>2, <2>2 DEF IInv, Typed
    <2>5. x \in Names => files'[x].state = "torn"
      BY <1>2, <2>2 DEF IInv, Typed, File
    <2>6. Typed'
      <3>1. \A f \in Names : files'[f].state \in {"absent", "torn"} \cup Closed
        BY <2>4, <2>5 DEF IInv, Typed
      <3> QED
        BY <2>1, <2>4, <3>1, EmptyIsSeq DEF IInv, Typed
    <2>7. AllLegible' /\ Fresh' /\ Untouched'
      BY <2>1 DEF IInv, AllLegible, Fresh, Untouched
    <2>8. Ahead' /\ Checked'
      <3>1. NoBad
        BY <2>1 DEF IInv, Checked
      <3> QED
        BY <2>1, <3>1 DEF Ahead, Checked, NoBad
    <2>9. Writing'
      <3>1. current \in DOMAIN switches /\ switches[1].size # 0
        BY <2>1, SeqIs DEF IInv, Typed, Writing
      <3>2. Legible(Ports)
        BY <3>1 DEF IInv, AllLegible, Ports, Here
      <3>3. Len(out') = 0 /\ Len(Ports) >= 0
        BY <2>1, <3>2, SeqIs DEF Legible
      <3>4. Ports' = Ports
        BY <2>1 DEF Ports, Here
      <3> QED
        BY <2>1, <3>1, <3>3, <3>4 DEF Writing
    <2>10. Sound'
      <3>1. WholeBut(x)'
        BY <2>1, <2>4 DEF IInv, Sound, WholeBut
      <3> QED
        BY <2>1, <2>3, <3>1 DEF Sound
    <2>11. ControlLists'
      <3>1. \A f \in Names : files[f].state = "whole" =>
               \A i \in DOMAIN files[f].ports : Announced(files[f].ports[i])
        BY ControlListsAre DEF IInv
      <3>2. \A f \in Names : files'[f].state = "whole" =>
               \A i \in DOMAIN files'[f].ports : Announced(files'[f].ports[i])
        BY <2>4, <2>5, <3>1
      <3> QED
        BY <3>2 DEF ControlLists, Announced
    <2>12. Output'
      <3>1. ASSUME NEW f \in Names, f # x PROVE Written(f)'
        <4>1. Written(f) /\ files'[f] = files[f]
          BY <2>1, <2>4, <3>1 DEF IInv, Output
        <4> QED
          BY <2>1, <4>1 DEF Written, Name
      <3> QED
        BY <2>1, <2>3, <3>1 DEF Output
    <2>13. Ordered' /\ Faithful'
      BY <2>1 DEF IInv, Ordered, Held, Name, Faithful
    <2> QED
      BY <2>6, <2>7, <2>8, <2>9, <2>10, <2>11, <2>12, <2>13 DEF IInv
  <1> QED
    BY <1>1, <1>2 DEF OpenFile

LEMMA CloseFileKeeps ==
  ASSUME IInv, CloseFile
  PROVE  IInv'
  <1>1. /\ UNCHANGED <<doc, agenda, switches, out, before, runs>>
        /\ pc = "write" /\ pc' = "open" /\ current' = current + 1 /\ Len(out) = Len(Ports)
        /\ \E g \in {File("whole", out), File("lost", <<>>)} : files' = [files EXCEPT ![Here.name] = g]
    BY DEF CloseFile, NextSwitch
  <1>2. PICK x : x = Here.name
    OBVIOUS
  <1>3. /\ IsSeq(switches) /\ Len(switches) \in Nat /\ DOMAIN switches = 1 .. Len(switches)
        /\ current \in 1 .. Len(switches) /\ switches[1].size # 0
    BY <1>1, SeqIs DEF IInv, Typed, Writing
  <1>4. Legible(Ports)
    BY <1>3 DEF IInv, AllLegible, Ports, Here
  <1>5. IsSeq(out) /\ \A i \in 1 .. Len(out) : out[i] = XmlPort(Ports, i)
    BY <1>1 DEF IInv, Typed, Writing
  <1>6. WithoutCycleTime(out) = WholeOf(Ports) /\ DOMAIN out = 1 .. Len(Ports)
    BY <1>1, <1>4, <1>5, AllWritten DEF Legible
  <1>7. DOMAIN files' = Names /\ \A f \in Names : f # x => files'[f] = files[f]
    BY <1>1, <1>2 DEF IInv, Typed
  <1>8. x \in Names => /\ files'[x].state \in Closed
                       /\ files'[x].state = "whole" => files'[x].ports = out
    BY <1>1, <1>2 DEF IInv, Typed, File, Closed
  <1>9. Typed'
    <2>1. \A f \in Names : files'[f].state \in {"absent", "torn"} \cup Closed
      BY <1>7, <1>8 DEF IInv, Typed
    <2>2. current' \in 1 .. Len(switches) + 1
      BY <1>1, <1>3
    <2> QED
      BY <1>1, <1>7, <2>1, <2>2 DEF IInv, Typed
  <1>10. AllLegible' /\ Fresh' /\ Untouched'
    BY <1>1 DEF IInv, AllLegible, Fresh, Untouched
  <1>11. Ahead' /\ Checked'
    <2>1. NoBad
      BY <1>1 DEF IInv, Checked
    <2> QED
      BY <1>1, <2>1 DEF Ahead, Checked, NoBad
  <1>12. Writing'
    BY <1>1, <1>3 DEF Writing
  <1>13. Sound'
    <2>1. \A f \in Names : files'[f] = before[f] \/ files'[f].state \in Closed
      BY <1>1, <1>2, <1>7, <1>8 DEF IInv, Sound, WholeBut
    <2> QED
      BY <1>1, <2>1 DEF Sound
  <1>14. ControlLists'
    <2>1. \A f \in Names : files[f].state = "whole" =>
             \A i \in DOMAIN files[f].ports : Announced(files[f].ports[i])
      BY ControlListsAre DEF IInv
    <2>2. \A i \in DOMAIN out : Announced(out[i])
      <3>1. ASSUME NEW i \in DOMAIN out PROVE Announced(out[i])
        <4>1. i \in DOMAIN Ports /\ out[i] = XmlPort(Ports, i)
          BY <1>1, <1>4, <1>5, <1>6, SeqIs DEF Legible
        <4> QED
          BY <1>4, <4>1, XmlAnnounced
      <3> QED
        BY <3>1
    <2>3. \A f \in Names : files'[f].state = "whole" =>
             \A i \in DOMAIN files'[f].ports : Announced(files'[f].ports[i])
      BY <1>7, <1>8, <2>1, <2>2
    <2> QED
      BY <2>3 DEF ControlLists, Announced
  <1>15. Output'
    <2>1. PICK c \in Nat : c = current /\ c >= 1 /\ current' - 1 = c
      BY <1>1, <1>3
    <2>2. ASSUME NEW f \in Names, f # x PROVE Written(f)'
      <3>1. Written(f) /\ files'[f] = files[f]
        BY <1>1, <1>2, <1>7, <2>2 DEF IInv, Output
      <3>2. Name(c) # f
        BY <1>2, <2>1, <2>2 DEF Name, Here
      <3>3. \A i \in 1 .. c : Name(i) = f => i \in 1 .. c - 1
        BY <2>1, <3>2
      <3>4. \A i \in 1 .. c - 1 : i \in 1 .. c
        OBVIOUS
      <3>5. \A i : Name(i)' = Name(i)
        BY <1>1 DEF Name
      <3>6. (\A i \in 1 .. c : Name(i) # f) => files'[f] = before[f]
        BY <2>1, <3>1, <3>4 DEF Written
      <3>7. ASSUME NEW i \in 1 .. c, Name(i) = f, \A j \in 1 .. c : Name(j) = f => j <= i
            PROVE  \/ files'[f].state = "lost"
                   \/ /\ files'[f].state = "whole"
                      /\ WithoutCycleTime(files'[f].ports) = WholeOf(switches[i].data.ports)
        BY <2>1, <3>1, <3>3, <3>4, <3>7 DEF Written
      <3> HIDE DEF Name
      <3> QED
        BY <1>1, <2>1, <3>5, <3>6, <3>7 DEF Written
    <2>3. ASSUME x \in Names PROVE Written(x)'
      <3>1. Name(c)' = x
        BY <1>1, <1>2, <2>1 DEF Name, Here
      <3>2. c \in 1 .. c
        BY <2>1
      <3>3. ASSUME NEW i \in 1 .. c, \A j \in 1 .. c : Name(j)' = x => j <= i
            PROVE  i = c
        BY <2>1, <3>1, <3>2, <3>3
      <3>4. \/ files'[x].state = "lost"
            \/ /\ files'[x].state = "whole"
               /\ WithoutCycleTime(files'[x].ports) = WholeOf(switches'[c].data.ports)
        BY <1>1, <1>6, <1>8, <2>1, <2>3 DEF Ports, Here, Closed
      <3> QED
        BY <2>1, <3>1, <3>2, <3>3, <3>4 DEF Written
    <2>4. \A f \in Names : Written(f)'
      <3> HIDE DEF Written
      <3> QED
        BY <2>2, <2>3
    <2> QED
      BY <1>1, <2>4 DEF Output
  <1>16. Ordered' /\ Faithful'
    BY <1>1 DEF IInv, Ordered, Held, Name, Faithful
  <1> QED
    BY <1>9, <1>10, <1>11, <1>12, <1>13, <1>14, <1>15, <1>16 DEF IInv

\* Some numbers up to n have a largest.
LEMMA LargestNumber ==
  ASSUME NEW n \in Nat, NEW S \in SUBSET (1 .. n), S # {}
  PROVE  \E m \in S : \A x \in S : x <= m
  <1> DEFINE T == {k \in Nat : n - k \in S}
  <1>1. PICK s \in S : TRUE
    OBVIOUS
  <1>2. n - s \in Nat /\ n - (n - s) = s
    OBVIOUS
  <1>3. T # {} /\ T \in SUBSET Nat
    BY <1>2
  <1>4. PICK k \in T : \A j \in T : k <= j
    <2> HIDE DEF T
    <2> QED
      BY <1>3, LeastNumber
  <1>5. n - k \in S
    BY <1>4
  <1>6. ASSUME NEW x \in S PROVE x <= n - k
    <2>1. n - x \in Nat /\ n - (n - x) = x /\ x \in Nat
      OBVIOUS
    <2>2. n - x \in T
      BY <2>1
    <2>3. k <= n - x /\ k \in Nat
      BY <1>4, <2>2
    <2> QED
      BY <2>1, <2>3
  <1> QED
    BY <1>5, <1>6

LEMMA ReturnKeeps ==
  ASSUME IInv, Return
  PROVE  IInv'
  <1>1. /\ UNCHANGED <<doc, files, before, runs>> /\ Ends("done")
        /\ pc = "open" /\ pc' = "done" /\ current > Len(switches)
    BY DEF Return, Ends
  <1>2. /\ IsSeq(switches) /\ Len(switches) \in Nat /\ Len(switches) > 0
        /\ current = Len(switches) + 1 /\ switches[1].size # 0
    BY <1>1, SeqIs DEF IInv, Typed, Writing
  <1>3. ASSUME WellFormed(doc), NEW f \in Names
        PROVE  IF f \in NamesIn(doc)
               THEN \/ files[f].state = "lost"
                    \/ /\ files[f].state = "whole"
                       /\ WithoutCycleTime(files[f].ports) = LastDescribed(doc, f)
               ELSE files[f] = before[f]
    <2>1. PICK n \in Nat : n = Len(doc.kids) /\ DOMAIN doc.kids = 1 .. n
      BY KidsAre, NodesAssumption DEF IInv, Typed
    <2>2. Held(n)
      BY <1>1, <1>3, <2>1 DEF IInv, Ordered
    <2>3. n # 0
      BY <1>2, <2>2, NoSwitchesIs DEF Held
    <2>4. /\ Len(switches) = n /\ current - 1 = n
          /\ \A i \in 1 .. n : /\ Name(i) = json_node(doc.kids[i], "switch").text
                               /\ WholeOf(switches[i].data.ports) = Described(doc.kids[i])
      BY <1>2, <2>2, <2>3 DEF Held
    <2>5. Written(f)
      BY <1>1 DEF IInv, Output
    <2> DEFINE same == {i \in DOMAIN doc.kids : json_node(doc.kids[i], "switch").text = f}
    <2>6. same \in SUBSET (1 .. n) /\ \A i \in 1 .. n : i \in same <=> Name(i) = f
      BY <2>1, <2>4
    <2>7. f \in NamesIn(doc) <=> same # {}
      BY DEF NamesIn
    <2>8. LastDescribed(doc, f) = Described(doc.kids[Max(same)])
      BY DEF LastDescribed
    <2> HIDE DEF same
    <2>9. CASE same = {}
      <3>1. \A i \in 1 .. current - 1 : Name(i) # f
        BY <2>4, <2>6, <2>9
      <3>2. files[f] = before[f]
        BY <2>5, <3>1 DEF Written
      <3> QED
        BY <2>7, <2>9, <3>2
    <2>10. CASE same # {}
      <3>1. PICK m \in same : \A i \in same : i <= m
        BY <2>6, <2>10, LargestNumber
      <3>2. Max(same) = m
        BY <2>6, <3>1, MaxIs
      <3>3. m \in 1 .. current - 1 /\ Name(m) = f /\ \A j \in 1 .. current - 1 : Name(j) = f => j <= m
        BY <2>4, <2>6, <3>1
      <3>4. \/ files[f].state = "lost"
            \/ /\ files[f].state = "whole"
               /\ WithoutCycleTime(files[f].ports) = WholeOf(switches[m].data.ports)
        BY <2>5, <3>3 DEF Written
      <3>5. WholeOf(switches[m].data.ports) = Described(doc.kids[m])
        BY <2>4, <2>6, <3>1
      <3> QED
        BY <2>7, <2>8, <2>10, <3>2, <3>4, <3>5
    <2> QED
      BY <2>9, <2>10
  <1>4. Faithful'
    BY <1>1, <1>3 DEF Faithful
  <1>5. DOMAIN files' = Names /\ \A f \in Names : files'[f].state \in {"absent", "torn"} \cup Closed
    BY <1>1 DEF IInv, Typed
  <1>6. files' # before => NoBad
    BY <1>1 DEF IInv, Checked
  <1>7. \A f \in Names : files'[f] = before[f] \/ files'[f].state \in Closed
    BY <1>1 DEF IInv, Sound
  <1>8. ControlLists'
    BY <1>1 DEF IInv, ControlLists
  <1> QED
    BY <1>1, <1>4, <1>5, <1>6, <1>7, <1>8, EndsKeeps

-----------------------------------------------------------------------------
(***************************************************************************)
(* The steps of json_foreach.                                              *)
(***************************************************************************)
LEMMA MissingPortsKeeps ==
  ASSUME IInv, MissingPorts
  PROVE  IInv'
  BY StopsKeeps DEF MissingPorts, Visiting, IInv, Untouched

\* What is left to visit after a node, in order.
Visited(a) == Head(a).kids \o Tail(a)

\* Element by element: the n children of the node h visited come before the
\* others of the l nodes.
Laid(a, b, h, n, l) ==
  /\ h = Head(a) /\ h = a[1] /\ n = Len(h.kids) /\ DOMAIN h.kids = 1 .. n
  /\ l = Len(a) /\ l > 0 /\ DOMAIN a = 1 .. l
  /\ b \in Seq(Nodes) /\ Len(b) = n + (l - 1)
  /\ \A i \in 1 .. n : b[i] = h.kids[i]
  /\ \A i \in 2 .. l : b[n + (i - 1)] = a[i]

LEMMA VisitIs ==
  ASSUME NEW a \in Seq(Nodes), a # <<>>, NEW b, b = Visited(a)
  PROVE  \E h \in Nodes, n \in Nat, l \in Nat : Laid(a, b, h, n, l)
  <1>1. PICK h \in Nodes, l \in Nat :
          h = Head(a) /\ h = a[1] /\ l = Len(a) /\ l > 0 /\ DOMAIN a = 1 .. l
    OBVIOUS
  <1>2. PICK s \in Seq(Nodes), n \in Nat : s = h.kids /\ Len(s) = n /\ DOMAIN s = 1 .. n
    BY KidsAre
  <1>3. PICK t \in Seq(Nodes) : t = Tail(a)
    BY HeadTailProperties
  <1>4. Len(t) = l - 1
    BY <1>1, <1>3, HeadTailProperties
  <1>5. ASSUME NEW i \in 1 .. l - 1 PROVE t[i] = a[i + 1]
    BY <1>1, <1>3, <1>4, HeadTailProperties
  <1>6. b = s \o t
    BY <1>1, <1>2, <1>3 DEF Visited
  <1>7. b \in Seq(Nodes) /\ Len(b) = n + (l - 1)
    <2>1. Len(s \o t) = Len(s) + Len(t) /\ s \o t \in Seq(Nodes)
      BY ConcatProperties
    <2> QED
      BY <1>2, <1>4, <1>6, <2>1
  <1>8. \A i \in 1 .. n : b[i] = s[i]
    BY <1>2, <1>6
  <1>9. ASSUME NEW i \in 2 .. l PROVE b[n + (i - 1)] = a[i]
    <2>1. PICK j \in 1 .. l - 1 : j = i - 1 /\ j + 1 = i
      BY <1>1
    <2>2. b[n + j] = t[j]
      <3>1. \A k \in 1 .. Len(s) + Len(t) :
               (s \o t)[k] = IF k <= Len(s) THEN s[k] ELSE t[k - Len(s)]
        BY ConcatProperties
      <3>2. n + j \in 1 .. n + (l - 1) /\ ~(n + j <= n) /\ (n + j) - n = j
        BY <1>1, <1>2
      <3> QED
        BY <1>2, <1>4, <1>6, <3>1, <3>2
    <2> QED
      BY <1>5, <2>1, <2>2
  <1> QED
    BY <1>1, <1>2, <1>7, <1>8, <1>9 DEF Laid

\* No switch without ports is passed over.
LEMMA AheadKept ==
  ASSUME IInv, Visit, ~Bad(Head(agenda)), UNCHANGED <<doc, pc>>
  PROVE  Ahead'
  <1>1. pc = "foreach" /\ agenda # <<>> /\ agenda \in Seq(Nodes)
        /\ agenda' = Visited(agenda)
    BY DEF Visit, Visiting, IInv, Typed, Visited
  <1>2. PICK h \in Nodes, n \in Nat, l \in Nat : Laid(agenda, agenda', h, n, l)
    BY <1>1, VisitIs
  <1>3. /\ h = Head(agenda) /\ h = agenda[1] /\ n = Len(h.kids) /\ DOMAIN h.kids = 1 .. n
        /\ l = Len(agenda) /\ l > 0 /\ DOMAIN agenda = 1 .. l
        /\ agenda' \in Seq(Nodes) /\ Len(agenda') = n + (l - 1)
        /\ \A i \in 1 .. n : agenda'[i] = h.kids[i]
        /\ \A i \in 2 .. l : agenda'[n + (i - 1)] = agenda[i]
    BY <1>2 DEF Laid
  <1>6. DOMAIN agenda' = 1 .. n + (l - 1)
    BY <1>3
  <1>7. ASSUME NEW i \in DOMAIN doc.kids, Bad(doc.kids[i])
        PROVE  \E j \in DOMAIN agenda' : agenda'[j] = doc.kids[i]
    <2>1. CASE agenda = <<doc>>
      <3>1. h = doc
        BY <1>3, <2>1
      <3>2. i \in 1 .. n /\ i \in DOMAIN agenda'
        BY <1>3, <1>6, <3>1
      <3> QED
        BY <1>3, <3>1, <3>2
    <2>2. CASE agenda # <<doc>>
      <3>1. PICK j \in DOMAIN agenda : agenda[j] = doc.kids[i]
        BY <1>1, <1>7, <2>2 DEF IInv, Ahead
      <3>2. j # 1
        BY <1>3, <1>7, <3>1
      <3>3. j \in 2 .. l /\ n + (j - 1) \in 1 .. n + (l - 1)
        BY <1>3, <3>1, <3>2
      <3> QED
        BY <1>3, <1>6, <3>1, <3>3
    <2> QED
      BY <2>1, <2>2
  <1> QED
    BY <1>7 DEF Ahead, Bad, IsSwitch, HasPorts

\* The rest of the document in order: an inner node gives way to its children,
\* and a switch to the subtrees of it.
LEMMA UpcomingInner ==
  ASSUME Typed, Visit, UNCHANGED doc, NEW k \in 0 .. Len(doc.kids), NEW m \in 1 .. Len(agenda), Upcoming(k, m)
  PROVE  \E mm \in 0 .. Len(agenda') : Upcoming(k, mm)'
  <1>1. /\ agenda # <<>> /\ agenda \in Seq(Nodes) /\ doc \in Nodes
        /\ agenda' = Visited(agenda)
    BY NodesAssumption DEF Visit, Visiting, Typed, Visited
  <1>2. PICK h \in Nodes, n \in Nat, l \in Nat : Laid(agenda, agenda', h, n, l)
    BY <1>1, VisitIs
  <1>3. /\ h = Head(agenda) /\ h = agenda[1] /\ n = Len(h.kids) /\ DOMAIN h.kids = 1 .. n
        /\ l = Len(agenda) /\ l > 0 /\ DOMAIN agenda = 1 .. l
        /\ agenda' \in Seq(Nodes) /\ Len(agenda') = n + (l - 1)
        /\ \A i \in 1 .. n : agenda'[i] = h.kids[i]
        /\ \A i \in 2 .. l : agenda'[n + (i - 1)] = agenda[i]
    BY <1>2 DEF Laid
  <1>6. PICK d \in Nat : d = Len(doc.kids)
    BY <1>1, KidsAre
  <1>7. /\ l = m + (d - k) /\ \A i \in 1 .. m : Inner(agenda[i])
        /\ \A i \in 1 .. d - k : agenda[m + i] = doc.kids[k + i]
    BY <1>3, <1>6 DEF Upcoming
  <1>8. k \in Nat /\ m \in Nat /\ m >= 1 /\ k <= d
    BY <1>3, <1>6
  <1>9. PICK mm \in Nat : mm = n + (m - 1)
    BY <1>8
  <1>10. Len(agenda') = mm + (d - k)
    <2>1. Len(agenda') = n + (l - 1)
      BY <1>3
    <2>2. l = m + (d - k)
      BY <1>7
    <2>3. n + ((m + (d - k)) - 1) = mm + (d - k)
      BY <1>8, <1>9
    <2> QED
      BY <2>1, <2>2, <2>3
  <1>11. ASSUME NEW i \in 1 .. mm PROVE Inner(agenda'[i])
    <2>1. CASE i \in 1 .. n
      <3>1. Inner(h)
        <4>1. 1 \in 1 .. m /\ h = agenda[1]
          BY <1>3, <1>8
        <4>2. Inner(agenda[1])
          BY <1>7, <4>1
        <4> QED
          BY <4>1, <4>2
      <3> QED
        BY <1>3, <2>1, <3>1, InnerKids
    <2>2. CASE i > n
      <3>1. PICK j \in 2 .. l : i = n + (j - 1) /\ j \in 1 .. m
        <4>1. i - n + 1 \in 2 .. l /\ i = n + ((i - n + 1) - 1) /\ i - n + 1 \in 1 .. m
          BY <1>7, <1>8, <1>9, <2>2
        <4> QED
          BY <4>1
      <3>2. agenda'[i] = agenda[j]
        BY <1>3, <3>1
      <3> QED
        BY <1>7, <3>1, <3>2
    <2> QED
      BY <2>1, <2>2
  <1>12. ASSUME NEW i \in 1 .. d - k PROVE agenda'[mm + i] = doc.kids[k + i]
    <2>1. m + i \in 2 .. l /\ mm + i = n + ((m + i) - 1)
      BY <1>7, <1>8, <1>9
    <2>2. agenda'[n + ((m + i) - 1)] = agenda[m + i]
      BY <1>3, <2>1
    <2> QED
      BY <1>7, <2>1, <2>2
  <1>13. mm \in 0 .. Len(agenda')
    BY <1>8, <1>9, <1>10
  <1>14. Upcoming(k, mm)'
    BY <1>6, <1>10, <1>11, <1>12 DEF Upcoming
  <1> QED
    BY <1>13, <1>14

LEMMA UpcomingSwitch ==
  ASSUME Typed, Visit, UNCHANGED doc, WellFormed(doc),
         NEW k \in 0 .. Len(doc.kids), Upcoming(k, 0)
  PROVE  /\ k + 1 \in 0 .. Len(doc.kids) /\ Head(agenda) = doc.kids[k + 1]
         /\ k + 1 \in DOMAIN doc.kids /\ WellFormedSwitch(doc.kids[k + 1])
         /\ \E mm \in 0 .. Len(agenda') : Upcoming(k + 1, mm)'
  <1>1. /\ agenda # <<>> /\ agenda \in Seq(Nodes) /\ doc \in Nodes
        /\ agenda' = Visited(agenda)
    BY NodesAssumption DEF Visit, Visiting, Typed, Visited
  <1>2. PICK h \in Nodes, n \in Nat, l \in Nat : Laid(agenda, agenda', h, n, l)
    BY <1>1, VisitIs
  <1>3. /\ h = Head(agenda) /\ h = agenda[1] /\ n = Len(h.kids) /\ DOMAIN h.kids = 1 .. n
        /\ l = Len(agenda) /\ l > 0 /\ DOMAIN agenda = 1 .. l
        /\ agenda' \in Seq(Nodes) /\ Len(agenda') = n + (l - 1)
        /\ \A i \in 1 .. n : agenda'[i] = h.kids[i]
        /\ \A i \in 2 .. l : agenda'[n + (i - 1)] = agenda[i]
    BY <1>2 DEF Laid
  <1>6. PICK d \in Nat : d = Len(doc.kids) /\ DOMAIN doc.kids = 1 .. d
    BY <1>1, KidsAre
  <1>7. l = d - k /\ \A i \in 1 .. d - k : agenda[i] = doc.kids[k + i]
    <2>1. Len(agenda) = 0 + (d - k) /\ \A i \in 1 .. d - k : agenda[0 + i] = doc.kids[k + i]
      BY <1>6 DEF Upcoming
    <2>2. \A i \in 1 .. d - k : 0 + i = i
      BY <1>6
    <2> QED
      BY <1>3, <1>6, <2>1, <2>2
  <1>8. k \in Nat /\ k + 1 <= d
    BY <1>3, <1>6, <1>7
  <1>9. h = doc.kids[k + 1] /\ k + 1 \in 1 .. d
    BY <1>3, <1>7, <1>8
  <1>10. WellFormedSwitch(h)
    BY <1>6, <1>9 DEF WellFormed
  <1>11. Len(agenda') = n + (d - (k + 1))
    BY <1>3, <1>7, <1>8
  <1>12. ASSUME NEW i \in 1 .. n PROVE Inner(agenda'[i])
    BY <1>3, <1>10, SwitchKidsAreInner
  <1>13. ASSUME NEW i \in 1 .. d - (k + 1) PROVE agenda'[n + i] = doc.kids[(k + 1) + i]
    <2>1. i + 1 \in 2 .. l /\ n + i = n + ((i + 1) - 1) /\ k + (i + 1) = (k + 1) + i /\ i + 1 \in 1 .. d - k
      BY <1>7, <1>8
    <2>2. agenda'[n + ((i + 1) - 1)] = agenda[i + 1]
      BY <1>3, <2>1
    <2> QED
      BY <1>7, <2>1, <2>2
  <1>14. n \in 0 .. Len(agenda')
    BY <1>8, <1>11
  <1>15. PICK kk \in Nat : kk = k + 1
    BY <1>8
  <1>16. Upcoming(kk, n)'
    BY <1>6, <1>11, <1>12, <1>13, <1>15 DEF Upcoming
  <1>17. Upcoming(k + 1, n)'
    BY <1>15, <1>16
  <1> QED
    BY <1>3, <1>6, <1>8, <1>9, <1>10, <1>14, <1>17

\* The document itself gives way to its switches.
LEMMA UpcomingFirst ==
  ASSUME Typed, Visit, UNCHANGED doc, WellFormed(doc), agenda = <<doc>>
  PROVE  0 \in 0 .. Len(doc.kids) /\ \E mm \in 0 .. Len(agenda') : Upcoming(0, mm)'
  <1>1. doc \in Nodes /\ agenda' = Visited(agenda)
    BY NodesAssumption DEF Visit, Visiting, Typed, Visited
  <1>2. Head(agenda) = doc /\ Tail(agenda) = <<>>
    OBVIOUS
  <1>3. PICK s \in Seq(Nodes) : s = doc.kids
    BY <1>1, KidsAre
  <1>4. agenda' = s
    BY <1>1, <1>2, <1>3 DEF Visited
  <1>5. Len(s) \in Nat
    BY <1>3
  <1>6. \A i \in 1 .. Len(s) - 0 : 0 + i = i
    BY <1>5
  <1>7. Upcoming(0, 0)'
    BY <1>3, <1>4, <1>5, <1>6 DEF Upcoming
  <1> QED
    BY <1>3, <1>4, <1>5, <1>7

LEMMA SkipNodeKeeps ==
  ASSUME IInv, SkipNode
  PROVE  IInv'
  <1>1. /\ UNCHANGED <<doc, switches, current, out, files, before, pc, runs>> /\ Visit
        /\ pc = "foreach" /\ agenda # <<>> /\ ~IsSwitch(Head(agenda))
    BY DEF SkipNode, Visit, Visiting
  <1>2. Typed
    BY DEF IInv
  <1>3. agenda' \in Seq(Nodes)
    <2>1. agenda \in Seq(Nodes) /\ agenda' = Visited(agenda)
      BY <1>1, <1>2 DEF Typed, Visit, Visited
    <2> QED
      BY <1>1, <2>1, VisitIs DEF Laid
  <1>4. Typed'
    BY <1>1, <1>2, <1>3 DEF Typed
  <1>5. AllLegible' /\ Fresh' /\ Untouched'
    BY <1>1 DEF IInv, AllLegible, Fresh, Untouched
  <1>6. Ahead'
    BY <1>1, AheadKept DEF Bad
  <1>7. Checked'
    BY <1>1 DEF IInv, Checked, NoBad
  <1>8. Writing' /\ Sound'
    BY <1>1 DEF IInv, Writing, Sound
  <1>9. ControlLists'
    BY <1>1 DEF IInv, ControlLists
  <1>10. Ordered'
    <2>1. ASSUME WellFormed(doc)
          PROVE  \E k \in 0 .. Len(doc.kids), m \in 0 .. Len(agenda') : Held(k) /\ Upcoming(k, m)'
      <3>1. CASE agenda = <<doc>> /\ switches = NoSwitches
        <4>1. 0 \in 0 .. Len(doc.kids) /\ \E m \in 0 .. Len(agenda') : Upcoming(0, m)'
          BY <1>1, <1>2, <2>1, <3>1, UpcomingFirst
        <4>2. Held(0)
          BY <3>1 DEF Held
        <4> QED
          BY <4>1, <4>2
      <3>2. CASE \E k \in 0 .. Len(doc.kids), m \in 0 .. Len(agenda) : Held(k) /\ Upcoming(k, m)
        <4>1. PICK k \in 0 .. Len(doc.kids), m \in 0 .. Len(agenda) : Held(k) /\ Upcoming(k, m)
          BY <3>2
        <4>2. m # 0
          <5> SUFFICES ASSUME m = 0 PROVE FALSE
            OBVIOUS
          <5>1. Head(agenda) = doc.kids[k + 1] /\ WellFormedSwitch(doc.kids[k + 1])
            BY <1>1, <1>2, <2>1, <4>1, UpcomingSwitch
          <5> QED
            BY <1>1, <5>1 DEF WellFormedSwitch
        <4>3. m \in 1 .. Len(agenda)
          BY <1>2, <4>2 DEF Typed
        <4>4. \E mm \in 0 .. Len(agenda') : Upcoming(k, mm)'
          BY <1>1, <1>2, <4>1, <4>3, UpcomingInner
        <4> QED
          BY <4>1, <4>4
      <3> QED
        BY <1>1, <2>1, <3>1, <3>2 DEF IInv, Ordered
    <2>2. ASSUME NEW k PROVE Held(k)' <=> Held(k)
      BY <1>1 DEF Held, Name
    <2>3. ASSUME WellFormed(doc)
          PROVE  (\E k \in 0 .. Len(doc.kids), m \in 0 .. Len(agenda) : Held(k) /\ Upcoming(k, m))'
      BY <1>1, <2>1, <2>2, <2>3
    <2> QED
      BY <1>1, <2>3 DEF Ordered
  <1>11. Output' /\ Faithful'
    BY <1>1 DEF Output, Faithful
  <1> QED
    BY <1>4, <1>5, <1>6, <1>7, <1>8, <1>9, <1>10, <1>11 DEF IInv

\* What a push does to the list of switches.
LEMMA PushedSwitch ==
  ASSUME Typed, NEW x, switches' = Push(switches, x)
  PROVE  /\ IsSeq(switches') /\ DOMAIN switches' = 1 .. Len(switches')
         /\ switches'[Len(switches')] = [data |-> x, size |-> Len(switches')]
         /\ switches = NoSwitches => Len(switches') = 1
         /\ switches # NoSwitches =>
              /\ Len(switches') = Len(switches) + 1
              /\ \A i \in 1 .. Len(switches) : switches'[i] = switches[i]
  <1>1. CASE switches = NoSwitches
    <2>1. switches' = << [data |-> x, size |-> 1] >>
      BY <1>1, PushFirst DEF NoSwitches
    <2>2. switches' \in [1 .. 1 -> { [data |-> x, size |-> 1] }]
      BY <2>1
    <2>3. IsSeq(switches') /\ Len(switches') = 1 /\ DOMAIN switches' = 1 .. 1
      BY <2>2, FunctionIsSeq
    <2> QED
      <3>1. switches'[1] = [data |-> x, size |-> 1]
        BY <2>1
      <3> QED
        BY <1>1, <2>3, <3>1
  <1>2. CASE switches # NoSwitches
    <2>1. IsSeq(switches) /\ Len(switches) > 0 /\ \A i \in DOMAIN switches : switches[i].size = i
      BY <1>2 DEF Typed
    <2>2. PICK c : c = [data |-> x, size |-> Len(switches) + 1]
      OBVIOUS
    <2>3. switches' = Append(switches, c)
      BY <2>1, <2>2, PushIs
    <2>4. /\ IsSeq(switches') /\ Len(switches') = Len(switches) + 1
          /\ switches'[Len(switches) + 1] = c
          /\ \A i \in 1 .. Len(switches) : switches'[i] = switches[i]
      BY <2>1, <2>3, AppendIs
    <2>5. DOMAIN switches' = 1 .. Len(switches')
      BY <2>4, SeqIs
    <2> QED
      BY <1>2, <2>2, <2>4, <2>5
  <1> QED
    BY <1>1, <1>2

LEMMA ReadSwitchKeeps ==
  ASSUME IInv, ReadSwitch
  PROVE  IInv'
  <1>1. /\ UNCHANGED <<doc, current, out, files, before, pc, runs>> /\ Visit
        /\ pc = "foreach" /\ agenda # <<>>
        /\ IsSwitch(Head(agenda)) /\ HasPorts(Head(agenda))
    BY DEF ReadSwitch, Visit, Visiting
  <1>2. Typed
    BY DEF IInv
  <1>3. agenda' \in Seq(Nodes) /\ Head(agenda) \in Nodes
    <2>1. agenda \in Seq(Nodes) /\ agenda' = Visited(agenda)
      BY <1>1, <1>2 DEF Typed, Visit, Visited
    <2> QED
      BY <1>1, <2>1, VisitIs DEF Laid
  <1>4. PICK p \in Nodes : p = json_node(Head(agenda), "port_list") /\ json_is_array(p)
    BY <1>1, <1>3, JsonNodeIs DEF HasPorts, json_is_array
  <1>5. PICK g : switches' = Push(switches, [name  |-> json_node(Head(agenda), "switch").text,
                                             ports |-> ReadPorts(p, g)])
    BY <1>4 DEF ReadSwitch
  <1>6. PICK x : /\ x = [name  |-> json_node(Head(agenda), "switch").text, ports |-> ReadPorts(p, g)]
                 /\ switches' = Push(switches, x)
    BY <1>5
  <1>7. x.name = json_node(Head(agenda), "switch").text /\ x.ports = ReadPorts(p, g)
    BY <1>6
  <1>8. Legible(x.ports)
    BY <1>4, <1>7, ReadPortsIs
  <1>9. PICK n \in Nat : n = Len(switches) /\ n > 0 /\ DOMAIN switches = 1 .. n
    BY <1>2, SeqIs DEF Typed
  <1>10. PICK r \in Nat : r = Len(switches') /\ r = IF switches = NoSwitches THEN 1 ELSE n + 1
    <2>1. CASE switches = NoSwitches
      <3>1. Len(switches') = 1
        BY <1>2, <1>6, <2>1, PushedSwitch
      <3> QED
        BY <2>1, <3>1
    <2>2. CASE switches # NoSwitches
      <3>1. Len(switches') = Len(switches) + 1
        BY <1>2, <1>6, <2>2, PushedSwitch
      <3> QED
        BY <1>9, <2>2, <3>1
    <2> QED
      BY <2>1, <2>2
  <1>11. /\ IsSeq(switches') /\ DOMAIN switches' = 1 .. r
         /\ switches'[r] = [data |-> x, size |-> r]
         /\ switches # NoSwitches => \A i \in 1 .. n : switches'[i] = switches[i]
    BY <1>2, <1>6, <1>9, <1>10, PushedSwitch
  <1>12. switches'[r].data = x /\ switches'[r].size = r
    BY <1>11
  <1>13. switches # NoSwitches => /\ \A i \in 1 .. n : switches[i].size = i
                                  /\ \A i \in 1 .. n : Legible(switches[i].data.ports)
    <2> SUFFICES ASSUME switches # NoSwitches
                 PROVE  /\ \A i \in 1 .. n : switches[i].size = i
                        /\ \A i \in 1 .. n : Legible(switches[i].data.ports)
      OBVIOUS
    <2>1. \A i \in 1 .. n : switches[i].size = i
      BY <1>2, <1>9 DEF Typed
    <2>2. switches[1].size # 0
      BY <1>9, <2>1
    <2> QED
      BY <1>9, <2>1, <2>2 DEF IInv, AllLegible
  <1>14. ASSUME NEW i \in 1 .. r
         PROVE  switches'[i].size = i /\ Legible(switches'[i].data.ports)
    <2>1. CASE i = r
      BY <1>8, <1>12, <2>1
    <2>2. CASE i # r
      <3>1. switches # NoSwitches /\ i \in 1 .. n
        BY <1>10, <2>2
      <3> QED
        BY <1>11, <1>13, <3>1
    <2> QED
      BY <2>1, <2>2
  <1>15. Typed'
    <2>1. current' = 1 /\ current' \in 1 .. Len(switches') + 1 /\ Len(switches') > 0
      BY <1>1, <1>9, <1>10 DEF IInv, Writing
    <2>2. \A i \in DOMAIN switches' : switches'[i].size = i
      BY <1>11, <1>14
    <2> QED
      BY <1>1, <1>2, <1>3, <1>11, <2>1, <2>2 DEF Typed
  <1>16. AllLegible' /\ Fresh' /\ Untouched'
    <2>1. AllLegible'
      BY <1>11, <1>14 DEF AllLegible
    <2> QED
      BY <1>1, <2>1 DEF IInv, Fresh, Untouched
  <1>17. Ahead'
    BY <1>1, AheadKept DEF Bad
  <1>18. Checked'
    BY <1>1 DEF IInv, Checked, NoBad
  <1>19. Writing' /\ Sound'
    BY <1>1 DEF IInv, Writing, Sound
  <1>20. ControlLists'
    BY <1>1 DEF IInv, ControlLists
  <1>21. ASSUME WellFormed(doc)
         PROVE  \E k \in 0 .. Len(doc.kids), m \in 0 .. Len(agenda') : Held(k)' /\ Upcoming(k, m)'
    <2>1. agenda # <<doc>>
      <3>1. doc \in Nodes
        BY <1>2, NodesAssumption DEF Typed
      <3>2. ~IsSwitch(doc)
        BY <1>21, <3>1, DocumentIsNoSwitch
      <3> QED
        BY <1>1, <3>2
    <2>2. PICK k \in 0 .. Len(doc.kids), m \in 0 .. Len(agenda) : Held(k) /\ Upcoming(k, m)
      BY <1>1, <1>21, <2>1 DEF IInv, Ordered
    <2>3. m = 0
      <3> SUFFICES ASSUME m # 0 PROVE FALSE
        OBVIOUS
      <3>1. Head(agenda) = agenda[1] /\ 1 \in 1 .. m
        BY <1>1, <1>2 DEF Typed
      <3>2. Inner(Head(agenda))
        BY <2>2, <3>1 DEF Upcoming
      <3> QED
        BY <1>1, <1>3, <3>2, InnerIsNoSwitch
    <2>4. /\ k + 1 \in 0 .. Len(doc.kids) /\ Head(agenda) = doc.kids[k + 1]
          /\ WellFormedSwitch(doc.kids[k + 1]) /\ \E mm \in 0 .. Len(agenda') : Upcoming(k + 1, mm)'
      BY <1>1, <1>2, <1>21, <2>2, <2>3, UpcomingSwitch
    <2>5. PICK kk \in Nat : kk = k + 1 /\ kk \in 0 .. Len(doc.kids) /\ kk >= 1 /\ k \in Nat
      <3>1. Len(doc.kids) \in Nat
        BY <1>2, NodesAssumption, KidsAre DEF Typed
      <3> QED
        BY <2>4, <3>1
    <2>6. r = kk /\ (k # 0 => switches # NoSwitches /\ n = k)
      <3>1. CASE k = 0
        BY <1>10, <2>2, <2>5, <3>1 DEF Held
      <3>2. CASE k # 0
        <4>1. n = k /\ switches[1].size = 1
          BY <1>9, <2>2, <2>5, <3>2 DEF Held
        <4>2. switches # NoSwitches
          BY <4>1, NoSwitchesIs
        <4> QED
          BY <1>10, <2>5, <4>1, <4>2
      <3> QED
        BY <3>1, <3>2
    <2>7. ASSUME NEW i \in 1 .. kk
          PROVE  /\ switches'[i].size = i
                 /\ switches'[i].data.name = json_node(doc.kids[i], "switch").text
                 /\ WholeOf(switches'[i].data.ports) = Described(doc.kids[i])
      <3>1. CASE i = kk
        <4>1. WholeOf(x.ports) = Described(doc.kids[kk])
          BY <1>3, <1>4, <1>7, <2>4, <2>5, WholeIsDescribed
        <4> QED
          BY <1>7, <1>12, <2>4, <2>5, <2>6, <3>1, <4>1
      <3>2. CASE i # kk
        <4>1. k # 0 /\ k > 0 /\ i \in 1 .. k
          BY <2>5, <3>2
        <4>2. switches'[i] = switches[i]
          BY <1>11, <2>6, <4>1
        <4>3. /\ switches[i].size = i
              /\ switches[i].data.name = json_node(doc.kids[i], "switch").text
              /\ WholeOf(switches[i].data.ports) = Described(doc.kids[i])
          BY <2>2, <4>1 DEF Held, Name
        <4> QED
          BY <4>2, <4>3
      <3> QED
        BY <3>1, <3>2
    <2>8. Held(kk)'
      BY <1>1, <1>10, <2>5, <2>6, <2>7 DEF Held, Name
    <2>9. \E mm \in 0 .. Len(agenda') : Upcoming(kk, mm)'
      BY <2>4, <2>5
    <2> QED
      BY <2>5, <2>8, <2>9
  <1>22. Ordered'
    <2>1. WellFormed(doc) =>
            (\E k \in 0 .. Len(doc.kids), m \in 0 .. Len(agenda) : Held(k) /\ Upcoming(k, m))'
      BY <1>1, <1>21
    <2> QED
      BY <1>1, <2>1 DEF Ordered
  <1>23. Output' /\ Faithful'
    BY <1>1 DEF Output, Faithful
  <1> QED
    BY <1>15, <1>16, <1>17, <1>18, <1>19, <1>20, <1>22, <1>23 DEF IInv

-----------------------------------------------------------------------------
(***************************************************************************)
(* The theorems.                                                           *)
(***************************************************************************)
LEMMA StutterKeeps ==
  ASSUME IInv, UNCHANGED vars
  PROVE  IInv'
  <1>1. UNCHANGED <<doc, agenda, switches, current, out, files, before, pc, runs>>
    BY DEF vars
  <1>2. Typed' /\ AllLegible' /\ Fresh' /\ Untouched'
    BY <1>1 DEF IInv, Typed, AllLegible, Fresh, Untouched
  <1>3. Ahead' /\ Checked'
    BY <1>1 DEF IInv, Ahead, Checked, NoBad, Bad, IsSwitch, HasPorts
  <1>4. Writing'
    BY <1>1 DEF IInv, Writing, Ports, Here
  <1>5. Sound'
    BY <1>1 DEF IInv, Sound, WholeBut, Here
  <1>6. ControlLists'
    BY <1>1 DEF IInv, ControlLists
  <1>7. Output'
    BY <1>1 DEF IInv, Output, Written, Name, Here
  <1>8. Ordered'
    BY <1>1 DEF IInv, Ordered, Held, Upcoming, Name
  <1>9. Faithful'
    BY <1>1 DEF IInv, Faithful
  <1> QED
    BY <1>2, <1>3, <1>4, <1>5, <1>6, <1>7, <1>8, <1>9 DEF IInv

LEMMA NextIInv == IInv /\ [Next]_vars => IInv'
  <1> SUFFICES ASSUME IInv, [Next]_vars PROVE IInv'
    OBVIOUS
  <1>1. CASE parse
    BY <1>1, ParseKeeps
  <1>2. CASE SkipNode
    BY <1>2, SkipNodeKeeps
  <1>3. CASE ReadSwitch
    BY <1>3, ReadSwitchKeeps
  <1>4. CASE MissingPorts
    BY <1>4, MissingPortsKeeps
  <1>5. CASE ForeachReturn
    BY <1>5, ForeachReturnKeeps
  <1>6. CASE switch_print_list
    BY <1>6, PrintKeeps
  <1>7. CASE OpenFile
    BY <1>7, OpenFileKeeps
  <1>8. CASE WritePort
    BY <1>8, WritePortKeeps
  <1>9. CASE CloseFile
    BY <1>9, CloseFileKeeps
  <1>10. CASE Return
    BY <1>10, ReturnKeeps
  <1>11. CASE Killed
    BY <1>11, KilledKeeps
  <1>12. CASE StartAgain
    BY <1>12, StartAgainKeeps
  <1>13. CASE AllRunsOver
    BY <1>13, StutterKeeps DEF AllRunsOver
  <1>14. CASE UNCHANGED vars
    BY <1>14, StutterKeeps
  <1> QED
    BY <1>1, <1>2, <1>3, <1>4, <1>5, <1>6, <1>7, <1>8, <1>9, <1>10, <1>11, <1>12, <1>13, <1>14
    DEF Next, main

(***************************************************************************)
(* The inductive invariant holds in every state of the controller,         *)
(* whatever the configurations and the number of runs.                     *)
(***************************************************************************)
THEOREM AlwaysIInv == Spec => []IInv
  BY InitIInv, NextIInv, PTL DEF Spec

(***************************************************************************)
(* The variables have their types: the sizes in the cells of switch_list   *)
(* count them, and xml_write_instance never leaves the list.               *)
(***************************************************************************)
THEOREM TypeCorrect == Spec => []TypeOK
  <1>1. IInv => TypeOK
    <2> SUFFICES ASSUME IInv PROVE TypeOK
      OBVIOUS
    <2>1. \A i \in DOMAIN switches : switches[i].size = i \/ (i = 1 /\ switches[i].size = 0)
      <3>1. CASE switches = NoSwitches
        BY <3>1, NoSwitchesIs
      <3>2. CASE switches # NoSwitches
        BY <3>2 DEF IInv, Typed
      <3> QED
        BY <3>1, <3>2
    <2> QED
      BY <2>1 DEF IInv, Typed, TypeOK
  <1> QED
    BY AlwaysIInv, <1>1, PTL

(***************************************************************************)
(* A run on a well-formed configuration that returns leaves in the file of *)
(* every switch what the configuration says of it: read_json, the lists of *)
(* switch.c and xml_write_instance lose, mix and reorder nothing, for      *)
(* every document, and whatever earlier runs and crashes left there.       *)
(***************************************************************************)
THEOREM WritesWhatItRead == Spec => []Faithful
  <1>1. IInv => Faithful
    BY DEF IInv
  <1> QED
    BY AlwaysIInv, <1>1, PTL

(***************************************************************************)
(* A run that ends with exit(1) has touched no file of ../Output.          *)
(***************************************************************************)
THEOREM ErrorsTouchNothing == Spec => []NoOutputOnError
  <1>1. IInv => NoOutputOnError
    BY DEF IInv, Untouched, Checked, NoBad, Bad, NoOutputOnError
  <1> QED
    BY AlwaysIInv, <1>1, PTL

(***************************************************************************)
(* A run killed anywhere tears at most the file it had open.               *)
(***************************************************************************)
THEOREM TearsOneFile == Spec => []OneTornFile
  <1>1. IInv => OneTornFile
    <2> SUFFICES ASSUME IInv PROVE OneTornFile
      OBVIOUS
    <2>1. CASE pc \in {"write", "crash"}
      <3>1. PICK x : WholeBut(x)
        BY <2>1 DEF IInv, Sound
      <3>2. Torn \subseteq {x}
        BY <3>1 DEF Torn, WholeBut
      <3>3. IsFiniteSet({x}) /\ Cardinality({x}) = 1
        BY FS_Singleton
      <3>4. Cardinality(Torn) <= 1
        BY <3>2, <3>3, FS_Subset
      <3> QED
        BY <2>1, <3>4 DEF OneTornFile
    <2>2. CASE pc \notin {"write", "crash"}
      <3>1. \A f \in Names : files[f] = before[f] \/ files[f].state \in Closed
        BY <2>2 DEF IInv, Typed, Sound, Untouched
      <3>2. Torn = {}
        BY <3>1 DEF Torn
      <3>3. Cardinality(Torn) = 0
        BY <3>2, FS_EmptySet
      <3> QED
        BY <2>2, <3>3 DEF OneTornFile
    <2> QED
      BY <2>1, <2>2
  <1> QED
    BY AlwaysIInv, <1>1, PTL

(***************************************************************************)
(* Every control list in a whole file has entries, announces as many as it *)
(* has and numbers them from 0, for every document, well-formed or not.    *)
(***************************************************************************)
THEOREM ListsAreAnnounced == Spec => []ControlLists
  <1>1. IInv => ControlLists
    BY DEF IInv
  <1> QED
    BY AlwaysIInv, <1>1, PTL
=============================================================================
