----------------------------- MODULE Controller -----------------------------
(***************************************************************************)
(* The controller program, App/Client/Main.c: it reads the configuration   *)
(* of the network's switches, one JSON document, into nested lists (switch,*)
(* port, control-list entry; App/switch/switch.c) and writes one XML       *)
(* instance of the YANG model per switch into ../Output.                   *)
(*                                                                         *)
(* The program is run again and again over the same output directory, each *)
(* time on a configuration the operator chose; it may be killed, or die of *)
(* an unchecked NULL, anywhere.  The parsing of the text is JsonTree's; a  *)
(* document is here the tree it accepted.  The names of switches fit their *)
(* buffer, and a string is never a number to strtoul.                      *)
(***************************************************************************)
EXTENDS Integers, SequencesExt, GateValue

CONSTANTS
    Names,      \* the names of switches, and so of output files
    Nodes,      \* the nodes of the documents' trees
    Configs,    \* the documents the operator may put in config.json
    Garbage,    \* what a control-list entry may hold before it is assigned
    IntSize,    \* how many values an int has: 2^32
    MaxRuns     \* how often the program is started

ASSUME MaxRunsAssumption == MaxRuns \in Nat \ {0}

\* An int holds 500, the largest denominator.
ASSUME IntSizeAssumption == IntSize \in Nat /\ IntSize % 2 = 0 /\ IntSize > 1000

\* Trees as json_build accepts them: an array has a child (an EMPTY one in []),
\* a string or a number has none.
ASSUME NodesAssumption ==
    /\ Configs \subseteq Nodes
    /\ \A n \in Nodes : /\ n.kids \in Seq(Nodes) /\ n.value \in Int
                        /\ n.type = "ARRAY" => n.kids # <<>>
                        /\ n.type \in {"STRING", "NUMBER"} => n.kids = <<>>

-----------------------------------------------------------------------------
(***************************************************************************)
(* The document.  A node has a type, a name (no name: ""), the value of a  *)
(* number (what strtoul returns, which fits an unsigned long), the text of *)
(* a string, and its children in order.  A NUMBER whose text holds '.' or  *)
(* '-' has a negative value here.  NoNode is the NULL the readers of json.c*)
(* return and accept.                                                      *)
(***************************************************************************)
NoNode == [type |-> "NONE", name |-> "", value |-> 0, text |-> "", kids |-> <<>>]

json_is_string(node) == node.type = "STRING"
json_is_array(node)  == node.type = "ARRAY"
json_is_real(node)   == node.type = "NUMBER" /\ node.value >= 0
json_real(node)      == IF node.type = "NUMBER" THEN node.value ELSE 0

IntMax == IntSize \div 2 - 1
IntMin == -(IntSize \div 2)

\* (int)json_real: the low bits of the unsigned long, in two's complement.
ToInt(value) ==
    LET low == value % IntSize IN IF low <= IntMax THEN low ELSE low - IntSize

json_node(node, name) ==
    LET hits == {i \in DOMAIN node.kids : node.kids[i].name = name}
    IN  IF hits = {} THEN NoNode ELSE node.kids[Min(hits)]

json_item(node, i) == IF i < Len(node.kids) THEN node.kids[i + 1] ELSE NoNode

-----------------------------------------------------------------------------
(***************************************************************************)
(* A list of switch.c: cells of data and size.  A new list is one cell of  *)
(* size 0, which the first push fills; nothing else initialises its data.  *)
(***************************************************************************)
Created(data) == << [data |-> data, size |-> 0] >>

\* Mutant: the new cell is hung on the head, not on the last cell.
PushOnHead(list, data) ==
    IF list[1].size = 0 THEN << [data |-> data, size |-> 1] >>
    ELSE << list[1], [data |-> data, size |-> list[1].size + 1] >>

\* Mutant: the size is counted from the head.
PushSizeFromHead(list, data) ==
    IF list[1].size = 0 THEN << [data |-> data, size |-> 1] >>
    ELSE Append(list, [data |-> data, size |-> list[1].size + 1])

Push(list, data) ==
    IF list[1].size = 0 THEN << [data |-> data, size |-> 1] >>
    ELSE Append(list, [data |-> data, size |-> Last(list).size + 1])

\* A new list after data have been pushed, one after the other.
Pushed(garbage, data) ==
    LET list[i \in 0 .. Len(data)] ==
          IF i = 0 THEN Created(garbage) ELSE Push(list[i - 1], data[i])
    IN  list[Len(data)]

(***************************************************************************)
(* read_values: the local entry is never reset, so a member an entry lacks *)
(* keeps its last value, and at first what the memory held.                *)
(***************************************************************************)
Assigned(entry, item) ==
    [period |-> IF json_is_real(json_item(item, 0))
                THEN json_real(json_item(item, 0)) ELSE entry.period,
     gates  |-> IF json_is_real(json_item(item, 1))
                THEN ToInt(json_real(json_item(item, 1))) ELSE entry.gates]

read_values(node, garbage) ==
    LET entry[i \in 0 .. Len(node.kids)] ==
          IF i = 0 THEN garbage ELSE Assigned(entry[i - 1], node.kids[i])
    IN  Pushed(garbage, [i \in 1 .. Len(node.kids) |-> entry[i]])

ReadPort(node, garbage) ==
    [number |-> ToInt(json_real(json_node(node, "port_number"))),
     values |-> read_values(json_node(node, "values"), garbage)]

(***************************************************************************)
(* The ports of a port_list.  It has at least one child, so the new list's *)
(* head is always filled.                                                  *)
(***************************************************************************)
ReadPorts(node, garbage) ==
    Pushed([number |-> 0, values |-> <<>>],
           [i \in 1 .. Len(node.kids) |-> ReadPort(node.kids[i], garbage[i])])

-----------------------------------------------------------------------------
(***************************************************************************)
(* The XML instance of a switch, port by port.                             *)
(***************************************************************************)
(***************************************************************************)
(* The cycle time is 500 / (int)(500 / hypercycle).  The conversion of the *)
(* infinity that a zero gives is undefined; the build yields IntMin.       *)
(***************************************************************************)
Denominator(hypercycle) ==
    IF hypercycle = 0 THEN IntMin ELSE 500 \div hypercycle

(***************************************************************************)
(* Every entry of every port in turn is assigned to hypercycle (=+).       *)
(***************************************************************************)
Hypercycle(ports) == Last(Last(ports).data.values).data.period

\* Mutant: the length is counted from the second cell on.
ListLengthShort(values) == Len(values) - 1

\* admin_control_list_length: the cells of the list.
ListLength(values) == Len(values)

\* The digits of a negative int are negative.
binaryToDecimal(n) == IF n < 0 THEN -Decoded[-n] ELSE Decoded[n]

XmlEntry(values, i) ==
    [index    |-> i - 1,
     gates    |-> binaryToDecimal(values[i].data.gates),
     interval |-> values[i].data.period]

XmlPort(ports, i) ==
    LET values == ports[i].data.values
    IN  [name        |-> ports[i].data.number,
         length      |-> ListLength(values),
         entries     |-> [k \in 1 .. Len(values) |-> XmlEntry(values, k)],
         denominator |-> Denominator(Hypercycle(ports))]

(***************************************************************************)
(* A file of ../Output: absent, torn (without its closing tag), whole, or  *)
(* lost: closed, but some of what was to be written is not in it.          *)
(***************************************************************************)
File(state, ports) == [state |-> state, ports |-> ports]
Closed == {"whole", "lost"}

VARIABLES
    doc,        \* the document in config.json
    agenda,     \* the subtrees json_foreach has yet to visit, in order
    switches,   \* switch_list
    current,    \* which switch xml_write_instance is at
    out,        \* the ports written to the open file, buffered
    files,      \* ../Output, by name of switch
    before,     \* history: ../Output when this run started
    pc,         \* where main is
    runs        \* how often the program was started

memory == <<agenda, switches, current, out>>
vars   == <<doc, agenda, switches, current, out, files, before, pc, runs>>

TypeOK ==
    /\ doc \in Configs
    /\ \A i \in DOMAIN switches : switches[i].size = i \/ (i = 1 /\ switches[i].size = 0)
    /\ current \in 1 .. Len(switches) + 1
    /\ DOMAIN files = Names
    /\ \A f \in Names : files[f].state \in {"absent", "torn"} \cup Closed
    /\ DOMAIN before = Names
    /\ pc \in {"parse", "foreach", "print", "open", "write", "done", "exit", "crash"}
    /\ runs \in 1 .. MaxRuns

NoSwitches == Created([name |-> "", ports |-> <<>>])    \* switch_create_list

Init ==
    /\ doc \in Configs
    /\ agenda = <<>>
    /\ switches = NoSwitches
    /\ current = 1
    /\ out = <<>>
    /\ pc = "parse"
    /\ files = [f \in Names |-> File("absent", <<>>)]
    /\ before = files
    /\ runs = 1

(***************************************************************************)
(* The process ends, and its memory is gone.                               *)
(***************************************************************************)
Ends(how) ==
    /\ pc' = how
    /\ agenda' = <<>> /\ switches' = NoSwitches /\ current' = 1 /\ out' = <<>>

(***************************************************************************)
(* parse: the tree of config.json, or exit(EXIT_FAILURE) when the file     *)
(* cannot be read or parsed.                                               *)
(***************************************************************************)
parse ==
    /\ pc = "parse"
    /\ \/ agenda' = <<doc>> /\ pc' = "foreach" /\ UNCHANGED <<switches, current, out>>
       \/ Ends("exit")
    /\ UNCHANGED <<doc, files, before, runs>>

(***************************************************************************)
(* json_foreach calls read_json on every node, parents before children and *)
(* siblings in order.  A node with a string "switch" is a switch; without  *)
(* an array "port_list" it ends the program.                               *)
(***************************************************************************)
IsSwitch(node) == json_is_string(json_node(node, "switch"))
HasPorts(node) == json_is_array(json_node(node, "port_list"))

Visiting == pc = "foreach" /\ agenda # <<>>
Visit    == Visiting /\ agenda' = Head(agenda).kids \o Tail(agenda)

SkipNode ==
    /\ Visit
    /\ ~IsSwitch(Head(agenda))
    /\ UNCHANGED <<doc, switches, current, out, files, before, pc, runs>>

ReadSwitch ==
    /\ Visit
    /\ IsSwitch(Head(agenda)) /\ HasPorts(Head(agenda))
    /\ \E ports \in {json_node(Head(agenda), "port_list")} :
         \E garbage \in [DOMAIN ports.kids -> Garbage] :
           switches' = Push(switches, [name  |-> json_node(Head(agenda), "switch").text,
                                       ports |-> ReadPorts(ports, garbage)])
    /\ UNCHANGED <<doc, current, out, files, before, pc, runs>>

\* Mutant: a switch without a port list is skipped.
MissingPortsSkipped ==
    /\ Visit
    /\ IsSwitch(Head(agenda)) /\ ~HasPorts(Head(agenda))
    /\ UNCHANGED <<doc, switches, current, out, files, before, pc, runs>>

MissingPorts ==
    /\ Visiting
    /\ IsSwitch(Head(agenda)) /\ ~HasPorts(Head(agenda))
    /\ Ends("exit")
    /\ UNCHANGED <<doc, files, before, runs>>

ForeachReturn ==
    /\ pc = "foreach" /\ agenda = <<>>
    /\ pc' = "print"
    /\ UNCHANGED <<doc, agenda, switches, current, out, files, before, runs>>

(***************************************************************************)
(* switch_print_list follows the port_list of the first cell even when no  *)
(* switch was pushed: an uninitialised pointer, which the build (the       *)
(* address sanitizer fills new memory) turns into a crash.                 *)
(***************************************************************************)
switch_print_list ==
    /\ pc = "print"
    /\ IF switches[1].size = 0 THEN Ends("crash") ELSE pc' = "open" /\ UNCHANGED memory
    /\ UNCHANGED <<doc, files, before, runs>>

(***************************************************************************)
(* xml_write_instance, one switch at a time: fopen(path, "w") truncates    *)
(* the file; where it fails the first fprintf crashes.                     *)
(***************************************************************************)
Here  == switches[current].data
Ports == Here.ports

OpenFile ==
    /\ pc = "open" /\ current <= Len(switches)
    /\ \/ /\ files' = [files EXCEPT ![Here.name] = File("torn", <<>>)]
          /\ out' = <<>>
          /\ pc' = "write"
          /\ UNCHANGED <<agenda, switches, current>>
       \/ Ends("crash") /\ UNCHANGED files
    /\ UNCHANGED <<doc, before, runs>>

WritePort ==
    /\ pc = "write" /\ Len(out) < Len(Ports)
    /\ out' = Append(out, XmlPort(Ports, Len(out) + 1))
    /\ UNCHANGED <<doc, agenda, switches, current, files, before, pc, runs>>

\* Mutant: current_switch does not move on.
NextSwitchStays == current

NextSwitch == current + 1

\* Mutant: the file is not closed.
CloseFileForgotten ==
    /\ pc = "write" /\ Len(out) = Len(Ports)
    /\ current' = NextSwitch
    /\ pc' = "open"
    /\ UNCHANGED <<doc, agenda, switches, out, files, before, runs>>

\* Nobody looks at what fprintf and fclose return: on a full disk the program
\* goes on as if all had been written.
CloseFile ==
    /\ pc = "write" /\ Len(out) = Len(Ports)
    /\ \/ files' = [files EXCEPT ![Here.name] = File("whole", out)]
       \/ files' = [files EXCEPT ![Here.name] = File("lost", <<>>)]
    /\ current' = NextSwitch
    /\ pc' = "open"
    /\ UNCHANGED <<doc, agenda, switches, out, before, runs>>

(***************************************************************************)
(* All written: free_switch_list, and main returns 0.                      *)
(***************************************************************************)
Return ==
    /\ pc = "open" /\ current > Len(switches)
    /\ Ends("done")
    /\ UNCHANGED <<doc, files, before, runs>>

(***************************************************************************)
(* The program is killed, or uses the NULL of a failed malloc.  Of the     *)
(* file it has open, any part of what was written may have reached disk.   *)
(***************************************************************************)
Killed ==
    /\ pc \in {"parse", "foreach", "print", "open", "write"}
    /\ IF pc = "write"
       THEN \E k \in 0 .. Len(out) :
              files' = [files EXCEPT ![Here.name] = File("torn", SubSeq(out, 1, k))]
       ELSE UNCHANGED files
    /\ Ends("crash")
    /\ UNCHANGED <<doc, before, runs>>

(***************************************************************************)
(* The operator starts the program again, perhaps on a new configuration.  *)
(***************************************************************************)
StartAgain ==
    /\ pc \in {"done", "exit", "crash"}
    /\ runs < MaxRuns
    /\ runs' = runs + 1
    /\ doc' \in Configs
    /\ pc' = "parse"
    /\ before' = files
    /\ UNCHANGED <<memory, files>>

AllRunsOver == pc \in {"done", "exit", "crash"} /\ runs = MaxRuns /\ UNCHANGED vars

main ==
    \/ parse
    \/ SkipNode
    \/ ReadSwitch
    \/ MissingPorts
    \/ ForeachReturn
    \/ switch_print_list
    \/ OpenFile
    \/ WritePort
    \/ CloseFile
    \/ Return

Next == main \/ Killed \/ StartAgain \/ AllRunsOver

Spec == Init /\ [][Next]_vars

(***************************************************************************)
(* A started program keeps running: it waits for nothing.                  *)
(***************************************************************************)
FairSpec == Spec /\ WF_vars(main)

-----------------------------------------------------------------------------
(***************************************************************************)
(* Properties.                                                             *)
(***************************************************************************)
Over == pc \in {"done", "exit", "crash"}

(***************************************************************************)
(* A configuration in the form of the repository's samples: an array of    *)
(* switches with ports with entries of a period and gate states.  A port's *)
(* number and the gate states fit an int (eight digits do).                *)
(***************************************************************************)
WellFormedEntry(e) ==
    /\ json_is_array(e) /\ Len(e.kids) = 2
    /\ \A i \in {0, 1} : json_is_real(json_item(e, i))
    /\ json_item(e, 1).value <= IntMax

WellFormedList(v) == json_is_array(v) /\ \A i \in DOMAIN v.kids : WellFormedEntry(v.kids[i])

WellFormedPort(p) ==
    LET values == json_node(p, "values")
    IN  /\ json_is_real(json_node(p, "port_number"))
        /\ json_node(p, "port_number").value <= IntMax
        /\ WellFormedList(values)
        /\ Len(p.kids) = 2

WellFormedPorts(l) == json_is_array(l) /\ \A i \in DOMAIN l.kids : WellFormedPort(l.kids[i])

WellFormedSwitch(s) ==
    LET ports == json_node(s, "port_list")
    IN  IsSwitch(s) /\ WellFormedPorts(ports) /\ Len(s.kids) = 2

WellFormed(d) == json_is_array(d) /\ \A i \in DOMAIN d.kids : WellFormedSwitch(d.kids[i])

(***************************************************************************)
(* What the file of the switch s says of its ports, the cycle time aside,  *)
(* read off the configuration.                                             *)
(***************************************************************************)
DescribedEntry(e, k) ==
    [index |-> k - 1, gates |-> Decoded[e.kids[2].value], interval |-> e.kids[1].value]

DescribedPort(p) ==
    LET values == json_node(p, "values").kids
    IN  [name    |-> json_node(p, "port_number").value,
         length  |-> Len(values),
         entries |-> [k \in DOMAIN values |-> DescribedEntry(values[k], k)]]

Described(s) ==
    LET ports == json_node(s, "port_list").kids
    IN  [i \in DOMAIN ports |-> DescribedPort(ports[i])]

WithoutCycleTime(ports) ==
    [i \in DOMAIN ports |-> [name |-> ports[i].name, length |-> ports[i].length,
                             entries |-> ports[i].entries]]

LastDescribed(d, f) ==
    LET same == {i \in DOMAIN d.kids : json_node(d.kids[i], "switch").text = f}
    IN  Described(d.kids[Max(same)])

NamesIn(d) == {json_node(d.kids[i], "switch").text : i \in DOMAIN d.kids}

(***************************************************************************)
(* When a run on a well-formed configuration returns, the file of every    *)
(* switch it names describes that switch (the last of that name), port by  *)
(* port and entry by entry in the configuration's order, whatever earlier  *)
(* runs, crashes included, left there; every other file is as it was.  Only*)
(* a file that could not be written in full, which the program does not    *)
(* notice (Main.c:235-236), may say something else.                        *)
(***************************************************************************)
Faithful == pc = "done" /\ WellFormed(doc) =>
    \A f \in Names :
        IF f \in NamesIn(doc)
        THEN \/ files[f].state = "lost"
             \/ /\ files[f].state = "whole"
                /\ WithoutCycleTime(files[f].ports) = LastDescribed(doc, f)
        ELSE files[f] = before[f]

(***************************************************************************)
(* All of the configuration is read before any output is touched: a run    *)
(* that ends with exit(1), for a switch without ports however late in the  *)
(* document, changes no file, and a run that changes a file was on a       *)
(* configuration without such a switch.                                    *)
(***************************************************************************)
NoOutputOnError ==
    /\ pc = "exit" => files = before
    /\ files # before => \A i \in DOMAIN doc.kids :
                             IsSwitch(doc.kids[i]) => HasPorts(doc.kids[i])

(***************************************************************************)
(* Wherever a run is stopped, at most one of the files it changed is torn, *)
(* and none is when it returns: every other one was closed.                *)
(***************************************************************************)
Torn == {f \in Names : files[f] # before[f] /\ files[f].state \notin Closed}

OneTornFile == Cardinality(Torn) <= IF pc \in {"write", "crash"} THEN 1 ELSE 0

(***************************************************************************)
(* Every control list in a whole file, of a well-formed configuration or   *)
(* not, has an entry and announces as many as it has, with the indices     *)
(* 0, 1, ... of the YANG list, unique in it.                               *)
(***************************************************************************)
ControlLists == \A f \in Names : files[f].state = "whole" =>
    \A i \in DOMAIN files[f].ports :
        LET p == files[f].ports[i]
        IN  /\ p.length = Len(p.entries) /\ p.length > 0
            /\ {p.entries[k].index : k \in DOMAIN p.entries} = 0 .. p.length - 1

(***************************************************************************)
(* Every run comes to an end.                                              *)
(***************************************************************************)
RunsEnd == ~Over ~> Over

(***************************************************************************)
(* What ieee802-dot1q-sched@2018-09-10.yang:416 says of admin-cycle-time   *)
(* ("the gating cycle time for the Port"): it is computed from the         *)
(* intervals of the port's own control list, which make up its cycle.      *)
(***************************************************************************)
Cycle(p) == FoldLeft(LAMBDA sum, e : sum + e.interval, 0, p.entries)

CycleTimeOfPort == pc = "done" /\ WellFormed(doc) =>
    \A f \in NamesIn(doc) : \A i \in DOMAIN files[f].ports :
        files[f].ports[i].denominator = Denominator(Cycle(files[f].ports[i]))

(***************************************************************************)
(* What ieee802-dot1q-sched@2018-09-10.yang:419 says of admin-cycle-time   *)
(* ("a rational number of seconds, defined by an integer numerator and an  *)
(* integer denominator"): its denominator is a positive uint32.            *)
(***************************************************************************)
CycleTimeIsRational == pc = "done" /\ WellFormed(doc) =>
    \A f \in NamesIn(doc) : \A i \in DOMAIN files[f].ports :
        files[f].ports[i].denominator > 0
=============================================================================
