---------------------------- MODULE MCController ----------------------------
(***************************************************************************)
(* Controller for TLC: configurations of up to three switches built from   *)
(* well-formed parts and from parts that lack something.                   *)
(***************************************************************************)
EXTENDS Controller

EmptyLeaf == [NoNode EXCEPT !.type = "EMPTY"]
Number(n) == [NoNode EXCEPT !.type = "NUMBER", !.value = n]
Text(t) == [NoNode EXCEPT !.type = "STRING", !.text = t]

\* A group as the parser leaves it: {} and [] hold one EMPTY node.
Group(type, kids) ==
    [NoNode EXCEPT !.type = type, !.kids = IF kids = <<>> THEN <<EmptyLeaf>> ELSE kids]
Array(kids) == Group("ARRAY", kids)
Object(kids) == Group("OBJECT", kids)
Member(name, node) == [node EXCEPT !.name = name]

Entry(period, gates) == Array(<<Number(period), Number(gates)>>)

Port(number, entries) ==
    Object(<<Member("port_number", Number(number)), Member("values", Array(entries))>>)

Switch(name, ports) ==
    Object(<<Member("switch", Text(name)), Member("port_list", Array(ports))>>)

Port1 == Port(1, <<Entry(100, 1), Entry(200, 10)>>)
Port2 == Port(2, <<Entry(50, 11)>>)

\* Entries that lack a member: the second entry here, the first one here.
PortCarry  == Port(3, <<Entry(100, 101), Array(<<Number(60)>>), Number(5)>>)
PortUnset  == Port(-1, <<Array(<<Number(-4), Number(10)>>)>>)
PortNoList == Object(<<Member("values", Text("none"))>>)
PortEmpty  == Port(4, <<>>)

\* Numbers that do not fit the int of the cfg (of 20 bits, TLC's own has 32).
PortWide == Port(1048581, <<Entry(100, 1048676), Entry(2000000, 600000)>>)

GoodSwitches ==
    { Switch("a", <<Port1>>), Switch("a", <<Port2, Port1>>), Switch("b", <<Port2>>) }

OddSwitches ==
    { Switch("b", <<PortCarry, PortUnset>>),
      Switch("a", <<PortEmpty, PortNoList>>),
      Switch("a", <<PortWide>>),
      Switch("b", <<>>),
      Object(<<Member("switch", Text("b"))>>),
      Object(<<Member("switch", Number(1)), Member("port_list", Array(<<>>))>>),
      Object(<<Member("note", Switch("a", <<Port2>>))>>) }

\* No switch, one, two (of which at most one is odd) and three, two of one name.
SomeConfigs ==
    {Switch("a", <<Port1>>), Array(<<>>), Text("a")}
      \cup {Array(<<s>>) : s \in GoodSwitches \cup OddSwitches}
      \cup {Array(<<s, t>>) : s, t \in GoodSwitches}
      \cup {Array(<<s, Switch("a", <<Port1>>)>>) : s \in OddSwitches}
      \cup {Array(<<Switch("b", <<Port2>>), s>>) : s \in OddSwitches}
      \cup {Array(<<Switch("a", <<Port1>>), Switch("b", <<Port2>>), s>>) : s \in GoodSwitches}

SomeGarbage == {[period |-> 777, gates |-> 0], [period |-> 0, gates |-> 888]}

\* The intervals of config.json, and the ones of config.json-11-4 for alpha.
SampleConfigs ==
    { Array(<<Switch("a", <<Port(1, <<Entry(10000, 100000), Entry(100000, 0)>>)>>)>>),
      Array(<<Switch("a", <<Port(1, <<Entry(1, 2), Entry(3, 4), Entry(5, 6)>>),
                            Port(2, <<Entry(7, 8), Entry(9, 10)>>)>>)>>) }

WithChildren(S) == S \cup UNION {Range(n.kids) : n \in S}

\* From a document to the numbers of its entries it is seven steps at most.
AllNodes ==
    WithChildren(WithChildren(WithChildren(WithChildren(WithChildren(WithChildren(
      WithChildren(SomeConfigs \cup SampleConfigs)))))))
=============================================================================
