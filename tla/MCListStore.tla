---------------------------- MODULE MCListStore -----------------------------
(***************************************************************************)
(* ListStore for TLC: two clients, a table that holds one list.            *)
(***************************************************************************)
EXTENDS ListStore

Cell(port, index, value) == [port |-> port, index |-> index, value |-> value]
SwitchRows(switch, rows) == [switch |-> switch, rows |-> rows]

SomeCells == [port : 1 .. 2, index : 0 .. 1, value : {10, 20}]

\* One port; another port; one switch twice; a switch without rows, then a
\* switch with the same port twice, which the primary key refuses.
SomeConfigs ==
    { << SwitchRows(64, <<Cell(1, 0, 10), Cell(1, 1, 20)>>) >>,
      << SwitchRows(64, <<Cell(2, 0, 20), Cell(1, 0, 20)>>) >>,
      << SwitchRows(65, <<Cell(2, 0, 10)>>), SwitchRows(65, <<Cell(2, 0, 20)>>) >>,
      << SwitchRows(65, <<>>), SwitchRows(64, <<Cell(1, 1, 10), Cell(1, 1, 20)>>) >> }

OneList == {[switch |-> 64, list |-> 1, cell |-> Cell(1, 0, 20), store |-> 0]}
=============================================================================
