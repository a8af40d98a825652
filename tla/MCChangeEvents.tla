--------------------------- MODULE MCChangeEvents ---------------------------
(* Small instances of ChangeEvents. *)
EXTENDS ChangeEvents, TLC

\* A listener with two subscriptions of one priority and one of another, and
\* one whose second subscription only wants "done".
MCSubs == "l1" :> <<"a", "b", "c">> @@ "l2" :> <<"d", "e">>
MCPriority == "a" :> 2 @@ "b" :> 1 @@ "c" :> 1 @@ "d" :> 1 @@ "e" :> 1

\* Two listeners with a subscription each.
SingleSubs == "l1" :> <<"a">> @@ "l2" :> <<"d">>
SinglePriority == "a" :> 2 @@ "d" :> 1
=============================================================================
