----------------------------- MODULE Turnstile ------------------------------
(***************************************************************************)
(* What the lock of a pollsession structure promises (libnetconf2,         *)
(* nc_ps_lock and nc_ps_unlock): the threads that want the structure stand *)
(* in line, only the first one may work with it, and a thread that is tired*)
(* of waiting leaves the line without disturbing the others.               *)
(***************************************************************************)
EXTENDS Naturals, Sequences

CONSTANT Threads

VARIABLES
    line,     \* the threads in line, without repetition
    inside    \* the threads at work with the structure

vars == <<line, inside>>

Init == line = <<>> /\ inside = {}

InLine == {line[k] : k \in 1 .. Len(line)}

\* A thread joins; it is inside at once when nobody is in line.
Join(t) ==
    /\ t \notin InLine
    /\ line' = Append(line, t)
    /\ inside' = IF line = <<>> THEN {t} ELSE inside

Enter(t) ==
    /\ line # <<>> /\ Head(line) = t /\ inside = {}
    /\ inside' = {t}
    /\ UNCHANGED line

\* The line without its k-th thread.
Without(k) == [j \in 1 .. Len(line) - 1 |-> IF j < k THEN line[j] ELSE line[j + 1]]

\* A thread behind the first one gives up.
GiveUp(t) ==
    /\ \E k \in 2 .. Len(line) : line[k] = t /\ line' = Without(k)
    /\ UNCHANGED inside

Leave(t) ==
    /\ inside = {t} /\ Head(line) = t
    /\ line' = Tail(line)
    /\ inside' = {}

Next == \E t \in Threads : Join(t) \/ Enter(t) \/ GiveUp(t) \/ Leave(t)

Spec == Init /\ [][Next]_vars
=============================================================================
