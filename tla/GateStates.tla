----------------------------- MODULE GateStates -----------------------------
(***************************************************************************)
(* binaryToDecimal of App/Client/utils.c, one action per round of its      *)
(* loop, with the width of int: the number read by json_real is cast to    *)
(* int by read_values, and base doubles in every round.                    *)
(***************************************************************************)
EXTENDS GateValue, Integers

CONSTANTS Inputs        \* the numbers as the configuration file writes them

IntMax == 2147483647

(***************************************************************************)
(* (int)json_real keeps a number that an int can hold.                     *)
(***************************************************************************)
ASSUME InputsAssumption == Inputs \subseteq 0 .. IntMax

VARIABLES n, temp, dec_value, base, pc

vars == <<n, temp, dec_value, base, pc>>

Init ==
    /\ n \in Inputs
    /\ temp = n
    /\ dec_value = 0
    /\ base = 1
    /\ pc = "loop"

\* Mutant: the base is the one the digits are read in.
WeightTen == base * 10

Weight == base * 2

\* Mutant: the loop stops before the last digit.
MoreOffByOne == temp > 9

More == temp # 0

(***************************************************************************)
(* One digit, the last one first.                                          *)
(***************************************************************************)
Digit ==
    /\ pc = "loop" /\ More
    /\ temp' = temp \div 10
    /\ dec_value' = dec_value + (temp % 10) * base
    /\ base' = Weight
    /\ UNCHANGED <<n, pc>>

Return ==
    /\ pc = "loop" /\ ~More
    /\ pc' = "done"
    /\ UNCHANGED <<n, temp, dec_value, base>>

Terminated == pc = "done" /\ UNCHANGED vars

Next == Digit \/ Return \/ Terminated

Spec == Init /\ [][Next]_vars

-----------------------------------------------------------------------------
(***************************************************************************)
(* In every round, what has been decoded and the digits still to come add  *)
(* up to the value of the number the configuration gave.                   *)
(***************************************************************************)
LoopDecodes == dec_value + base * Decoded[temp] = Decoded[n]

(***************************************************************************)
(* A list of up to eight gates comes out as an eight-bit number (the YANG  *)
(* type of gate-states-value) with the same gates open: bit i of the       *)
(* result of binaryToDecimal is digit i of the configuration's number.     *)
(***************************************************************************)
Gate(i) == (n \div (10 ^ i)) % 10
IsGateList == n < 10 ^ 8 /\ \A i \in 0 .. 7 : Gate(i) \in {0, 1}

GatesKept == pc = "done" /\ IsGateList =>
    /\ dec_value < 2 ^ 8
    /\ \A i \in 0 .. 7 : (dec_value \div (2 ^ i)) % 2 = Gate(i)
=============================================================================
