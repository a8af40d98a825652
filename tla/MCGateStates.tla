---------------------------- MODULE MCGateStates ----------------------------
(***************************************************************************)
(* GateStates for TLC: every list of eight gates, and numbers that are not *)
(* gate lists (other digits, as in config.json-11-4, and ten digits, the   *)
(* most an int can hold).                                                  *)
(***************************************************************************)
EXTENDS GateStates

GateLists ==
    { f[1] + 10 * f[2] + 100 * f[3] + 1000 * f[4] + 10000 * f[5]
        + 100000 * f[6] + 1000000 * f[7] + 10000000 * f[8]
      : f \in [1 .. 8 -> {0, 1}] }

AllInputs == GateLists \cup 0 .. 120 \cup {1111111111, 1999999999, IntMax}
=============================================================================
