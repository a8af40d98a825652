----------------------------- MODULE GateValue -----------------------------
(***************************************************************************)
(* Gate states as the configuration writes them and as the YANG model      *)
(* takes them.  The configuration gives the eight gates of a port as the   *)
(* digits of a number read in base 10 (00100000 is the int 100000);        *)
(* gate-states-value is the number those digits denote in base 2.          *)
(***************************************************************************)
EXTENDS Naturals

(***************************************************************************)
(* The value binaryToDecimal returns for n.                                *)
(***************************************************************************)
Decoded[n \in Nat] == IF n = 0 THEN 0 ELSE (n % 10) + 2 * Decoded[n \div 10]
=============================================================================
