-------------------------- MODULE GateStatesProofs --------------------------
(***************************************************************************)
(* Proofs about binaryToDecimal (utils.c), for every number that an int    *)
(* can hold.                                                               *)
(***************************************************************************)
EXTENDS GateStates, TLAPS, Recursion

-----------------------------------------------------------------------------
(***************************************************************************)
(* The reference.  Decoded is defined by recursion on the number without   *)
(* its last digit; that there is such a function is RecursionExists.       *)
(***************************************************************************)
LEMMA Digits ==
  ASSUME NEW m \in Nat
  PROVE  /\ m \div 10 \in Nat /\ m % 10 \in 0 .. 9
         /\ m = 10 * (m \div 10) + (m % 10)
         /\ m # 0 => m \div 10 < m
  OBVIOUS

LEMMA DecodedIs ==
  /\ Decoded \in [Nat -> Nat]
  /\ Decoded[0] = 0
  /\ \A m \in Nat : Decoded[m] = (m % 10) + 2 * Decoded[m \div 10]
  <1> DEFINE from == [m \in Nat |-> m \div 10]
             step == [p \in Nat \X Nat |-> (p[1] % 10) + 2 * p[2]]
             Equation(f) == f = [m \in Nat |-> IF m = 0 THEN 0 ELSE (m % 10) + 2 * f[m \div 10]]
  <1>1. from \in [Nat -> Nat] /\ \A k \in Nat \ {0} : from[k] < k
    BY Digits
  <1>2. step \in [Nat \X Nat -> Nat]
    BY Digits
  <1>3. \A k, v \in Nat : step[<<k, v>>] = (k % 10) + 2 * v
    OBVIOUS
  <1>4. \A k \in Nat : from[k] = k \div 10
    OBVIOUS
  <1> HIDE DEF from, step
  <1>5. PICK f : IsDefined(f, Nat, 0, from, step)
    <2>1. 0 \in Nat
      OBVIOUS
    <2> QED
      BY <1>1, <1>2, <2>1, RecursionExists
  <1>6. f \in [Nat -> Nat] /\ f[0] = 0
        /\ \A k \in Nat \ {0} : f[k] = (k % 10) + 2 * f[k \div 10]
    <2>1. /\ f \in [Nat -> Nat] /\ f[0] = 0
          /\ \A k \in Nat \ {0} : f[k] = step[<<k, f[from[k]]>>]
      BY <1>5 DEF IsDefined
    <2>2. ASSUME NEW k \in Nat \ {0} PROVE f[k] = (k % 10) + 2 * f[k \div 10]
      <3>1. from[k] = k \div 10 /\ f[from[k]] \in Nat
        BY <1>1, <1>4, <2>1
      <3> QED
        BY <1>3, <2>1, <3>1
    <2> QED
      BY <2>1, <2>2
  <1>7. Equation(f)
    BY <1>6
  <1>8. Decoded = CHOOSE g : Equation(g)
    BY DEF Decoded
  <1>9. Equation(Decoded)
    <2> HIDE DEF Equation
    <2> QED
      BY <1>7, <1>8
  <1>10. \A m \in Nat : Decoded[m] = IF m = 0 THEN 0 ELSE (m % 10) + 2 * Decoded[m \div 10]
    BY <1>9
  <1>11. \A m \in Nat : Decoded[m] \in Nat
    <2> DEFINE Odd == {m \in Nat : Decoded[m] \notin Nat}
    <2> SUFFICES ASSUME Odd # {} PROVE FALSE
      OBVIOUS
    <2>1. PICK m \in Odd : \A k \in Odd : m <= k
      <3>1. Odd \in SUBSET Nat
        OBVIOUS
      <3> HIDE DEF Odd
      <3> QED
        BY <3>1, LeastNumber
    <2>2. m \in Nat /\ m # 0
      BY <1>10, <2>1
    <2>3. m \div 10 \in Nat /\ m \div 10 < m /\ m % 10 \in Nat
      BY <2>2, Digits
    <2>4. Decoded[m \div 10] \in Nat
      BY <2>1, <2>2, <2>3
    <2> QED
      BY <1>10, <2>1, <2>2, <2>3, <2>4
  <1>12. DOMAIN Decoded = Nat /\ Decoded = [m \in Nat |-> Decoded[m]]
    BY <1>9
  <1>13. Decoded \in [Nat -> Nat]
    BY <1>11, <1>12
  <1>14. 0 % 10 = 0 /\ 0 \div 10 = 0
    OBVIOUS
  <1>15. Decoded[0] = 0
    BY <1>10
  <1>16. ASSUME NEW m \in Nat PROVE Decoded[m] = (m % 10) + 2 * Decoded[m \div 10]
    <2>1. CASE m # 0
      BY <1>10, <2>1
    <2>2. CASE m = 0
      BY <1>14, <1>15, <2>2
    <2> QED
      BY <2>1, <2>2
  <1> QED
    BY <1>13, <1>15, <1>16
-----------------------------------------------------------------------------
(***************************************************************************)
(* The loop.                                                               *)
(***************************************************************************)
Typed ==
  /\ n \in Nat /\ temp \in Nat /\ dec_value \in Nat /\ base \in Nat
  /\ pc \in {"loop", "done"}

\* When the loop is left, no digit is left.
AllRead == pc = "done" => temp = 0

IInv == Typed /\ AllRead /\ LoopDecodes

\* A digit moves from the rest of the number to the result.
LEMMA DigitKeeps ==
  ASSUME IInv, Digit
  PROVE  IInv'
  <1>1. /\ n' = n /\ temp' = temp \div 10 /\ base' = base * 2 /\ pc' = pc
        /\ dec_value' = dec_value + (temp % 10) * base
        /\ pc = "loop" /\ temp # 0
    BY DEF Digit, Weight, More
  <1>2. PICK d, b, r, q \in Nat :
          d = dec_value /\ b = base /\ r = temp % 10 /\ q = Decoded[temp \div 10]
    <2>1. dec_value \in Nat /\ base \in Nat /\ temp \in Nat
      BY DEF IInv, Typed
    <2>2. temp % 10 \in Nat /\ temp \div 10 \in Nat
      BY <2>1, Digits
    <2>3. Decoded[temp \div 10] \in Nat
      BY <2>2, DecodedIs
    <2> QED
      BY <2>1, <2>2, <2>3, Zenon
  <1>3. Typed'
    <2>1. d + r * b \in Nat /\ b * 2 \in Nat
      OBVIOUS
    <2> QED
      BY <1>1, <1>2, <2>1, Digits DEF IInv, Typed
  <1>4. Decoded[temp] = r + 2 * q
    BY <1>2, DecodedIs DEF IInv, Typed
  <1>5. (d + r * b) + (b * 2) * q = d + b * (r + 2 * q)
    OBVIOUS
  <1>6. LoopDecodes'
    BY <1>1, <1>2, <1>4, <1>5 DEF IInv, LoopDecodes
  <1> QED
    BY <1>1, <1>3, <1>6 DEF IInv, AllRead

(***************************************************************************)
(* The inductive invariant: types, the loop's equation, and no digit left  *)
(* when binaryToDecimal returns.                                           *)
(***************************************************************************)
THEOREM AlwaysIInv == Spec => []IInv
  <1>1. Init => IInv
    <2> SUFFICES ASSUME Init PROVE IInv
      OBVIOUS
    <2>1. n \in Nat /\ temp = n /\ dec_value = 0 /\ base = 1 /\ pc = "loop"
      BY SMT, InputsAssumption DEF Init
    <2>2. Decoded[n] \in Nat
      BY <2>1, DecodedIs
    <2> QED
      BY <2>1, <2>2 DEF IInv, Typed, AllRead, LoopDecodes
  <1>2. IInv /\ [Next]_vars => IInv'
    <2> SUFFICES ASSUME IInv, [Next]_vars PROVE IInv'
      OBVIOUS
    <2>1. CASE Digit
      BY <2>1, DigitKeeps
    <2>2. CASE Return
      BY <2>2 DEF Return, More, IInv, Typed, AllRead, LoopDecodes
    <2>3. CASE UNCHANGED vars
      BY <2>3 DEF vars, IInv, Typed, AllRead, LoopDecodes
    <2> QED
      BY <2>1, <2>2, <2>3 DEF Next, Terminated
  <1> QED
    BY <1>1, <1>2, PTL DEF Spec

(***************************************************************************)
(* What has been decoded and the digits still to come add up to the value  *)
(* of the number, in every round of binaryToDecimal.                       *)
(***************************************************************************)
THEOREM Decodes == Spec => []LoopDecodes
  <1>1. IInv => LoopDecodes
    BY DEF IInv
  <1> QED
    BY <1>1, AlwaysIInv, PTL

-----------------------------------------------------------------------------
(***************************************************************************)
(* The eight gates.                                                        *)
(***************************************************************************)
\* The digits of a number below 10^8, one by one.
LEMMA DecodedGates ==
  ASSUME n \in Nat, IsGateList
  PROVE  /\ Decoded[n] < 2 ^ 8
         /\ \A x \in 0 .. 7 : (Decoded[n] \div (2 ^ x)) % 2 = Gate(x)
  <1> DEFINE N(x) == n \div (10 ^ x)
  <1>1. /\ N(0) = n /\ N(1) = n \div 10 /\ N(2) = N(1) \div 10 /\ N(3) = N(2) \div 10
        /\ N(4) = N(3) \div 10 /\ N(5) = N(4) \div 10 /\ N(6) = N(5) \div 10
        /\ N(7) = N(6) \div 10 /\ N(7) \div 10 = 0
    BY SMT DEF IsGateList
  <1>2. \A x \in 0 .. 7 : Gate(x) = N(x) % 10 /\ Gate(x) \in {0, 1}
    BY DEF IsGateList, Gate
  <1> HIDE DEF N
  <1>3. N(0) \in Nat /\ N(1) \in Nat /\ N(2) \in Nat /\ N(3) \in Nat
        /\ N(4) \in Nat /\ N(5) \in Nat /\ N(6) \in Nat /\ N(7) \in Nat
    BY <1>1, Digits
  <1>4. PICK d0, d1, d2, d3, d4, d5, d6, d7 \in Nat :
          /\ d0 = Decoded[N(0)] /\ d1 = Decoded[N(1)] /\ d2 = Decoded[N(2)]
          /\ d3 = Decoded[N(3)] /\ d4 = Decoded[N(4)] /\ d5 = Decoded[N(5)]
          /\ d6 = Decoded[N(6)] /\ d7 = Decoded[N(7)]
    BY <1>3, DecodedIs
  <1>5. /\ d0 = Gate(0) + 2 * d1 /\ d1 = Gate(1) + 2 * d2 /\ d2 = Gate(2) + 2 * d3
        /\ d3 = Gate(3) + 2 * d4 /\ d4 = Gate(4) + 2 * d5 /\ d5 = Gate(5) + 2 * d6
        /\ d6 = Gate(6) + 2 * d7 /\ d7 = Gate(7)
    BY <1>1, <1>2, <1>3, <1>4, DecodedIs
  <1>6. PICK g0, g1, g2, g3, g4, g5, g6, g7 \in {0, 1} :
          /\ g0 = Gate(0) /\ g1 = Gate(1) /\ g2 = Gate(2) /\ g3 = Gate(3)
          /\ g4 = Gate(4) /\ g5 = Gate(5) /\ g6 = Gate(6) /\ g7 = Gate(7)
    <2>1. /\ Gate(0) \in {0, 1} /\ Gate(1) \in {0, 1} /\ Gate(2) \in {0, 1}
          /\ Gate(3) \in {0, 1} /\ Gate(4) \in {0, 1} /\ Gate(5) \in {0, 1}
          /\ Gate(6) \in {0, 1} /\ Gate(7) \in {0, 1}
      BY SMT, <1>2
    <2> QED
      BY <2>1, Zenon
  <1>7. /\ d0 = g0 + 2 * d1 /\ d1 = g1 + 2 * d2 /\ d2 = g2 + 2 * d3 /\ d3 = g3 + 2 * d4
        /\ d4 = g4 + 2 * d5 /\ d5 = g5 + 2 * d6 /\ d6 = g6 + 2 * d7 /\ d7 = g7
    BY <1>5, <1>6, Zenon
  <1>8. d0 < 256
    <2>1. d7 <= 1 /\ d6 <= 3
      BY SMT, <1>7
    <2>2. d5 <= 7 /\ d4 <= 15
      BY SMT, <1>7, <2>1
    <2>3. d3 <= 31 /\ d2 <= 63
      BY SMT, <1>7, <2>2
    <2>4. d1 <= 127
      BY SMT, <1>7, <2>3
    <2> QED
      BY SMT, <1>7, <2>4
  <1>9. /\ d0 % 2 = g0 /\ d1 % 2 = g1 /\ d2 % 2 = g2 /\ d3 % 2 = g3
         /\ d4 % 2 = g4 /\ d5 % 2 = g5 /\ d6 % 2 = g6 /\ d7 % 2 = g7
    <2>1. \A g \in {0, 1}, d \in Nat : (g + 2 * d) % 2 = g
      BY SMT
    <2>2. g7 % 2 = g7
      BY SMT
    <2>3. d0 % 2 = g0
      BY <1>7, <2>1
    <2>4. d1 % 2 = g1
      BY <1>7, <2>1
    <2>5. d2 % 2 = g2
      BY <1>7, <2>1
    <2>6. d3 % 2 = g3
      BY <1>7, <2>1
    <2>7. d4 % 2 = g4
      BY <1>7, <2>1
    <2>8. d5 % 2 = g5
      BY <1>7, <2>1
    <2>9. d6 % 2 = g6
      BY <1>7, <2>1
    <2> QED
      BY <1>7, <2>2, <2>3, <2>4, <2>5, <2>6, <2>7, <2>8, <2>9
  <1>10. /\ 2 ^ 0 = 1 /\ 2 ^ 1 = 2 /\ 2 ^ 2 = 4 /\ 2 ^ 3 = 8 /\ 2 ^ 4 = 16
         /\ 2 ^ 5 = 32 /\ 2 ^ 6 = 64 /\ 2 ^ 7 = 128 /\ 2 ^ 8 = 256
    BY SMT
  <1>11. /\ d0 \div 1 = d0 /\ d0 \div 2 = d1 /\ d0 \div 4 = d2 /\ d0 \div 8 = d3
         /\ d0 \div 16 = d4 /\ d0 \div 32 = d5 /\ d0 \div 64 = d6 /\ d0 \div 128 = d7
    <2>1. d0 \div 2 = d1
      <3>1. d0 = 2 * d1 + (g0)
        BY SMT, <1>7
      <3>2. g0 \in 0 .. 1
        BY SMT
      <3> QED
        BY SMT, <3>1, <3>2
    <2>2. d0 \div 4 = d2
      <3>1. d0 = 4 * d2 + (g0 + 2 * g1)
        BY SMT, <1>7
      <3>2. g0 + 2 * g1 \in 0 .. 3
        BY SMT
      <3> QED
        BY SMT, <3>1, <3>2
    <2>3. d0 \div 8 = d3
      <3>1. d0 = 8 * d3 + (g0 + 2 * g1 + 4 * g2)
        BY SMT, <1>7
      <3>2. g0 + 2 * g1 + 4 * g2 \in 0 .. 7
        BY SMT
      <3> QED
        BY SMT, <3>1, <3>2
    <2>4. d0 \div 16 = d4
      <3>1. d0 = 16 * d4 + (g0 + 2 * g1 + 4 * g2 + 8 * g3)
        BY SMT, <1>7
      <3>2. g0 + 2 * g1 + 4 * g2 + 8 * g3 \in 0 .. 15
        BY SMT
      <3> QED
        BY SMT, <3>1, <3>2
    <2>5. d0 \div 32 = d5
      <3>1. d0 = 32 * d5 + (g0 + 2 * g1 + 4 * g2 + 8 * g3 + 16 * g4)
        BY SMT, <1>7
      <3>2. g0 + 2 * g1 + 4 * g2 + 8 * g3 + 16 * g4 \in 0 .. 31
        BY SMT
      <3> QED
        BY SMT, <3>1, <3>2
    <2>6. d0 \div 64 = d6
      <3>1. d0 = 64 * d6 + (g0 + 2 * g1 + 4 * g2 + 8 * g3 + 16 * g4 + 32 * g5)
        BY SMT, <1>7
      <3>2. g0 + 2 * g1 + 4 * g2 + 8 * g3 + 16 * g4 + 32 * g5 \in 0 .. 63
        BY SMT
      <3> QED
        BY SMT, <3>1, <3>2
    <2>7. d0 \div 128 = d7
      <3>1. d0 = 128 * d7 + (g0 + 2 * g1 + 4 * g2 + 8 * g3 + 16 * g4 + 32 * g5 + 64 * g6)
        BY SMT, <1>7
      <3>2. g0 + 2 * g1 + 4 * g2 + 8 * g3 + 16 * g4 + 32 * g5 + 64 * g6 \in 0 .. 127
        BY SMT
      <3> QED
        BY SMT, <3>1, <3>2
    <2> QED
      BY SMT, <2>1, <2>2, <2>3, <2>4, <2>5, <2>6, <2>7
  <1>12. Decoded[n] = d0
    BY <1>1, <1>4
  <1>13. ASSUME NEW x \in 0 .. 7 PROVE (d0 \div (2 ^ x)) % 2 = Gate(x)
    <2>1. CASE x = 0
      BY <2>1, <1>6, <1>9, <1>10, <1>11, Zenon
    <2>2. CASE x = 1
      BY <2>2, <1>6, <1>9, <1>10, <1>11, Zenon
    <2>3. CASE x = 2
      BY <2>3, <1>6, <1>9, <1>10, <1>11, Zenon
    <2>4. CASE x = 3
      BY <2>4, <1>6, <1>9, <1>10, <1>11, Zenon
    <2>5. CASE x = 4
      BY <2>5, <1>6, <1>9, <1>10, <1>11, Zenon
    <2>6. CASE x = 5
      BY <2>6, <1>6, <1>9, <1>10, <1>11, Zenon
    <2>7. CASE x = 6
      BY <2>7, <1>6, <1>9, <1>10, <1>11, Zenon
    <2>8. CASE x = 7
      BY <2>8, <1>6, <1>9, <1>10, <1>11, Zenon
    <2> QED
      BY SMT, <2>1, <2>2, <2>3, <2>4, <2>5, <2>6, <2>7, <2>8
  <1> QED
    BY <1>8, <1>12, <1>13, <1>10

(***************************************************************************)
(* A list of up to eight gates comes out of binaryToDecimal as an          *)
(* eight-bit number with the same gates open.                              *)
(***************************************************************************)
THEOREM KeepsGates == Spec => []GatesKept
  <1>1. IInv => GatesKept
    <2> SUFFICES ASSUME IInv, pc = "done", IsGateList
                 PROVE  /\ dec_value < 2 ^ 8
                        /\ \A x \in 0 .. 7 : (dec_value \div (2 ^ x)) % 2 = Gate(x)
      BY DEF GatesKept
    <2>1. n \in Nat /\ dec_value \in Nat /\ base \in Nat /\ temp = 0
      BY DEF IInv, Typed, AllRead
    <2>2. dec_value = Decoded[n]
      BY <2>1, DecodedIs DEF IInv, LoopDecodes
    <2> QED
      BY <2>1, <2>2, DecodedGates
  <1> QED
    BY <1>1, AlwaysIInv, PTL
=============================================================================
