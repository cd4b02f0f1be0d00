------------------------------ MODULE MCDukpt -------------------------------
(***************************************************************************)
(* Instances of Dukpt for TLC, and a check of the counter operators against *)
(* the arithmetic of the C code.  The run also evaluates the checks of     *)
(* MCDukptText.                                                            *)
(***************************************************************************)
EXTENDS DukptInv, MCDukptText

\* The number a counter stands for.
Number(C) == SumSet({2 ^ (W - b) : b \in C})

\* Set operators and machine arithmetic agree: the addition is modulo 2^W, the
\* order is the order of the numbers.
ASSUME ArithmeticAgrees ==
  /\ \A C \in Counters, b \in Bits :
       Number(AddMask(C, b)) = (Number(C) + 2 ^ (W - b)) % (2 ^ W)
  /\ \A C, D \in Counters : Less(C, D) <=> Number(C) < Number(D)
=============================================================================
