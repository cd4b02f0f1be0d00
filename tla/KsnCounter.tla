----------------------------- MODULE KsnCounter -----------------------------
(***************************************************************************)
(* The encryption counter of the DUKPT engine (crpdkp.cpp): the low bits   *)
(* of the key serial number.  The code numbers the bits from the most      *)
(* significant one, as the future-key registers are numbered; a counter    *)
(* is here the set of its one bits, so that bit W has weight 1 and bit 1   *)
(* weight 2^(W-1).  The device has W = 21.                                 *)
(***************************************************************************)
EXTENDS Integers, FiniteSetsExt

CONSTANT W

ASSUME WAssumption == W \in Nat /\ W >= 2

Bits == 1 .. W

Counters == SUBSET Bits

\* The shift register ulSft holds one mask; it is named by the bit it selects.
\* Shifted past bit W it is zero, which is written NoMask.
NoMask == W + 1

Masks == 1 .. NoMask

\* ulSft >>= 1
ShiftRight(m) == IF m = NoMask THEN NoMask ELSE m + 1

\* The register of the lowest one bit: 0 when the counter is zero.
SetBit(C) == IF C = {} THEN 0 ELSE Max(C)

\* The mask left in ulSft by the same search.
SetMask(C) == IF C = {} THEN NoMask ELSE Max(C)

HowMnyOne(C) == Cardinality(C)

\* ulSft | counter, the value the one-way function is applied to.
OrMask(C, m) == C \cup ({m} \cap Bits)

\* Counter plus mask, cut to W bits: the carry runs up to the first zero bit
\* at or above m; without one the sum wraps.
AddMask(C, m) ==
  LET zeros == {i \in Bits : i =< m} \ C
  IN  IF m = NoMask THEN C
      ELSE IF zeros = {} THEN {i \in C : i > m}
      ELSE {i \in C : i < Max(zeros) \/ i > m} \cup {Max(zeros)}

\* ulCrpNmb++
PlusOne(C) == AddMask(C, W)

\* C < D as numbers: the most significant bit in which they differ is set in D.
Less(C, D) ==
  \E b \in D \ C : \A i \in Bits : i < b => (i \in C <=> i \in D)
=============================================================================
