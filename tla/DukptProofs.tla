---------------------------- MODULE DukptProofs -----------------------------
(***************************************************************************)
(* Theorems about Dukpt for every counter width, every limit on the ones   *)
(* of a counter, every set of initial keys and every number of lost saves: *)
(* the inductive invariant of DukptInv, the safety properties that follow  *)
(* from it, and that the engine implements KeySource.                      *)
(***************************************************************************)
EXTENDS DukptInv, FiniteSetTheorems, TLAPS

-----------------------------------------------------------------------------
(***************************************************************************)
(* Counters.                                                               *)
(***************************************************************************)

LEMMA BitsAreInts == \A b \in Bits : b \in Int /\ 1 =< b /\ b =< W /\ b # NoMask
BY WAssumption DEF Bits, NoMask

LEMMA LastBit == W \in Bits /\ W \in Int
BY WAssumption DEF Bits

\* Max picks the lowest one bit of a counter.
LEMMA MaxOfBits ==
  ASSUME NEW S \in SUBSET Bits, S # {}
  PROVE  Max(S) \in S /\ \A b \in S : b =< Max(S)
<1> DEFINE T == {W - b : b \in S}
           R == {p \in Nat \X Nat : p[1] < p[2]}
<1>1. T \in SUBSET Nat /\ T # {}
  <2>1. \A b \in S : b \in 1 .. W
    BY DEF Bits
  <2>2. \A b \in S : W - b \in Nat
    BY <2>1, WAssumption
  <2> QED BY <2>2
<1>2. IsWellFoundedOn(R, Nat)
  BY NatLessThanWellFounded DEF OpToRel
<1>3. PICK x \in T : \A y \in T : ~ (<<y, x>> \in R)
  <2> HIDE DEF R, T
  <2> QED BY <1>1, <1>2, WFMin
<1>4. PICK b \in S : x = W - b
  BY <1>3
<1>5. \A c \in S : c =< b
  <2> TAKE c \in S
  <2>1. ~ (W - c < W - b)
    BY <1>1, <1>3, <1>4
  <2> QED BY <2>1, <1>4, WAssumption DEF Bits
<1>6. \A c \in S : b >= c
  BY <1>5, WAssumption DEF Bits
<1>7. \A y \in S : Max(S) >= y
  BY <1>6 DEF Max
<1>8. Max(S) \in S
  BY <1>6 DEF Max
<1> QED BY <1>7, <1>8, WAssumption DEF Bits

LEMMA MaxIs ==
  ASSUME NEW S \in SUBSET Bits, NEW z \in S, \A b \in S : b =< z
  PROVE  Max(S) = z
<1>1. Max(S) \in S /\ z =< Max(S)
  BY MaxOfBits
<1> QED BY <1>1, BitsAreInts

\* Adding the mask of the lowest one bit: the carry stops at the first zero bit z
\* above it, or there is none and the counter wraps to zero.
LEMMA AddAtLowest ==
  ASSUME NEW C \in SUBSET Bits, C # {}
  PROVE  LET D == AddMask(C, Max(C)) IN
         \/ D = {} /\ \A i \in Bits : i =< Max(C) => i \in C
         \/ \E z \in Bits \ C :
              /\ z < Max(C)
              /\ D = {i \in C : i < z} \cup {z}
              /\ \A i \in Bits : z < i /\ i =< Max(C) => i \in C
<1> DEFINE m == Max(C)
           zeros == {i \in Bits : i =< m} \ C
<1>1. m \in C /\ m \in Bits /\ \A b \in C : b =< m
  BY MaxOfBits
<1>2. m # NoMask
  BY <1>1, BitsAreInts
<1>3. {i \in C : i > m} = {}
  <2> SUFFICES ASSUME NEW i \in C, i > m PROVE FALSE
    OBVIOUS
  <2> QED BY <1>1, BitsAreInts
<1>4. CASE zeros = {}
  BY <1>2, <1>3, <1>4 DEF AddMask
<1>5. CASE zeros # {}
  <2> DEFINE z == Max(zeros)
  <2>1. z \in zeros /\ \A b \in zeros : b =< z
    BY <1>5, MaxOfBits
  <2>2. z < m
    BY <2>1, <1>1, BitsAreInts
  <2>3. AddMask(C, m) = {i \in C : i < z \/ i > m} \cup {z}
    BY <1>2, <1>5 DEF AddMask
  <2>4. {i \in C : i < z \/ i > m} = {i \in C : i < z}
    BY <1>3
  <2>5. \A i \in Bits : z < i /\ i =< m => i \in C
    BY <2>1, BitsAreInts
  <2> QED BY <2>1, <2>2, <2>3, <2>4, <2>5
<1> QED BY <1>4, <1>5

LEMMA PlusOneEven ==
  ASSUME NEW C \in SUBSET Bits, W \notin C
  PROVE  PlusOne(C) = C \cup {W}
<1> DEFINE zeros == {i \in Bits : i =< W} \ C
<1>1. W \in zeros /\ \A b \in zeros : b =< W
  BY BitsAreInts, LastBit
<1>2. Max(zeros) = W
  BY <1>1, MaxIs
<1>3. W # NoMask
  BY BitsAreInts, LastBit
<1>4. {i \in C : i < W \/ i > W} = C
  <2> SUFFICES ASSUME NEW i \in C PROVE i < W \/ i > W
    OBVIOUS
  <2> QED BY BitsAreInts, LastBit
<1> QED BY <1>1, <1>2, <1>3, <1>4 DEF PlusOne, AddMask

LEMMA PlusOneOdd ==
  ASSUME NEW C \in SUBSET Bits, W \in C
  PROVE  Max(C) = W /\ PlusOne(C) = AddMask(C, Max(C))
<1>1. \A b \in C : b =< W
  BY BitsAreInts
<1> QED BY <1>1, MaxIs DEF PlusOne

LEMMA LessTransitive ==
  ASSUME NEW C \in SUBSET Bits, NEW D \in SUBSET Bits, NEW E \in SUBSET Bits,
         Less(C, D), Less(D, E)
  PROVE  Less(C, E)
<1>1. PICK b \in D \ C : \A i \in Bits : i < b => (i \in C <=> i \in D)
  BY DEF Less
<1>2. PICK c \in E \ D : \A i \in Bits : i < c => (i \in D <=> i \in E)
  BY DEF Less
<1>3. b \in Bits /\ c \in Bits /\ b \in Int /\ c \in Int /\ b # c
  BY <1>1, <1>2, BitsAreInts
<1>4. \A i \in Bits : i \in Int
  BY BitsAreInts
<1>5. CASE b < c
  <2>1. b \in E \ C
    BY <1>1, <1>2, <1>3, <1>5
  <2>2. \A i \in Bits : i < b => (i \in C <=> i \in E)
    BY <1>1, <1>2, <1>3, <1>4, <1>5
  <2> QED BY <2>1, <2>2 DEF Less
<1>6. CASE c < b
  <2>1. c \in E \ C
    BY <1>1, <1>2, <1>3, <1>6
  <2>2. \A i \in Bits : i < c => (i \in C <=> i \in E)
    BY <1>1, <1>2, <1>3, <1>4, <1>6
  <2> QED BY <2>1, <2>2 DEF Less
<1> QED BY <1>3, <1>5, <1>6

LEMMA LessExtend ==
  ASSUME NEW C \in SUBSET Bits, NEW b \in Bits \ C
  PROVE  Less(C, C \cup {b})
BY BitsAreInts DEF Less

LEMMA LessCarry ==
  ASSUME NEW C \in SUBSET Bits, NEW z \in Bits \ C
  PROVE  Less(C, {i \in C : i < z} \cup {z})
BY BitsAreInts DEF Less

LEMMA BitsFinite == \A C \in SUBSET Bits : IsFiniteSet(C) /\ HowMnyOne(C) \in Nat
<1> TAKE C \in SUBSET Bits
<1>1. IsFiniteSet(Bits)
  BY WAssumption, FS_Interval DEF Bits
<1>2. IsFiniteSet(C)
  BY <1>1, FS_Subset
<1> QED BY <1>2, FS_CardinalityType DEF HowMnyOne

\* A carry never adds a one bit.
LEMMA CarryFewer ==
  ASSUME NEW C \in SUBSET Bits, C # {}, NEW z \in Bits \ C, z < Max(C)
  PROVE  HowMnyOne({i \in C : i < z} \cup {z}) =< HowMnyOne(C)
<1> DEFINE P == {i \in C : i < z}
<1>1. Max(C) \in C /\ Max(C) \notin P
  BY MaxOfBits, BitsAreInts
<1>2. IsFiniteSet(C) /\ IsFiniteSet(C \ {Max(C)})
      /\ Cardinality(C \ {Max(C)}) = Cardinality(C) - 1
  BY <1>1, BitsFinite, FS_RemoveElement
<1>3. P \in SUBSET (C \ {Max(C)})
  BY <1>1
<1>4. IsFiniteSet(P) /\ Cardinality(P) =< Cardinality(C) - 1
  BY <1>2, <1>3, FS_Subset
<1>5. Cardinality(P \cup {z}) = Cardinality(P) + 1
  <2>1. z \notin P
    OBVIOUS
  <2> HIDE DEF P
  <2> QED BY <1>4, <2>1, FS_AddElement
<1>6. Cardinality(P) \in Nat /\ Cardinality(C) \in Nat
  BY <1>4, <1>2, FS_CardinalityType
<1> QED BY <1>4, <1>5, <1>6 DEF HowMnyOne

LEMMA ExtendOneMore ==
  ASSUME NEW C \in SUBSET Bits, NEW b \in Bits \ C
  PROVE  HowMnyOne(C \cup {b}) = HowMnyOne(C) + 1
BY BitsFinite, FS_AddElement DEF HowMnyOne

\* Adding the lowest one bit, or one, gives a larger counter unless it wraps.
LEMMA AddRises ==
  ASSUME NEW C \in SUBSET Bits, C # {}
  PROVE  AddMask(C, Max(C)) = {} \/ Less(C, AddMask(C, Max(C)))
BY AddAtLowest, LessCarry

LEMMA PlusOneRises ==
  ASSUME NEW C \in SUBSET Bits
  PROVE  PlusOne(C) = {} \/ Less(C, PlusOne(C))
<1>1. CASE W \in C
  BY <1>1, PlusOneOdd, AddRises
<1>2. CASE W \notin C
  BY <1>2, PlusOneEven, LessExtend, LastBit
<1> QED BY <1>1, <1>2

LEMMA NotBelowItself == \A C \in SUBSET Bits : ~Less(C, C)
BY DEF Less

-----------------------------------------------------------------------------
(***************************************************************************)
(* Keys.                                                                   *)
(***************************************************************************)

LEMMA NonRvrIs ==
  ASSUME NEW r, NEW P, NEW c
  PROVE  NonRvrKey([root |-> r, path |-> P], c) = [root |-> r, path |-> P \cup {c}]
BY DEF NonRvrKey

\* One more one-way step with a lower bit added gives the host's key for the
\* counter with that bit.
LEMMA HostKeyExtend ==
  ASSUME NEW r, NEW C \in SUBSET Bits, NEW b \in Bits, \A c \in C : c < b
  PROVE  NonRvrKey(HostKey(r, C), C \cup {b}) = HostKey(r, C \cup {b})
<1> DEFINE D == C \cup {b}
<1>1. \A x \in C : {i \in D : i =< x} = {i \in C : i =< x}
  <2> SUFFICES ASSUME NEW x \in C PROVE ~ (b =< x)
    OBVIOUS
  <2> QED BY BitsAreInts
<1>2. {i \in D : i =< b} = D
  <2> SUFFICES ASSUME NEW i \in D PROVE i =< b
    OBVIOUS
  <2> QED BY BitsAreInts
<1>3. {{i \in D : i =< x} : x \in D} = {{i \in C : i =< x} : x \in C} \cup {D}
  BY <1>1, <1>2
<1>4. HostKey(r, C).path \cup {D} = HostKey(r, D).path
  BY <1>3 DEF HostKey
<1>5. NonRvrKey(HostKey(r, C), D) = [root |-> r, path |-> HostKey(r, C).path \cup {D}]
  BY NonRvrIs DEF HostKey
<1>6. HostKey(r, D) = [root |-> r, path |-> HostKey(r, D).path]
  BY DEF HostKey
<1> QED BY <1>4, <1>5, <1>6

LEMMA HostKeyFirst ==
  ASSUME NEW r, NEW b \in Bits
  PROVE  NonRvrKey(Ipek(r), {b}) = HostKey(r, {b})
<1>1. {i \in {b} : i =< b} = {b}
  BY BitsAreInts
<1>2. {{i \in {b} : i =< x} : x \in {b}} = {{b}}
  BY <1>1
<1> QED BY <1>2 DEF NonRvrKey, HostKey, Ipek

\* The register of the lowest one bit waits for the counter itself.
LEMMA FutureCounterLowest ==
  ASSUME NEW C \in SUBSET Bits, C # {}
  PROVE  /\ Max(C) \in Bits /\ Max(C) \in C
         /\ Future(C, Max(C)) /\ FutureCounter(C, Max(C)) = C
<1>1. Max(C) \in C /\ Max(C) \in Bits /\ \A b \in C : b =< Max(C)
  BY MaxOfBits
<1>2. {i \in C : i < Max(C)} \cup {Max(C)} = C
  <2> SUFFICES ASSUME NEW i \in C PROVE i < Max(C) \/ i = Max(C)
    BY <1>1
  <2> QED BY <1>1, BitsAreInts
<1>3. Future(C, Max(C))
  BY <1>1, BitsAreInts DEF Future
<1> QED BY <1>1, <1>2, <1>3 DEF FutureCounter

LEMMA FutureCounterBelow ==
  ASSUME NEW C \in SUBSET Bits, NEW b \in Bits, \A c \in C : c < b
  PROVE  FutureCounter(C, b) = C \cup {b}
BY DEF FutureCounter

-----------------------------------------------------------------------------
(***************************************************************************)
(* Moving to the next counter.                                             *)
(***************************************************************************)

\* Adding the lowest one bit to the counter, with that bit's register out of
\* use, leaves exactly the future registers of the new counter.
LEMMA CarrySound ==
  ASSUME NEW C \in SUBSET Bits, C # {}, HowMnyOne(C) =< MaxOnes,
         NEW F \in DkpEnv, F.ksn = AddMask(C, Max(C)),
         F.root \in Ipks, F.fut[0].key.root = NoIpk,
         \A b \in Bits : F.fut[b].ok <=> Future(C, b) /\ b # Max(C),
         \A b \in Bits : F.fut[b].ok => F.fut[b].key = HostKey(F.root, FutureCounter(C, b))
  PROVE  F.ksn = {} \/ (SoundRec(F) /\ Less(C, F.ksn))
<1> DEFINE p == Max(C)
<1> SUFFICES ASSUME F.ksn # {} PROVE SoundRec(F) /\ Less(C, F.ksn)
  OBVIOUS
<1>0. p \in C /\ p \in Bits
  BY MaxOfBits
<1>1. PICK z \in Bits \ C :
        /\ z < p
        /\ F.ksn = {i \in C : i < z} \cup {z}
        /\ \A i \in Bits : z < i /\ i =< p => i \in C
  BY AddAtLowest
<1> DEFINE D == {i \in C : i < z} \cup {z}
<1>2. Max(D) = z
  <2>1. D \in SUBSET Bits /\ z \in D
    OBVIOUS
  <2>2. \A b \in D : b =< z
    BY BitsAreInts
  <2> HIDE DEF D
  <2> QED BY <2>1, <2>2, MaxIs
<1>3. D # {W} /\ D # {}
  <2>1. z # W
    <3>1. z \in Int /\ p \in Int /\ p =< W /\ z < p
      BY <1>0, <1>1, BitsAreInts
    <3> QED BY <3>1, LastBit
  <2>2. z \in D
    OBVIOUS
  <2> QED BY <2>1, <2>2
<1>4. HowMnyOne(D) =< MaxOnes
  <2>1. HowMnyOne(D) =< HowMnyOne(C)
    BY <1>1, CarryFewer
  <2>2. HowMnyOne(D) \in Nat /\ HowMnyOne(C) \in Nat
    BY BitsFinite
  <2> QED BY <2>1, <2>2, MaxOnesAssumption
<1>5. \A b \in Bits : Future(C, b) /\ b # p <=> Future(D, b)
  <2> TAKE b \in Bits
  <2>1. Future(D, b) <=> b = z \/ (b < z /\ b \notin C)
    BY <1>2, BitsAreInts DEF Future
  <2>2. Future(C, b) /\ b # p <=> b < p /\ b \notin C
    BY <1>0, BitsAreInts DEF Future
  <2>3. b < p /\ b \notin C => b = z \/ b < z
    BY <1>0, <1>1, BitsAreInts
  <2>4. b = z \/ (b < z /\ b \notin C) => b < p /\ b \notin C
    BY <1>0, <1>1, BitsAreInts
  <2> QED BY <2>1, <2>2, <2>3, <2>4
<1>6. \A b \in Bits : b =< z => FutureCounter(D, b) = FutureCounter(C, b)
  <2> SUFFICES ASSUME NEW b \in Bits, b =< z
               PROVE  {i \in D : i < b} = {i \in C : i < b}
    BY DEF FutureCounter
  <2>1. \A i \in D : i < b => i \in C
    BY BitsAreInts
  <2>2. \A i \in C : i < b => i \in D
    BY BitsAreInts
  <2> QED BY <2>1, <2>2
<1>7. \A b \in Bits : F.fut[b].ok <=> Future(D, b)
  BY <1>5
<1>8. \A b \in Bits : F.fut[b].ok => F.fut[b].key = HostKey(F.root, FutureCounter(D, b))
  <2> SUFFICES ASSUME NEW b \in Bits, F.fut[b].ok
               PROVE  b =< z
    BY <1>6
  <2> QED BY <1>2, <1>7 DEF Future
<1>9. Less(C, D)
  BY LessCarry
<1> QED BY <1>1, <1>3, <1>4, <1>7, <1>8, <1>9 DEF SoundRec, Waits

\* Adding one to an even counter whose lower registers were refilled.
LEMMA EvenSound ==
  ASSUME NEW C \in SUBSET Bits, C # {}, W \notin C, HowMnyOne(C) < MaxOnes,
         NEW F \in DkpEnv, F.ksn = PlusOne(C),
         F.root \in Ipks, F.fut[0].key.root = NoIpk,
         \A b \in Bits : F.fut[b].ok <=> (Future(C, b) \/ Max(C) < b) /\ b # Max(C),
         \A b \in Bits : F.fut[b].ok => F.fut[b].key = HostKey(F.root, FutureCounter(C, b))
  PROVE  SoundRec(F) /\ Less(C, F.ksn)
<1> DEFINE D == C \cup {W}
           p == Max(C)
<1>0. p \in C /\ p \in Bits /\ \A c \in C : c =< p
  BY MaxOfBits
<1>1. F.ksn = D
  BY PlusOneEven
<1>2. Max(D) = W
  <2>1. D \in SUBSET Bits /\ W \in D /\ \A b \in D : b =< W
    BY BitsAreInts, LastBit
  <2> HIDE DEF D
  <2> QED BY <2>1, MaxIs
<1>3. D # {} /\ D # {W}
  BY <1>0
<1>4. HowMnyOne(D) =< MaxOnes
  BY ExtendOneMore, BitsFinite, LastBit, MaxOnesAssumption
<1>5. \A b \in Bits : (Future(C, b) \/ p < b) /\ b # p <=> Future(D, b)
  <2> TAKE b \in Bits
  <2>1. Future(D, b) <=> b = W \/ b \notin C
    BY <1>2, BitsAreInts, LastBit DEF Future
  <2>2. (Future(C, b) \/ p < b) /\ b # p <=> b \notin C
    BY <1>0, BitsAreInts DEF Future
  <2> QED BY <2>1, <2>2
<1>6. \A b \in Bits : FutureCounter(D, b) = FutureCounter(C, b)
  <2> SUFFICES ASSUME NEW b \in Bits
               PROVE  {i \in D : i < b} = {i \in C : i < b}
    BY DEF FutureCounter
  <2>1. ~ (W < b)
    BY BitsAreInts, LastBit
  <2> QED BY <2>1
<1>7. Less(C, D)
  BY LessExtend, LastBit
<1> QED BY <1>1, <1>3, <1>4, <1>5, <1>6, <1>7 DEF SoundRec, Waits

\* The end of a load: register W, where the initial key was, is out of use and
\* the counter is one.
LEMMA LoadSound ==
  ASSUME NEW F \in DkpEnv, F.ksn = PlusOne({}),
         F.root \in Ipks, F.fut[0].key.root = NoIpk,
         \A b \in Bits : F.fut[b].ok <=> b # W,
         \A b \in Bits : F.fut[b].ok => F.fut[b].key = HostKey(F.root, {b})
  PROVE  SoundRec(F)
<1>1. F.ksn = {W}
  BY PlusOneEven, LastBit
<1>2. Max({W}) = W
  <2>1. {W} \in SUBSET Bits /\ W \in {W} /\ \A b \in {W} : b =< W
    BY LastBit
  <2> DEFINE S == {W}
  <2>2. S \in SUBSET Bits /\ W \in S /\ \A b \in S : b =< W
    BY <2>1
  <2> HIDE DEF S
  <2>3. Max(S) = W
    BY <2>2, MaxIs
  <2> QED BY <2>3 DEF S
<1>3. HowMnyOne({W}) =< MaxOnes
  BY FS_Singleton, MaxOnesAssumption DEF HowMnyOne
<1>4. \A b \in Bits : Future({W}, b)
  BY <1>2, BitsAreInts DEF Future
<1>5. \A b \in Bits : FutureCounter({W}, b) = {b}
  <2> SUFFICES ASSUME NEW b \in Bits PROVE {i \in {W} : i < b} = {}
    BY DEF FutureCounter
  <2> QED BY BitsAreInts, LastBit
<1> QED BY <1>1, <1>3, <1>4, <1>5 DEF SoundRec, Waits

\* A counter whose own register is out of use is the first one after a load;
\* moving on from it keeps the record sound.
LEMMA SkipSound ==
  ASSUME NEW E \in DkpEnv, SoundRec(E), ~E.fut[Max(E.ksn)].ok,
         NEW F \in DkpEnv, F.ksn = AddMask(E.ksn, Max(E.ksn)),
         F.root = E.root, F.fut = E.fut
  PROVE  SoundRec(F) /\ Less(E.ksn, F.ksn)
<1> DEFINE C == E.ksn
<1>1. C \in SUBSET Bits /\ C # {}
  BY DEF DkpEnv, Counters, SoundRec
<1>2. Max(C) \in Bits /\ Future(C, Max(C))
  BY <1>1, FutureCounterLowest
<1>3. C = {W} /\ Max(C) = W
  BY <1>2 DEF SoundRec
<1>4. 1 \in Bits /\ 1 \notin C /\ 1 =< Max(C)
  BY <1>3, WAssumption DEF Bits
<1>5. F.ksn # {}
  BY <1>1, <1>4, AddAtLowest
<1>6. \A b \in Bits : F.fut[b].ok <=> Future(C, b) /\ b # Max(C)
  BY <1>3 DEF SoundRec
<1>7. \A b \in Bits : F.fut[b].ok => F.fut[b].key = HostKey(F.root, FutureCounter(C, b))
  BY DEF SoundRec, Waits
<1>8. F.root \in Ipks /\ F.fut[0].key.root = NoIpk /\ HowMnyOne(C) =< MaxOnes
  BY DEF SoundRec
<1> HIDE DEF C
<1>9. F.ksn = AddMask(C, Max(C))
  BY DEF C
<1>10. F.ksn = {} \/ (SoundRec(F) /\ Less(C, F.ksn))
  BY <1>1, <1>6, <1>7, <1>8, <1>9, CarrySound
<1> QED BY <1>5, <1>10 DEF C
-----------------------------------------------------------------------------
(***************************************************************************)
(* Types.                                                                  *)
(***************************************************************************)

LEMMA AddMaskType ==
  ASSUME NEW C \in Counters, NEW m \in Masks
  PROVE  AddMask(C, m) \in Counters
<1> DEFINE zeros == {i \in Bits : i =< m} \ C
<1>1. zeros # {} => Max(zeros) \in Bits
  <2>1. zeros \in SUBSET Bits
    OBVIOUS
  <2> HIDE DEF zeros
  <2> QED BY <2>1, MaxOfBits
<1> QED BY <1>1 DEF AddMask, Counters

LEMMA SetBitType ==
  ASSUME NEW C \in Counters
  PROVE  /\ SetBit(C) \in Registers /\ SetMask(C) \in Masks
         /\ C # {} => SetBit(C) = Max(C) /\ SetMask(C) = Max(C) /\ Max(C) \in Bits
<1>1. C # {} => Max(C) \in Bits
  BY MaxOfBits DEF Counters
<1>2. \A b \in Bits : b \in Registers /\ b \in Masks
  BY WAssumption DEF Bits, Registers, Masks, NoMask
<1>3. 0 \in Registers /\ NoMask \in Masks
  BY WAssumption DEF Registers, Masks, NoMask
<1> QED BY <1>1, <1>2, <1>3 DEF SetBit, SetMask

LEMMA ZeroEnvType == ZeroEnv \in DkpEnv
<1>1. ZeroKey \in Key
  BY DEF ZeroKey, Key
<1>2. 0 \in Registers /\ NoMask \in Masks
  BY WAssumption DEF Registers, Masks, NoMask
<1> QED BY <1>1, <1>2 DEF ZeroEnv, DkpEnv, FutKey, Counters

LEMMA SetRegisterType ==
  ASSUME NEW E \in DkpEnv, NEW b, NEW k \in Key, NEW ok \in BOOLEAN
  PROVE  [E EXCEPT !.fut[b] = [key |-> k, ok |-> ok]] \in DkpEnv
BY DEF DkpEnv, FutKey

LEMMA EraseType == ASSUME NEW E \in DkpEnv PROVE Erase(E) \in DkpEnv
<1>1. ZeroKey \in Key
  BY DEF ZeroKey, Key
<1> QED BY <1>1, SetRegisterType DEF Erase

LEMMA NonRvrType ==
  ASSUME NEW k \in Key, NEW c \in Counters
  PROVE  NonRvrKey(k, c) \in Key
BY DEF NonRvrKey, Key

LEMMA ReturnType == ReturnToCaller => env' \in DkpEnv /\ out' = Nothing /\ pc' = "Idle"
BY ZeroEnvType DEF ReturnToCaller

LEMMA TypeStep == TypeOK /\ [Next]_vars => TypeOK'
<1> SUFFICES ASSUME TypeOK, [Next]_vars PROVE TypeOK'
  OBVIOUS
<1> USE DEF TypeOK, Labels, Answering
<1>1. ASSUME NEW r \in Ipks, CallIpkLod(r) PROVE TypeOK'
  <2>1. env' \in DkpEnv
    BY <1>1, ZeroEnvType DEF CallIpkLod, DkpEnv
  <2> QED BY <1>1, <2>1 DEF CallIpkLod
<1>2. CASE IpkLod
  <2>1. CASE ReturnToCaller /\ disk' \in {disk, Unreadable}
    BY <1>2, <2>1, ReturnType DEF IpkLod
  <2>2. CASE env' = [env EXCEPT !.fut[W] = [key |-> Ipek(env.root), ok |-> TRUE],
                                !.inKey = W, !.sft = 1]
             /\ disk' = ZeroEnv /\ pc' = "NewKey3" /\ UNCHANGED out
    <3>1. Ipek(env.root) \in Key
      BY DEF Ipek, Key, DkpEnv
    <3>2. [env EXCEPT !.fut[W] = [key |-> Ipek(env.root), ok |-> TRUE]] \in DkpEnv
      BY <3>1, SetRegisterType
    <3>3. W \in Registers /\ 1 \in Masks
      BY WAssumption DEF Registers, Masks, NoMask
    <3>4. env' \in DkpEnv
      BY <2>2, <3>2, <3>3 DEF DkpEnv
    <3> QED BY <1>2, <2>2, <3>4, ZeroEnvType DEF IpkLod
  <2> QED BY <1>2, <2>1, <2>2 DEF IpkLod
<1>3. ASSUME NEW c \in {"Dta", "Key"}, CallRqt(c) PROVE TypeOK'
  BY <1>3, ReturnType DEF CallRqt
<1>4. CASE RqtDta1
  <2> DEFINE b == SetBit(env.ksn)
             m == SetMask(env.ksn)
  <2>1. env.ksn \in Counters
    BY DEF DkpEnv
  <2>2. b \in Registers /\ m \in Masks /\ AddMask(env.ksn, m) \in Counters
    BY <2>1, SetBitType, AddMaskType
  <2>3. CASE env' = [env EXCEPT !.inKey = b, !.sft = m]
             /\ pc' = "RqtDta2" /\ UNCHANGED <<out, keylod, maxcrp>>
    <3>1. env' \in DkpEnv
      BY <2>2, <2>3 DEF DkpEnv
    <3> QED BY <1>4, <2>3, <3>1 DEF RqtDta1
  <2>4. CASE env' = [env EXCEPT !.inKey = b, !.sft = m, !.ksn = AddMask(@, m)]
             /\ UNCHANGED <<pc, out, keylod, maxcrp>>
    <3>1. env' \in DkpEnv
      BY <2>2, <2>4 DEF DkpEnv
    <3> QED BY <1>4, <2>4, <3>1 DEF RqtDta1
  <2>5. CASE Exhausted
    BY <1>4, <2>5, ReturnType DEF RqtDta1, Exhausted
  <2> QED BY <1>4, <2>3, <2>4, <2>5 DEF RqtDta1
<1>5. CASE RqtDta2
  <2>1. CASE /\ env' = [env EXCEPT !.cnt = @ + 1]
             /\ out' = [root |-> env.root, ksn |-> env.ksn,
                        key |-> env.fut[env.inKey].key, nmb |-> env.cnt + 1]
             /\ pc' = "NewKey"
    <3>1. env' \in DkpEnv
      BY <2>1 DEF DkpEnv
    <3>2. out' \in Produced
      BY <2>1 DEF DkpEnv, FutKey, Produced
    <3> QED BY <1>5, <2>1, <3>1, <3>2 DEF RqtDta2
  <2>2. CASE ReturnToCaller
    BY <1>5, <2>2, ReturnType DEF RqtDta2
  <2> QED BY <1>5, <2>1, <2>2 DEF RqtDta2
<1>6. CASE NewKey
  <2>1. CASE env' = [Erase(env) EXCEPT !.ksn = AddMask(@, env.sft)]
    <3>1. Erase(env) \in DkpEnv
      BY EraseType
    <3>2. AddMask(Erase(env).ksn, env.sft) \in Counters
      BY <3>1, AddMaskType DEF DkpEnv
    <3>3. env' \in DkpEnv
      BY <2>1, <3>1, <3>2 DEF DkpEnv
    <3> QED BY <1>6, <3>3 DEF NewKey
  <2>2. CASE UNCHANGED env
    BY <1>6, <2>2 DEF NewKey
  <2> QED BY <1>6, <2>1, <2>2 DEF NewKey
<1>7. CASE NewKey1
  <2>1. ShiftRight(env.sft) \in Masks
    BY WAssumption DEF ShiftRight, Masks, NoMask, DkpEnv
  <2>2. env' \in DkpEnv
    BY <1>7, <2>1 DEF NewKey1, DkpEnv
  <2> QED BY <1>7, <2>2 DEF NewKey1
<1>8. CASE NewKey3
  <2>1. env.fut[env.inKey].key \in Key /\ OrMask(env.ksn, env.sft) \in Counters
    BY DEF DkpEnv, FutKey, OrMask, Counters
  <2>2. env' \in DkpEnv
    BY <1>8, <2>1, NonRvrType, SetRegisterType DEF NewKey3
  <2> QED BY <1>8, <2>2 DEF NewKey3
<1>9. CASE NewKey4
  <2>1. Erase(env) \in DkpEnv /\ W \in Masks
    BY EraseType, WAssumption DEF Masks, NoMask
  <2>2. PlusOne(Erase(env).ksn) \in Counters
    BY <2>1, AddMaskType DEF DkpEnv, PlusOne
  <2>3. env' \in DkpEnv
    BY <1>9, <2>1, <2>2 DEF NewKey4, DkpEnv
  <2> QED BY <1>9, <2>3 DEF NewKey4
<1>10. CASE NewKey2
  BY <1>10, ReturnType DEF NewKey2, Exhausted
<1>11. CASE End
  BY <1>11, MaxLostAssumption DEF End
<1>12. CASE EndWrite
  BY <1>12 DEF EndWrite
<1>13. CASE Return
  <2>1. ReturnToCaller /\ keylod' \in {0, 1} /\ UNCHANGED <<call, disk, maxcrp, loaded, lost>>
    BY <1>13 DEF Return
  <2>2. used' \in Seq(Produced)
    BY <1>13 DEF Return
  <2> QED BY <2>1, <2>2, ReturnType
<1>14. CASE Crash
  BY <1>14, ReturnType DEF Crash
<1>15. CASE UNCHANGED vars
  BY <1>15 DEF vars
<1> QED BY <1>1, <1>2, <1>3, <1>4, <1>5, <1>6, <1>7, <1>8, <1>9, <1>10, <1>11, <1>12,
           <1>13, <1>14, <1>15 DEF Next, Step
-----------------------------------------------------------------------------
(***************************************************************************)
(* Calls and counters, under any root.                                     *)
(***************************************************************************)

\* Erasing the register in use.
LEMMA EraseIs ==
  ASSUME NEW E \in DkpEnv
  PROVE  LET F == Erase(E) IN
         /\ F.root = E.root /\ F.ksn = E.ksn /\ F.cnt = E.cnt /\ F.inKey = E.inKey
         /\ F.sft = E.sft
         /\ E.inKey # 0 => F.fut[0] = E.fut[0]
         /\ ~F.fut[E.inKey].ok
         /\ \A b \in Registers : b # E.inKey => F.fut[b] = E.fut[b]
BY WAssumption DEF Erase, DkpEnv, Registers

LEMMA UsedTypes ==
  ASSUME TypeOK, NEW i \in 1 .. Len(used)
  PROVE  /\ used[i] \in Produced /\ used[i].nmb \in Nat /\ used[i].ksn \in SUBSET Bits
         /\ used[i].root \in Ipks \cup {NoIpk}
<1>1. used[i] \in Produced
  BY DEF TypeOK
<1> QED BY <1>1 DEF Produced, Counters

\* The result handed over is the last of the history.
LEMMA Handed ==
  ASSUME TypeOK, Return, call # "Ipk"
  PROVE  /\ out \in Produced /\ Len(used) \in Nat
         /\ used' = Append(used, out) /\ Len(used') = Len(used) + 1
         /\ used'[Len(used) + 1] = out
         /\ \A i \in 1 .. Len(used) : used'[i] = used[i]
<1>1. out \in Produced /\ used \in Seq(Produced)
  BY DEF TypeOK, Return, Answering
<1> QED BY <1>1 DEF Return

\* Only the end of a request changes the history.
LEMMA UsedOnlyAtReturn ==
  ASSUME [Next]_vars, used' # used
  PROVE  Return /\ call # "Ipk"
BY DEF Next, Step, vars, CallIpkLod, IpkLod, CallRqt, RqtDta1, RqtDta2, NewKey, NewKey1,
       NewKey2, NewKey3, NewKey4, End, EndWrite, Return, Crash

\* What a step inside a call leaves alone.
LEMMA InCall ==
  ASSUME TypeOK, RqtDta1 \/ RqtDta2 \/ NewKey \/ NewKey1 \/ NewKey2 \/ NewKey3 \/ NewKey4 \/ End \/ EndWrite,
         pc' # "Idle"
  PROVE  env'.root = env.root /\ UNCHANGED <<call, used, loaded, keylod>> /\ pc # "Idle"
<1>1. CASE RqtDta1 \/ RqtDta2 \/ NewKey1 \/ NewKey3
  BY <1>1 DEF TypeOK, DkpEnv, RqtDta1, RqtDta2, NewKey1, NewKey3, Exhausted, ReturnToCaller
<1>2. CASE NewKey \/ NewKey4
  <2>1. Erase(env).root = env.root /\ Erase(env) \in DkpEnv
    BY EraseIs, EraseType DEF TypeOK
  <2> QED BY <1>2, <2>1 DEF NewKey, NewKey4, DkpEnv
<1>3. CASE NewKey2 \/ End \/ EndWrite
  BY <1>3 DEF NewKey2, End, EndWrite, Exhausted, ReturnToCaller
<1> QED BY <1>1, <1>2, <1>3

\* Back in the main loop.
LEMMA CallReturned ==
  ASSUME CallAt, pc' = "Idle", UNCHANGED <<used, loaded>>, disk' \in {disk, Unreadable}
  PROVE  CallAt'
BY DEF CallAt

LEMMA CallAtStep ==
  ASSUME TypeOK, CallAt, CountAt, [Next]_vars
  PROVE  CallAt'
<1>1. ASSUME NEW r \in Ipks, CallIpkLod(r) PROVE CallAt'
  <2>1. env'.root = r /\ r # NoIpk /\ r \in loaded' /\ loaded \subseteq loaded'
    BY <1>1, NoIpkAssumption DEF CallIpkLod, ZeroEnv
  <2>2. Unused(r)'
    BY <1>1, NoIpkAssumption DEF CallAt, Unused, CallIpkLod
  <2> QED BY <1>1, <2>1, <2>2 DEF CallAt, CallIpkLod, Unused
<1>2. CASE IpkLod
  <2>1. CASE ReturnToCaller /\ disk' \in {disk, Unreadable}
    BY <1>2, <2>1, CallReturned DEF IpkLod, ReturnToCaller
  <2>2. CASE disk' = ZeroEnv /\ pc' = "NewKey3"
             /\ env' = [env EXCEPT !.fut[W] = [key |-> Ipek(env.root), ok |-> TRUE],
                                   !.inKey = W, !.sft = 1]
    <3>1. env'.root = env.root /\ disk'.root = NoIpk
      BY <2>2 DEF TypeOK, DkpEnv, ZeroEnv
    <3>2. call' = "Ipk"
      BY <1>2 DEF IpkLod, TypeOK
    <3> QED BY <1>2, <2>2, <3>1, <3>2 DEF CallAt, IpkLod, Unused
  <2> QED BY <1>2, <2>1, <2>2 DEF IpkLod
<1>3. ASSUME NEW c \in {"Dta", "Key"}, CallRqt(c) PROVE CallAt'
  <2>1. CASE disk # Unreadable /\ env' = disk /\ pc' = "RqtDta1" /\ UNCHANGED <<out, keylod>>
    BY <1>3, <2>1 DEF CallAt, CallRqt
  <2>2. CASE ReturnToCaller
    BY <1>3, <2>2, CallReturned DEF CallRqt, ReturnToCaller
  <2> QED BY <1>3, <2>1, <2>2 DEF CallRqt
<1>4. CASE RqtDta1 \/ RqtDta2 \/ NewKey \/ NewKey1 \/ NewKey2 \/ NewKey3 \/ NewKey4 \/ End \/ EndWrite
  <2>1. UNCHANGED <<used, loaded>> /\ (disk' \in {disk, Unreadable} \/ (EndWrite /\ disk' = env))
    BY <1>4 DEF RqtDta1, RqtDta2, NewKey, NewKey1, NewKey2, NewKey3, NewKey4, End, EndWrite
  <2>2. CASE pc' = "Idle"
    <3>1. ~EndWrite
      BY <2>2 DEF EndWrite
    <3> QED BY <2>1, <2>2, <3>1, CallReturned
  <2>3. CASE pc' # "Idle"
    <3>1. env'.root = env.root /\ UNCHANGED <<call, used, loaded, keylod>> /\ pc # "Idle"
      BY <1>4, <2>3, InCall
    <3>2. pc' \in {"RqtDta1", "RqtDta2", "NewKey"} => call # "Ipk"
      BY <1>4 DEF CallAt, RqtDta1, RqtDta2, NewKey, NewKey1, NewKey2, NewKey3, NewKey4, End,
             EndWrite, Exhausted, ReturnToCaller
    <3>3. disk' # Unreadable => disk'.root \in loaded \cup {NoIpk}
      BY <2>1, <3>1 DEF CallAt
    <3> QED BY <3>1, <3>2, <3>3 DEF CallAt, Unused
  <2> QED BY <2>2, <2>3
<1>5. CASE Return
  <2>1. pc' = "Idle" /\ pc = "Return" /\ UNCHANGED <<disk, loaded>>
    BY <1>5 DEF Return, ReturnToCaller
  <2>2. CASE call = "Ipk"
    BY <1>5, <2>1, <2>2, CallReturned DEF Return
  <2>3. CASE call # "Ipk"
    <3>1. out.root \in loaded \cup {NoIpk}
      BY <2>1, <2>3 DEF CallAt, CountAt, Answering
    <3>2. \A i \in 1 .. Len(used') : used'[i].root \in loaded \cup {NoIpk}
      <4> SUFFICES ASSUME NEW i \in 1 .. Len(used) + 1
                   PROVE  used'[i].root \in loaded \cup {NoIpk}
        BY <1>5, <2>3, Handed
      <4>1. CASE i = Len(used) + 1
        BY <1>5, <2>3, <3>1, <4>1, Handed
      <4>2. CASE i # Len(used) + 1
        <5>1. i \in 1 .. Len(used)
          BY <1>5, <2>3, <4>2, Handed
        <5> QED BY <1>5, <2>3, <5>1, Handed DEF CallAt
      <4> QED BY <4>1, <4>2
    <3> QED BY <2>1, <3>2 DEF CallAt
  <2> QED BY <2>2, <2>3
<1>6. CASE Crash
  BY <1>6, CallReturned DEF Crash, ReturnToCaller
<1>7. CASE UNCHANGED vars
  BY <1>7 DEF vars, CallAt, Unused
<1> QED BY <1>1, <1>2, <1>3, <1>4, <1>5, <1>6, <1>7 DEF Next, Step

LEMMA CountAtStep ==
  ASSUME TypeOK, CallAt, CountAt, [Next]_vars
  PROVE  CountAt'
<1> USE DEF Answering
<1>0. env.ksn \in SUBSET Bits
  BY DEF TypeOK, DkpEnv, Counters
<1>1. ASSUME NEW r \in Ipks, CallIpkLod(r) PROVE CountAt'
  BY <1>1 DEF CallIpkLod, CountAt
<1>2. CASE IpkLod
  BY <1>2 DEF IpkLod, TypeOK, CountAt, ReturnToCaller
<1>3. ASSUME NEW c \in {"Dta", "Key"}, CallRqt(c) PROVE CountAt'
  BY <1>3 DEF CallRqt, CountAt, ReturnToCaller
<1>4. CASE RqtDta1
  <2>1. CASE pc' = "RqtDta2"
             /\ env' = [env EXCEPT !.inKey = SetBit(env.ksn), !.sft = SetMask(env.ksn)]
    <3>1. env'.inKey = SetBit(env.ksn) /\ env'.sft = SetMask(env.ksn) /\ env'.ksn = env.ksn
      BY <2>1 DEF TypeOK, DkpEnv
    <3> QED BY <2>1, <3>1 DEF CountAt
  <2>2. CASE pc' \in {"RqtDta1", "Idle"}
    BY <2>2 DEF CountAt
  <2> QED BY <1>4, <2>1, <2>2 DEF RqtDta1, Exhausted, ReturnToCaller
<1>5. CASE RqtDta2
  <2>1. CASE ReturnToCaller
    BY <2>1 DEF ReturnToCaller, CountAt
  <2>2. CASE /\ env' = [env EXCEPT !.cnt = @ + 1] /\ pc' = "NewKey"
             /\ out' = [root |-> env.root, ksn |-> env.ksn,
                        key |-> env.fut[env.inKey].key, nmb |-> env.cnt + 1]
    <3>1. /\ env'.root = env.root /\ env'.ksn = env.ksn /\ env'.inKey = env.inKey
          /\ env'.sft = env.sft /\ out'.root = env.root /\ out'.ksn = env.ksn
      BY <2>2 DEF TypeOK, DkpEnv
    <3> QED BY <1>5, <2>2, <3>1 DEF CountAt, RqtDta2
  <2> QED BY <1>5, <2>1, <2>2 DEF RqtDta2
<1>6. CASE NewKey
  <2>1. call # "Ipk" /\ UNCHANGED <<call, out>> /\ out.root = env.root /\ env.ksn = out.ksn
        /\ env.inKey = SetBit(env.ksn) /\ env.sft = SetMask(env.ksn)
    BY <1>6 DEF NewKey, CountAt, CallAt
  <2>2. CASE pc' = "NewKey1" /\ UNCHANGED env
    BY <1>6, <2>1, <2>2 DEF CountAt
  <2>3. CASE /\ HowMnyOne(env.ksn) >= MaxOnes /\ pc' = "NewKey2"
             /\ env' = [Erase(env) EXCEPT !.ksn = AddMask(@, env.sft)]
    <3>1. Erase(env) \in DkpEnv /\ Erase(env).ksn = env.ksn
      BY EraseType, EraseIs DEF TypeOK
    <3>2. env'.root = env.root /\ env'.ksn = AddMask(env.ksn, env.sft)
      BY <1>6, <2>3, <3>1, InCall DEF DkpEnv
    <3>3. env.ksn # {}
      BY <2>3, FS_EmptySet, MaxOnesAssumption DEF HowMnyOne
    <3>4. env'.ksn = {} \/ Less(env.ksn, env'.ksn)
      BY <1>0, <2>1, <3>2, <3>3, AddRises DEF SetMask
    <3> QED BY <2>1, <2>3, <3>2, <3>4 DEF CountAt
  <2> QED BY <1>6, <2>2, <2>3 DEF NewKey
<1>7. CASE NewKey1
  <2>1. env'.root = env.root /\ env'.ksn = env.ksn /\ env'.inKey = env.inKey
    BY <1>7 DEF NewKey1, TypeOK, DkpEnv
  <2> QED BY <1>7, <2>1 DEF NewKey1, CountAt
<1>8. CASE NewKey3
  <2>1. env'.root = env.root /\ env'.ksn = env.ksn /\ env'.inKey = env.inKey
    BY <1>8 DEF NewKey3, TypeOK, DkpEnv
  <2> QED BY <1>8, <2>1 DEF NewKey3, CountAt
<1>9. CASE NewKey4
  <2>1. Erase(env) \in DkpEnv /\ Erase(env).ksn = env.ksn
    BY EraseType, EraseIs DEF TypeOK
  <2>2. env'.root = env.root /\ env'.ksn = PlusOne(env.ksn)
    BY <1>9, <2>1, InCall DEF DkpEnv, NewKey4
  <2>3. env'.ksn = {} \/ Less(env.ksn, env'.ksn)
    BY <1>0, <2>2, PlusOneRises
  <2> QED BY <1>9, <2>2, <2>3 DEF NewKey4, CountAt
<1>10. CASE NewKey2
  BY <1>10 DEF NewKey2, CountAt, Exhausted, ReturnToCaller
<1>11. CASE End \/ EndWrite
  BY <1>11 DEF End, EndWrite, CountAt
<1>12. CASE Return \/ Crash
  BY <1>12 DEF Return, Crash, ReturnToCaller, CountAt
<1>13. CASE UNCHANGED vars
  BY <1>13 DEF vars, CountAt
<1> QED BY <1>1, <1>2, <1>3, <1>4, <1>5, <1>6, <1>7, <1>8, <1>9, <1>10, <1>11, <1>12,
           <1>13 DEF Next, Step

LEMMA BlankReturned ==
  ASSUME BlankOK, pc' = "Idle", disk' \in {disk, Unreadable}
  PROVE  BlankOK'
BY DEF BlankOK

LEMMA BlankStep ==
  ASSUME TypeOK, CallAt, CountAt, BlankOK, [Next]_vars
  PROVE  BlankOK'
<1>1. ASSUME NEW r \in Ipks, CallIpkLod(r) PROVE BlankOK'
  BY <1>1, NoIpkAssumption DEF CallIpkLod, ZeroEnv, BlankOK
<1>2. CASE IpkLod
  <2>1. CASE ReturnToCaller /\ disk' \in {disk, Unreadable}
    BY <2>1, BlankReturned DEF ReturnToCaller
  <2>2. CASE disk' = ZeroEnv /\ pc' = "NewKey3"
             /\ env' = [env EXCEPT !.fut[W] = [key |-> Ipek(env.root), ok |-> TRUE],
                                   !.inKey = W, !.sft = 1]
    <3>1. env'.root = env.root /\ disk'.ksn = {}
      BY <2>2 DEF TypeOK, DkpEnv, ZeroEnv
    <3>2. env.root # NoIpk
      BY <1>2 DEF IpkLod, TypeOK, CallAt
    <3> QED BY <3>1, <3>2 DEF BlankOK
  <2> QED BY <1>2, <2>1, <2>2 DEF IpkLod
<1>3. ASSUME NEW c \in {"Dta", "Key"}, CallRqt(c) PROVE BlankOK'
  BY <1>3 DEF CallRqt, BlankOK, ReturnToCaller
<1>4. CASE RqtDta1
  <2> DEFINE b == SetBit(env.ksn)
             m == SetMask(env.ksn)
  <2>1. CASE env' = [env EXCEPT !.inKey = b, !.sft = m] /\ pc' = "RqtDta2"
    BY <1>4, <2>1 DEF RqtDta1, TypeOK, DkpEnv, BlankOK
  <2>2. CASE env.ksn # {} /\ env' = [env EXCEPT !.inKey = b, !.sft = m, !.ksn = AddMask(@, m)]
    BY <1>4, <2>2 DEF RqtDta1, TypeOK, DkpEnv, BlankOK
  <2>3. CASE Exhausted
    BY <1>4, <2>3, BlankReturned DEF RqtDta1, Exhausted, ReturnToCaller
  <2> QED BY <1>4, <2>1, <2>2, <2>3 DEF RqtDta1
<1>5. CASE RqtDta2
  <2>1. CASE ReturnToCaller
    BY <1>5, <2>1, BlankReturned DEF RqtDta2, ReturnToCaller
  <2>2. CASE env' = [env EXCEPT !.cnt = @ + 1] /\ pc' = "NewKey"
    BY <1>5, <2>2 DEF RqtDta2, TypeOK, DkpEnv, BlankOK
  <2> QED BY <1>5, <2>1, <2>2 DEF RqtDta2
<1>6. CASE NewKey
  <2>1. CASE pc' = "NewKey1" /\ UNCHANGED env
    BY <1>6, <2>1 DEF NewKey, BlankOK
  <2>2. CASE /\ HowMnyOne(env.ksn) >= MaxOnes
             /\ env' = [Erase(env) EXCEPT !.ksn = AddMask(@, env.sft)]
    <3>1. Erase(env) \in DkpEnv /\ (Erase(env).fut[0].ok => env.fut[0].ok)
      BY EraseType, EraseIs DEF TypeOK
    <3>2. env'.root = env.root /\ env'.fut = Erase(env).fut
      BY <1>6, <2>2, <3>1, InCall DEF DkpEnv, NewKey
    <3>3. env.ksn # {}
      BY <2>2, FS_EmptySet, MaxOnesAssumption DEF HowMnyOne
    <3> QED BY <1>6, <3>1, <3>2, <3>3 DEF NewKey, BlankOK
  <2> QED BY <1>6, <2>1, <2>2 DEF NewKey
<1>7. CASE NewKey1
  <2>1. env'.root = env.root /\ env'.ksn = env.ksn /\ env'.fut = env.fut
    BY <1>7 DEF NewKey1, TypeOK, DkpEnv
  <2> QED BY <1>7, <2>1 DEF NewKey1, BlankOK
<1>8. CASE NewKey3
  <2>1. env.sft # 0 /\ 0 \in Registers
    BY WAssumption DEF TypeOK, DkpEnv, Masks, Registers
  <2>2. env'.root = env.root /\ env'.ksn = env.ksn /\ env'.fut[0] = env.fut[0]
    BY <1>8, <2>1 DEF NewKey3, TypeOK, DkpEnv
  <2> QED BY <1>8, <2>2 DEF NewKey3, BlankOK
<1>9. CASE NewKey4
  <2>1. /\ Erase(env) \in DkpEnv /\ (Erase(env).fut[0].ok => env.fut[0].ok)
        /\ ~Erase(env).fut[env.inKey].ok
    BY EraseType, EraseIs DEF TypeOK
  <2>2. env'.root = env.root /\ env'.fut = Erase(env).fut
    BY <1>9, <2>1, InCall DEF DkpEnv, NewKey4
  <2>3. env.root = NoIpk /\ env.fut[0].ok => env.inKey = 0
    BY <1>9 DEF NewKey4, BlankOK, CallAt, CountAt, Answering, SetBit
  <2> QED BY <1>9, <2>1, <2>2, <2>3 DEF NewKey4, BlankOK
<1>10. CASE NewKey2
  BY <1>10, BlankReturned DEF NewKey2, BlankOK, Exhausted, ReturnToCaller
<1>11. CASE End \/ EndWrite
  BY <1>11 DEF End, EndWrite, BlankOK
<1>12. CASE Return \/ Crash
  BY <1>12, BlankReturned DEF Return, Crash, ReturnToCaller
<1>13. CASE UNCHANGED vars
  BY <1>13 DEF vars, BlankOK
<1> QED BY <1>1, <1>2, <1>3, <1>4, <1>5, <1>6, <1>7, <1>8, <1>9, <1>10, <1>11, <1>12,
           <1>13 DEF Next, Step

-----------------------------------------------------------------------------
(***************************************************************************)
(* The registers, under an injected key: one lemma per action.             *)
(***************************************************************************)

\* A step that leaves the result alone.
LEMMA KeyKept ==
  ASSUME KeyAt, UNCHANGED <<call, out>>, pc \in Answering \/ call = "Ipk" \/ pc' \notin Answering
  PROVE  KeyAt'
BY DEF KeyAt, RightKey

LEMMA IpkLodRegs ==
  ASSUME TypeOK, CallAt, RegsAt, IpkLod, pc' # "Idle"
  PROVE  RegsAt' /\ KeyAt'
<1> USE DEF IpkLod
<1>1. /\ call = "Ipk" /\ call' = "Ipk" /\ env = [ZeroEnv EXCEPT !.root = env.root]
      /\ env.root \in Ipks /\ pc' = "NewKey3"
      /\ env' = [env EXCEPT !.fut[W] = [key |-> Ipek(env.root), ok |-> TRUE],
                            !.inKey = W, !.sft = 1]
  BY DEF TypeOK, CallAt, RegsAt, ReturnToCaller
<1>2. env.ksn = {} /\ env.fut[0].key.root = NoIpk /\ DOMAIN env.fut = Registers
  BY <1>1, WAssumption DEF ZeroEnv, ZeroKey, Registers
<1>3. W \in Registers /\ W # 0 /\ 1 \in Bits
  BY WAssumption DEF Registers, Bits
<1>4. Filled(env', 0)
  <2>1. env'.root = env.root /\ env'.ksn = env.ksn /\ env'.inKey = W
    BY <1>1 DEF TypeOK, DkpEnv
  <2>2. env'.fut[0] = env.fut[0] /\ env'.fut[W].key = Ipek(env.root)
    BY <1>1, <1>2, <1>3 DEF TypeOK, DkpEnv
  <2>3. \A b \in Bits : ~ (b =< 0)
    BY BitsAreInts
  <2> QED BY <1>1, <1>2, <2>1, <2>2, <2>3 DEF Filled
<1>5. env'.sft = 1
  BY <1>1 DEF TypeOK, DkpEnv
<1> QED BY <1>1, <1>3, <1>4, <1>5 DEF RegsAt, KeyAt

LEMMA RqtDta1Regs ==
  ASSUME TypeOK, TypeOK', CallAt, RegsAt, RqtDta1
  PROVE  RegsAt' /\ KeyAt' /\ (pc' = "RqtDta1" => Less(env.ksn, env'.ksn))
<1> USE DEF RqtDta1
<1> DEFINE C == env.ksn
           b == SetBit(C)
           m == SetMask(C)
<1>0. KeyAt'
  BY DEF KeyAt, Answering, Exhausted, ReturnToCaller
<1>1. call # "Ipk" /\ SoundRec(env)
  BY DEF CallAt, RegsAt
<1>2. C \in Counters /\ C # {}
  BY <1>1 DEF TypeOK, DkpEnv, SoundRec
<1>3. b = Max(C) /\ m = Max(C) /\ Max(C) \in Bits
  BY <1>2, SetBitType
<1>4. CASE /\ env.fut[b].ok
           /\ env' = [env EXCEPT !.inKey = b, !.sft = m]
           /\ pc' = "RqtDta2"
           /\ UNCHANGED <<out, keylod, maxcrp>>
  <2>1. env'.root = env.root /\ env'.ksn = C /\ env'.fut = env.fut
        /\ env'.inKey = Max(C) /\ env'.sft = Max(C)
    BY <1>3, <1>4 DEF TypeOK, DkpEnv
  <2>2. SoundRec(env')
    BY <1>1, <2>1 DEF SoundRec, Waits
  <2>3. Refilled(env', env'.inKey)
    <3>1. C # {W}
      <4>1. SUFFICES ASSUME C = {W} PROVE FALSE
        OBVIOUS
      <4>2. b = W
        BY <1>2, <1>3, <4>1, FutureCounterLowest DEF Counters
      <4> QED BY <1>1, <1>3, <1>4, <4>1, <4>2 DEF SoundRec
    <3>2. \A i \in Bits : ~ (env'.inKey < i /\ i =< env'.inKey)
      BY <1>3, <2>1, BitsAreInts
    <3> QED BY <2>1, <2>2, <3>1, <3>2 DEF SoundRec, Refilled
  <2> QED BY <1>0, <1>4, <2>1, <2>2, <2>3 DEF RegsAt
<1>5. CASE /\ ~env.fut[b].ok
           /\ env' = [env EXCEPT !.inKey = b, !.sft = m, !.ksn = AddMask(@, m)]
           /\ UNCHANGED <<pc, out, keylod, maxcrp>>
  <2>1. env'.root = env.root /\ env'.ksn = AddMask(C, Max(C)) /\ env'.fut = env.fut
    BY <1>3, <1>5 DEF TypeOK, DkpEnv
  <2>2. SoundRec(env') /\ Less(C, env'.ksn)
    BY <1>1, <1>3, <1>5, <2>1, SkipSound DEF TypeOK
  <2> QED BY <1>0, <1>5, <2>2 DEF RegsAt
<1> QED BY <1>2, <1>4, <1>5

LEMMA RqtDta2Regs ==
  ASSUME TypeOK, CallAt, RegsAt, RqtDta2, pc' # "Idle"
  PROVE  RegsAt' /\ KeyAt'
<1> USE DEF RqtDta2
<1> DEFINE C == env.ksn
<1>1. /\ env' = [env EXCEPT !.cnt = @ + 1] /\ pc' = "NewKey"
      /\ out'.root = env.root /\ out'.ksn = C /\ out'.key = env.fut[env.inKey].key
  BY DEF ReturnToCaller
<1>2. SoundRec(env) /\ Refilled(env, env.inKey) /\ env.sft = env.inKey
  BY DEF RegsAt
<1>3. env'.root = env.root /\ env'.ksn = C /\ env'.fut = env.fut
      /\ env'.inKey = env.inKey /\ env'.sft = env.sft
  BY <1>1 DEF TypeOK, DkpEnv
<1>4. Refilled(env', env'.inKey)
  BY <1>2, <1>3 DEF Refilled, Waits
<1>5. env.fut[env.inKey].key = HostKey(env.root, C)
  <2>1. C \in SUBSET Bits /\ C # {} /\ env.inKey = Max(C)
    BY <1>2 DEF TypeOK, DkpEnv, Counters, Refilled
  <2>2. Max(C) \in Bits /\ Future(C, Max(C)) /\ FutureCounter(C, Max(C)) = C
    BY <2>1, FutureCounterLowest
  <2> QED BY <1>2, <2>1, <2>2 DEF Refilled, Waits
<1>6. C # {} /\ HowMnyOne(C) =< MaxOnes
  BY <1>2 DEF SoundRec
<1> QED BY <1>1, <1>2, <1>3, <1>4, <1>5, <1>6 DEF RegsAt, KeyAt, RightKey

LEMMA NewKeyRegs ==
  ASSUME TypeOK, TypeOK', CallAt, RegsAt, KeyAt, NewKey
  PROVE  RegsAt' /\ KeyAt'
<1> USE DEF NewKey
<1> DEFINE C == env.ksn
           p == env.inKey
<1>0. KeyAt'
  BY KeyKept DEF Answering
<1>1. call # "Ipk" /\ Refilled(env, p) /\ env.sft = p
  BY DEF CallAt, RegsAt
<1>3. C \in SUBSET Bits /\ C # {} /\ p = Max(C) /\ p \in Bits
  BY <1>1, MaxOfBits DEF Refilled, TypeOK, DkpEnv, Counters
<1>4. CASE HowMnyOne(env.ksn) < MaxOnes /\ pc' = "NewKey1" /\ UNCHANGED env
  <2>1. p \in p .. W
    BY <1>3, BitsAreInts, LastBit
  <2> QED BY <1>0, <1>1, <1>4, <2>1 DEF RegsAt
<1>5. CASE env' = [Erase(env) EXCEPT !.ksn = AddMask(@, env.sft)] /\ pc' = "NewKey2"
  <2> DEFINE E == Erase(env)
  <2>1. p # 0 /\ E \in DkpEnv /\ \A b \in Bits : b \in Registers
    BY <1>3, EraseType, WAssumption DEF TypeOK, Bits, Registers
  <2>2. /\ E.root = env.root /\ E.ksn = C
        /\ E.fut[0] = env.fut[0] /\ ~E.fut[p].ok
        /\ \A b \in Registers : b # p => E.fut[b] = env.fut[b]
    BY <2>1, EraseIs DEF TypeOK
  <2> HIDE DEF E
  <2>3. env'.root = E.root /\ env'.ksn = AddMask(C, Max(C)) /\ env'.fut = E.fut
    BY <1>1, <1>3, <1>5, <2>1, <2>2 DEF DkpEnv, E
  <2>4. \A b \in Bits : env'.fut[b].ok <=> Future(C, b) /\ b # p
    <3>1. \A b \in Bits : ~ (p < b /\ b =< p)
      BY <1>3, BitsAreInts
    <3>2. \A b \in Bits : env.fut[b].ok <=> Future(C, b)
      BY <1>1, <3>1 DEF Refilled
    <3> QED BY <2>1, <2>2, <2>3, <3>2
  <2>5. \A b \in Bits :
          env'.fut[b].ok => env'.fut[b].key = HostKey(env'.root, FutureCounter(C, b))
    BY <1>1, <2>1, <2>2, <2>3 DEF Refilled, Waits
  <2>6. env'.root \in Ipks /\ env'.fut[0].key.root = NoIpk /\ HowMnyOne(C) =< MaxOnes
    BY <1>1, <2>2, <2>3 DEF Refilled
  <2>7. env' \in DkpEnv
    BY DEF TypeOK
  <2>8. env'.ksn = {} \/ SoundRec(env')
    <3> HIDE DEF C, p
    <3> QED BY <1>3, <2>3, <2>4, <2>5, <2>6, <2>7, CarrySound
  <2> QED BY <1>0, <1>1, <1>5, <2>8 DEF RegsAt
<1> QED BY <1>4, <1>5

LEMMA NewKey1Regs ==
  ASSUME TypeOK, TypeOK', RegsAt, KeyAt, NewKey1
  PROVE  RegsAt' /\ KeyAt'
<1> USE DEF NewKey1
<1> DEFINE s == env.sft
<1>0. KeyAt'
  BY KeyKept DEF Answering
<1>1. IF call = "Ipk" THEN Filled(env, s) /\ s \in Bits
      ELSE Refilled(env, s) /\ s \in env.inKey .. W /\ HowMnyOne(env.ksn) < MaxOnes
  BY DEF RegsAt
<1>3. s \in Int /\ s =< W /\ (call = "Ipk" => 1 =< s) /\ W \in Int
  BY <1>1, BitsAreInts, LastBit
<1>4. ShiftRight(s) = s + 1 /\ (s + 1 = NoMask <=> s = W)
  BY <1>3 DEF ShiftRight, NoMask
<1>5. /\ env'.root = env.root /\ env'.ksn = env.ksn /\ env'.fut = env.fut
      /\ env'.inKey = env.inKey /\ env'.sft = s + 1
  BY <1>4 DEF TypeOK, DkpEnv
<1>6. call = "Ipk" => Filled(env', s)
  BY <1>1, <1>5 DEF Filled, Waits
<1>7. call # "Ipk" => Refilled(env', s)
  BY <1>1, <1>5 DEF Refilled, Waits
<1>10. CASE s = W
  <2>1. pc' = "NewKey4"
    BY <1>4, <1>10
  <2> QED BY <1>0, <1>1, <1>5, <1>6, <1>7, <1>10, <2>1 DEF RegsAt
<1>11. CASE s # W
  <2>1. pc' = "NewKey3"
    BY <1>4, <1>11
  <2>2. env'.sft - 1 = s
    BY <1>3, <1>5
  <2>3. call = "Ipk" => env'.sft \in Bits
    BY <1>1, <1>3, <1>5, <1>11 DEF Bits
  <2>4. call # "Ipk" => env'.sft \in env'.inKey + 1 .. W
    BY <1>1, <1>3, <1>5, <1>11 DEF TypeOK, DkpEnv, Registers
  <2> QED BY <1>0, <1>1, <1>5, <1>6, <1>7, <2>1, <2>2, <2>3, <2>4 DEF RegsAt
<1> QED BY <1>10, <1>11

LEMMA NewKey3Regs ==
  ASSUME TypeOK, TypeOK', RegsAt, KeyAt, NewKey3
  PROVE  RegsAt' /\ KeyAt'
<1> USE DEF NewKey3
<1> DEFINE s == env.sft
           C == env.ksn
           p == env.inKey
           k == NonRvrKey(env.fut[p].key, OrMask(C, s))
<1>0. KeyAt'
  BY KeyKept DEF Answering
<1>1. IF call = "Ipk" THEN Filled(env, s - 1) /\ s \in Bits
      ELSE Refilled(env, s - 1) /\ s \in p + 1 .. W /\ HowMnyOne(C) < MaxOnes
  BY DEF RegsAt
<1>3. C \in SUBSET Bits /\ p \in Registers /\ \A b \in Bits : b \in Registers /\ b # 0
  BY WAssumption DEF TypeOK, DkpEnv, Counters, Bits, Registers
<1>4. s \in Bits /\ s \in Registers /\ s # 0
  BY <1>1, <1>3, WAssumption DEF Bits, Registers
<1>5. OrMask(C, s) = C \cup {s}
  BY <1>4 DEF OrMask
<1>6. /\ env'.root = env.root /\ env'.ksn = C
      /\ env'.inKey = p /\ env'.sft = s
      /\ env'.fut[s] = [key |-> k, ok |-> TRUE]
      /\ \A b \in Registers : b # s => env'.fut[b] = env.fut[b]
  BY <1>4 DEF TypeOK, DkpEnv
<1>9. env'.fut[0] = env.fut[0]
  BY <1>4, <1>6, WAssumption DEF Registers
<1>10. CASE call = "Ipk"
  <2>1. C = {} /\ p = W /\ env.fut[W].key = Ipek(env.root)
    BY <1>1, <1>4, <1>10, BitsAreInts, LastBit DEF Filled
  <2>2. k = HostKey(env.root, {s})
    BY <1>4, <1>5, <2>1, HostKeyFirst
  <2>3. FutureCounter({}, s) = {s}
    BY DEF FutureCounter
  <2>4. Filled(env', s)
    <3>1. \A b \in Bits : b =< s => env'.fut[b].ok /\ Waits(env', b)
      <4> TAKE b \in Bits
      <4> HAVE b =< s
      <4>1. CASE b = s
        BY <1>6, <2>1, <2>2, <2>3, <4>1 DEF Waits
      <4>2. CASE b # s
        <5>1. b =< s - 1
          BY <1>4, <4>2, BitsAreInts
        <5> QED BY <1>1, <1>3, <1>6, <1>10, <4>2, <5>1 DEF Filled, Waits
      <4> QED BY <4>1, <4>2
    <3>2. s < W => env'.fut[W].key = Ipek(env'.root)
      BY <1>3, <1>6, <2>1, LastBit
    <3> QED BY <1>1, <1>6, <1>9, <1>10, <2>1, <3>1, <3>2 DEF Filled
  <2> QED BY <1>0, <1>1, <1>4, <1>6, <1>10, <2>4 DEF RegsAt
<1>11. CASE call # "Ipk"
  <2>1. Refilled(env, s - 1) /\ C # {} /\ p = Max(C)
    BY <1>1, <1>11 DEF Refilled
  <2>2. p \in Bits /\ p < s /\ \A c \in C : c =< p
    BY <1>1, <1>3, <1>4, <1>11, <2>1, MaxOfBits, BitsAreInts
  <2>3. \A c \in C : c < s
    BY <1>3, <1>4, <2>2, BitsAreInts
  <2>4. env.fut[p].key = HostKey(env.root, C)
    BY <1>3, <2>1, FutureCounterLowest DEF Refilled, Waits
  <2>5. k = HostKey(env.root, C \cup {s})
    BY <1>3, <1>4, <1>5, <2>3, <2>4, HostKeyExtend
  <2>6. FutureCounter(C, s) = C \cup {s}
    BY <1>3, <1>4, <2>3, FutureCounterBelow
  <2>7. \A b \in Bits : env'.fut[b].ok <=> Future(C, b) \/ (p < b /\ b =< s)
    <3> TAKE b \in Bits
    <3>1. CASE b = s
      BY <1>4, <1>6, <2>2, <3>1, BitsAreInts
    <3>2. CASE b # s
      <4>1. b =< s <=> b =< s - 1
        BY <1>4, <3>2, BitsAreInts
      <4> QED BY <1>3, <1>6, <2>1, <3>2, <4>1 DEF Refilled
    <3> QED BY <3>1, <3>2
  <2>8. \A b \in Bits : env'.fut[b].ok => Waits(env', b)
    <3> SUFFICES ASSUME NEW b \in Bits, env'.fut[b].ok PROVE Waits(env', b)
      OBVIOUS
    <3>1. CASE b = s
      BY <1>6, <2>5, <2>6, <3>1 DEF Waits
    <3>2. CASE b # s
      BY <1>3, <1>6, <2>1, <3>2 DEF Refilled, Waits
    <3> QED BY <3>1, <3>2
  <2>9. Refilled(env', s)
    BY <1>6, <1>9, <2>1, <2>7, <2>8 DEF Refilled
  <2>10. s \in p .. W
    BY <1>4, <2>2, BitsAreInts
  <2> QED BY <1>0, <1>1, <1>6, <1>11, <2>9, <2>10 DEF RegsAt
<1> QED BY <1>10, <1>11

LEMMA NewKey4Regs ==
  ASSUME TypeOK, TypeOK', RegsAt, KeyAt, NewKey4
  PROVE  RegsAt' /\ KeyAt'
<1> USE DEF NewKey4
<1> DEFINE C == env.ksn
           p == env.inKey
           E == Erase(env)
<1>0. KeyAt'
  BY KeyKept DEF Answering
<1>1. IF call = "Ipk" THEN Filled(env, W)
      ELSE Refilled(env, W) /\ HowMnyOne(C) < MaxOnes
  BY DEF RegsAt
<1>3. C \in SUBSET Bits /\ \A b \in Bits : b \in Registers /\ b # 0
  BY WAssumption DEF TypeOK, DkpEnv, Counters, Bits, Registers
<1>4. p \in Bits /\ (call # "Ipk" => C # {} /\ p = Max(C)) /\ (call = "Ipk" => C = {} /\ p = W)
  <2>1. CASE call = "Ipk"
    BY <1>1, <2>1, LastBit DEF Filled
  <2>2. CASE call # "Ipk"
    BY <1>1, <1>3, <2>2, MaxOfBits DEF Refilled
  <2> QED BY <2>1, <2>2
<1>5. E \in DkpEnv /\ p # 0
  BY <1>3, <1>4, EraseType DEF TypeOK
<1>6. /\ E.root = env.root /\ E.ksn = C
      /\ E.fut[0] = env.fut[0] /\ ~E.fut[p].ok
      /\ \A b \in Registers : b # p => E.fut[b] = env.fut[b]
  BY <1>5, EraseIs DEF TypeOK
<1> HIDE DEF E
<1>7. env'.root = env.root /\ env'.ksn = PlusOne(C) /\ env'.fut = E.fut
  BY <1>5, <1>6 DEF DkpEnv, E
<1>8. env' \in DkpEnv
  BY DEF TypeOK
<1>9. CASE call = "Ipk"
  <2>1. Filled(env, W) /\ C = {} /\ p = W
    BY <1>1, <1>4, <1>9
  <2>2. \A b \in Bits : env'.fut[b].ok <=> b # W
    BY <1>3, <1>6, <1>7, <2>1, BitsAreInts DEF Filled
  <2>3. \A b \in Bits : env'.fut[b].ok => env'.fut[b].key = HostKey(env'.root, {b})
    <3> SUFFICES ASSUME NEW b \in Bits, b # W
                 PROVE  env.fut[b].key = HostKey(env.root, {b})
      BY <1>3, <1>6, <1>7, <2>1, <2>2
    <3>1. FutureCounter({}, b) = {b}
      BY DEF FutureCounter
    <3> QED BY <2>1, <3>1, BitsAreInts DEF Filled, Waits
  <2>4. env'.ksn = PlusOne({}) /\ env'.root \in Ipks /\ env'.fut[0].key.root = NoIpk
    BY <1>6, <1>7, <2>1 DEF Filled
  <2>5. SoundRec(env')
    BY <1>8, <2>2, <2>3, <2>4, LoadSound
  <2>6. env'.ksn = {W}
    BY <2>4, PlusOneEven, LastBit
  <2> QED BY <1>0, <1>9, <2>5, <2>6 DEF RegsAt
<1>10. CASE call # "Ipk"
  <2>1. Refilled(env, W) /\ C # {} /\ p = Max(C) /\ HowMnyOne(C) < MaxOnes
    BY <1>1, <1>4, <1>10
  <2>2. \A b \in Bits : env'.fut[b].ok <=> (Future(C, b) \/ p < b) /\ b # p
    <3>1. \A b \in Bits : env.fut[b].ok <=> Future(C, b) \/ p < b
      BY <2>1, BitsAreInts DEF Refilled
    <3> QED BY <1>3, <1>4, <1>6, <1>7, <3>1
  <2>3. \A b \in Bits :
          env'.fut[b].ok => env'.fut[b].key = HostKey(env'.root, FutureCounter(C, b))
    BY <1>3, <1>4, <1>6, <1>7, <2>1 DEF Refilled, Waits
  <2>4. env'.root \in Ipks /\ env'.fut[0].key.root = NoIpk
    BY <1>6, <1>7, <2>1 DEF Refilled
  <2>5. HowMnyOne(C) =< MaxOnes
    BY <1>3, <2>1, BitsFinite, MaxOnesAssumption
  <2>6. env'.ksn = {} \/ SoundRec(env')
    <3>1. CASE W \in C
      <4>1. p = W /\ env'.ksn = AddMask(C, Max(C))
        BY <1>3, <1>7, <2>1, <3>1, PlusOneOdd
      <4>2. \A b \in Bits : env'.fut[b].ok <=> Future(C, b) /\ b # p
        BY <2>2, <4>1, BitsAreInts, LastBit
      <4> HIDE DEF C, p
      <4> QED BY <1>3, <1>8, <2>1, <2>3, <2>4, <2>5, <4>1, <4>2, CarrySound
    <3>2. CASE W \notin C
      <4> HIDE DEF C, p
      <4> QED BY <1>3, <1>7, <1>8, <2>1, <2>2, <2>3, <2>4, <3>2, EvenSound
    <3> QED BY <3>1, <3>2
  <2> QED BY <1>0, <1>10, <2>6 DEF RegsAt
<1> QED BY <1>9, <1>10

LEMMA EndRegs ==
  ASSUME TypeOK, RegsAt, KeyAt, NewKey2 \/ End \/ EndWrite, pc' # "Idle"
  PROVE  RegsAt' /\ KeyAt'
<1>1. UNCHANGED <<env, call, out>>
  BY DEF NewKey2, End, EndWrite, Exhausted, ReturnToCaller
<1>2. KeyAt'
  BY <1>1, KeyKept DEF NewKey2, End, EndWrite, Answering
<1>3. RegsAt'
  BY <1>1 DEF RegsAt, NewKey2, End, EndWrite, Exhausted, ReturnToCaller
<1> QED BY <1>2, <1>3

LEMMA KeyedInit == Init => Keyed
BY DEF Init, Keyed, CallAt, CountAt, BlankOK, Answering

LEMMA KeyedStep ==
  ASSUME TypeOK, TypeOK', Keyed, [Next]_vars
  PROVE  Keyed'
<1>0. CallAt /\ CountAt /\ BlankOK /\ (pc # "Idle" /\ env.root # NoIpk => RegsAt /\ KeyAt)
  BY DEF Keyed
<1>1. CallAt' /\ CountAt' /\ BlankOK'
  BY <1>0, CallAtStep, CountAtStep, BlankStep
<1>2. pc' # "Idle" /\ env'.root # NoIpk => RegsAt' /\ KeyAt'
  <2> SUFFICES ASSUME pc' # "Idle", env'.root # NoIpk PROVE RegsAt' /\ KeyAt'
    OBVIOUS
  <2>1. ASSUME NEW r \in Ipks, CallIpkLod(r) PROVE RegsAt' /\ KeyAt'
    <3>1. env' = [ZeroEnv EXCEPT !.root = r] /\ env'.root = r
      BY <2>1 DEF CallIpkLod, ZeroEnv
    <3> QED BY <2>1, <3>1 DEF CallIpkLod, RegsAt, KeyAt, Answering
  <2>2. ASSUME NEW c \in {"Dta", "Key"}, CallRqt(c) PROVE RegsAt' /\ KeyAt'
    <3>1. env' = disk /\ disk # Unreadable /\ pc' = "RqtDta1"
      BY <2>2 DEF CallRqt, ReturnToCaller
    <3> QED BY <3>1 DEF Keyed, RegsAt, KeyAt, Answering
  <2>3. CASE IpkLod
    <3>1. env.root # NoIpk /\ pc # "Idle"
      BY <1>0, <2>3 DEF CallAt, IpkLod, TypeOK
    <3> QED BY <1>0, <2>3, <3>1, IpkLodRegs
  <2>4. CASE RqtDta1 \/ RqtDta2 \/ NewKey \/ NewKey1 \/ NewKey2 \/ NewKey3 \/ NewKey4 \/ End \/ EndWrite
    <3>1. pc # "Idle" /\ env.root # NoIpk
      BY <2>4, InCall
    <3> QED BY <1>0, <2>4, <3>1, RqtDta1Regs, RqtDta2Regs, NewKeyRegs, NewKey1Regs, NewKey3Regs,
               NewKey4Regs, EndRegs
  <2>5. ~Return /\ ~Crash
    BY DEF Return, Crash, ReturnToCaller
  <2>6. CASE UNCHANGED vars
    BY <1>0, <2>6 DEF vars, RegsAt, KeyAt
  <2> QED BY <2>1, <2>2, <2>3, <2>4, <2>5, <2>6 DEF Next, Step
<1>3. disk' # Unreadable /\ disk'.root # NoIpk => SoundRec(disk)'
  <2>1. CASE disk' = disk
    BY <2>1 DEF Keyed, SoundRec, Waits
  <2>2. CASE disk' \in {ZeroEnv, Unreadable}
    BY <2>2 DEF ZeroEnv
  <2>3. CASE EndWrite /\ disk' = env
    BY <1>0, <2>3 DEF EndWrite, RegsAt, SoundRec, Waits
  <2> QED BY <2>1, <2>2, <2>3 DEF Next, Step, vars, CallIpkLod, IpkLod, CallRqt, RqtDta1, RqtDta2,
             NewKey, NewKey1, NewKey2, NewKey3, NewKey4, End, EndWrite, Return, Crash
<1>4. \A i \in 1 .. Len(used') : used'[i].root # NoIpk => RightKey(used'[i])
  <2>1. CASE used' = used
    BY <2>1 DEF Keyed
  <2>2. CASE used' # used
    <3>1. Return /\ call # "Ipk"
      BY <2>2, UsedOnlyAtReturn
    <3>2. out.root = env.root
      BY <1>0, <3>1 DEF CountAt, Return, Answering
    <3>3. out.root # NoIpk => RightKey(out)
      BY <1>0, <3>1, <3>2 DEF KeyAt, Return, Answering
    <3> SUFFICES ASSUME NEW i \in 1 .. Len(used) + 1
                 PROVE  used'[i].root # NoIpk => RightKey(used'[i])
      BY <3>1, Handed
    <3>4. CASE i = Len(used) + 1
      BY <3>1, <3>3, <3>4, Handed
    <3>5. CASE i # Len(used) + 1
      <4>1. i \in 1 .. Len(used)
        BY <3>1, <3>5, Handed
      <4> QED BY <3>1, <4>1, Handed DEF Keyed
    <3> QED BY <3>4, <3>5
  <2> QED BY <2>1, <2>2
<1> QED BY <1>1, <1>2, <1>3, <1>4 DEF Keyed

-----------------------------------------------------------------------------
(***************************************************************************)
(* How often a serial number goes out.                                     *)
(***************************************************************************)

LEMMA TimesType == ASSUME TypeOK, NEW r, NEW c PROVE Times(r, c) \in Nat
<1> DEFINE S == {j \in 1 .. Len(used) : used[j].root = r /\ used[j].ksn = c}
<1>1. IsFiniteSet(1 .. Len(used))
  BY FS_Interval DEF TypeOK
<1>2. IsFiniteSet(S)
  BY <1>1, FS_Subset
<1> QED BY <1>2, FS_CardinalityType DEF Times

LEMMA TimesNone == ASSUME NEW r, NEW c, Unused(r) PROVE Times(r, c) = 0
<1>1. {j \in 1 .. Len(used) : used[j].root = r /\ used[j].ksn = c} = {}
  BY DEF Unused
<1> QED BY <1>1, FS_EmptySet DEF Times

\* The result handed over counts once more, and no other.
LEMMA TimesHanded ==
  ASSUME TypeOK, Return, call # "Ipk", NEW r, NEW c
  PROVE  Times(r, c)' = IF r = out.root /\ c = out.ksn THEN Times(r, c) + 1 ELSE Times(r, c)
<1> DEFINE n == Len(used)
           S == {j \in 1 .. n : used[j].root = r /\ used[j].ksn = c}
           T == {j \in 1 .. n + 1 : used'[j].root = r /\ used'[j].ksn = c}
<1>1. /\ n \in Nat /\ Len(used') = n + 1 /\ used'[n + 1] = out
      /\ \A i \in 1 .. n : used'[i] = used[i]
  BY Handed
<1>2. Times(r, c) = Cardinality(S) /\ Times(r, c)' = Cardinality(T)
  BY <1>1 DEF Times
<1>3. IsFiniteSet(S) /\ n + 1 \notin S
  <2>1. IsFiniteSet(1 .. n)
    BY <1>1, FS_Interval
  <2>2. IsFiniteSet(S)
    BY <2>1, FS_Subset
  <2> QED BY <1>1, <2>2
<1>4. T = IF r = out.root /\ c = out.ksn THEN S \cup {n + 1} ELSE S
  <2>1. 1 .. n + 1 = (1 .. n) \cup {n + 1}
    BY <1>1
  <2> QED BY <1>1, <2>1
<1> HIDE DEF S, T
<1> QED BY <1>2, <1>3, <1>4, FS_AddElement

\* A larger counter is affordable too.
LEMMA AffordAbove ==
  ASSUME NEW r, NEW C \in SUBSET Bits, NEW D \in SUBSET Bits, Less(C, D), Affordable(r, C)
  PROVE  Affordable(r, D)
<1> SUFFICES ASSUME NEW c \in Counters, ~Less(c, D) PROVE ~Less(c, C)
  BY DEF Affordable
<1> QED BY LessTransitive DEF Counters

LEMMA BudgetInit == Init => Budget
<1> SUFFICES ASSUME Init PROVE Budget
  OBVIOUS
<1>1. \A r, c : Times(r, c) = 0
  BY TimesNone DEF Init, Unused
<1> QED BY <1>1 DEF Init, Budget, Answering

\* The steps that touch neither the record nor the history.
LEMMA BudgetCall ==
  ASSUME TypeOK, CallAt, BlankOK, RegsAt \/ env.root = NoIpk \/ pc = "Idle", Budget,
         \/ \E r \in Ipks : CallIpkLod(r)
         \/ \E c \in {"Dta", "Key"} : CallRqt(c)
         \/ RqtDta1 \/ RqtDta2 \/ NewKey \/ NewKey1 \/ NewKey2 \/ NewKey3 \/ NewKey4,
         TypeOK'
  PROVE  Budget'
<1> USE DEF Answering
<1>1. UNCHANGED <<used, lost, disk>> /\ keylod' \in {0, keylod} /\ pc' \notin {"EndWrite", "Return"}
  BY DEF CallIpkLod, CallRqt, RqtDta1, RqtDta2, NewKey, NewKey1, NewKey2, NewKey3, NewKey4,
         Exhausted, ReturnToCaller
<1>2. /\ \A r \in Ipks \cup {NoIpk}, c \in Counters : Times(r, c)' =< 1 + lost'
      /\ keylod' = 1 /\ disk' # Unreadable => Affordable(disk.root, disk.ksn)'
  BY <1>1 DEF Budget, Affordable, Times
<1>3. /\ pc' = "RqtDta1" => \/ Affordable(env.root, env.ksn)'
                            \/ env'.ksn = {} /\ ~env'.fut[0].ok
      /\ pc' = "RqtDta2" => Affordable(env.root, env.ksn)'
  <2>1. ASSUME NEW c \in {"Dta", "Key"}, CallRqt(c), pc' = "RqtDta1"
        PROVE  Affordable(env.root, env.ksn)'
    <3>1. env' = disk /\ disk # Unreadable /\ keylod = 1
      BY <2>1 DEF CallRqt, ReturnToCaller
    <3> QED BY <1>1, <3>1 DEF Budget, Affordable, Times
  <2>2. ASSUME RqtDta1, pc' = "RqtDta2" PROVE Affordable(env.root, env.ksn)'
    <3>1. env.fut[SetBit(env.ksn)].ok /\ env'.root = env.root /\ env'.ksn = env.ksn
      BY <2>2 DEF RqtDta1, Exhausted, ReturnToCaller, TypeOK, DkpEnv
    <3>2. Affordable(env.root, env.ksn)
      BY <2>2, <3>1 DEF Budget, RqtDta1, SetBit
    <3> QED BY <1>1, <3>1, <3>2 DEF Affordable, Times
  <2>3. ASSUME RqtDta1, pc' = "RqtDta1"
        PROVE  Affordable(env.root, env.ksn)' \/ (env'.ksn = {} /\ ~env'.fut[0].ok)
    <3>1. /\ env.ksn # {} /\ env.ksn \in SUBSET Bits /\ env'.ksn \in SUBSET Bits
          /\ env'.root = env.root /\ env'.fut = env.fut /\ pc = "RqtDta1"
          /\ env'.ksn = AddMask(env.ksn, Max(env.ksn))
      BY <2>3 DEF RqtDta1, Exhausted, ReturnToCaller, TypeOK, DkpEnv, Counters, SetMask
    <3>2. CASE Less(env.ksn, env'.ksn)
      <4>1. Affordable(env.root, env'.ksn)
        BY <3>1, <3>2, AffordAbove DEF Budget
      <4> QED BY <1>1, <3>1, <4>1 DEF Affordable, Times
    <3>3. CASE env'.ksn = {} /\ env.root = NoIpk
      BY <3>1, <3>3 DEF BlankOK
    <3>4. Less(env.ksn, env'.ksn) \/ (env'.ksn = {} /\ env.root = NoIpk)
      BY <2>3, <3>1, AddRises, RqtDta1Regs
    <3> QED BY <3>2, <3>3, <3>4
  <2>4. pc' \in {"RqtDta1", "RqtDta2"} => \/ \E c \in {"Dta", "Key"} : CallRqt(c) /\ pc' = "RqtDta1"
                                          \/ RqtDta1
    BY DEF CallIpkLod, CallRqt, RqtDta1, RqtDta2, NewKey, NewKey1, NewKey2, NewKey3, NewKey4,
           Exhausted, ReturnToCaller
  <2> QED BY <2>1, <2>2, <2>3, <2>4
<1>4. pc' \in Answering /\ call' # "Ipk" => Affordable(out.root, out.ksn)'
  <2>1. CASE RqtDta2
    <3>1. pc' \in Answering => out'.root = env.root /\ out'.ksn = env.ksn
      BY <2>1 DEF RqtDta2, ReturnToCaller
    <3>2. Affordable(env.root, env.ksn)
      BY <2>1 DEF Budget, RqtDta2
    <3> QED BY <1>1, <3>1, <3>2 DEF Affordable, Times
  <2>2. CASE NewKey \/ NewKey1 \/ NewKey2 \/ NewKey3 \/ NewKey4
    <3>1. pc' \in Answering => UNCHANGED <<out, call>> /\ pc \in Answering
      BY <2>2 DEF NewKey, NewKey1, NewKey2, NewKey3, NewKey4, Exhausted, ReturnToCaller
    <3> QED BY <1>1, <3>1 DEF Budget, Affordable, Times
  <2>3. ~RqtDta2 /\ ~(NewKey \/ NewKey1 \/ NewKey2 \/ NewKey3 \/ NewKey4) => pc' \notin Answering
    BY DEF CallIpkLod, CallRqt, RqtDta1, Exhausted, ReturnToCaller
  <2> QED BY <2>1, <2>2, <2>3
<1> QED BY <1>1, <1>2, <1>3, <1>4 DEF Budget

LEMMA BudgetReturned ==
  ASSUME Budget, pc' = "Idle", UNCHANGED <<used, lost>>, disk' \in {disk, Unreadable},
         keylod' \in {0, keylod}
  PROVE  Budget'
<1>1. \A r, c : Times(r, c)' = Times(r, c)
  BY DEF Times
<1>2. keylod' = 1 /\ disk' # Unreadable => Affordable(disk.root, disk.ksn)'
  BY <1>1 DEF Budget, Affordable
<1> QED BY <1>1, <1>2 DEF Budget, Answering

LEMMA BudgetEnd ==
  ASSUME TypeOK, CallAt, Budget, End
  PROVE  Budget'
<1> USE DEF Answering
<1>1. CASE disk' = Unreadable /\ pc' = "EndWrite" /\ lost' = lost
  BY <1>1 DEF End, Budget, Affordable, Times
<1>2. CASE lost' = lost + 1 /\ pc' = "Return" /\ UNCHANGED disk
  <2>1. lost \in Nat /\ UNCHANGED <<call, out, used, keylod>> /\ pc = "End"
    BY MaxLostAssumption DEF TypeOK, End
  <2>2. \A r \in Ipks \cup {NoIpk}, c \in Counters : Times(r, c) \in Nat /\ Times(r, c) =< lost'
    BY <1>2, <2>1, TimesType DEF Budget
  <2>3. disk # Unreadable => Affordable(disk.root, disk.ksn)'
    BY <1>2, <2>1, <2>2 DEF TypeOK, DkpEnv, Affordable, Times
  <2>4. call # "Ipk" => Affordable(out.root, out.ksn)' /\ Times(out.root, out.ksn)' < lost'
    <3> SUFFICES ASSUME call # "Ipk" PROVE Affordable(out.root, out.ksn)' /\ Times(out.root, out.ksn)' < lost'
      OBVIOUS
    <3>1. out.root \in Ipks \cup {NoIpk} /\ out.ksn \in Counters /\ Affordable(out.root, out.ksn)
      BY <2>1 DEF TypeOK, Produced, Budget
    <3>2. Times(out.root, out.ksn) =< lost
      BY <3>1, NotBelowItself DEF Affordable, Counters
    <3>3. Times(out.root, out.ksn) \in Nat
      BY <2>2, <3>1
    <3>4. Affordable(out.root, out.ksn)'
      BY <2>1, <2>2, <3>1 DEF Affordable, Times
    <3>5. Times(out.root, out.ksn)' = Times(out.root, out.ksn)
      BY <2>1 DEF Times
    <3> QED BY <1>2, <2>1, <3>2, <3>3, <3>4, <3>5
  <2>5. \A r \in Ipks \cup {NoIpk}, c \in Counters : Times(r, c)' =< 1 + lost'
    BY <1>2, <2>1, <2>2 DEF Times
  <2> QED BY <1>2, <2>1, <2>3, <2>4, <2>5 DEF Budget
<1> QED BY <1>1, <1>2 DEF End

LEMMA BudgetEndWrite ==
  ASSUME TypeOK, CallAt, CountAt, Budget, EndWrite
  PROVE  Budget'
<1> USE DEF Answering
<1>1. /\ UNCHANGED <<call, out, used, keylod, lost>> /\ pc = "EndWrite" /\ pc' = "Return"
      /\ disk' \in {env, Unreadable} /\ lost \in Nat
  BY MaxLostAssumption DEF EndWrite, TypeOK
<1>2. CASE call = "Ipk"
  <2>1. Unused(env.root) /\ keylod = 0
    BY <1>1, <1>2 DEF CallAt
  <2>2. Affordable(env.root, env.ksn)
    BY <1>1, <2>1, TimesNone DEF Affordable
  <2> QED BY <1>1, <1>2, <2>1, <2>2 DEF Budget, Affordable, Times
<1>3. CASE call # "Ipk"
  <2>1. out.root = env.root /\ Less(out.ksn, env.ksn) /\ Affordable(out.root, out.ksn)
    BY <1>1, <1>3 DEF CountAt, Budget
  <2>2. out.ksn \in SUBSET Bits /\ env.ksn \in SUBSET Bits
    BY <1>1, <1>3 DEF TypeOK, Produced, DkpEnv, Counters
  <2>3. Affordable(env.root, env.ksn)
    BY <2>1, <2>2, AffordAbove
  <2> QED BY <1>1, <1>3, <2>1, <2>3 DEF Budget, Affordable, Times
<1> QED BY <1>2, <1>3

LEMMA BudgetReturn ==
  ASSUME TypeOK, CallAt, Budget, Return
  PROVE  Budget'
<1> USE DEF Answering
<1>1. pc = "Return" /\ pc' = "Idle" /\ UNCHANGED <<disk, lost>> /\ lost \in Nat
  BY MaxLostAssumption DEF Return, ReturnToCaller, TypeOK
<1>2. CASE call = "Ipk"
  BY <1>1, <1>2 DEF Return, Budget, Affordable, Times
<1>3. CASE call # "Ipk"
  <2>1. keylod = 1 /\ out \in Produced
    BY <1>1, <1>3 DEF CallAt, TypeOK
  <2>2. \A r, c : Times(r, c) \in Nat
    BY TimesType
  <2>3. \A r, c : Times(r, c)' = IF r = out.root /\ c = out.ksn THEN Times(r, c) + 1 ELSE Times(r, c)
    BY <1>3, TimesHanded
  <2>4. Times(out.root, out.ksn) =< lost
    BY <1>1, <1>3, <2>1, NotBelowItself DEF Budget, Affordable, Produced, Counters
  <2>5. \A r \in Ipks \cup {NoIpk}, c \in Counters : Times(r, c)' =< 1 + lost'
    BY <1>1, <2>2, <2>3, <2>4 DEF Budget
  <2>6. disk # Unreadable => Affordable(disk.root, disk.ksn)'
    <3> SUFFICES ASSUME disk # Unreadable, NEW c \in Counters, ~Less(c, disk.ksn)
                 PROVE  Times(disk.root, c)' =< lost
      BY <1>1 DEF Affordable
    <3>1. Times(disk.root, c) =< lost
      BY <2>1 DEF Budget, Affordable
    <3>2. disk.root = out.root /\ c = out.ksn => Times(disk.root, c) < lost
      BY <1>1, <1>3 DEF Budget
    <3> QED BY <1>1, <2>2, <2>3, <3>1, <3>2
  <2> QED BY <1>1, <2>5, <2>6 DEF Budget
<1> QED BY <1>2, <1>3

LEMMA BudgetStep ==
  ASSUME TypeOK, TypeOK', Keyed, Budget, [Next]_vars
  PROVE  Budget'
<1>0. CallAt /\ CountAt /\ BlankOK /\ (RegsAt \/ env.root = NoIpk \/ pc = "Idle")
  BY DEF Keyed
<1>1. CASE \/ \E r \in Ipks : CallIpkLod(r)
           \/ \E c \in {"Dta", "Key"} : CallRqt(c)
           \/ RqtDta1 \/ RqtDta2 \/ NewKey \/ NewKey1 \/ NewKey2 \/ NewKey3 \/ NewKey4
  BY <1>0, <1>1, BudgetCall
<1>2. CASE IpkLod
  <2>1. CASE pc' = "Idle"
    BY <1>2, <2>1, BudgetReturned DEF IpkLod
  <2>2. CASE pc' = "NewKey3"
    <3>1. call = "Ipk" /\ keylod = 0 /\ UNCHANGED <<call, keylod, used, lost>>
      BY <1>0, <1>2 DEF IpkLod, TypeOK, CallAt
    <3> QED BY <2>2, <3>1 DEF Budget, Times, Answering
  <2> QED BY <1>2, <2>1, <2>2 DEF IpkLod, ReturnToCaller
<1>3. CASE End \/ EndWrite \/ Return
  BY <1>0, <1>3, BudgetEnd, BudgetEndWrite, BudgetReturn
<1>4. CASE Crash
  BY <1>4, BudgetReturned DEF Crash, ReturnToCaller
<1>5. CASE UNCHANGED vars
  BY <1>5 DEF vars, Budget, Affordable, Times
<1> QED BY <1>1, <1>2, <1>3, <1>4, <1>5 DEF Next, Step

-----------------------------------------------------------------------------
(***************************************************************************)
(* The numbers, as long as no save was lost.                               *)
(***************************************************************************)

LEMMA GoodInit == Init => Good
BY DEF Init, Good, EnvOK, OutOK, DiskOK, UsedOK, Ordered, Answering

\* What a step that touches neither the results nor the saved record preserves.
LEMMA UsedKept ==
  ASSUME Good, UNCHANGED <<disk, used>>, loaded \subseteq loaded',
         keylod' \in {0, keylod}, pc' \notin {"EndWrite", "Return"}
  PROVE  DiskOK' /\ UsedOK' /\ Ordered'
<1>1. DiskOK'
  BY DEF Good, DiskOK, Above
<1>2. UsedOK'
  BY DEF Good, UsedOK
<1>3. Ordered'
  BY DEF Good, Ordered
<1> QED BY <1>1, <1>2, <1>3

\* Coming back to the main loop is always allowed.
LEMMA GoodReturn ==
  ASSUME Good, ReturnToCaller, UNCHANGED <<disk, used>>, loaded \subseteq loaded',
         keylod' \in {0, keylod}
  PROVE  Good'
<1>1. pc' = "Idle"
  BY DEF ReturnToCaller
<1>2. EnvOK' /\ OutOK'
  BY <1>1 DEF EnvOK, OutOK, Answering
<1>3. DiskOK' /\ UsedOK' /\ Ordered'
  BY <1>1, UsedKept
<1> QED BY <1>2, <1>3 DEF Good

LEMMA IpkLodStep ==
  ASSUME TypeOK, CallAt, Good, IpkLod
  PROVE  Good'
<1>1. CASE ReturnToCaller /\ disk' \in {disk, Unreadable}
  BY <1>1 DEF IpkLod, ReturnToCaller, Good, EnvOK, OutOK, DiskOK, UsedOK, Ordered, Above, Answering
<1>2. CASE /\ env' = [env EXCEPT !.fut[W] = [key |-> Ipek(env.root), ok |-> TRUE],
                                 !.inKey = W, !.sft = 1]
           /\ disk' = ZeroEnv /\ pc' = "NewKey3" /\ IpkLod
  <2>1. env'.root = env.root /\ call = "Ipk" /\ keylod = 0 /\ pc # "Idle"
    BY <1>2 DEF TypeOK, DkpEnv, CallAt, IpkLod
  <2> QED BY <1>2, <2>1 DEF IpkLod, Good, EnvOK, OutOK, DiskOK, UsedOK, Ordered
<1> QED BY <1>1, <1>2 DEF IpkLod

LEMMA CallRqtStep ==
  ASSUME TypeOK, Good, NEW c \in {"Dta", "Key"}, CallRqt(c)
  PROVE  Good'
<1> USE DEF CallRqt
<1>1. CASE ReturnToCaller /\ keylod' = 0
  BY <1>1, GoodReturn
<1>2. CASE disk # Unreadable /\ env' = disk /\ pc' = "RqtDta1" /\ UNCHANGED <<out, keylod>>
  <2>1. DiskOK' /\ UsedOK' /\ Ordered'
    BY <1>2, UsedKept
  <2>2. disk.root \in loaded /\ Above(disk)
    BY <1>2 DEF Good, DiskOK
  <2>3. EnvOK' /\ OutOK'
    BY <1>2, <2>2 DEF EnvOK, OutOK, Above, Answering
  <2> QED BY <2>1, <2>3 DEF Good
<1> QED BY <1>1, <1>2

LEMMA RqtDta1Step ==
  ASSUME TypeOK, TypeOK', CallAt, RegsAt, Good, RqtDta1
  PROVE  Good'
<1>1. Above(env) /\ env.root \in loaded /\ pc = "RqtDta1"
  BY DEF Good, EnvOK, RqtDta1
<1>2. CASE Exhausted
  BY <1>2, GoodReturn DEF Exhausted, RqtDta1
<1>3. CASE pc' \in {"RqtDta1", "RqtDta2"}
  <2>1. DiskOK' /\ UsedOK' /\ Ordered' /\ OutOK'
    BY <1>3, UsedKept DEF RqtDta1, OutOK, Answering, Exhausted, ReturnToCaller
  <2>2. /\ env'.root = env.root /\ env'.cnt = env.cnt /\ UNCHANGED <<used, loaded>>
        /\ env'.ksn = env.ksn \/ Less(env.ksn, env'.ksn)
    BY <1>3, RqtDta1Regs DEF RqtDta1, Exhausted, ReturnToCaller, TypeOK, DkpEnv
  <2>3. Above(env)'
    <3> SUFFICES ASSUME NEW i \in 1 .. Len(used), used[i].root = env.root
                 PROVE  Less(used[i].ksn, env'.ksn) /\ used[i].nmb =< env'.cnt
      BY <2>2 DEF Above
    <3>1. Less(used[i].ksn, env.ksn) /\ used[i].nmb =< env.cnt
      BY <1>1 DEF Above
    <3>2. used[i].ksn \in SUBSET Bits /\ env.ksn \in SUBSET Bits /\ env'.ksn \in SUBSET Bits
      BY UsedTypes DEF TypeOK, DkpEnv, Counters
    <3> QED BY <2>2, <3>1, <3>2, LessTransitive
  <2>4. EnvOK'
    BY <1>1, <2>2, <2>3 DEF EnvOK
  <2> QED BY <2>1, <2>4 DEF Good
<1> QED BY <1>1, <1>2, <1>3 DEF RqtDta1

LEMMA RqtDta2Step ==
  ASSUME TypeOK, Good, RqtDta2
  PROVE  Good'
<1> USE DEF RqtDta2
<1>1. CASE ReturnToCaller
  BY <1>1, GoodReturn
<1>2. CASE /\ env' = [env EXCEPT !.cnt = @ + 1]
           /\ out' = [root |-> env.root, ksn |-> env.ksn,
                      key |-> env.fut[env.inKey].key, nmb |-> env.cnt + 1]
           /\ pc' = "NewKey"
  <2>1. DiskOK' /\ UsedOK' /\ Ordered'
    BY <1>2, UsedKept
  <2>2. Above(env) /\ env.root \in loaded
    BY DEF Good, EnvOK
  <2>3. env'.root = env.root /\ env'.cnt = env.cnt + 1 /\ env.cnt \in Nat
    BY <1>2 DEF TypeOK, DkpEnv
  <2>4. \A i \in 1 .. Len(used) :
          used[i].root = env.root => Less(used[i].ksn, env.ksn) /\ used[i].nmb < env.cnt + 1
    BY <2>2, <2>3, UsedTypes DEF Above
  <2>5. EnvOK' /\ OutOK'
    BY <1>2, <2>2, <2>3, <2>4 DEF EnvOK, OutOK
  <2> QED BY <2>1, <2>5 DEF Good
<1> QED BY <1>1, <1>2

\* The labels between a result and the saving of the registers.
LEMMA NewKeyStep ==
  ASSUME TypeOK, CallAt, Good, NewKey \/ NewKey1 \/ NewKey2 \/ NewKey3 \/ NewKey4
  PROVE  Good'
<1>1. CASE Exhausted
  BY <1>1, GoodReturn DEF Exhausted, NewKey, NewKey1, NewKey2, NewKey3, NewKey4
<1>2. CASE pc' # "Idle"
  <2>1. env'.cnt = env.cnt
    <3>1. Erase(env).cnt = env.cnt /\ Erase(env) \in DkpEnv
      BY EraseIs, EraseType DEF TypeOK
    <3> QED BY <1>2, <3>1 DEF TypeOK, DkpEnv, NewKey, NewKey1, NewKey2, NewKey3, NewKey4, Exhausted,
               ReturnToCaller
  <2>2. env'.root = env.root /\ UNCHANGED <<call, used, loaded, keylod, out, disk>> /\ pc # "Idle"
    BY <1>2, InCall DEF NewKey, NewKey1, NewKey2, NewKey3, NewKey4, Exhausted, ReturnToCaller
  <2>3. pc' \notin {"RqtDta1", "RqtDta2", "EndWrite", "Return"} /\ pc \in Answering
    BY DEF NewKey, NewKey1, NewKey2, NewKey3, NewKey4, Exhausted, ReturnToCaller, Answering
  <2>4. DiskOK' /\ UsedOK' /\ Ordered'
    BY <2>2, <2>3, UsedKept
  <2> QED BY <2>1, <2>2, <2>3, <2>4 DEF Good, EnvOK, OutOK
<1> QED BY <1>1, <1>2 DEF NewKey, NewKey1, NewKey2, NewKey3, NewKey4

\* At the end of a call the new counter is above everything handed out.
LEMMA AboveAtEnd ==
  ASSUME TypeOK, CallAt, CountAt, Good, pc \in {"EndWrite", "Return"}
  PROVE  env.root \in loaded /\ Above(env)
<1>1. env.root \in loaded /\ (call = "Ipk" => Unused(env.root))
  BY DEF Good, EnvOK, CallAt
<1>2. CASE call = "Ipk"
  BY <1>1, <1>2 DEF Above, Unused
<1>3. CASE call # "Ipk"
  <2> SUFFICES ASSUME NEW i \in 1 .. Len(used), used[i].root = env.root
               PROVE  Less(used[i].ksn, env.ksn) /\ used[i].nmb =< env.cnt
    BY <1>1 DEF Above
  <2>1. /\ Less(used[i].ksn, out.ksn) /\ used[i].nmb < out.nmb
        /\ out.nmb = env.cnt /\ Less(out.ksn, env.ksn)
    BY <1>3 DEF Good, OutOK, CountAt, Answering
  <2>2. used[i].ksn \in SUBSET Bits /\ used[i].nmb \in Nat
    BY UsedTypes
  <2>3. out.ksn \in SUBSET Bits /\ env.ksn \in SUBSET Bits /\ env.cnt \in Nat
    BY <1>3 DEF TypeOK, Answering, Produced, DkpEnv, Counters
  <2>4. Less(used[i].ksn, env.ksn)
    BY <2>1, <2>2, <2>3, LessTransitive
  <2> QED BY <2>1, <2>2, <2>3, <2>4
<1> QED BY <1>2, <1>3

LEMMA EndStep ==
  ASSUME TypeOK, Good, End, lost' = lost
  PROVE  Good'
<1>1. disk' = Unreadable /\ pc' = "EndWrite" /\ UNCHANGED <<call, env, out, keylod, used, loaded>>
  BY MaxLostAssumption DEF TypeOK, End
<1> QED BY <1>1 DEF End, Good, EnvOK, OutOK, DiskOK, UsedOK, Ordered, Answering

LEMMA EndWriteStep ==
  ASSUME TypeOK, CallAt, CountAt, Good, EndWrite
  PROVE  Good'
<1>1. env.root \in loaded /\ Above(env)
  BY AboveAtEnd DEF EndWrite
<1> QED BY <1>1 DEF EndWrite, Good, EnvOK, OutOK, DiskOK, UsedOK, Ordered, Answering, Above

\* Handing the result over: the saved record is already past it.
LEMMA ReturnStep ==
  ASSUME TypeOK, CallAt, CountAt, Good, Return
  PROVE  Good'
<1>1. pc' = "Idle" /\ UNCHANGED <<disk, loaded>> /\ pc = "Return"
  BY DEF Return, ReturnToCaller
<1>2. EnvOK' /\ OutOK'
  BY <1>1 DEF EnvOK, OutOK, Answering
<1>3. env.root \in loaded /\ Above(env) /\ disk \in {env, Unreadable}
  BY <1>1, AboveAtEnd DEF Good, DiskOK
<1>4. CASE call = "Ipk"
  <2>1. used' = used
    BY <1>4 DEF Return
  <2> QED BY <1>1, <1>2, <1>3, <2>1 DEF Good, DiskOK, Above, UsedOK, Ordered
<1>5. CASE call # "Ipk"
  <2> DEFINE n == Len(used)
  <2>2. /\ Len(used') = n + 1 /\ n \in Nat
        /\ used'[n + 1] = out /\ \A i \in 1 .. n : used'[i] = used[i]
    BY <1>5, Handed
  <2>3. /\ out.root = env.root /\ out.nmb = env.cnt
        /\ \A i \in 1 .. n :
             used[i].root = out.root => Less(used[i].ksn, out.ksn) /\ used[i].nmb < out.nmb
        /\ Less(out.ksn, env.ksn)
    BY <1>1, <1>5 DEF Good, OutOK, CountAt, Answering
  <2>4. \A i \in 1 .. n + 1 : i = n + 1 \/ i \in 1 .. n
    BY <2>2
  <2>5. disk # Unreadable => Above(disk)'
    <3> SUFFICES ASSUME disk = env, NEW i \in 1 .. n + 1, used'[i].root = env.root
                 PROVE  Less(used'[i].ksn, env.ksn) /\ used'[i].nmb =< env.cnt
      BY <1>1, <1>3, <2>2 DEF Above
    <3>1. CASE i = n + 1
      BY <2>2, <2>3, <3>1 DEF TypeOK, DkpEnv
    <3>2. CASE i \in 1 .. n
      BY <1>3, <2>2, <3>2 DEF Above
    <3> QED BY <2>4, <3>1, <3>2
  <2>6. DiskOK'
    BY <1>1, <1>3, <2>5 DEF DiskOK
  <2>7. UsedOK'
    BY <1>1, <1>3, <2>2, <2>3, <2>4 DEF Good, UsedOK
  <2>8. Ordered'
    <3> SUFFICES ASSUME NEW i \in 1 .. n + 1, NEW j \in 1 .. n + 1,
                        i < j, used'[i].root = used'[j].root
                 PROVE  Less(used'[i].ksn, used'[j].ksn) /\ used'[i].nmb < used'[j].nmb
      BY <2>2 DEF Ordered
    <3>1. i \in 1 .. n
      BY <2>2
    <3>2. CASE j = n + 1
      BY <2>2, <2>3, <3>1, <3>2
    <3>3. CASE j \in 1 .. n
      BY <2>2, <3>1, <3>3 DEF Good, Ordered
    <3> QED BY <2>4, <3>2, <3>3
  <2> QED BY <1>2, <2>6, <2>7, <2>8 DEF Good
<1> QED BY <1>4, <1>5

LEMMA GoodStep ==
  ASSUME TypeOK, TypeOK', Keyed, Good, [Next]_vars, lost' = lost
  PROVE  Good'
<1>0. CallAt /\ CountAt /\ (pc = "RqtDta1" => RegsAt)
  <2>1. pc # "Idle" => env.root # NoIpk
    BY NoIpkAssumption DEF Good, EnvOK, TypeOK
  <2> QED BY <2>1 DEF Keyed
<1>1. ASSUME NEW r \in Ipks, CallIpkLod(r) PROVE Good'
  <2>1. env'.root = r /\ loaded \subseteq loaded' /\ r \in loaded' /\ pc' = "IpkLod"
    BY <1>1 DEF CallIpkLod, ZeroEnv
  <2>2. DiskOK' /\ UsedOK' /\ Ordered'
    BY <1>1, <2>1, UsedKept DEF CallIpkLod
  <2> QED BY <2>1, <2>2 DEF Good, EnvOK, OutOK, Answering
<1>2. CASE IpkLod
  BY <1>0, <1>2, IpkLodStep
<1>3. ASSUME NEW c \in {"Dta", "Key"}, CallRqt(c) PROVE Good'
  BY <1>3, CallRqtStep
<1>4. CASE RqtDta1
  BY <1>0, <1>4, RqtDta1Step DEF RqtDta1
<1>5. CASE RqtDta2
  BY <1>5, RqtDta2Step
<1>6. CASE NewKey \/ NewKey1 \/ NewKey2 \/ NewKey3 \/ NewKey4
  BY <1>0, <1>6, NewKeyStep
<1>7. CASE End
  BY <1>7, EndStep
<1>8. CASE EndWrite
  BY <1>0, <1>8, EndWriteStep
<1>9. CASE Return
  BY <1>0, <1>9, ReturnStep
<1>10. CASE Crash
  BY <1>10, GoodReturn DEF Crash
<1>11. CASE UNCHANGED vars
  BY <1>11 DEF vars, Good, EnvOK, OutOK, DiskOK, UsedOK, Ordered, Above
<1> QED BY <1>1, <1>2, <1>3, <1>4, <1>5, <1>6, <1>7, <1>8, <1>9, <1>10, <1>11 DEF Next, Step

-----------------------------------------------------------------------------
(***************************************************************************)
(* The theorems.                                                           *)
(***************************************************************************)

LEMMA LostNeverFalls == TypeOK /\ [Next]_vars => lost' = lost \/ lost' = lost + 1
BY DEF Next, Step, vars, CallIpkLod, IpkLod, CallRqt, RqtDta1, RqtDta2, NewKey, NewKey1,
       NewKey2, NewKey3, NewKey4, End, EndWrite, Return, Crash

LEMMA TypeInit == Init => TypeOK
BY ZeroEnvType, MaxLostAssumption DEF Init, TypeOK, Labels, Answering

\* The types are right in every reachable state, for every width of the counter,
\* every set of initial keys and every number of lost saves (crpdkp.cpp:25-448).
THEOREM TypeCorrect == Spec => []TypeOK
<1>1. TypeOK /\ [Next]_vars => TypeOK'
  BY TypeStep
<1> QED BY TypeInit, <1>1, PTL DEF Spec

LEMMA IInvStep == IInv /\ [Next]_vars => IInv'
<1> SUFFICES ASSUME IInv, [Next]_vars PROVE IInv'
  OBVIOUS
<1>1. TypeOK /\ TypeOK'
  BY TypeStep DEF IInv
<1>2. Keyed' /\ Budget'
  BY <1>1, KeyedStep, BudgetStep DEF IInv
<1>3. ASSUME lost' = 0 PROVE Good'
  <2>1. lost \in Nat
    BY <1>1, MaxLostAssumption DEF TypeOK
  <2>2. lost = 0 /\ lost' = lost
    BY <1>1, <1>3, <2>1, LostNeverFalls
  <2> QED BY <1>1, <2>2, GoodStep DEF IInv
<1> QED BY <1>1, <1>2, <1>3 DEF IInv

\* The inductive invariant holds in every reachable state: at each label the
\* registers hold exactly the keys of the counters still to come
\* (crpdkp.cpp:25-301).
THEOREM Invariant == Spec => []IInv
<1>1. Init => IInv
  BY TypeInit, KeyedInit, BudgetInit, GoodInit DEF IInv
<1> QED BY <1>1, IInvStep, PTL DEF Spec

\* Every result under an injected key is under the key the host derives for its
\* serial number, whatever saves were lost, and there is no other as long as none
\* was (crpdkp.cpp:104-192, 242-291).
THEOREM HostAgrees == Spec => []HostAgreement
<1>1. IInv => HostAgreement
  <2> SUFFICES ASSUME IInv, NEW i \in 1 .. Len(used)
               PROVE  IF used[i].root \in Ipks
                      THEN used[i].key = HostKey(used[i].root, used[i].ksn) ELSE lost # 0
    BY DEF HostAgreement
  <2>1. CASE used[i].root \in Ipks
    BY <2>1, NoIpkAssumption DEF IInv, Keyed, RightKey
  <2>2. CASE used[i].root \notin Ipks
    BY <2>2 DEF IInv, Good, UsedOK, TypeOK
  <2> QED BY <2>1, <2>2
<1> QED BY <1>1, Invariant, PTL

\* Serial numbers of one initial key strictly rise, through every power loss,
\* short write and failed call, as long as no save lost its file
\* (crpdkp.cpp:242-300).
THEOREM KsnRises == Spec => []KsnIncreasing
<1>1. IInv => KsnIncreasing
  BY DEF IInv, Good, Ordered, KsnIncreasing
<1> QED BY <1>1, Invariant, PTL

\* So do the transaction numbers sent beside them (crpdkp.cpp:736).
THEOREM NumberRises == Spec => []NumberIncreasing
<1>1. IInv => NumberIncreasing
  BY DEF IInv, Good, Ordered, NumberIncreasing
<1> QED BY <1>1, Invariant, PTL

\* No counter of an injected key with more than MaxOnes ones is used, even after a
\* lost save (crpdkp.cpp:62-70).
THEOREM OnesBounded == Spec => []FewOnes
<1>1. IInv => FewOnes
  BY NoIpkAssumption DEF IInv, Keyed, RightKey, FewOnes
<1> QED BY <1>1, Invariant, PTL

\* The register search never meets a zero counter (crpdkp.cpp:206-240).
THEOREM NoWrapInSearch == Spec => []SearchNeverWraps
<1>1. IInv => SearchNeverWraps
  BY NoIpkAssumption DEF IInv, Keyed, RegsAt, SoundRec, SearchNeverWraps
<1> QED BY <1>1, Invariant, PTL

\* A lost save lets every serial number go out once more, and no number goes out more
\* often than the lost saves pay for: through loads, power losses, exhausted keys
\* and the zeroed record of a load that could not be saved (crpdkp.cpp:293-300).
THEOREM ReuseIsPaidFor == Spec => []ReuseOnlyAfterLostSave
<1>1. IInv => ReuseOnlyAfterLostSave
  <2> SUFFICES ASSUME IInv, NEW i \in 1 .. Len(used)
               PROVE  Times(used[i].root, used[i].ksn) =< 1 + lost
    BY DEF ReuseOnlyAfterLostSave, Times
  <2>1. used[i].root \in Ipks \cup {NoIpk} /\ used[i].ksn \in Counters
    BY UsedTypes DEF IInv, Counters
  <2> QED BY <2>1 DEF IInv, Budget
<1> QED BY <1>1, Invariant, PTL

\* Results go out only while the key is switched on, and it is switched on only at the
\* end of a load that derived every register from the injected key
\* (dkprsa.cpp:418-428).
THEOREM SwitchedOnByLoad == Spec => KeySwitchedOn
<1> DEFINE A == /\ used' # used => keylod = 1
                /\ keylod = 0 /\ keylod' = 1 /\ lost = 0
                     => /\ call = "Ipk" /\ disk \in {env, Unreadable}
                        /\ \A b \in Bits \ {W} :
                             env.fut[b] = [key |-> HostKey(env.root, {b}), ok |-> TRUE]
<1>1. IInv /\ [Next]_vars => [A]_vars
  <2> SUFFICES ASSUME IInv, Next PROVE A
    OBVIOUS
  <2>0. CallAt /\ TypeOK
    BY DEF IInv, Keyed
  <2>1. used' # used => keylod = 1
    BY <2>0, UsedOnlyAtReturn DEF CallAt, Return
  <2>2. ASSUME keylod = 0, keylod' = 1, lost = 0
        PROVE  /\ call = "Ipk" /\ disk \in {env, Unreadable}
               /\ \A b \in Bits \ {W} :
                    env.fut[b] = [key |-> HostKey(env.root, {b}), ok |-> TRUE]
    <3>1. Return /\ call = "Ipk"
      BY <2>2 DEF Next, Step, CallIpkLod, IpkLod, CallRqt, RqtDta1, RqtDta2, NewKey, NewKey1,
             NewKey2, NewKey3, NewKey4, End, EndWrite, Return, Crash, Exhausted
    <3>2. disk \in {env, Unreadable}
      BY <2>2, <3>1 DEF IInv, Good, DiskOK, Return
    <3>3. env.root # NoIpk
      BY <2>0, <3>1 DEF CallAt, Return
    <3>4. SoundRec(env) /\ env.ksn = {W}
      BY <3>1, <3>3 DEF IInv, Keyed, RegsAt, Return
    <3>5. ASSUME NEW b \in Bits \ {W}
          PROVE  env.fut[b] = [key |-> HostKey(env.root, {b}), ok |-> TRUE]
      <4>1. Future({W}, b)
        <5> DEFINE S == {W}
        <5>1. S \in SUBSET Bits /\ W \in S /\ \A c \in S : c =< W
          BY LastBit
        <5> HIDE DEF S
        <5>2. Max(S) = W
          BY <5>1, MaxIs
        <5> QED BY <5>2, BitsAreInts DEF Future, S
      <4>2. FutureCounter({W}, b) = {b}
        BY BitsAreInts, LastBit DEF FutureCounter
      <4>3. env.fut[b].ok /\ env.fut[b].key = HostKey(env.root, {b})
        BY <3>4, <4>1, <4>2 DEF SoundRec, Waits
      <4>4. env.fut[b] \in FutKey
        BY <2>0, WAssumption DEF TypeOK, DkpEnv, Bits, Registers
      <4> QED BY <4>3, <4>4 DEF FutKey
    <3> QED BY <3>1, <3>2, <3>5
  <2> QED BY <2>1, <2>2
<1> QED BY <1>1, Invariant, PTL DEF Spec, KeySwitchedOn

\* No key of a saved record is an ancestor of a key of an earlier counter: its
\* path holds its own counter, which is no prefix of a smaller one.
LEMMA NoAncestor ==
  ASSUME NEW U \in SUBSET Bits, NEW C \in SUBSET Bits, C # {}, Less(U, C),
         NEW b \in Bits, Future(C, b), NEW r
  PROVE  ~ (HostKey(r, FutureCounter(C, b)).path \subseteq HostKey(r, U).path)
<1> DEFINE D == FutureCounter(C, b)
<1>1. b \in D /\ \A i \in D : i =< b
  BY BitsAreInts DEF FutureCounter
<1>2. {i \in D : i =< b} = D
  BY <1>1
<1>3. D \in HostKey(r, D).path
  BY <1>1, <1>2 DEF HostKey
<1>4. D \in HostKey(r, U).path => D \subseteq U
  BY DEF HostKey
<1>5. ASSUME D \subseteq U PROVE FALSE
  <2>1. PICK x \in C \ U : \A i \in Bits : i < x => (i \in U <=> i \in C)
    BY DEF Less
  <2>2. x =< Max(C) /\ x \in Bits
    BY <2>1, MaxOfBits
  <2>3. ~ (x < b)
    <3>1. x < b => x \in D
      BY <2>1 DEF FutureCounter
    <3> QED BY <1>5, <2>1, <3>1
  <2>4. x # b
    BY <1>1, <1>5, <2>1
  <2>5. b < x
    BY <2>2, <2>3, <2>4, BitsAreInts
  <2>6. b \in C
    BY <1>1, <1>5, <2>1, <2>5
  <2>7. b = Max(C)
    BY <2>6 DEF Future
  <2> QED BY <2>2, <2>5, <2>7, BitsAreInts
<1> QED BY <1>3, <1>4, <1>5

\* The saved record cannot rebuild a key already handed out
\* (crpdkp.cpp:942-960).
THEOREM KeysForgotten == Spec => []ForwardSecrecy
<1>1. IInv => ForwardSecrecy
  <2> SUFFICES ASSUME IInv, lost = 0, disk # Unreadable,
                      NEW i \in 1 .. Len(used), NEW b \in Registers,
                      disk.fut[b].ok, disk.fut[b].key.root = used[i].root
               PROVE  ~ (disk.fut[b].key.path \subseteq used[i].key.path)
    BY DEF ForwardSecrecy
  <2>1. TypeOK /\ Good
    BY DEF IInv
  <2>2. used[i].root \in Ipks /\ used[i].key = HostKey(used[i].root, used[i].ksn)
    BY <2>1, NoIpkAssumption DEF IInv, Keyed, RightKey, Good, UsedOK, TypeOK
  <2>3. used[i].root # NoIpk
    BY <2>2, NoIpkAssumption
  <2>4. disk # ZeroEnv
    BY <2>3 DEF ZeroEnv, ZeroKey
  <2>5. SoundRec(disk) /\ Above(disk)
    BY <2>1, <2>4, NoIpkAssumption DEF IInv, Keyed, Good, DiskOK, TypeOK
  <2>6. b \in Bits
    BY <2>3, <2>5, WAssumption DEF SoundRec, Registers, Bits
  <2>7. Future(disk.ksn, b) /\ disk.fut[b].key = HostKey(disk.root, FutureCounter(disk.ksn, b))
    BY <2>5, <2>6 DEF SoundRec, Waits
  <2>8. disk.root = used[i].root
    BY <2>7 DEF HostKey
  <2>9. Less(used[i].ksn, disk.ksn)
    BY <2>5, <2>8 DEF Above
  <2>10. used[i].ksn \in SUBSET Bits /\ disk.ksn \in SUBSET Bits /\ disk.ksn # {}
    BY <2>1, <2>5, UsedTypes DEF TypeOK, DkpEnv, Counters, SoundRec
  <2> QED BY <2>2, <2>6, <2>7, <2>8, <2>9, <2>10, NoAncestor
<1> QED BY <1>1, Invariant, PTL

\* The engine implements the promise made to the host (crpdkp.cpp:25-448).
THEOREM Implementation == Spec => ImplementsKeySource
<1>1. Init => Source!Init
  BY DEF Init, Source!Init
<1>2. IInv /\ IInv' /\ [Next]_vars => [Source!Next]_<<used, lost # 0>>
  <2> SUFFICES ASSUME IInv, IInv', [Next]_vars
               PROVE  [Source!Next]_<<used, lost # 0>>
    OBVIOUS
  <2>0. TypeOK /\ TypeOK'
    BY DEF IInv
  <2>1. CASE lost' # 0
    BY <2>1 DEF Source!Next, Source!Break
  <2>2. CASE lost' = 0
    <3>1. lost = 0
      BY <2>0, <2>2, LostNeverFalls, MaxLostAssumption DEF TypeOK
    <3>2. CASE used' = used
      BY <2>2, <3>1, <3>2
    <3>3. CASE used' # used
      <4> DEFINE n == Len(used)
      <4>1. Return /\ call # "Ipk"
        BY <3>3, UsedOnlyAtReturn
      <4>2. pc \in Answering /\ out \in Produced /\ used \in Seq(Produced)
        BY <2>0, <4>1 DEF TypeOK, Return, Answering
      <4>3. used' = Append(used, out) /\ Len(used') = n + 1 /\ used'[Len(used')] = out
        BY <4>1, <4>2 DEF Return
      <4>4. /\ out.root = env.root /\ env.root \in loaded
            /\ \A i \in 1 .. n :
                 used[i].root = out.root => Less(used[i].ksn, out.ksn) /\ used[i].nmb < out.nmb
        BY <3>1, <4>1, <4>2 DEF IInv, Good, OutOK, EnvOK, Keyed, CountAt, Return
      <4>5. out.root \in Ipks /\ RightKey(out)
        BY <4>1, <4>2, <4>4, <2>0, NoIpkAssumption DEF TypeOK, IInv, Keyed, KeyAt, Return
      <4>6. Source!Fresh(out)
        BY <4>4, <4>5 DEF Source!Fresh, Cheap, RightKey
      <4>7. Source!Issue
        BY <2>2, <3>1, <3>3, <4>3, <4>6 DEF Source!Issue
      <4> QED BY <4>7 DEF Source!Next
    <3> QED BY <3>2, <3>3
  <2> QED BY <2>1, <2>2
<1>3. QED
  BY <1>1, <1>2, Invariant, PTL DEF Spec, ImplementsKeySource, Source!Spec
=============================================================================
