----------------------------- MODULE LinkProofs ------------------------------
(***************************************************************************)
(* Theorems about the line, for any frames and any bounds on frames, line  *)
(* and buffer: IInv is inductive, and from it NothingOfEndedSale,          *)
(* ResendBound and RunsWholeFrame.                                         *)
(*                                                                         *)
(* What carries it is the order of the frames: those still on the line or  *)
(* in the buffer are later than any the program knows of.  A step of the   *)
(* line or of the receive loop only drops or moves items, so the first     *)
(* halves that are left keep their order and are shifted by a constant.    *)
(***************************************************************************)
EXTENDS Link, SequenceTheorems, TLAPS

USE LinkAssumption
USE DEF vars, boot, line, map

-----------------------------------------------------------------------------
(* Items and what is pending *)

LEMMA Numbers ==
  ASSUME NEW x \in Items
  PROVE  x.id \in Nat /\ x.id \in 0..MaxFrames
BY DEF Items

LEMMA Joined ==
  ASSUME NEW b \in Seq(Items), NEW w \in Seq(Items)
  PROVE  /\ b \o w \in Seq(Items) /\ Len(b \o w) = Len(b) + Len(w)
         /\ Len(b) \in Nat /\ Len(w) \in Nat /\ Len(b \o w) \in Nat
         /\ \A i \in 1..Len(b) : (b \o w)[i] = b[i] /\ b[i] \in Items
         /\ \A i \in 1..Len(w) : (b \o w)[Len(b) + i] = w[i] /\ w[i] \in Items
         /\ \A i \in 1..Len(b) + Len(w) : (b \o w)[i] =
              IF i <= Len(b) THEN b[i] ELSE w[i - Len(b)]
         /\ \A i \in 1..Len(b \o w) : (b \o w)[i] \in Items /\ (b \o w)[i].id \in Nat
<1>2. Len(b) \in Nat /\ Len(w) \in Nat
  BY LenProperties
<1>3. /\ b \o w \in Seq(Items) /\ Len(b \o w) = Len(b) + Len(w)
      /\ \A i \in 1..Len(b) + Len(w) : (b \o w)[i] = IF i <= Len(b) THEN b[i] ELSE w[i - Len(b)]
  BY ConcatProperties
<1>4. \A i \in 1..Len(b) : (b \o w)[i] = b[i] /\ b[i] \in Items
  BY <1>2, <1>3, ElementOfSeq
<1>5. \A i \in 1..Len(w) : (b \o w)[Len(b) + i] = w[i] /\ w[i] \in Items
  <2> TAKE i \in 1..Len(w)
  <2>1. Len(b) + i \in 1..Len(b) + Len(w) /\ ~(Len(b) + i <= Len(b))
        /\ (Len(b) + i) - Len(b) = i
    BY <1>2
  <2>2. (b \o w)[Len(b) + i] = w[i]
    BY <1>3, <2>1
  <2> QED  BY <2>2, ElementOfSeq
<1>6. \A i \in 1..Len(b \o w) : (b \o w)[i] \in Items /\ (b \o w)[i].id \in Nat
  BY <1>3, ElementOfSeq, Numbers
<1> QED  BY <1>2, <1>3, <1>4, <1>5, <1>6

\* First halves that are only shifted keep their order.
LEMMA Shifted ==
  ASSUME TypeOK, TypeOK', PendingInv, count' = count, Used' \subseteq Used \cup {0},
         NEW c \in Nat,
         \A i \in 1..Len(pending)' : IsFirst(pending'[i]) =>
            i + c \in 1..Len(pending) /\ pending'[i] = pending[i + c]
  PROVE  PendingInv'
<1>1. Len(pending) \in Nat /\ Len(pending)' \in Nat
  BY Joined DEF TypeOK, pending
<1>2. \A i, j \in 1..Len(pending)' :
        i < j /\ IsFirst(pending'[i]) /\ IsFirst(pending'[j]) => pending'[i].id < pending'[j].id
  <2> SUFFICES ASSUME NEW i \in 1..Len(pending)', NEW j \in 1..Len(pending)', i < j,
                      IsFirst(pending'[i]), IsFirst(pending'[j])
               PROVE  pending'[i].id < pending'[j].id
    OBVIOUS
  <2>1. /\ i + c \in 1..Len(pending) /\ pending'[i] = pending[i + c]
        /\ j + c \in 1..Len(pending) /\ pending'[j] = pending[j + c] /\ i + c < j + c
    OBVIOUS
  <2>2. IsFirst(pending[i + c]) /\ IsFirst(pending[j + c])
    BY <2>1
  <2> QED  BY <2>1, <2>2 DEF PendingInv
<1>3. \A i \in 1..Len(pending)' : IsFirst(pending'[i]) =>
         pending'[i].id \in 1..count' /\ \A n \in Used' : n < pending'[i].id
  <2> SUFFICES ASSUME NEW i \in 1..Len(pending)', IsFirst(pending'[i])
               PROVE  pending'[i].id \in 1..count' /\ \A n \in Used' : n < pending'[i].id
    OBVIOUS
  <2>1. i + c \in 1..Len(pending) /\ pending'[i] = pending[i + c]
    OBVIOUS
  <2>2. pending'[i].id \in 1..count /\ \A n \in Used : n < pending'[i].id
    BY <2>1 DEF PendingInv
  <2>3. count \in Nat
    BY DEF TypeOK
  <2> QED  BY <2>2, <2>3
<1> QED  BY <1>2, <1>3 DEF PendingInv, IsFirst
\* Nothing moves.
LEMMA NothingMoves ==
  ASSUME TypeOK, TypeOK', PendingInv, count' = count, Used' \subseteq Used \cup {0},
         buf' = buf, wire' = wire
  PROVE  PendingInv'
<1>0. buf \in Seq(Items) /\ wire \in Seq(Items) /\ buf' \in Seq(Items) /\ wire' \in Seq(Items)
  BY DEF TypeOK
<1>1. Len(buf) \in Nat /\ Len(wire) \in Nat /\ Len(buf') \in Nat /\ Len(wire') \in Nat
  BY <1>0, LenProperties
<1>2. /\ Len(pending) = Len(buf) + Len(wire)
      /\ Len(pending)' = Len(buf') + Len(wire')
      /\ \A i \in 1..Len(buf) + Len(wire) :
           pending[i] = IF i <= Len(buf) THEN buf[i] ELSE wire[i - Len(buf)]
      /\ \A i \in 1..Len(buf') + Len(wire') :
           pending'[i] = IF i <= Len(buf') THEN buf'[i] ELSE wire'[i - Len(buf')]
  BY <1>0, Joined DEF pending
<1>c. 0 \in Nat
  BY <1>1
<1>3. \A i \in 1..Len(pending)' : IsFirst(pending'[i]) =>
         i + 0 \in 1..Len(pending) /\ pending'[i] = pending[i + 0]
  BY <1>1, <1>2
<1> QED  BY <1>c, <1>3, Shifted

\* An item goes from the line into the buffer.
LEMMA ItemReceived ==
  ASSUME TypeOK, TypeOK', PendingInv, count' = count, Used' \subseteq Used \cup {0},
         wire # <<>>, buf' = Append(buf, Head(wire)), wire' = Tail(wire)
  PROVE  PendingInv'
<1>0. buf \in Seq(Items) /\ wire \in Seq(Items) /\ buf' \in Seq(Items) /\ wire' \in Seq(Items)
  BY DEF TypeOK
<1>1. Len(buf) \in Nat /\ Len(wire) \in Nat /\ Len(buf') \in Nat /\ Len(wire') \in Nat
  BY <1>0, LenProperties
<1>2. /\ Len(pending) = Len(buf) + Len(wire)
      /\ Len(pending)' = Len(buf') + Len(wire')
      /\ \A i \in 1..Len(buf) + Len(wire) :
           pending[i] = IF i <= Len(buf) THEN buf[i] ELSE wire[i - Len(buf)]
      /\ \A i \in 1..Len(buf') + Len(wire') :
           pending'[i] = IF i <= Len(buf') THEN buf'[i] ELSE wire'[i - Len(buf')]
  BY <1>0, Joined DEF pending
<1>c. 0 \in Nat
  BY <1>1
<1>3. \A i \in 1..Len(pending)' : IsFirst(pending'[i]) =>
         i + 0 \in 1..Len(pending) /\ pending'[i] = pending[i + 0]
  <2> SUFFICES ASSUME NEW i \in 1..Len(pending)'
               PROVE  i \in 1..Len(pending) /\ pending'[i] = pending[i]
    BY <1>1, <1>2
  <2>1. /\ Len(wire') = Len(wire) - 1 /\ Head(wire) = wire[1] /\ Head(wire) \in Items
        /\ \A j \in 1..Len(wire') : wire'[j] = wire[j + 1]
    BY <1>0, HeadTailProperties
  <2>2. /\ Len(buf') = Len(buf) + 1 /\ buf'[Len(buf) + 1] = wire[1]
        /\ \A j \in 1..Len(buf) : buf'[j] = buf[j]
    BY <1>0, <2>1, AppendProperties
  <2>3. i \in 1..Len(pending) /\ i \in 1..Len(buf') + Len(wire')
    BY <1>1, <1>2, <2>1, <2>2
  <2>4. CASE i <= Len(buf)
    BY <1>1, <1>2, <2>2, <2>3, <2>4
  <2>5. CASE i = Len(buf) + 1
    <3>1. pending'[i] = wire[1]
      BY <1>1, <1>2, <2>2, <2>3, <2>5
    <3>2. pending[i] = wire[i - Len(buf)] /\ i - Len(buf) = 1
      BY <1>1, <1>2, <2>3, <2>5
    <3> QED  BY <2>3, <3>1, <3>2
  <2>6. CASE i > Len(buf) + 1
    <3>1. pending'[i] = wire'[i - (Len(buf) + 1)]
      BY <1>1, <1>2, <2>2, <2>3, <2>6
    <3>2. i - (Len(buf) + 1) \in 1..Len(wire')
      BY <1>1, <2>2, <2>3, <2>6
    <3>3. wire'[i - (Len(buf) + 1)] = wire[(i - (Len(buf) + 1)) + 1]
      BY <2>1, <3>2
    <3>4. (i - (Len(buf) + 1)) + 1 = i - Len(buf)
      BY <1>1
    <3>5. pending[i] = wire[i - Len(buf)]
      BY <1>1, <1>2, <2>3, <2>6
    <3> QED  BY <2>3, <3>1, <3>3, <3>4, <3>5
  <2> QED  BY <1>1, <2>4, <2>5, <2>6
<1> QED  BY <1>c, <1>3, Shifted

\* What was received is dropped.
LEMMA BufferDropped ==
  ASSUME TypeOK, TypeOK', PendingInv, count' = count, Used' \subseteq Used \cup {0},
         buf' = <<>>, wire' = wire
  PROVE  PendingInv'
<1>0. buf \in Seq(Items) /\ wire \in Seq(Items) /\ buf' \in Seq(Items) /\ wire' \in Seq(Items)
  BY DEF TypeOK
<1>1. Len(buf) \in Nat /\ Len(wire) \in Nat /\ Len(buf') \in Nat /\ Len(wire') \in Nat
  BY <1>0, LenProperties
<1>2. /\ Len(pending) = Len(buf) + Len(wire)
      /\ Len(pending)' = Len(buf') + Len(wire')
      /\ \A i \in 1..Len(buf) + Len(wire) :
           pending[i] = IF i <= Len(buf) THEN buf[i] ELSE wire[i - Len(buf)]
      /\ \A i \in 1..Len(buf') + Len(wire') :
           pending'[i] = IF i <= Len(buf') THEN buf'[i] ELSE wire'[i - Len(buf')]
  BY <1>0, Joined DEF pending
<1>c. Len(buf) \in Nat
  BY <1>1
<1>3. \A i \in 1..Len(pending)' : IsFirst(pending'[i]) =>
         i + Len(buf) \in 1..Len(pending) /\ pending'[i] = pending[i + Len(buf)]
  <2>1. Len(buf') = 0
    OBVIOUS
  <2>2. \A i \in 1..Len(wire) : pending'[i] = wire[i]
    BY <1>1, <1>2, <2>1
  <2>3. \A i \in 1..Len(wire) : i + Len(buf) \in 1..Len(pending) /\ pending[i + Len(buf)] = wire[i]
    <3> TAKE i \in 1..Len(wire)
    <3>1. i + Len(buf) \in 1..Len(buf) + Len(wire) /\ ~(i + Len(buf) <= Len(buf))
          /\ (i + Len(buf)) - Len(buf) = i
      BY <1>1
    <3> QED  BY <1>2, <3>1
  <2> QED  BY <1>1, <1>2, <2>1, <2>2, <2>3
<1> QED  BY <1>c, <1>3, Shifted

\* What is on the line is dropped.
LEMMA LineDropped ==
  ASSUME TypeOK, TypeOK', PendingInv, count' = count, Used' \subseteq Used \cup {0},
         buf' = buf, wire' = <<>>
  PROVE  PendingInv'
<1>0. buf \in Seq(Items) /\ wire \in Seq(Items) /\ buf' \in Seq(Items) /\ wire' \in Seq(Items)
  BY DEF TypeOK
<1>1. Len(buf) \in Nat /\ Len(wire) \in Nat /\ Len(buf') \in Nat /\ Len(wire') \in Nat
  BY <1>0, LenProperties
<1>2. /\ Len(pending) = Len(buf) + Len(wire)
      /\ Len(pending)' = Len(buf') + Len(wire')
      /\ \A i \in 1..Len(buf) + Len(wire) :
           pending[i] = IF i <= Len(buf) THEN buf[i] ELSE wire[i - Len(buf)]
      /\ \A i \in 1..Len(buf') + Len(wire') :
           pending'[i] = IF i <= Len(buf') THEN buf'[i] ELSE wire'[i - Len(buf')]
  BY <1>0, Joined DEF pending
<1>c. 0 \in Nat
  BY <1>1
<1>3. \A i \in 1..Len(pending)' : IsFirst(pending'[i]) =>
         i + 0 \in 1..Len(pending) /\ pending'[i] = pending[i + 0]
  <2>1. Len(wire') = 0
    OBVIOUS
  <2> QED  BY <1>1, <1>2, <2>1
<1> QED  BY <1>c, <1>3, Shifted

\* An item that begins no frame is added.
LEMMA ItemAdded ==
  ASSUME TypeOK, TypeOK', PendingInv, count' = count, Used' \subseteq Used \cup {0},
         NEW x \in Items, ~IsFirst(x), buf' = buf, wire' = Append(wire, x)
  PROVE  PendingInv'
<1>0. buf \in Seq(Items) /\ wire \in Seq(Items) /\ buf' \in Seq(Items) /\ wire' \in Seq(Items)
  BY DEF TypeOK
<1>1. Len(buf) \in Nat /\ Len(wire) \in Nat /\ Len(buf') \in Nat /\ Len(wire') \in Nat
  BY <1>0, LenProperties
<1>2. /\ Len(pending) = Len(buf) + Len(wire)
      /\ Len(pending)' = Len(buf') + Len(wire')
      /\ \A i \in 1..Len(buf) + Len(wire) :
           pending[i] = IF i <= Len(buf) THEN buf[i] ELSE wire[i - Len(buf)]
      /\ \A i \in 1..Len(buf') + Len(wire') :
           pending'[i] = IF i <= Len(buf') THEN buf'[i] ELSE wire'[i - Len(buf')]
  BY <1>0, Joined DEF pending
<1>c. 0 \in Nat
  BY <1>1
<1>3. \A i \in 1..Len(pending)' : IsFirst(pending'[i]) =>
         i + 0 \in 1..Len(pending) /\ pending'[i] = pending[i + 0]
  <2>1. Len(wire') = Len(wire) + 1 /\ wire'[Len(wire) + 1] = x /\ \A j \in 1..Len(wire) : wire'[j] = wire[j]
    BY <1>0, AppendProperties
  <2> SUFFICES ASSUME NEW i \in 1..Len(pending)', IsFirst(pending'[i])
               PROVE  i \in 1..Len(pending) /\ pending'[i] = pending[i]
    BY <1>1, <1>2
  <2>2. CASE i <= Len(buf) + Len(wire)
    BY <1>1, <1>2, <2>1, <2>2
  <2>3. CASE i = Len(buf) + Len(wire) + 1
    <3>1. i \in 1..Len(buf') + Len(wire') /\ ~(i <= Len(buf'))
      BY <1>1, <2>1, <2>3
    <3>2. pending'[i] = wire'[i - Len(buf')]
      BY <1>2, <3>1
    <3>3. i - Len(buf') = Len(wire) + 1
      BY <1>1, <2>3
    <3> QED  BY <2>1, <3>2, <3>3
  <2> QED  BY <1>1, <1>2, <2>1, <2>2, <2>3
<1> QED  BY <1>c, <1>3, Shifted

\* An item is read from the line, the buffer being empty.
LEMMA ItemRead ==
  ASSUME TypeOK, TypeOK', PendingInv, count' = count, Used' \subseteq Used \cup {0},
         buf = <<>>, buf' = <<>>, wire # <<>>, wire' = Tail(wire)
  PROVE  PendingInv'
<1>0. buf \in Seq(Items) /\ wire \in Seq(Items) /\ buf' \in Seq(Items) /\ wire' \in Seq(Items)
  BY DEF TypeOK
<1>1. Len(buf) \in Nat /\ Len(wire) \in Nat /\ Len(buf') \in Nat /\ Len(wire') \in Nat
  BY <1>0, LenProperties
<1>2. /\ Len(pending) = Len(buf) + Len(wire)
      /\ Len(pending)' = Len(buf') + Len(wire')
      /\ \A i \in 1..Len(buf) + Len(wire) :
           pending[i] = IF i <= Len(buf) THEN buf[i] ELSE wire[i - Len(buf)]
      /\ \A i \in 1..Len(buf') + Len(wire') :
           pending'[i] = IF i <= Len(buf') THEN buf'[i] ELSE wire'[i - Len(buf')]
  BY <1>0, Joined DEF pending
<1>c. 1 \in Nat
  BY <1>1
<1>3. \A i \in 1..Len(pending)' : IsFirst(pending'[i]) =>
         i + 1 \in 1..Len(pending) /\ pending'[i] = pending[i + 1]
  <2>1. Len(wire') = Len(wire) - 1 /\ \A j \in 1..Len(wire') : wire'[j] = wire[j + 1]
    BY <1>0, HeadTailProperties
  <2>2. Len(buf) = 0 /\ Len(buf') = 0
    OBVIOUS
  <2> QED  BY <1>1, <1>2, <2>1, <2>2
<1> QED  BY <1>c, <1>3, Shifted

\* A part of an item is read: the rest of it has no beginning.
LEMMA PartRead ==
  ASSUME TypeOK, TypeOK', PendingInv, count' = count, Used' \subseteq Used \cup {0},
         buf = <<>>, buf' = <<>>, wire # <<>>, wire' = <<Junk>> \o Tail(wire)
  PROVE  PendingInv'
<1>0. buf \in Seq(Items) /\ wire \in Seq(Items) /\ buf' \in Seq(Items) /\ wire' \in Seq(Items)
  BY DEF TypeOK
<1>1. Len(buf) \in Nat /\ Len(wire) \in Nat /\ Len(buf') \in Nat /\ Len(wire') \in Nat
  BY <1>0, LenProperties
<1>2. /\ Len(pending) = Len(buf) + Len(wire)
      /\ Len(pending)' = Len(buf') + Len(wire')
      /\ \A i \in 1..Len(buf) + Len(wire) :
           pending[i] = IF i <= Len(buf) THEN buf[i] ELSE wire[i - Len(buf)]
      /\ \A i \in 1..Len(buf') + Len(wire') :
           pending'[i] = IF i <= Len(buf') THEN buf'[i] ELSE wire'[i - Len(buf')]
  BY <1>0, Joined DEF pending
<1>c. 0 \in Nat
  BY <1>1
<1>3. \A i \in 1..Len(pending)' : IsFirst(pending'[i]) =>
         i + 0 \in 1..Len(pending) /\ pending'[i] = pending[i + 0]
  <2>1. Len(Tail(wire)) = Len(wire) - 1 /\ \A j \in 1..Len(Tail(wire)) : Tail(wire)[j] = wire[j + 1]
    BY <1>0, HeadTailProperties
  <2>2. /\ Tail(wire) \in Seq(Items) /\ Junk \in Items /\ ~IsFirst(Junk)
    BY <1>0, HeadTailProperties DEF Junk, Item, Items, IsFirst
  <2>3. <<Junk>> \in Seq(Items) /\ Len(<<Junk>>) = 1 /\ <<Junk>>[1] = Junk
    BY <2>2
  <2>4. /\ Len(wire') = 1 + Len(Tail(wire)) /\ wire'[1] = Junk
        /\ \A j \in 1..1 + Len(Tail(wire)) : wire'[j] = IF j <= 1 THEN <<Junk>>[j] ELSE Tail(wire)[j - 1]
    BY <2>2, <2>3, Joined
  <2>5. Len(buf) = 0 /\ Len(buf') = 0
    OBVIOUS
  <2>6. \A i \in 1..Len(wire) : pending'[i] = wire'[i] /\ pending[i] = wire[i]
    BY <1>1, <1>2, <2>1, <2>4, <2>5
  <2>7. \A i \in 2..Len(wire) : wire'[i] = wire[i]
    <3> TAKE i \in 2..Len(wire)
    <3>1. i - 1 \in 1..Len(Tail(wire)) /\ i \in 1..1 + Len(Tail(wire)) /\ ~(i <= 1) /\ (i - 1) + 1 = i
      BY <1>1, <2>1
    <3> QED  BY <2>1, <2>4, <3>1
  <2> SUFFICES ASSUME NEW i \in 1..Len(pending)', IsFirst(pending'[i])
               PROVE  i \in 1..Len(pending) /\ pending'[i] = pending[i]
    BY <1>1, <1>2
  <2>8. i \in 1..Len(wire) /\ i \in 1..Len(pending)
    BY <1>1, <1>2, <2>1, <2>4, <2>5
  <2>9. i # 1
    BY <2>2, <2>4, <2>6, <2>8
  <2> QED  BY <1>1, <2>6, <2>7, <2>8, <2>9
<1> QED  BY <1>c, <1>3, Shifted
-----------------------------------------------------------------------------
(* Steps that leave the frames the program knows of alone *)

\* What is left to show of such a step.
LEMMA Quiet ==
  ASSUME IInv, TypeOK', PendingInv', UNCHANGED <<run, stValue, fate, count>>,
         pc' = "Do" <=> pc = "Do",
         pc' \in {"ConnUsb", "ConnCom"} => tries' > 0,
         pc' \notin {"Recv", "Got"} => buf' = <<>>,
         pc' = "WaitAck" => tries' < MaxTry
  PROVE  IInv'
<1>0. TypeOK /\ PendingInv /\ StepInv /\ NothingOfEndedSale /\ ResendBound /\ RunsWholeFrame
  BY DEF IInv
<1>1. StepInv'
  BY <1>0 DEF StepInv, Used
<1>2. NothingOfEndedSale' /\ ResendBound'
  BY <1>0 DEF NothingOfEndedSale, ResendBound
<1>3. RunsWholeFrame'
  BY <1>0 DEF RunsWholeFrame, Command
<1> QED  BY <1>1, <1>2, <1>3 DEF IInv

LEMMA SameUsed ==
  ASSUME UNCHANGED <<run, stValue, fate>>
  PROVE  Used' \subseteq Used \cup {0}
BY DEF Used

LEMMA ItemTypes ==
  /\ Junk \in Items
  /\ \A c \in Controls : Item(c, 0, NoFrame) \in Items /\ ~IsFirst(Item(c, 0, NoFrame))
  /\ \A i \in 0..MaxFrames : Item("Last", i, NoFrame) \in Items /\ ~IsFirst(Item("Last", i, NoFrame))
  /\ \A i \in 0..MaxFrames, f \in Frames : Item("First", i, f) \in Items
BY DEF Junk, Item, Items, IsFirst, Controls

\* The program comes up, or ends.
LEMMA BootStep ==
  ASSUME IInv, Boot
  PROVE  IInv'
<1>0. TypeOK /\ PendingInv /\ StepInv /\ NothingOfEndedSale /\ ResendBound /\ RunsWholeFrame
  BY DEF IInv
<1>1. /\ UNCHANGED <<run, stValue, fate, count>> /\ (pc' = "Do" <=> pc = "Do")
      /\ pc' \in {"ConnUsb", "ConnCom"} => tries' > 0
      /\ pc' \notin {"Recv", "Got"} => buf' = <<>>
      /\ pc' = "WaitAck" => tries' < MaxTry
  BY <1>0 DEF StepInv, ResendBound, MaxTry, Boot
<1>2. TypeOK'
  BY <1>0 DEF TypeOK, StepInv, Pcs, MaxTry, Boot
<1>3. Used' \subseteq Used \cup {0} /\ count' = count
  BY <1>1, SameUsed
<1>4. PendingInv'
  BY <1>0, <1>2, <1>3, NothingMoves DEF Boot
<1> QED  BY <1>1, <1>2, <1>4, Quiet

\* The communication daemon answers.
LEMMA InitComOkStep ==
  ASSUME IInv, InitComOk
  PROVE  IInv'
<1>0. TypeOK /\ PendingInv /\ StepInv /\ NothingOfEndedSale /\ ResendBound /\ RunsWholeFrame
  BY DEF IInv
<1>1. /\ UNCHANGED <<run, stValue, fate, count>> /\ (pc' = "Do" <=> pc = "Do")
      /\ pc' \in {"ConnUsb", "ConnCom"} => tries' > 0
      /\ pc' \notin {"Recv", "Got"} => buf' = <<>>
      /\ pc' = "WaitAck" => tries' < MaxTry
  BY <1>0 DEF StepInv, ResendBound, MaxTry, InitComOk
<1>2. TypeOK'
  BY <1>0 DEF TypeOK, StepInv, Pcs, MaxTry, InitComOk
<1>3. Used' \subseteq Used \cup {0} /\ count' = count
  BY <1>1, SameUsed
<1>4. PendingInv'
  BY <1>0, <1>2, <1>3, NothingMoves DEF InitComOk
<1> QED  BY <1>1, <1>2, <1>4, Quiet

\* The daemon is waited for.
LEMMA InitComFailsStep ==
  ASSUME IInv, InitComFails
  PROVE  IInv'
<1>0. TypeOK /\ PendingInv /\ StepInv /\ NothingOfEndedSale /\ ResendBound /\ RunsWholeFrame
  BY DEF IInv
<1>1. /\ UNCHANGED <<run, stValue, fate, count>> /\ (pc' = "Do" <=> pc = "Do")
      /\ pc' \in {"ConnUsb", "ConnCom"} => tries' > 0
      /\ pc' \notin {"Recv", "Got"} => buf' = <<>>
      /\ pc' = "WaitAck" => tries' < MaxTry
  BY <1>0 DEF StepInv, ResendBound, MaxTry, InitComFails
<1>2. TypeOK'
  BY <1>0 DEF TypeOK, StepInv, Pcs, MaxTry, InitComFails
<1>3. Used' \subseteq Used \cup {0} /\ count' = count
  BY <1>1, SameUsed
<1>4. PendingInv'
  BY <1>0, <1>2, <1>3, NothingMoves DEF InitComFails
<1> QED  BY <1>1, <1>2, <1>4, Quiet

\* An attempt to connect fails.
LEMMA ConnectFailsStep ==
  ASSUME IInv, ConnectFails
  PROVE  IInv'
<1>0. TypeOK /\ PendingInv /\ StepInv /\ NothingOfEndedSale /\ ResendBound /\ RunsWholeFrame
  BY DEF IInv
<1>t. pc \in {"ConnUsb", "ConnCom"} /\ tries \in 1..5 /\ tries' = tries - 1
  BY <1>0 DEF TypeOK, StepInv, ConnectFails
<1>a. tries' \in 0..5 /\ (tries' # 0 => tries' > 0)
  BY <1>t
<1>b. \/ tries' = 0 /\ inRes' = 1 /\ pc' \in {"Usb", "End"}
      \/ tries' # 0 /\ inRes' = inRes /\ pc' = pc
  BY <1>t DEF ConnectFails, After
<1>1. /\ UNCHANGED <<run, stValue, fate, count>> /\ (pc' = "Do" <=> pc = "Do")
      /\ pc' \in {"ConnUsb", "ConnCom"} => tries' > 0
      /\ pc' \notin {"Recv", "Got"} => buf' = <<>>
      /\ pc' = "WaitAck" => tries' < MaxTry
  BY <1>0, <1>t, <1>a, <1>b DEF StepInv, ConnectFails
<1>2. TypeOK'
  BY <1>0, <1>t, <1>a, <1>b DEF TypeOK, Pcs, ConnectFails
<1>3. Used' \subseteq Used \cup {0} /\ count' = count
  BY <1>1, SameUsed
<1>4. PendingInv'
  BY <1>0, <1>2, <1>3, NothingMoves DEF ConnectFails
<1> QED  BY <1>1, <1>2, <1>4, Quiet

\* The gadget mode is right.
LEMMA UsbLinkStep ==
  ASSUME IInv, UsbLink
  PROVE  IInv'
<1>0. TypeOK /\ PendingInv /\ StepInv /\ NothingOfEndedSale /\ ResendBound /\ RunsWholeFrame
  BY DEF IInv
<1>1. /\ UNCHANGED <<run, stValue, fate, count>> /\ (pc' = "Do" <=> pc = "Do")
      /\ pc' \in {"ConnUsb", "ConnCom"} => tries' > 0
      /\ pc' \notin {"Recv", "Got"} => buf' = <<>>
      /\ pc' = "WaitAck" => tries' < MaxTry
  BY <1>0 DEF StepInv, ResendBound, MaxTry, UsbLink
<1>2. TypeOK'
  BY <1>0 DEF TypeOK, StepInv, Pcs, MaxTry, UsbLink
<1>3. Used' \subseteq Used \cup {0} /\ count' = count
  BY <1>1, SameUsed
<1>4. PendingInv'
  BY <1>0, <1>2, <1>3, NothingMoves DEF UsbLink
<1> QED  BY <1>1, <1>2, <1>4, Quiet

\* The gadget mode is set, and the terminal started again.
LEMMA UsbRestartStep ==
  ASSUME IInv, UsbRestart
  PROVE  IInv'
<1>0. TypeOK /\ PendingInv /\ StepInv /\ NothingOfEndedSale /\ ResendBound /\ RunsWholeFrame
  BY DEF IInv
<1>1. /\ UNCHANGED <<run, stValue, fate, count>> /\ (pc' = "Do" <=> pc = "Do")
      /\ pc' \in {"ConnUsb", "ConnCom"} => tries' > 0
      /\ pc' \notin {"Recv", "Got"} => buf' = <<>>
      /\ pc' = "WaitAck" => tries' < MaxTry
  BY <1>0 DEF StepInv, ResendBound, MaxTry, UsbRestart
<1>2. TypeOK'
  <2>1. 0 \in 0..MaxFrames /\ 0 \in 0..5 /\ 0 \in {0, 1}
    OBVIOUS
  <2>2. /\ pc' \in Pcs /\ tries' \in 0..5 /\ half' \in 0..MaxFrames /\ inRes' \in {0, 1}
        /\ UNCHANGED <<wire, count, buf, run, inVal, flagC51, stValue, fate>>
    BY <1>0, <2>1 DEF TypeOK, Pcs, UsbRestart
  <2>3. boCtlsON' \in BOOLEAN /\ gadget' \in BOOLEAN /\ peer' \in BOOLEAN /\ open' \in BOOLEAN
    BY <1>0 DEF TypeOK, UsbRestart
  <2> QED  BY <1>0, <2>2, <2>3 DEF TypeOK
<1>3. Used' \subseteq Used \cup {0} /\ count' = count
  BY <1>1, SameUsed
<1>4. PendingInv'
  BY <1>0, <1>2, <1>3, NothingMoves DEF UsbRestart
<1> QED  BY <1>1, <1>2, <1>4, Quiet

\* The gadget mode is out of reach.
LEMMA UsbFailsStep ==
  ASSUME IInv, UsbFails
  PROVE  IInv'
<1>0. TypeOK /\ PendingInv /\ StepInv /\ NothingOfEndedSale /\ ResendBound /\ RunsWholeFrame
  BY DEF IInv
<1>1. /\ UNCHANGED <<run, stValue, fate, count>> /\ (pc' = "Do" <=> pc = "Do")
      /\ pc' \in {"ConnUsb", "ConnCom"} => tries' > 0
      /\ pc' \notin {"Recv", "Got"} => buf' = <<>>
      /\ pc' = "WaitAck" => tries' < MaxTry
  BY <1>0 DEF StepInv, ResendBound, MaxTry, UsbFails
<1>2. TypeOK'
  BY <1>0 DEF TypeOK, StepInv, Pcs, MaxTry, UsbFails
<1>3. Used' \subseteq Used \cup {0} /\ count' = count
  BY <1>1, SameUsed
<1>4. PendingInv'
  BY <1>0, <1>2, <1>3, NothingMoves DEF UsbFails
<1> QED  BY <1>1, <1>2, <1>4, Quiet

\* A pause ends the frame.
LEMMA RcvEndStep ==
  ASSUME IInv, RcvEnd
  PROVE  IInv'
<1>0. TypeOK /\ PendingInv /\ StepInv /\ NothingOfEndedSale /\ ResendBound /\ RunsWholeFrame
  BY DEF IInv
<1>1. /\ UNCHANGED <<run, stValue, fate, count>> /\ (pc' = "Do" <=> pc = "Do")
      /\ pc' \in {"ConnUsb", "ConnCom"} => tries' > 0
      /\ pc' \notin {"Recv", "Got"} => buf' = <<>>
      /\ pc' = "WaitAck" => tries' < MaxTry
  BY <1>0 DEF StepInv, ResendBound, MaxTry, RcvEnd
<1>2. TypeOK'
  BY <1>0 DEF TypeOK, StepInv, Pcs, MaxTry, RcvEnd
<1>3. Used' \subseteq Used \cup {0} /\ count' = count
  BY <1>1, SameUsed
<1>4. PendingInv'
  BY <1>0, <1>2, <1>3, NothingMoves DEF RcvEnd
<1> QED  BY <1>1, <1>2, <1>4, Quiet

\* A read error ends the frame.
LEMMA RcvErrorStep ==
  ASSUME IInv, RcvError
  PROVE  IInv'
<1>0. TypeOK /\ PendingInv /\ StepInv /\ NothingOfEndedSale /\ ResendBound /\ RunsWholeFrame
  BY DEF IInv
<1>1. /\ UNCHANGED <<run, stValue, fate, count>> /\ (pc' = "Do" <=> pc = "Do")
      /\ pc' \in {"ConnUsb", "ConnCom"} => tries' > 0
      /\ pc' \notin {"Recv", "Got"} => buf' = <<>>
      /\ pc' = "WaitAck" => tries' < MaxTry
  BY <1>0 DEF StepInv, ResendBound, MaxTry, RcvError
<1>2. TypeOK'
  BY <1>0 DEF TypeOK, StepInv, Pcs, MaxTry, RcvError
<1>3. Used' \subseteq Used \cup {0} /\ count' = count
  BY <1>1, SameUsed
<1>4. PendingInv'
  BY <1>0, <1>2, <1>3, NothingMoves DEF RcvError
<1> QED  BY <1>1, <1>2, <1>4, Quiet

\* The ECR goes.
LEMMA PeerDownStep ==
  ASSUME IInv, PeerDown
  PROVE  IInv'
<1>0. TypeOK /\ PendingInv /\ StepInv /\ NothingOfEndedSale /\ ResendBound /\ RunsWholeFrame
  BY DEF IInv
<1>1. /\ UNCHANGED <<run, stValue, fate, count>> /\ (pc' = "Do" <=> pc = "Do")
      /\ pc' \in {"ConnUsb", "ConnCom"} => tries' > 0
      /\ pc' \notin {"Recv", "Got"} => buf' = <<>>
      /\ pc' = "WaitAck" => tries' < MaxTry
  BY <1>0 DEF StepInv, ResendBound, MaxTry, PeerDown
<1>2. TypeOK'
  <2>1. 0 \in 0..MaxFrames /\ 0 \in 0..5 /\ 0 \in {0, 1}
    OBVIOUS
  <2>2. /\ pc' \in Pcs /\ tries' \in 0..5 /\ half' \in 0..MaxFrames /\ inRes' \in {0, 1}
        /\ UNCHANGED <<wire, count, buf, run, inVal, flagC51, stValue, fate>>
    BY <1>0, <2>1 DEF TypeOK, Pcs, PeerDown
  <2>3. boCtlsON' \in BOOLEAN /\ gadget' \in BOOLEAN /\ peer' \in BOOLEAN /\ open' \in BOOLEAN
    BY <1>0 DEF TypeOK, PeerDown
  <2> QED  BY <1>0, <2>2, <2>3 DEF TypeOK
<1>3. Used' \subseteq Used \cup {0} /\ count' = count
  BY <1>1, SameUsed
<1>4. PendingInv'
  BY <1>0, <1>2, <1>3, NothingMoves DEF PeerDown
<1> QED  BY <1>1, <1>2, <1>4, Quiet

\* The ECR comes back.
LEMMA PeerUpStep ==
  ASSUME IInv, PeerUp
  PROVE  IInv'
<1>0. TypeOK /\ PendingInv /\ StepInv /\ NothingOfEndedSale /\ ResendBound /\ RunsWholeFrame
  BY DEF IInv
<1>1. /\ UNCHANGED <<run, stValue, fate, count>> /\ (pc' = "Do" <=> pc = "Do")
      /\ pc' \in {"ConnUsb", "ConnCom"} => tries' > 0
      /\ pc' \notin {"Recv", "Got"} => buf' = <<>>
      /\ pc' = "WaitAck" => tries' < MaxTry
  BY <1>0 DEF StepInv, ResendBound, MaxTry, PeerUp
<1>2. TypeOK'
  BY <1>0 DEF TypeOK, StepInv, Pcs, MaxTry, PeerUp
<1>3. Used' \subseteq Used \cup {0} /\ count' = count
  BY <1>1, SameUsed
<1>4. PendingInv'
  BY <1>0, <1>2, <1>3, NothingMoves DEF PeerUp
<1> QED  BY <1>1, <1>2, <1>4, Quiet

\* A connection, and an empty line.
LEMMA ConnectOkStep ==
  ASSUME IInv, ConnectOk
  PROVE  IInv'
<1>0. TypeOK /\ PendingInv /\ StepInv /\ NothingOfEndedSale /\ ResendBound /\ RunsWholeFrame
  BY DEF IInv
<1>1. /\ UNCHANGED <<run, stValue, fate, count>> /\ (pc' = "Do" <=> pc = "Do")
      /\ pc' \in {"ConnUsb", "ConnCom"} => tries' > 0
      /\ pc' \notin {"Recv", "Got"} => buf' = <<>>
      /\ pc' = "WaitAck" => tries' < MaxTry
  BY <1>0 DEF StepInv, ResendBound, MaxTry, ConnectOk, After
<1>2. TypeOK'
  BY <1>0, EmptySeq DEF TypeOK, StepInv, Pcs, MaxTry, ConnectOk, After
<1>3. Used' \subseteq Used \cup {0} /\ count' = count
  BY <1>1, SameUsed
<1>4. PendingInv'
  BY <1>0, <1>2, <1>3, LineDropped DEF ConnectOk
<1> QED  BY <1>1, <1>2, <1>4, Quiet

\* The connection again, and an empty line.
LEMMA ReconnectStep ==
  ASSUME IInv, Reconnect
  PROVE  IInv'
<1>0. TypeOK /\ PendingInv /\ StepInv /\ NothingOfEndedSale /\ ResendBound /\ RunsWholeFrame
  BY DEF IInv
<1>1. /\ UNCHANGED <<run, stValue, fate, count>> /\ (pc' = "Do" <=> pc = "Do")
      /\ pc' \in {"ConnUsb", "ConnCom"} => tries' > 0
      /\ pc' \notin {"Recv", "Got"} => buf' = <<>>
      /\ pc' = "WaitAck" => tries' < MaxTry
  BY <1>0 DEF StepInv, ResendBound, MaxTry, Reconnect
<1>2. TypeOK'
  BY <1>0, EmptySeq DEF TypeOK, StepInv, Pcs, MaxTry, Reconnect
<1>3. Used' \subseteq Used \cup {0} /\ count' = count
  BY <1>1, SameUsed
<1>4. PendingInv'
  BY <1>0, <1>2, <1>3, LineDropped DEF Reconnect
<1> QED  BY <1>1, <1>2, <1>4, Quiet

\* The connection ends, and with it what was received.
LEMMA RcvLostStep ==
  ASSUME IInv, RcvLost
  PROVE  IInv'
<1>0. TypeOK /\ PendingInv /\ StepInv /\ NothingOfEndedSale /\ ResendBound /\ RunsWholeFrame
  BY DEF IInv
<1>1. /\ UNCHANGED <<run, stValue, fate, count>> /\ (pc' = "Do" <=> pc = "Do")
      /\ pc' \in {"ConnUsb", "ConnCom"} => tries' > 0
      /\ pc' \notin {"Recv", "Got"} => buf' = <<>>
      /\ pc' = "WaitAck" => tries' < MaxTry
  BY <1>0 DEF StepInv, ResendBound, MaxTry, RcvLost
<1>2. TypeOK'
  BY <1>0, EmptySeq DEF TypeOK, StepInv, Pcs, MaxTry, RcvLost
<1>3. Used' \subseteq Used \cup {0} /\ count' = count
  BY <1>1, SameUsed
<1>4. PendingInv'
  BY <1>0, <1>2, <1>3, BufferDropped DEF RcvLost
<1> QED  BY <1>1, <1>2, <1>4, Quiet

\* Nothing names a command.
LEMMA GotNoiseStep ==
  ASSUME IInv, GotNoise
  PROVE  IInv'
<1>0. TypeOK /\ PendingInv /\ StepInv /\ NothingOfEndedSale /\ ResendBound /\ RunsWholeFrame
  BY DEF IInv
<1>1. /\ UNCHANGED <<run, stValue, fate, count>> /\ (pc' = "Do" <=> pc = "Do")
      /\ pc' \in {"ConnUsb", "ConnCom"} => tries' > 0
      /\ pc' \notin {"Recv", "Got"} => buf' = <<>>
      /\ pc' = "WaitAck" => tries' < MaxTry
  BY <1>0 DEF StepInv, ResendBound, MaxTry, GotNoise
<1>2. TypeOK'
  BY <1>0, EmptySeq DEF TypeOK, StepInv, Pcs, MaxTry, GotNoise
<1>3. Used' \subseteq Used \cup {0} /\ count' = count
  BY <1>1, SameUsed
<1>4. PendingInv'
  BY <1>0, <1>2, <1>3, BufferDropped DEF GotNoise
<1> QED  BY <1>1, <1>2, <1>4, Quiet

\* A control character.
LEMMA GotControlStep ==
  ASSUME IInv, GotControl
  PROVE  IInv'
<1>0. TypeOK /\ PendingInv /\ StepInv /\ NothingOfEndedSale /\ ResendBound /\ RunsWholeFrame
  BY DEF IInv
<1>1. /\ UNCHANGED <<run, stValue, fate, count>> /\ (pc' = "Do" <=> pc = "Do")
      /\ pc' \in {"ConnUsb", "ConnCom"} => tries' > 0
      /\ pc' \notin {"Recv", "Got"} => buf' = <<>>
      /\ pc' = "WaitAck" => tries' < MaxTry
  BY <1>0 DEF StepInv, ResendBound, MaxTry, GotControl
<1>2. TypeOK'
  BY <1>0, EmptySeq DEF TypeOK, StepInv, Pcs, MaxTry, GotControl
<1>3. Used' \subseteq Used \cup {0} /\ count' = count
  BY <1>1, SameUsed
<1>4. PendingInv'
  BY <1>0, <1>2, <1>3, BufferDropped DEF GotControl
<1> QED  BY <1>1, <1>2, <1>4, Quiet

\* An item is received.
LEMMA RcvDataStep ==
  ASSUME IInv, RcvData
  PROVE  IInv'
<1>0. TypeOK /\ PendingInv /\ StepInv /\ NothingOfEndedSale /\ ResendBound /\ RunsWholeFrame
  BY DEF IInv
<1>1. /\ UNCHANGED <<run, stValue, fate, count>> /\ (pc' = "Do" <=> pc = "Do")
      /\ pc' \in {"ConnUsb", "ConnCom"} => tries' > 0
      /\ pc' \notin {"Recv", "Got"} => buf' = <<>>
      /\ pc' = "WaitAck" => tries' < MaxTry
  BY <1>0 DEF StepInv, ResendBound, MaxTry, RcvData
<1>2. TypeOK'
  BY <1>0, HeadTailProperties, AppendProperties DEF TypeOK, StepInv, Pcs, MaxTry, RcvData
<1>3. Used' \subseteq Used \cup {0} /\ count' = count
  BY <1>1, SameUsed
<1>4. PendingInv'
  BY <1>0, <1>2, <1>3, ItemReceived DEF RcvData
<1> QED  BY <1>1, <1>2, <1>4, Quiet

\* inWaitAck drops what is no acknowledgement.
LEMMA OtherReadStep ==
  ASSUME IInv, OtherRead
  PROVE  IInv'
<1>0. TypeOK /\ PendingInv /\ StepInv /\ NothingOfEndedSale /\ ResendBound /\ RunsWholeFrame
  BY DEF IInv
<1>1. /\ UNCHANGED <<run, stValue, fate, count>> /\ (pc' = "Do" <=> pc = "Do")
      /\ pc' \in {"ConnUsb", "ConnCom"} => tries' > 0
      /\ pc' \notin {"Recv", "Got"} => buf' = <<>>
      /\ pc' = "WaitAck" => tries' < MaxTry
  BY <1>0 DEF StepInv, ResendBound, MaxTry, OtherRead
<1>2. TypeOK'
  BY <1>0, HeadTailProperties DEF TypeOK, StepInv, Pcs, MaxTry, OtherRead
<1>3. Used' \subseteq Used \cup {0} /\ count' = count
  BY <1>1, SameUsed
<1>4. PendingInv'
  <2>1. buf = <<>>
    BY <1>0 DEF StepInv, OtherRead
  <2> QED  BY <1>0, <1>2, <1>3, <2>1, ItemRead DEF OtherRead
<1> QED  BY <1>1, <1>2, <1>4, Quiet

\* inWaitAck reads an ACK.
LEMMA AckReadStep ==
  ASSUME IInv, AckRead
  PROVE  IInv'
<1>0. TypeOK /\ PendingInv /\ StepInv /\ NothingOfEndedSale /\ ResendBound /\ RunsWholeFrame
  BY DEF IInv
<1>1. /\ UNCHANGED <<run, stValue, fate, count>> /\ (pc' = "Do" <=> pc = "Do")
      /\ pc' \in {"ConnUsb", "ConnCom"} => tries' > 0
      /\ pc' \notin {"Recv", "Got"} => buf' = <<>>
      /\ pc' = "WaitAck" => tries' < MaxTry
  BY <1>0 DEF StepInv, ResendBound, MaxTry, AckRead
<1>2. TypeOK'
  <2>1. wire \in Seq(Items) /\ wire # <<>>
    BY <1>0 DEF TypeOK, AckRead, Reads
  <2>2. Tail(wire) \in Seq(Items) /\ <<Junk>> \o Tail(wire) \in Seq(Items)
    <3>1. Tail(wire) \in Seq(Items)
      BY <2>1, HeadTailProperties
    <3>2. <<Junk>> \in Seq(Items)
      BY ItemTypes
    <3> QED  BY <3>1, <3>2, ConcatProperties
  <2>3. wire' \in Seq(Items)
    BY <2>2 DEF AckRead, Rest
  <2>4. tries' \in 0..5
    BY <1>0 DEF TypeOK, ResendBound, MaxTry, AckRead
  <2> QED  BY <1>0, <2>3, <2>4 DEF TypeOK, Pcs, AckRead
<1>3. Used' \subseteq Used \cup {0} /\ count' = count
  BY <1>1, SameUsed
<1>4. PendingInv'
  <2>1. buf = <<>> /\ buf' = <<>> /\ wire # <<>>
    BY <1>0 DEF StepInv, AckRead, Reads
  <2>2. CASE wire' = Tail(wire)
    BY <1>0, <1>2, <1>3, <2>1, <2>2, ItemRead
  <2>3. CASE wire' = <<Junk>> \o Tail(wire)
    BY <1>0, <1>2, <1>3, <2>1, <2>3, PartRead
  <2> QED  BY <2>2, <2>3 DEF AckRead, Rest
<1> QED  BY <1>1, <1>2, <1>4, Quiet

\* inWaitAck reads a NAK.
LEMMA NakReadStep ==
  ASSUME IInv, NakRead
  PROVE  IInv'
<1>0. TypeOK /\ PendingInv /\ StepInv /\ NothingOfEndedSale /\ ResendBound /\ RunsWholeFrame
  BY DEF IInv
<1>1. /\ UNCHANGED <<run, stValue, fate, count>> /\ (pc' = "Do" <=> pc = "Do")
      /\ pc' \in {"ConnUsb", "ConnCom"} => tries' > 0
      /\ pc' \notin {"Recv", "Got"} => buf' = <<>>
      /\ pc' = "WaitAck" => tries' < MaxTry
  BY <1>0 DEF StepInv, ResendBound, MaxTry, NakRead
<1>2. TypeOK'
  <2>1. wire \in Seq(Items) /\ wire # <<>>
    BY <1>0 DEF TypeOK, NakRead, Reads
  <2>2. Tail(wire) \in Seq(Items) /\ <<Junk>> \o Tail(wire) \in Seq(Items)
    <3>1. Tail(wire) \in Seq(Items)
      BY <2>1, HeadTailProperties
    <3>2. <<Junk>> \in Seq(Items)
      BY ItemTypes
    <3> QED  BY <3>1, <3>2, ConcatProperties
  <2>3. wire' \in Seq(Items)
    BY <2>2 DEF NakRead, Rest
  <2>4. tries' \in 0..5
    BY <1>0 DEF TypeOK, ResendBound, MaxTry, NakRead
  <2> QED  BY <1>0, <2>3, <2>4 DEF TypeOK, Pcs, NakRead
<1>3. Used' \subseteq Used \cup {0} /\ count' = count
  BY <1>1, SameUsed
<1>4. PendingInv'
  <2>1. buf = <<>> /\ buf' = <<>> /\ wire # <<>>
    BY <1>0 DEF StepInv, NakRead, Reads
  <2>2. CASE wire' = Tail(wire)
    BY <1>0, <1>2, <1>3, <2>1, <2>2, ItemRead
  <2>3. CASE wire' = <<Junk>> \o Tail(wire)
    BY <1>0, <1>2, <1>3, <2>1, <2>3, PartRead
  <2> QED  BY <2>2, <2>3 DEF NakRead, Rest
<1> QED  BY <1>1, <1>2, <1>4, Quiet

\* The second half of a frame.
LEMMA EcrLastStep ==
  ASSUME IInv, EcrLast
  PROVE  IInv'
<1>0. TypeOK /\ PendingInv /\ StepInv /\ NothingOfEndedSale /\ ResendBound /\ RunsWholeFrame
  BY DEF IInv
<1>1. /\ UNCHANGED <<run, stValue, fate, count>> /\ (pc' = "Do" <=> pc = "Do")
      /\ pc' \in {"ConnUsb", "ConnCom"} => tries' > 0
      /\ pc' \notin {"Recv", "Got"} => buf' = <<>>
      /\ pc' = "WaitAck" => tries' < MaxTry
  BY <1>0 DEF StepInv, ResendBound, MaxTry, EcrLast
<1>2. TypeOK'
  BY <1>0, ItemTypes, AppendProperties DEF TypeOK, StepInv, Pcs, MaxTry, EcrLast
<1>3. Used' \subseteq Used \cup {0} /\ count' = count
  BY <1>1, SameUsed
<1>4. PendingInv'
  <2>1. Item("Last", half, NoFrame) \in Items /\ ~IsFirst(Item("Last", half, NoFrame))
    BY <1>0, ItemTypes DEF TypeOK
  <2> QED  BY <1>0, <1>2, <1>3, <2>1, ItemAdded DEF EcrLast
<1> QED  BY <1>1, <1>2, <1>4, Quiet

\* A control character of the ECR.
LEMMA EcrControlStep ==
  ASSUME IInv, NEW c \in Controls, EcrControl(c)
  PROVE  IInv'
<1>0. TypeOK /\ PendingInv /\ StepInv /\ NothingOfEndedSale /\ ResendBound /\ RunsWholeFrame
  BY DEF IInv
<1>1. /\ UNCHANGED <<run, stValue, fate, count>> /\ (pc' = "Do" <=> pc = "Do")
      /\ pc' \in {"ConnUsb", "ConnCom"} => tries' > 0
      /\ pc' \notin {"Recv", "Got"} => buf' = <<>>
      /\ pc' = "WaitAck" => tries' < MaxTry
  BY <1>0 DEF StepInv, ResendBound, MaxTry, EcrControl
<1>2. TypeOK'
  BY <1>0, ItemTypes, AppendProperties DEF TypeOK, StepInv, Pcs, MaxTry, EcrControl
<1>3. Used' \subseteq Used \cup {0} /\ count' = count
  BY <1>1, SameUsed
<1>4. PendingInv'
  <2>1. Item(c, 0, NoFrame) \in Items /\ ~IsFirst(Item(c, 0, NoFrame))
    BY ItemTypes
  <2> QED  BY <1>0, <1>2, <1>3, <2>1, ItemAdded DEF EcrControl
<1> QED  BY <1>1, <1>2, <1>4, Quiet

\* The first half of a frame, later than all that are known.
LEMMA EcrFirstStep ==
  ASSUME IInv, NEW f \in Frames, EcrFirst(f)
  PROVE  IInv'
<1>0. TypeOK /\ PendingInv /\ StepInv /\ NothingOfEndedSale /\ ResendBound /\ RunsWholeFrame
  BY DEF IInv
<1>e. /\ UNCHANGED <<pc, tries, boCtlsON, gadget, inRes, peer, open, buf, run, inVal, flagC51,
                      stValue, fate>>
      /\ count' = count + 1 /\ half' = count + 1 /\ count + 1 \in 1..MaxFrames
      /\ wire' = Append(wire, Item("First", count + 1, f))
  BY <1>0 DEF TypeOK, EcrFirst
<1>f. Item("First", count + 1, f) \in Items /\ Item("First", count + 1, f).id = count + 1
  BY <1>e DEF Item, Items
<1>w. /\ buf \in Seq(Items) /\ wire \in Seq(Items) /\ count \in Nat
      /\ Len(buf) \in Nat /\ Len(wire) \in Nat
  BY <1>0, LenProperties DEF TypeOK
<1>a. /\ wire' \in Seq(Items) /\ Len(wire') = Len(wire) + 1
      /\ wire'[Len(wire) + 1] = Item("First", count + 1, f)
      /\ \A i \in 1..Len(wire) : wire'[i] = wire[i]
  BY <1>e, <1>f, <1>w, AppendProperties
<1>1. TypeOK'
  <2>1. count' \in 0..MaxFrames /\ half' \in 0..MaxFrames
    BY <1>e, <1>w
  <2> QED  BY <1>0, <1>e, <1>a, <2>1 DEF TypeOK
<1>2. Used' = Used /\ \A n \in Used : n =< count
  BY <1>0, <1>e DEF Used, StepInv
<1>n. \A n \in Used : n \in Nat
  BY <1>0 DEF Used, TypeOK, Runs, Ids
<1>3. StepInv'
  <2>1. \A n \in Used' : n =< count'
    BY <1>2, <1>n, <1>w, <1>e
  <2> QED  BY <1>0, <1>e, <2>1 DEF StepInv
<1>4. NothingOfEndedSale' /\ ResendBound' /\ RunsWholeFrame'
  BY <1>0, <1>e DEF NothingOfEndedSale, ResendBound, RunsWholeFrame, Command
<1>5. /\ Len(pending) = Len(buf) + Len(wire) /\ Len(pending)' = Len(pending) + 1
      /\ \A i \in 1..Len(pending) : pending'[i] = pending[i]
      /\ pending'[Len(pending) + 1] = Item("First", count + 1, f)
      /\ \A i \in 1..Len(pending) : pending[i].id \in Nat
  <2>1. /\ Len(buf \o wire) = Len(buf) + Len(wire)
        /\ \A i \in 1..Len(buf) + Len(wire) :
             (buf \o wire)[i] = IF i <= Len(buf) THEN buf[i] ELSE wire[i - Len(buf)]
        /\ \A i \in 1..Len(buf \o wire) : (buf \o wire)[i].id \in Nat
    BY <1>w, Joined
  <2>2. /\ Len(buf \o wire') = Len(buf) + Len(wire) + 1
        /\ \A i \in 1..Len(buf) + Len(wire) + 1 :
             (buf \o wire')[i] = IF i <= Len(buf) THEN buf[i] ELSE wire'[i - Len(buf)]
    <3>1. Len(buf) + Len(wire') = Len(buf) + Len(wire) + 1
      BY <1>w, <1>a
    <3>2. /\ Len(buf \o wire') = Len(buf) + Len(wire')
          /\ \A i \in 1..Len(buf) + Len(wire') :
               (buf \o wire')[i] = IF i <= Len(buf) THEN buf[i] ELSE wire'[i - Len(buf)]
      BY <1>w, <1>a, Joined
    <3> QED  BY <3>1, <3>2
  <2>3. \A i \in 1..Len(buf) + Len(wire) : (buf \o wire')[i] = (buf \o wire)[i]
    <3> TAKE i \in 1..Len(buf) + Len(wire)
    <3>1. i \in 1..Len(buf) + Len(wire) + 1
      BY <1>w
    <3>2. CASE i <= Len(buf)
      BY <2>1, <2>2, <3>1, <3>2
    <3>3. CASE ~(i <= Len(buf))
      <4>1. i - Len(buf) \in 1..Len(wire)
        BY <1>w, <3>3
      <4>2. wire'[i - Len(buf)] = wire[i - Len(buf)]
        BY <1>a, <4>1
      <4> QED  BY <2>1, <2>2, <3>1, <3>3, <4>2
    <3> QED  BY <3>2, <3>3
  <2>4. (buf \o wire')[Len(buf) + Len(wire) + 1] = Item("First", count + 1, f)
    <3>1. /\ Len(buf) + Len(wire) + 1 \in 1..Len(buf) + Len(wire) + 1
          /\ ~(Len(buf) + Len(wire) + 1 <= Len(buf))
          /\ (Len(buf) + Len(wire) + 1) - Len(buf) = Len(wire) + 1
      BY <1>w
    <3> QED  BY <1>a, <2>2, <3>1
  <2>5. buf' = buf
    BY <1>e
  <2> QED  BY <1>w, <2>1, <2>2, <2>3, <2>4, <2>5 DEF pending
<1>6. \A i \in 1..Len(pending)' : i \in 1..Len(pending) \/ i = Len(pending) + 1
  BY <1>w, <1>5
<1>7. \A i \in 1..Len(pending) : IsFirst(pending[i]) => pending[i].id \in 1..count
  BY <1>0 DEF PendingInv
<1>8. \A i, j \in 1..Len(pending)' :
        i < j /\ IsFirst(pending'[i]) /\ IsFirst(pending'[j]) => pending'[i].id < pending'[j].id
  <2> SUFFICES ASSUME NEW i \in 1..Len(pending)', NEW j \in 1..Len(pending)', i < j,
                      IsFirst(pending'[i]), IsFirst(pending'[j])
               PROVE  pending'[i].id < pending'[j].id
    OBVIOUS
  <2>1. i \in 1..Len(pending)
    BY <1>w, <1>5, <1>6
  <2>2. CASE j \in 1..Len(pending)
    BY <1>0, <1>5, <2>1, <2>2 DEF PendingInv
  <2>3. CASE j = Len(pending) + 1
    <3>1. pending'[j].id = count + 1 /\ pending'[i] = pending[i]
      BY <1>5, <1>f, <2>1, <2>3
    <3>2. IsFirst(pending[i])
      BY <3>1
    <3>3. pending[i].id \in 1..count
      BY <1>7, <2>1, <3>2
    <3> QED  BY <1>w, <3>1, <3>3
  <2> QED  BY <1>6, <2>2, <2>3
<1>9. \A i \in 1..Len(pending)' : IsFirst(pending'[i]) =>
         pending'[i].id \in 1..count' /\ \A n \in Used' : n < pending'[i].id
  <2> SUFFICES ASSUME NEW i \in 1..Len(pending)', IsFirst(pending'[i])
               PROVE  pending'[i].id \in 1..count' /\ \A n \in Used' : n < pending'[i].id
    OBVIOUS
  <2>1. CASE i \in 1..Len(pending)
    <3>1. pending'[i] = pending[i]
      BY <1>5, <2>1
    <3>2. IsFirst(pending[i])
      BY <3>1
    <3>3. pending[i].id \in 1..count /\ \A n \in Used : n < pending[i].id
      BY <1>0, <2>1, <3>2 DEF PendingInv
    <3> QED  BY <1>w, <1>e, <1>2, <3>1, <3>3
  <2>2. CASE i = Len(pending) + 1
    <3>1. pending'[i].id = count + 1
      BY <1>5, <1>f, <2>2
    <3> QED  BY <1>w, <1>e, <1>2, <1>n, <3>1
  <2> QED  BY <1>6, <2>1, <2>2
<1>10. PendingInv'
  BY <1>8, <1>9 DEF PendingInv, IsFirst
<1> QED  BY <1>1, <1>3, <1>4, <1>10 DEF IInv

-----------------------------------------------------------------------------
(* A frame is taken from the buffer *)

\* Its number is above all the program knows of and below those still to come.
LEMMA FrameTaken ==
  ASSUME IInv, pc = "Got", Named(Stripped(buf)), NEW x, x = Stripped(buf)[1]
  PROVE  /\ x \in Items /\ IsFirst(x) /\ x.id \in 1..count /\ x.id \in Ids
         /\ fate[x.id] = "Open" /\ run = NoRun
         /\ \A n \in Used : n \in Nat /\ n < x.id
         /\ \A i \in 1..Len(wire) : IsFirst(wire[i]) => x.id < wire[i].id
<1>0. TypeOK /\ PendingInv /\ StepInv
  BY DEF IInv
<1>w. /\ buf \in Seq(Items) /\ wire \in Seq(Items) /\ count \in 0..MaxFrames
      /\ Len(buf) \in Nat /\ Len(wire) \in Nat
  BY <1>0, LenProperties DEF TypeOK
<1>1. PICK k \in 1..Len(buf) : x = buf[k]
  <2>1. CASE Stripped(buf) = buf
    <3>1. buf # <<>> /\ x = buf[1]
      BY <2>1 DEF Named
    <3>2. Len(buf) # 0
      BY <1>w, <3>1, EmptySeq
    <3>3. 1 \in 1..Len(buf)
      BY <1>w, <3>2
    <3> QED  BY <3>1, <3>3
  <2>2. CASE Len(buf) > 1 /\ Stripped(buf) = Tail(buf)
    <3>1. buf # <<>>
      BY <1>w, <2>2
    <3>2. /\ Len(Tail(buf)) = Len(buf) - 1
          /\ \A i \in 1..Len(Tail(buf)) : Tail(buf)[i] = buf[i + 1]
      BY <1>w, <3>1, HeadTailProperties
    <3>3. 1 \in 1..Len(Tail(buf)) /\ 2 \in 1..Len(buf) /\ 1 + 1 = 2
      BY <1>w, <2>2, <3>2
    <3>4. Tail(buf)[1] = buf[1 + 1]
      BY <3>2, <3>3
    <3> QED  BY <2>2, <3>3, <3>4
  <2> QED  BY <2>1, <2>2 DEF Stripped
<1>2. /\ pending = buf \o wire /\ Len(pending) = Len(buf) + Len(wire)
      /\ \A i \in 1..Len(buf) : pending[i] = buf[i] /\ buf[i] \in Items
      /\ \A i \in 1..Len(wire) : pending[Len(buf) + i] = wire[i] /\ wire[i] \in Items
  BY <1>w, Joined DEF pending
<1>3. x \in Items /\ IsFirst(x) /\ x = pending[k] /\ k \in 1..Len(pending)
  <2>1. x.kind = "First"
    BY DEF Named, Head
  <2> QED  BY <1>w, <1>1, <1>2, <2>1 DEF IsFirst
<1>4. x.id \in 1..count /\ \A n \in Used : n < x.id
  BY <1>0, <1>3 DEF PendingInv
<1>5. x.id \in Ids
  BY <1>w, <1>4 DEF Ids
<1>6. fate[x.id] = "Open"
  BY <1>w, <1>4, <1>5 DEF Used
<1>7. run = NoRun
  BY <1>0 DEF StepInv
<1>8. \A n \in Used : n \in Nat
  BY <1>0 DEF Used, TypeOK, Runs, Ids
<1>9. \A i \in 1..Len(wire) : IsFirst(wire[i]) => x.id < wire[i].id
  <2> SUFFICES ASSUME NEW i \in 1..Len(wire), IsFirst(wire[i])
               PROVE  x.id < wire[i].id
    OBVIOUS
  <2>1. Len(buf) + i \in 1..Len(pending) /\ k < Len(buf) + i /\ pending[Len(buf) + i] = wire[i]
    BY <1>w, <1>2
  <2>2. IsFirst(pending[Len(buf) + i]) /\ IsFirst(pending[k])
    BY <1>3, <2>1
  <2>3. pending[k].id < pending[Len(buf) + i].id
    BY <1>0, <1>3, <2>1, <2>2 DEF PendingInv
  <2> QED  BY <1>3, <2>1, <2>3
<1> QED  BY <1>3, <1>4, <1>5, <1>6, <1>7, <1>8, <1>9

\* The frames left are those of the line.
LEMMA LineLeft ==
  ASSUME TypeOK, TypeOK', PendingInv, buf' = <<>>, wire' = wire, count' = count,
         NEW id \in Nat, \A n \in Used' : n \in Used \/ n = id \/ n = 0,
         \A i \in 1..Len(wire) : IsFirst(wire[i]) => id < wire[i].id
  PROVE  PendingInv'
<1>w. /\ buf \in Seq(Items) /\ wire \in Seq(Items) /\ count \in Nat
      /\ Len(buf) \in Nat /\ Len(wire) \in Nat
  BY LenProperties DEF TypeOK
<1>1. /\ Len(pending) = Len(buf) + Len(wire)
      /\ \A i \in 1..Len(wire) : pending[Len(buf) + i] = wire[i] /\ wire[i] \in Items
  BY <1>w, Joined DEF pending
<1>2. pending' = wire
  <2>1. <<>> \o wire = wire
    BY <1>w, ConcatEmptySeq
  <2> QED  BY <2>1 DEF pending
<1>3. \A i \in 1..Len(wire) :
        Len(buf) + i \in 1..Len(pending) /\ pending[Len(buf) + i] = wire[i]
  BY <1>w, <1>1
<1>4. \A i, j \in 1..Len(wire) :
        i < j /\ IsFirst(wire[i]) /\ IsFirst(wire[j]) => wire[i].id < wire[j].id
  <2> SUFFICES ASSUME NEW i \in 1..Len(wire), NEW j \in 1..Len(wire), i < j,
                      IsFirst(wire[i]), IsFirst(wire[j])
               PROVE  wire[i].id < wire[j].id
    OBVIOUS
  <2>1. /\ Len(buf) + i \in 1..Len(pending) /\ pending[Len(buf) + i] = wire[i]
        /\ Len(buf) + j \in 1..Len(pending) /\ pending[Len(buf) + j] = wire[j]
        /\ Len(buf) + i < Len(buf) + j
    BY <1>w, <1>3
  <2>2. IsFirst(pending[Len(buf) + i]) /\ IsFirst(pending[Len(buf) + j])
    BY <2>1
  <2> QED  BY <2>1, <2>2 DEF PendingInv
<1>5. \A i \in 1..Len(wire) : IsFirst(wire[i]) =>
        wire[i].id \in 1..count /\ \A n \in Used' : n < wire[i].id
  <2> SUFFICES ASSUME NEW i \in 1..Len(wire), IsFirst(wire[i])
               PROVE  wire[i].id \in 1..count /\ \A n \in Used' : n < wire[i].id
    OBVIOUS
  <2>1. Len(buf) + i \in 1..Len(pending) /\ pending[Len(buf) + i] = wire[i]
    BY <1>3
  <2>2. IsFirst(pending[Len(buf) + i])
    BY <2>1
  <2>3. wire[i].id \in 1..count /\ \A n \in Used : n < wire[i].id
    BY <2>1, <2>2 DEF PendingInv
  <2> QED  BY <1>w, <2>3
<1> QED  BY <1>2, <1>4, <1>5 DEF PendingInv, IsFirst

\* A command is taken, with its fields.
LEMMA GotAcceptedStep ==
  ASSUME IInv, GotAccepted
  PROVE  IInv'
<1>0. TypeOK /\ PendingInv /\ StepInv /\ NothingOfEndedSale /\ ResendBound /\ RunsWholeFrame
  BY DEF IInv
<1> DEFINE b == Stripped(buf)
           x == b[1]
           new == IF x.frame.cmd \in ParsedApart THEN {"TEXT"}
                  ELSE IF Verdict(b) \in {"OK", "Fail"}
                         THEN {Request(x.frame.cmd)[i] : i \in 1..x.frame.n} ELSE {}
<1>e. /\ UNCHANGED <<tries, boCtlsON, gadget, inRes, peer, open, wire, half, count, flagC51, fate>>
      /\ Verdict(b) = "OK" /\ inVal' = "OK" /\ stValue' = Stored(b)
      /\ run' = [id |-> x.id, frame |-> x.frame]
      /\ buf' = <<>> /\ pc' = "Do"
  BY DEF GotAccepted
<1>x. /\ x \in Items /\ x.id \in 1..count /\ x.id \in Ids
      /\ fate[x.id] = "Open"
      /\ \A n \in Used : n \in Nat /\ n < x.id
      /\ \A i \in 1..Len(wire) : IsFirst(wire[i]) => x.id < wire[i].id
  BY FrameTaken DEF GotAccepted
<1>s. stValue' = [f \in Names |-> IF f \in new THEN x.id ELSE stValue[f]]
  BY <1>e DEF Stored
<1>c. count \in 0..MaxFrames /\ x.id \in 0..MaxFrames /\ x.id \in Nat
      /\ x.frame \in Frames \cup {NoFrame}
  BY <1>0, <1>x DEF TypeOK, Items
<1> HIDE DEF b, x, new
<1>1. TypeOK'
  <2>1. stValue' \in [Names -> 0..MaxFrames]
    BY <1>0, <1>s, <1>c DEF TypeOK
  <2>2. run' \in Runs
    BY <1>e, <1>c DEF Runs
  <2>3. buf' \in Seq(Items)
    BY <1>e, EmptySeq
  <2> QED  BY <1>0, <1>e, <2>1, <2>2, <2>3 DEF TypeOK, Pcs
<1>r. run'.id = x.id /\ run'.frame = x.frame
  BY <1>e
<1>2. \A n \in Used' : n \in Used \/ n = x.id \/ n = 0
  BY <1>e, <1>s, <1>r DEF Used
<1>3. PendingInv'
  BY <1>0, <1>1, <1>e, <1>x, <1>c, <1>2, LineLeft
<1>4. StepInv'
  <2>1. \A n \in Used' : n =< count'
    BY <1>0, <1>e, <1>x, <1>c, <1>2 DEF StepInv
  <2> QED  BY <1>e, <1>x, <1>r, <2>1 DEF StepInv
<1>5. NothingOfEndedSale' /\ ResendBound'
  <2>1. \A f \in Names : stValue'[f] = x.id \/ stValue'[f] = stValue[f]
    BY <1>s
  <2> QED  BY <1>0, <1>e, <1>x, <2>1 DEF NothingOfEndedSale, ResendBound
<1>6. RunsWholeFrame'
  <2> SUFFICES ASSUME x.frame.cmd \notin ParsedApart
               PROVE  /\ x.frame.lrc
                      /\ Request(x.frame.cmd) # <<>> => ~x.frame.bad
                      /\ \A f \in Names : (stValue'[f] = x.id)
                           <=> \E i \in 1..x.frame.n : Request(x.frame.cmd)[i] = f
    BY <1>r DEF RunsWholeFrame, Command
  <2>1. Whole(b) /\ ~(x.frame.bad /\ Request(x.frame.cmd) # <<>>)
    BY <1>e DEF Verdict, x
  <2>2. x.frame.lrc
    BY <2>1 DEF Whole, x
  <2>3. new = {Request(x.frame.cmd)[i] : i \in 1..x.frame.n}
    BY <1>e DEF new
  <2>4. \A f \in Names : stValue[f] # x.id
    <3>1. \A f \in Names : stValue[f] \in Used
      BY DEF Used
    <3> TAKE f \in Names
    <3>2. stValue[f] \in Nat /\ stValue[f] < x.id
      BY <1>x, <3>1
    <3> QED  BY <1>c, <3>2
  <2>5. \A f \in Names : (stValue'[f] = x.id) <=> f \in new
    BY <1>s, <2>4
  <2> QED  BY <2>1, <2>2, <2>3, <2>5
<1> QED  BY <1>1, <1>3, <1>4, <1>5, <1>6 DEF IInv

\* A frame is refused, with the fields that were stored.
LEMMA GotRefusedStep ==
  ASSUME IInv, GotRefused
  PROVE  IInv'
<1>0. TypeOK /\ PendingInv /\ StepInv /\ NothingOfEndedSale /\ ResendBound /\ RunsWholeFrame
  BY DEF IInv
<1> DEFINE b == Stripped(buf)
           x == b[1]
<1>e. /\ UNCHANGED <<tries, boCtlsON, gadget, inRes, peer, open, wire, half, count, run, flagC51,
                      fate>>
      /\ stValue' = Stored(b) /\ inVal' \in {"OK", "LRC", "Fail"}
      /\ buf' = <<>> /\ pc' = "Recv"
  BY DEF GotRefused
<1>x. /\ x \in Items /\ x.id \in 1..count /\ x.id \in Ids
      /\ fate[x.id] = "Open" /\ run = NoRun
      /\ \A n \in Used : n \in Nat /\ n < x.id
      /\ \A i \in 1..Len(wire) : IsFirst(wire[i]) => x.id < wire[i].id
  BY FrameTaken DEF GotRefused
<1>s. /\ \A f \in Names : stValue'[f] = x.id \/ stValue'[f] = stValue[f]
      /\ stValue' = [f \in Names |-> stValue'[f]]
  BY <1>e DEF Stored
<1>c. count \in 0..MaxFrames /\ x.id \in 0..MaxFrames /\ x.id \in Nat
  BY <1>0, <1>x DEF TypeOK, Items
<1> HIDE DEF b, x
<1>1. TypeOK'
  <2>1. stValue' \in [Names -> 0..MaxFrames]
    <3>1. \A f \in Names : stValue'[f] \in 0..MaxFrames
      BY <1>0, <1>s, <1>c DEF TypeOK
    <3> QED  BY <1>s, <3>1
  <2>2. buf' \in Seq(Items)
    BY <1>e, EmptySeq
  <2> QED  BY <1>0, <1>e, <2>1, <2>2 DEF TypeOK, Pcs
<1>2. \A n \in Used' : n \in Used \/ n = x.id \/ n = 0
  BY <1>e, <1>s DEF Used
<1>3. PendingInv'
  BY <1>0, <1>1, <1>e, <1>x, <1>c, <1>2, LineLeft
<1>4. StepInv'
  <2>1. \A n \in Used' : n =< count'
    BY <1>0, <1>e, <1>x, <1>c, <1>2 DEF StepInv
  <2> QED  BY <1>e, <1>x, <2>1 DEF StepInv
<1>5. NothingOfEndedSale' /\ ResendBound' /\ RunsWholeFrame'
  BY <1>0, <1>e, <1>x, <1>s DEF NothingOfEndedSale, ResendBound, RunsWholeFrame
<1> QED  BY <1>1, <1>3, <1>4, <1>5 DEF IInv

-----------------------------------------------------------------------------
(* A command is over *)

\* What is left to show of a command that only uses its own number.
LEMMA CommandDone ==
  ASSUME IInv, TypeOK', NothingOfEndedSale', pc = "Do", pc' \in {"Recv", "WaitAck"},
         pc' = "WaitAck" => tries' = 0, run' = NoRun, UNCHANGED <<buf, wire, count>>,
         \A f \in Names : stValue'[f] \in {0, stValue[f], run.id},
         \A i \in Ids : fate'[i] # "Open" => i = run.id \/ fate[i] # "Open"
  PROVE  IInv'
<1>0. TypeOK /\ PendingInv /\ StepInv /\ NothingOfEndedSale /\ ResendBound /\ RunsWholeFrame
  BY DEF IInv
<1>1. Used' \subseteq Used \cup {0}
  <2>1. run'.id = 0
    BY DEF NoRun
  <2>2. \A f \in Names : stValue'[f] \in Used \cup {0}
    BY DEF Used
  <2>3. \A i \in Ids : fate'[i] # "Open" => i \in Used
    BY DEF Used
  <2> QED  BY <2>1, <2>2, <2>3 DEF Used
<1>2. PendingInv'
  BY <1>0, <1>1, NothingMoves
<1>3. StepInv'
  <2>1. \A n \in Used' : n =< count'
    BY <1>0, <1>1 DEF StepInv, TypeOK
  <2>2. buf' = <<>>
    BY <1>0 DEF StepInv
  <2> QED  BY <2>1, <2>2 DEF StepInv
<1>4. ResendBound' /\ RunsWholeFrame'
  BY DEF ResendBound, MaxTry, RunsWholeFrame
<1> QED  BY <1>2, <1>3, <1>4 DEF IInv

\* What a command finds when it runs.
LEMMA Running ==
  ASSUME IInv, pc = "Do"
  PROVE  /\ run.id \in Ids /\ fate[run.id] = "Open" /\ run.id \in 0..MaxFrames
         /\ NoRun \in Runs /\ NoFields \in [Names -> 0..MaxFrames]
         /\ stValue \in [Names -> 0..MaxFrames] /\ fate \in [Ids -> Fates]
         /\ \A f \in Names : stValue[f] # 0 => stValue[f] \in Ids
         /\ run.id # 0
BY DEF IInv, TypeOK, StepInv, Ids, Runs, NoRun, NoFields

\* The sale is answered.
LEMMA SaleAnsweredStep ==
  ASSUME IInv, SaleAnswered
  PROVE  IInv'
<1>0. TypeOK /\ NothingOfEndedSale
  BY DEF IInv
<1>e. /\ pc = "Do" /\ pc' \in {"Recv", "WaitAck"} /\ (pc' = "WaitAck" => tries' = 0)
      /\ tries' \in {0, tries} /\ run' = NoRun
      /\ UNCHANGED <<boCtlsON, gadget, inRes, peer, open, wire, half, count, buf, inVal>>
  BY DEF SaleAnswered, Finish
<1>r. /\ run.id \in Ids /\ fate[run.id] = "Open" /\ run.id \in 0..MaxFrames
      /\ NoRun \in Runs /\ NoFields \in [Names -> 0..MaxFrames]
      /\ stValue \in [Names -> 0..MaxFrames] /\ fate \in [Ids -> Fates]
      /\ \A f \in Names : stValue[f] # 0 => stValue[f] \in Ids
      /\ run.id # 0
  BY <1>e, Running
<1>m. /\ stValue' \in [Names -> 0..MaxFrames] /\ stValue' = NoFields
      /\ fate' \in [Ids -> Fates] /\ flagC51' = TRUE
      /\ \A i \in Ids : fate'[i] # "Open" => i = run.id \/ fate[i] # "Open"
  BY <1>r DEF SaleAnswered, Over, Fates
<1>f. \A f \in Names : stValue'[f] \in {0, stValue[f], run.id}
  BY <1>m DEF NoFields
<1>n. NothingOfEndedSale'
  BY <1>m DEF NothingOfEndedSale, NoFields
<1>t. TypeOK'
  <2>1. tries' \in 0..5
    BY <1>0, <1>e DEF TypeOK
  <2> QED  BY <1>0, <1>e, <1>r, <1>m, <2>1 DEF TypeOK, Pcs
<1> QED  BY <1>e, <1>m, <1>f, <1>n, <1>t, CommandDone

\* The sale is left; its fields stay.
LEMMA SaleAbandonedStep ==
  ASSUME IInv, SaleAbandoned
  PROVE  IInv'
<1>0. TypeOK /\ NothingOfEndedSale
  BY DEF IInv
<1>e. /\ pc = "Do" /\ pc' \in {"Recv", "WaitAck"} /\ (pc' = "WaitAck" => tries' = 0)
      /\ tries' \in {0, tries} /\ run' = NoRun
      /\ UNCHANGED <<boCtlsON, gadget, inRes, peer, open, wire, half, count, buf, inVal>>
  BY DEF SaleAbandoned, Finish
<1>r. /\ run.id \in Ids /\ fate[run.id] = "Open" /\ run.id \in 0..MaxFrames
      /\ NoRun \in Runs /\ NoFields \in [Names -> 0..MaxFrames]
      /\ stValue \in [Names -> 0..MaxFrames] /\ fate \in [Ids -> Fates]
      /\ \A f \in Names : stValue[f] # 0 => stValue[f] \in Ids
      /\ run.id # 0
  BY <1>e, Running
<1>f. \A f \in Names : stValue'[f] \in {stValue[f], run.id}
  BY DEF SaleAbandoned, Added
<1>m. /\ stValue' \in [Names -> 0..MaxFrames]
      /\ fate' \in [Ids -> Fates] /\ flagC51' = TRUE
      /\ \A i \in Ids : fate'[i] = IF i = run.id THEN "Abandoned" ELSE fate[i]
  BY <1>r DEF SaleAbandoned, Added, Fates
<1>n. NothingOfEndedSale'
  BY <1>0, <1>r, <1>f, <1>m DEF NothingOfEndedSale
<1>t. TypeOK'
  <2>1. tries' \in 0..5
    BY <1>0, <1>e DEF TypeOK
  <2> QED  BY <1>0, <1>e, <1>r, <1>m, <2>1 DEF TypeOK, Pcs
<1> QED  BY <1>e, <1>m, <1>f, <1>n, <1>t, CommandDone

\* The sale is completed.
LEMMA CompleteStep ==
  ASSUME IInv, Complete
  PROVE  IInv'
<1>0. TypeOK /\ NothingOfEndedSale
  BY DEF IInv
<1>e. /\ pc = "Do" /\ pc' \in {"Recv", "WaitAck"} /\ (pc' = "WaitAck" => tries' = 0)
      /\ tries' \in {0, tries} /\ run' = NoRun
      /\ UNCHANGED <<boCtlsON, gadget, inRes, peer, open, wire, half, count, buf, inVal>>
  BY DEF Complete, Finish
<1>r. /\ run.id \in Ids /\ fate[run.id] = "Open" /\ run.id \in 0..MaxFrames
      /\ NoRun \in Runs /\ NoFields \in [Names -> 0..MaxFrames]
      /\ stValue \in [Names -> 0..MaxFrames] /\ fate \in [Ids -> Fates]
      /\ \A f \in Names : stValue[f] # 0 => stValue[f] \in Ids
      /\ run.id # 0
  BY <1>e, Running
<1>m. /\ stValue' \in [Names -> 0..MaxFrames] /\ (stValue' = NoFields \/ UNCHANGED <<stValue, fate>>)
      /\ fate' \in [Ids -> Fates] /\ flagC51' \in BOOLEAN
      /\ \A i \in Ids : fate'[i] # "Open" => i = run.id \/ fate[i] # "Open"
  <2>1. CASE flagC51
    BY <1>r, <2>1 DEF Complete, Over, Fates, AbandonedIds
  <2>2. CASE ~flagC51
    BY <1>0, <1>r, <2>2 DEF Complete, TypeOK
  <2> QED  BY <2>1, <2>2
<1>f. \A f \in Names : stValue'[f] \in {0, stValue[f], run.id}
  BY <1>m DEF NoFields
<1>n. NothingOfEndedSale'
  BY <1>0, <1>m DEF NothingOfEndedSale, NoFields
<1>t. TypeOK'
  <2>1. tries' \in 0..5
    BY <1>0, <1>e DEF TypeOK
  <2> QED  BY <1>0, <1>e, <1>r, <1>m, <2>1 DEF TypeOK, Pcs
<1> QED  BY <1>e, <1>m, <1>f, <1>n, <1>t, CommandDone

\* 72 and C23.
LEMMA CancelStep ==
  ASSUME IInv, Cancel
  PROVE  IInv'
<1>0. TypeOK /\ NothingOfEndedSale
  BY DEF IInv
<1>e. /\ pc = "Do" /\ pc' \in {"Recv", "WaitAck"} /\ (pc' = "WaitAck" => tries' = 0)
      /\ tries' \in {0, tries} /\ run' = NoRun
      /\ UNCHANGED <<boCtlsON, gadget, inRes, peer, open, wire, half, count, buf, inVal>>
  BY DEF Cancel, Finish
<1>r. /\ run.id \in Ids /\ fate[run.id] = "Open" /\ run.id \in 0..MaxFrames
      /\ NoRun \in Runs /\ NoFields \in [Names -> 0..MaxFrames]
      /\ stValue \in [Names -> 0..MaxFrames] /\ fate \in [Ids -> Fates]
      /\ \A f \in Names : stValue[f] # 0 => stValue[f] \in Ids
      /\ run.id # 0
  BY <1>e, Running
<1>f. \A f \in Names : stValue'[f] \in {0, run.id}
  BY DEF Cancel, Added, NoFields
<1>m. /\ stValue' \in [Names -> 0..MaxFrames]
      /\ fate' \in [Ids -> Fates] /\ flagC51' = FALSE
      /\ \A i \in Ids : fate'[i] # "Open" => fate[i] # "Open"
      /\ fate'[run.id] = "Open"
  BY <1>r DEF Cancel, Added, NoFields, Over, AbandonedIds, Fates
<1>n. NothingOfEndedSale'
  BY <1>f, <1>m DEF NothingOfEndedSale
<1>t. TypeOK'
  <2>1. tries' \in 0..5
    BY <1>0, <1>e DEF TypeOK
  <2> QED  BY <1>0, <1>e, <1>r, <1>m, <2>1 DEF TypeOK, Pcs
<1> QED  BY <1>e, <1>m, <1>f, <1>n, <1>t, CommandDone

\* Z4.
LEMMA CardNumberStep ==
  ASSUME IInv, CardNumber
  PROVE  IInv'
<1>0. TypeOK /\ NothingOfEndedSale
  BY DEF IInv
<1>e. /\ pc = "Do" /\ pc' \in {"Recv", "WaitAck"} /\ (pc' = "WaitAck" => tries' = 0)
      /\ tries' \in {0, tries} /\ run' = NoRun
      /\ UNCHANGED <<boCtlsON, gadget, inRes, peer, open, wire, half, count, buf, inVal>>
  BY DEF CardNumber
<1>r. /\ run.id \in Ids /\ fate[run.id] = "Open" /\ run.id \in 0..MaxFrames
      /\ NoRun \in Runs /\ NoFields \in [Names -> 0..MaxFrames]
      /\ stValue \in [Names -> 0..MaxFrames] /\ fate \in [Ids -> Fates]
      /\ \A f \in Names : stValue[f] # 0 => stValue[f] \in Ids
      /\ run.id # 0
  BY <1>e, Running
<1>f. \A f \in Names : stValue'[f] \in {stValue[f], run.id}
  BY DEF CardNumber, Added
<1>m. /\ stValue' \in [Names -> 0..MaxFrames] /\ fate' = fate /\ flagC51' \in BOOLEAN
      /\ fate' \in [Ids -> Fates]
  BY <1>0, <1>r DEF CardNumber, Added, TypeOK
<1>n. NothingOfEndedSale'
  BY <1>0, <1>r, <1>f, <1>m DEF NothingOfEndedSale
<1>t. TypeOK'
  <2>1. tries' \in 0..5
    BY <1>0, <1>e DEF TypeOK
  <2> QED  BY <1>0, <1>e, <1>r, <1>m, <2>1 DEF TypeOK, Pcs
<1> QED  BY <1>e, <1>m, <1>f, <1>n, <1>t, CommandDone

\* A status.
LEMMA StatusStep ==
  ASSUME IInv, Status
  PROVE  IInv'
<1>0. TypeOK /\ NothingOfEndedSale
  BY DEF IInv
<1>e. /\ pc = "Do" /\ pc' \in {"Recv", "WaitAck"} /\ (pc' = "WaitAck" => tries' = 0)
      /\ tries' \in {0, tries} /\ run' = NoRun
      /\ UNCHANGED <<boCtlsON, gadget, inRes, peer, open, wire, half, count, buf, inVal>>
  BY DEF Status, Finish
<1>r. /\ run.id \in Ids /\ fate[run.id] = "Open" /\ run.id \in 0..MaxFrames
      /\ NoRun \in Runs /\ NoFields \in [Names -> 0..MaxFrames]
      /\ stValue \in [Names -> 0..MaxFrames] /\ fate \in [Ids -> Fates]
      /\ \A f \in Names : stValue[f] # 0 => stValue[f] \in Ids
      /\ run.id # 0
  BY <1>e, Running
<1>f. \A f \in Names : stValue'[f] \in {stValue[f], run.id}
  BY DEF Status, Added
<1>m. /\ stValue' \in [Names -> 0..MaxFrames] /\ fate' = fate /\ flagC51' \in BOOLEAN
      /\ fate' \in [Ids -> Fates]
  BY <1>0, <1>r DEF Status, Added, TypeOK
<1>n. NothingOfEndedSale'
  BY <1>0, <1>r, <1>f, <1>m DEF NothingOfEndedSale
<1>t. TypeOK'
  <2>1. tries' \in 0..5
    BY <1>0, <1>e DEF TypeOK
  <2> QED  BY <1>0, <1>e, <1>r, <1>m, <2>1 DEF TypeOK, Pcs
<1> QED  BY <1>e, <1>m, <1>f, <1>n, <1>t, CommandDone

\* Z2.
LEMMA ShowTextStep ==
  ASSUME IInv, ShowText
  PROVE  IInv'
<1>0. TypeOK /\ NothingOfEndedSale
  BY DEF IInv
<1>e. /\ pc = "Do" /\ pc' \in {"Recv", "WaitAck"} /\ (pc' = "WaitAck" => tries' = 0)
      /\ tries' \in {0, tries} /\ run' = NoRun
      /\ UNCHANGED <<boCtlsON, gadget, inRes, peer, open, wire, half, count, buf, inVal>>
  BY DEF ShowText, Finish
<1>r. /\ run.id \in Ids /\ fate[run.id] = "Open" /\ run.id \in 0..MaxFrames
      /\ NoRun \in Runs /\ NoFields \in [Names -> 0..MaxFrames]
      /\ stValue \in [Names -> 0..MaxFrames] /\ fate \in [Ids -> Fates]
      /\ \A f \in Names : stValue[f] # 0 => stValue[f] \in Ids
      /\ run.id # 0
  BY <1>e, Running
<1>f. \A f \in Names : stValue'[f] = stValue[f]
  BY DEF ShowText
<1>m. /\ stValue' \in [Names -> 0..MaxFrames] /\ fate' = fate /\ flagC51' \in BOOLEAN
      /\ fate' \in [Ids -> Fates]
  BY <1>0, <1>r DEF ShowText, TypeOK
<1>n. NothingOfEndedSale'
  BY <1>0, <1>f, <1>m DEF NothingOfEndedSale
<1>t. TypeOK'
  <2>1. tries' \in 0..5
    BY <1>0, <1>e DEF TypeOK
  <2> QED  BY <1>0, <1>e, <1>r, <1>m, <2>1 DEF TypeOK, Pcs
<1> QED  BY <1>e, <1>m, <1>f, <1>n, <1>t, CommandDone

-----------------------------------------------------------------------------
(* The theorems *)

LEMMA StutterStep ==
  ASSUME IInv, UNCHANGED vars
  PROVE  IInv'
<1>1. TypeOK' /\ NothingOfEndedSale' /\ ResendBound' /\ RunsWholeFrame'
  BY DEF IInv, TypeOK, NothingOfEndedSale, ResendBound, RunsWholeFrame, Command
<1>2. pending' = pending /\ Used' = Used
  BY DEF pending, Used
<1>3. PendingInv' /\ StepInv'
  BY <1>2 DEF IInv, PendingInv, StepInv
<1> QED  BY <1>1, <1>3 DEF IInv

LEMMA InitIInv ==
  ASSUME Init
  PROVE  IInv
<1>1. TypeOK
  <2>1. 0 \in 0..MaxFrames /\ 0 \in 0..5
    OBVIOUS
  <2>2. /\ wire \in Seq(Items) /\ buf \in Seq(Items)
        /\ half \in 0..MaxFrames /\ count \in 0..MaxFrames
    BY <2>1, EmptySeq DEF Init
  <2>3. /\ run \in Runs /\ stValue \in [Names -> 0..MaxFrames] /\ fate \in [Ids -> Fates]
    BY <2>1 DEF Init, Runs, NoRun, NoFields, Fates
  <2>4. /\ pc \in Pcs /\ tries \in 0..5 /\ inRes \in {0, 1} /\ inVal \in {"OK", "LRC", "Fail"}
    BY <2>1 DEF Init, Pcs
  <2>5. /\ boCtlsON \in BOOLEAN /\ gadget \in BOOLEAN /\ peer \in BOOLEAN
        /\ open \in BOOLEAN /\ flagC51 \in BOOLEAN
    BY DEF Init
  <2> QED  BY <2>2, <2>3, <2>4, <2>5 DEF TypeOK
<1>2. Len(pending) = 0 /\ Used = {0}
  <2>1. <<>> \o <<>> = <<>>
    BY ConcatEmptySeq, EmptySeq
  <2>2. Len(pending) = 0
    BY <2>1 DEF Init, pending
  <2>3. \A f \in Names : stValue[f] = 0
    BY DEF Init, NoFields
  <2>4. run.id = 0 /\ {i \in Ids : fate[i] # "Open"} = {}
    BY DEF Init, NoRun
  <2> QED  BY <2>2, <2>3, <2>4 DEF Used
<1>3. PendingInv /\ StepInv
  BY <1>2 DEF PendingInv, StepInv, Init
<1>4. NothingOfEndedSale /\ ResendBound /\ RunsWholeFrame
  BY DEF Init, NothingOfEndedSale, NoFields, ResendBound, RunsWholeFrame
<1> QED  BY <1>1, <1>3, <1>4 DEF IInv

LEMMA NextIInv ==
  ASSUME IInv, [Next]_vars
  PROVE  IInv'
<1>1. CASE Start
  BY <1>1, BootStep, InitComOkStep, InitComFailsStep, ConnectOkStep, ConnectFailsStep,
     UsbLinkStep, UsbRestartStep, UsbFailsStep DEF Start
<1>2. CASE Receive
  BY <1>2, RcvDataStep, RcvEndStep, RcvErrorStep, RcvLostStep, ReconnectStep DEF Receive
<1>3. CASE Dispatch
  BY <1>3, GotNoiseStep, GotControlStep, GotAcceptedStep, GotRefusedStep DEF Dispatch
<1>4. CASE Handle
  BY <1>4, SaleAnsweredStep, SaleAbandonedStep, CompleteStep, CancelStep, CardNumberStep,
     StatusStep, ShowTextStep DEF Handle
<1>5. CASE WaitAck
  BY <1>5, AckReadStep, NakReadStep, OtherReadStep DEF WaitAck
<1>6. CASE Ecr
  BY <1>6, EcrFirstStep, EcrLastStep, EcrControlStep, PeerDownStep, PeerUpStep DEF Ecr
<1>7. CASE UNCHANGED vars
  BY <1>7, StutterStep
<1> QED  BY <1>1, <1>2, <1>3, <1>4, <1>5, <1>6, <1>7 DEF Next, Program

\* However the ECR sends, cuts, coalesces and disconnects, frames reach the commands in
\* their order, and the field map holds the values of frames that were begun.
THEOREM Invariant == Spec => []IInv
<1>1. Init => IInv
  BY InitIInv
<1>2. IInv /\ [Next]_vars => IInv'
  BY NextIInv
<1> QED  BY <1>1, <1>2, PTL DEF Spec

\* The state of the line has its type (the variables of main, ComRdc and PP_Cmd).
THEOREM TypeCorrect == Spec => []TypeOK
<1>1. IInv => TypeOK
  BY DEF IInv
<1> QED  BY <1>1, Invariant, PTL

\* No command finds in the field map a value of a sale that was answered, completed or
\* cancelled (clear_parse, FlowPinPad.cpp:393, 421, 429, 2464).
THEOREM EndedSaleIsGone == Spec => []NothingOfEndedSale
<1>1. IInv => NothingOfEndedSale
  BY DEF IInv
<1> QED  BY <1>1, Invariant, PTL

\* inWaitAck waits only after fewer than three negative acknowledgements.
THEOREM ResendsBounded == Spec => []ResendBound
<1>1. IInv => ResendBound
  BY DEF IInv
<1> QED  BY <1>1, Invariant, PTL

\* A command that is taken apart runs for a whole undamaged frame, with every field of it
\* (inGetCmdBBVA, PP_CMD_unpack, ParsePP_CMD).
THEOREM WholeFrameRuns == Spec => []RunsWholeFrame
<1>1. IInv => RunsWholeFrame
  BY DEF IInv
<1> QED  BY <1>1, Invariant, PTL
=============================================================================
