--------------------------- MODULE ExchangeProofs ---------------------------
(***************************************************************************)
(* Theorems about the data of a sale, for any kernels, amounts, requests   *)
(* and messages: IInv is inductive, and from it OwnData, CvmAgrees and     *)
(* ScriptsWhole.                                                           *)
(*                                                                         *)
(* The scripts need induction over data: Script_Format is a function by    *)
(* recursion over the commands and FlattenSeq one over the blocks.  The    *)
(* first two sections have what that takes; the third shows that the       *)
(* blocks of a script are the script, for scripts of every length.         *)
(***************************************************************************)
EXTENDS Exchange, SequenceTheorems, WellFoundedInduction, TLAPS

-----------------------------------------------------------------------------
(* Induction, and functions defined by recursion *)

\* A set of numbers with 0 and with the successor of each of its members is all of
\* them: the provers cannot use the library's induction, which is about a predicate.
LEMMA SetInduction ==
  ASSUME NEW S, 0 \in S, \A n \in Nat : n \in S => n + 1 \in S
  PROVE  Nat \subseteq S
<1>1. SUFFICES ASSUME Nat \ S # {} PROVE FALSE
  OBVIOUS
<1>2. IsWellFoundedOn(OpToRel(<, Nat), Nat)
  BY NatLessThanWellFounded
<1>3. PICK x \in Nat \ S : \A y \in Nat \ S : ~ (<<y, x>> \in OpToRel(<, Nat))
  BY <1>1, <1>2, WFMin
<1>4. x # 0 /\ x - 1 \in Nat /\ x - 1 \notin S
  <2>1. x \in Nat /\ x \notin S  OBVIOUS
  <2> HIDE <1>3
  <2> QED  BY <2>1
<1>5. <<x - 1, x>> \in OpToRel(<, Nat)
  BY <1>3, <1>4 DEF OpToRel
<1> QED  BY <1>3, <1>4, <1>5

\* What a recursive definition asks of a function on 0 .. N.
Steps(g, S, base, step, N) ==
  /\ g \in [0 .. N -> S] /\ g[0] = base
  /\ \A i \in 1 .. N : g[i] = step[<<g[i - 1], i>>]

\* There is such a function, whatever the value for 0 and the step.
LEMMA Recursion ==
  ASSUME NEW S, NEW base \in S, NEW step, step \in [S \X Nat -> S], NEW N \in Nat
  PROVE  \E g : Steps(g, S, base, step, N)
<1> DEFINE Made(n, g) == g[0] = base /\ \A i \in 1 .. n : g[i] = step[<<g[i - 1], i>>]
           T == {n \in Nat : \E g \in [0 .. n -> S] : Made(n, g)}
<1>1. 0 \in T
  <2> DEFINE g == [i \in 0 .. 0 |-> base]
  <2>1. g \in [0 .. 0 -> S] /\ Made(0, g)
    OBVIOUS
  <2> QED  BY <2>1
<1>2. \A n \in Nat : n \in T => n + 1 \in T
  <2> SUFFICES ASSUME NEW n \in Nat, n \in T
               PROVE  \E h \in [0 .. n + 1 -> S] : Made(n + 1, h)
    OBVIOUS
  <2>0. PICK g \in [0 .. n -> S] : Made(n, g)
    OBVIOUS
  <2> DEFINE h == [i \in 0 .. n + 1 |-> IF i =< n THEN g[i] ELSE step[<<g[n], n + 1>>]]
  <2>1. g[n] \in S /\ step[<<g[n], n + 1>>] \in S
    OBVIOUS
  <2>2. h \in [0 .. n + 1 -> S]
    <3>1. \A i \in 0 .. n + 1 : i =< n => i \in 0 .. n
      OBVIOUS
    <3> QED  BY <2>1, <3>1
  <2>3. h[0] = base
    BY <2>0
  <2>4. ASSUME NEW i \in 1 .. n + 1
        PROVE  h[i] = step[<<h[i - 1], i>>]
    <3>1. i - 1 \in 0 .. n + 1 /\ i - 1 =< n /\ h[i - 1] = g[i - 1]
      OBVIOUS
    <3>2. CASE i =< n
      BY <2>0, <3>1, <3>2
    <3>3. CASE i = n + 1
      BY <3>1, <3>3
    <3> QED  BY <3>2, <3>3
  <2> HIDE DEF h
  <2> QED  BY <2>2, <2>3, <2>4
<1>3. Nat \subseteq T
  <2> HIDE DEF T
  <2> QED  BY <1>1, <1>2, SetInduction
<1> QED  BY <1>3 DEF Steps

-----------------------------------------------------------------------------
(* One block behind the other *)

\* Joined so far: g has the first blocks as one sequence.
Joins(g, seqs, T) ==
  /\ g \in [0 .. Len(seqs) -> Seq(T)] /\ g[0] = <<>>
  /\ \A i \in 1 .. Len(seqs) : g[i] = g[i - 1] \o seqs[i]

\* Every sequence of sequences can be joined.
LEMMA JoinExists ==
  ASSUME NEW T, NEW seqs \in Seq(Seq(T))
  PROVE  \E g : Joins(g, seqs, T)
<1>1. Len(seqs) \in Nat /\ \A i \in 1 .. Len(seqs) : seqs[i] \in Seq(T)
  BY LenProperties, ElementOfSeq
<1> DEFINE step == [p \in Seq(T) \X Nat |->
                      IF p[2] \in 1 .. Len(seqs) THEN p[1] \o seqs[p[2]] ELSE p[1]]
<1>2. step \in [Seq(T) \X Nat -> Seq(T)]
  BY <1>1, ConcatProperties
<1>3. <<>> \in Seq(T)
  BY EmptySeq
<1>4. PICK g : Steps(g, Seq(T), <<>>, step, Len(seqs))
  <2> HIDE DEF step
  <2> QED  BY <1>1, <1>2, <1>3, Recursion, Zenon
<1>5. ASSUME NEW i \in 1 .. Len(seqs)
      PROVE  g[i] = g[i - 1] \o seqs[i]
  <2>1. i - 1 \in 0 .. Len(seqs) /\ i \in Nat
    BY <1>1
  <2>2. g[i - 1] \in Seq(T)
    BY <1>4, <2>1 DEF Steps
  <2>3. step[<<g[i - 1], i>>] = g[i - 1] \o seqs[i]
    BY <2>1, <2>2
  <2> HIDE DEF step
  <2> QED  BY <1>4, <2>3 DEF Steps
<1> HIDE DEF step
<1> QED  BY <1>4, <1>5 DEF Steps, Joins

\* FlattenSeq is the last of what is joined.
LEMMA FlattenIs ==
  ASSUME NEW T, NEW seqs \in Seq(Seq(T)), NEW g, Joins(g, seqs, T)
  PROVE  FlattenSeq(seqs) = g[Len(seqs)] /\ FlattenSeq(seqs) \in Seq(T)
<1>1. Len(seqs) \in Nat /\ \A i \in 1 .. Len(seqs) : seqs[i] \in Seq(T)
  BY LenProperties, ElementOfSeq
<1>2. g[Len(seqs)] \in Seq(T)
  BY <1>1 DEF Joins
<1>2a. 1 \in 1 .. Len(seqs) => <<>> \o seqs[1] = seqs[1]
  BY <1>1, ConcatEmptySeq, Zenon
<1>3. CASE Len(seqs) = 0
  <2>1. seqs = <<>>
    BY <1>3, EmptySeq
  <2> QED  BY <1>2, <1>3, <2>1 DEF Joins, FlattenSeq
<1>4. CASE Len(seqs) # 0
  <2> DEFINE f == CHOOSE h : h = [i \in 1 .. Len(seqs) |->
                                    IF i = 1 THEN seqs[i] ELSE h[i - 1] \o seqs[i]]
             k == [i \in 1 .. Len(seqs) |-> g[i]]
  <2>1. k = [i \in 1 .. Len(seqs) |-> IF i = 1 THEN seqs[i] ELSE k[i - 1] \o seqs[i]]
    <3>1. ASSUME NEW i \in 1 .. Len(seqs)
          PROVE  g[i] = IF i = 1 THEN seqs[i] ELSE k[i - 1] \o seqs[i]
      <4>1. CASE i = 1
        <5>1. 1 \in 1 .. Len(seqs) /\ 1 - 1 = 0
          BY <4>1
        <5>2. g[1] = g[1 - 1] \o seqs[1] /\ g[0] = <<>>
          BY <5>1 DEF Joins
        <5> QED  BY <4>1, <5>1, <5>2, <1>2a
      <4>2. CASE i # 1
        <5>1. i - 1 \in 1 .. Len(seqs)
          BY <4>2, <1>1
        <5> QED  BY <4>2, <5>1 DEF Joins
      <4> QED  BY <4>1, <4>2
    <3> QED  BY <3>1
  <2>2. f = [i \in 1 .. Len(seqs) |-> IF i = 1 THEN seqs[i] ELSE f[i - 1] \o seqs[i]]
    <3> HIDE DEF k
    <3> QED  BY <2>1, Zenon
  <2>3. FlattenSeq(seqs) = f[Len(seqs)]
    BY <1>4, Zenon DEF FlattenSeq
  <2> DEFINE S == {n \in Nat : n + 1 \in 1 .. Len(seqs) => f[n + 1] = g[n + 1]}
  <2> HIDE DEF f, k
  <2>4. 0 \in S
    <3>1. g[1] = seqs[1]
      <4>1. 1 \in 1 .. Len(seqs) /\ 1 - 1 = 0
        BY <1>1, <1>4
      <4>2. g[1] = g[1 - 1] \o seqs[1] /\ g[0] = <<>>
        BY <4>1 DEF Joins
      <4> QED  BY <4>1, <4>2, <1>2a
    <3> QED  BY <1>1, <1>4, <2>2, <3>1
  <2>5. ASSUME NEW n \in Nat, n \in S
        PROVE  n + 1 \in S
    <3> SUFFICES ASSUME n + 2 \in 1 .. Len(seqs) PROVE f[n + 2] = g[n + 2]
      OBVIOUS
    <3>1. n + 1 \in 1 .. Len(seqs)
      BY <1>1
    <3>2. f[n + 1] = g[n + 1]
      BY <2>5, <3>1
    <3>3. f[n + 2] = f[n + 1] \o seqs[n + 2]
      <4>1. n + 2 # 1 /\ (n + 2) - 1 = n + 1
        OBVIOUS
      <4> QED  BY <2>2, <4>1
    <3>4. g[n + 2] = g[n + 1] \o seqs[n + 2]
      <4>1. (n + 2) - 1 = n + 1
        OBVIOUS
      <4> QED  BY <4>1 DEF Joins
    <3> QED  BY <3>2, <3>3, <3>4
  <2>6. Nat \subseteq S
    <3> HIDE DEF S
    <3> QED  BY <2>4, <2>5, SetInduction
  <2>7. f[Len(seqs)] = g[Len(seqs)]
    <3>1. Len(seqs) - 1 \in Nat /\ (Len(seqs) - 1) + 1 = Len(seqs)
      BY <1>1, <1>4
    <3>2. Len(seqs) - 1 \in S
      BY <3>1, <2>6
    <3> QED  BY <1>1, <1>4, <3>1, <3>2
  <2> QED  BY <1>2, <2>3, <2>7
<1> QED  BY <1>3, <1>4

\* A block more at the end is its elements more.
LEMMA FlattenAppend ==
  ASSUME NEW T, NEW seqs \in Seq(Seq(T)), NEW s \in Seq(T)
  PROVE  /\ FlattenSeq(Append(seqs, s)) = FlattenSeq(seqs) \o s
         /\ FlattenSeq(seqs) \in Seq(T)
<1> DEFINE n == Len(seqs)
           more == Append(seqs, s)
<1>1. n \in Nat
  BY LenProperties
<1>2. PICK g : Joins(g, seqs, T)
  BY JoinExists
<1>3. /\ more \in Seq(Seq(T)) /\ Len(more) = n + 1 /\ more[n + 1] = s
      /\ \A i \in 1 .. n : more[i] = seqs[i]
  BY AppendProperties
<1> DEFINE h == [i \in 0 .. n + 1 |-> IF i =< n THEN g[i] ELSE g[n] \o s]
<1>4. Joins(h, more, T)
  <2>1. g \in [0 .. n -> Seq(T)] /\ g[n] \in Seq(T)
    BY <1>1, <1>2 DEF Joins
  <2>2. g[n] \o s \in Seq(T)
    BY <2>1, ConcatProperties
  <2>3. h \in [0 .. Len(more) -> Seq(T)]
    BY <1>1, <1>3, <2>1, <2>2
  <2>4. h[0] = <<>>
    BY <1>1, <1>2 DEF Joins
  <2>5. ASSUME NEW i \in 1 .. Len(more)
        PROVE  h[i] = h[i - 1] \o more[i]
    <3>1. i - 1 \in 0 .. n + 1 /\ i - 1 =< n /\ h[i - 1] = g[i - 1]
      BY <1>1, <1>3
    <3>2. CASE i =< n
      <4>1. i \in 1 .. n
        BY <3>2, <1>1, <1>3
      <4>2. h[i] = g[i] /\ more[i] = seqs[i]
        BY <4>1, <1>1, <1>3
      <4>3. g[i] = g[i - 1] \o seqs[i]
        BY <1>2, <4>1 DEF Joins
      <4> QED  BY <3>1, <4>2, <4>3
    <3>3. CASE i = n + 1
      <4>1. h[i] = g[n] \o s /\ i - 1 = n
        BY <1>1, <3>3
      <4>2. more[i] = s
        BY <1>3, <3>3
      <4> HIDE DEF h, more
      <4> QED  BY <3>1, <4>1, <4>2
    <3>4. i =< n \/ i = n + 1
      BY <1>1, <1>3
    <3> QED  BY <3>2, <3>3, <3>4
  <2> HIDE DEF h, more
  <2> QED  BY <2>3, <2>4, <2>5 DEF Joins
<1>5. FlattenSeq(more) = h[n + 1]
  <2> HIDE DEF h, more
  <2> QED  BY <1>3, <1>4, FlattenIs
<1>6. FlattenSeq(seqs) = g[n] /\ FlattenSeq(seqs) \in Seq(T)
  BY <1>2, FlattenIs
<1> QED  BY <1>1, <1>5, <1>6

-----------------------------------------------------------------------------
(* Script_Format *)

\* The step of Script_Format: a command begins a block or goes into the last one.
Begun(blocks, x) == Append(blocks, <<x>>)
Put(blocks, x) == Append(Front(blocks), Append(Last(blocks), x))

\* Either way the blocks joined have one command more.
LEMMA OneCommandMore ==
  ASSUME NEW T, NEW blocks \in Seq(Seq(T)), blocks # <<>>, NEW x \in T
  PROVE  \A next \in {Begun(blocks, x), Put(blocks, x)} :
           /\ next \in Seq(Seq(T)) /\ next # <<>>
           /\ FlattenSeq(next) = Append(FlattenSeq(blocks), x)
<1>1. <<x>> \in Seq(T) /\ FlattenSeq(blocks) \in Seq(T)
  <2>1. <<>> \in Seq(T)
    BY EmptySeq
  <2>2. Append(<<>>, x) \in Seq(T)
    BY <2>1, AppendProperties, Zenon
  <2>3. Append(<<>>, x) = <<x>>
    OBVIOUS
  <2> QED  BY <2>1, <2>2, <2>3, FlattenAppend
<1>2. Append(FlattenSeq(blocks), x) = FlattenSeq(blocks) \o <<x>>
  BY <1>1, AppendIsConcat
<1>3. /\ Begun(blocks, x) \in Seq(Seq(T)) /\ Begun(blocks, x) # <<>>
      /\ FlattenSeq(Begun(blocks, x)) = Append(FlattenSeq(blocks), x)
  BY <1>1, <1>2, AppendProperties, FlattenAppend DEF Begun
<1>4. /\ Put(blocks, x) \in Seq(Seq(T)) /\ Put(blocks, x) # <<>>
      /\ FlattenSeq(Put(blocks, x)) = Append(FlattenSeq(blocks), x)
  <2>1. PICK s \in Seq(Seq(T)), e \in Seq(T) : blocks = Append(s, e)
    BY SequenceEmptyOrAppend, Zenon
  <2>2. Last(blocks) = e
    BY <2>1, AppendProperties DEF Last
  <2>3. Front(blocks) = s
    <3>1. Len(s) \in Nat /\ Len(blocks) = Len(s) + 1 /\ \A i \in 1 .. Len(s) : blocks[i] = s[i]
      BY <2>1, AppendProperties, LenProperties
    <3>2. \A i \in 1 .. Len(s) : blocks[i] \in Seq(T)
      BY <3>1, ElementOfSeq
    <3>3. /\ SubSeq(blocks, 1, Len(s)) \in Seq(Seq(T)) /\ Len(SubSeq(blocks, 1, Len(s))) = Len(s)
          /\ \A i \in 1 .. Len(s) : SubSeq(blocks, 1, Len(s))[i] = blocks[i]
      BY <3>1, <3>2, SubSeqProperties
    <3>4. SubSeq(blocks, 1, Len(s)) = s
      BY <3>1, <3>3, SeqEqual
    <3> QED  BY <3>1, <3>4 DEF Front
  <2>4. Put(blocks, x) = Append(s, Append(e, x))
    BY <2>2, <2>3 DEF Put
  <2>5. Append(e, x) \in Seq(T) /\ Append(e, x) = e \o <<x>>
    BY AppendProperties, AppendIsConcat
  <2>6. FlattenSeq(s) \in Seq(T) /\ FlattenSeq(blocks) = FlattenSeq(s) \o e
    BY <2>1, FlattenAppend
  <2>7. FlattenSeq(Put(blocks, x)) = FlattenSeq(s) \o Append(e, x)
    BY <2>4, <2>5, FlattenAppend
  <2>8. FlattenSeq(s) \o (e \o <<x>>) = (FlattenSeq(s) \o e) \o <<x>>
    BY <1>1, <2>6, ConcatAssociative
  <2>9. Put(blocks, x) \in Seq(Seq(T)) /\ Put(blocks, x) # <<>>
    <3> DEFINE S == Seq(T)
               c == Append(e, x)
    <3>1. s \in Seq(S) /\ c \in S
      BY <2>1, <2>5
    <3>2. Append(s, c) \in Seq(S) /\ Append(s, c) # <<>>
      <4> HIDE DEF S, c
      <4> QED  BY <3>1, AppendProperties
    <3> QED  BY <2>4, <3>2
  <2> QED  BY <1>2, <2>5, <2>6, <2>7, <2>8, <2>9
<1> QED  BY <1>3, <1>4

\* Nothing in blocks is nothing.
LEMMA FlattenNothing == FlattenSeq(<< <<>> >>) = <<>> /\ << <<>> >> \in Seq(Seq({}))
<1>1. <<>> \in Seq({}) /\ <<>> \in Seq(Seq({}))
  BY EmptySeq
<1>2. << <<>> >> = Append(<<>>, <<>>)
  OBVIOUS
<1>3. Append(<<>>, <<>>) \in Seq(Seq({}))
  BY <1>1, AppendProperties, Zenon
<1>4. FlattenSeq(Append(<<>>, <<>>)) = FlattenSeq(<<>>) \o <<>>
  BY <1>1, FlattenAppend, Zenon
<1>5. FlattenSeq(<<>>) = <<>>
  BY DEF FlattenSeq
<1>6. <<>> \o <<>> = <<>>
  OBVIOUS
<1> QED  BY <1>2, <1>3, <1>4, <1>5, <1>6

\* The blocks of a script that fits are the script, one command behind the other.
LEMMA ScriptKept ==
  ASSUME NEW T, NEW script \in Seq(T), Len(script) =< ScriptLimit
  PROVE  FlattenSeq(Script_Format(script)) = script
<1> DEFINE N == Len(script)
           S == Seq(Seq(T)) \ {<<>>}
           e == << <<>> >>
           Next1(b, i) == IF script[i] = "9F18" /\ Last(b) # <<>>
                            THEN Append(b, <<script[i]>>)
                            ELSE Append(Front(b), Append(Last(b), script[i]))
           f == CHOOSE h : h = [i \in 0 .. N |-> IF i = 0 THEN e
                 ELSE IF script[i] = "9F18" /\ Last(h[i - 1]) # <<>>
                        THEN Append(h[i - 1], <<script[i]>>)
                        ELSE Append(Front(h[i - 1]), Append(Last(h[i - 1]), script[i]))]
           step == [p \in S \X Nat |-> IF p[2] \in 1 .. N THEN Next1(p[1], p[2]) ELSE p[1]]
<1>1. N \in Nat /\ \A i \in 1 .. N : script[i] \in T
  BY LenProperties, ElementOfSeq
<1>2. ASSUME NEW b \in S, NEW i \in 1 .. N
      PROVE  Next1(b, i) \in S /\ FlattenSeq(Next1(b, i)) = Append(FlattenSeq(b), script[i])
  <2>1. script[i] \in T /\ b \in Seq(Seq(T)) /\ b # <<>>
    BY <1>1
  <2>2. Next1(b, i) \in {Begun(b, script[i]), Put(b, script[i])}
    BY DEF Begun, Put
  <2> HIDE DEF Next1
  <2> QED  BY <2>1, <2>2, OneCommandMore
<1>3. e \in S /\ FlattenSeq(e) = <<>>
  <2>1. <<>> \in Seq(T) /\ <<>> \in Seq(Seq(T))
    BY EmptySeq
  <2>2. e = Append(<<>>, <<>>)
    OBVIOUS
  <2>3. Append(<<>>, <<>>) \in Seq(Seq(T)) /\ Append(<<>>, <<>>) # <<>>
    BY <2>1, AppendProperties, Zenon
  <2>4. FlattenSeq(Append(<<>>, <<>>)) = FlattenSeq(<<>>) \o <<>> /\ FlattenSeq(<<>>) \in Seq(T)
    BY <2>1, FlattenAppend, Zenon
  <2>5. FlattenSeq(<<>>) = <<>>
    BY DEF FlattenSeq
  <2>6. <<>> \o <<>> = <<>>
    OBVIOUS
  <2> QED  BY <2>2, <2>3, <2>4, <2>5, <2>6
<1>4. step \in [S \X Nat -> S]
  <2> HIDE DEF Next1, S
  <2> QED  BY <1>2
<1>5. PICK g : Steps(g, S, e, step, N)
  <2> HIDE DEF step, S, e, N
  <2> QED  BY <1>1, <1>3, <1>4, Recursion, Zenon
<1>6. g = [i \in 0 .. N |-> IF i = 0 THEN e
                 ELSE IF script[i] = "9F18" /\ Last(g[i - 1]) # <<>>
                        THEN Append(g[i - 1], <<script[i]>>)
                        ELSE Append(Front(g[i - 1]), Append(Last(g[i - 1]), script[i]))]
  <2>1. ASSUME NEW i \in 0 .. N
        PROVE  g[i] = IF i = 0 THEN e ELSE Next1(g[i - 1], i)
    <3>1. CASE i = 0
      BY <3>1, <1>5 DEF Steps
    <3>2. CASE i # 0
      <4>1. i \in 1 .. N /\ i - 1 \in 0 .. N /\ i \in Nat
        BY <3>2, <1>1
      <4>2. g[i - 1] \in S
        BY <1>5, <4>1 DEF Steps
      <4>3. g[i] = step[<<g[i - 1], i>>]
        BY <1>5, <4>1 DEF Steps
      <4> HIDE DEF Next1, S
      <4> QED  BY <3>2, <4>1, <4>2, <4>3
    <3> QED  BY <3>1, <3>2
  <2>2. g \in [0 .. N -> S]
    BY <1>5 DEF Steps
  <2> HIDE DEF e, S, N
  <2> QED  BY <2>1, <2>2
<1>7. f = [i \in 0 .. N |-> IF i = 0 THEN e
                 ELSE IF script[i] = "9F18" /\ Last(f[i - 1]) # <<>>
                        THEN Append(f[i - 1], <<script[i]>>)
                        ELSE Append(Front(f[i - 1]), Append(Last(f[i - 1]), script[i]))]
  <2> HIDE DEF e, N
  <2> QED  BY <1>6, Zenon
<1>8. Script_Format(script) = f[N]
  <2>1. ~ (Len(script) > ScriptLimit)
    BY <1>1, ExchangeAssumption
  <2> QED  BY <2>1, Zenon DEF Script_Format
<1> HIDE DEF f
<1> DEFINE Q == {i \in Nat : i =< N => /\ f[i] \in S
                                       /\ FlattenSeq(f[i]) = SubSeq(script, 1, i)}
<1>9. 0 \in Q
  <2>1. f[0] = e
    BY <1>1, <1>7
  <2>2. SubSeq(script, 1, 0) = <<>>
    BY SubSeqEmpty
  <2> QED  BY <1>3, <2>1, <2>2
<1>10. ASSUME NEW n \in Nat, n \in Q
       PROVE  n + 1 \in Q
  <2> SUFFICES ASSUME n + 1 =< N
               PROVE  f[n + 1] \in S /\ FlattenSeq(f[n + 1]) = SubSeq(script, 1, n + 1)
    OBVIOUS
  <2>1. f[n] \in S /\ FlattenSeq(f[n]) = SubSeq(script, 1, n)
    BY <1>1, <1>10
  <2>2. n + 1 \in 1 .. N /\ n + 1 \in 0 .. N /\ n + 1 # 0 /\ (n + 1) - 1 = n
    BY <1>1
  <2>3. f[n + 1] = Next1(f[n], n + 1)
    <3>1. f[n + 1] = Next1(f[(n + 1) - 1], n + 1)
      BY <1>7, <2>2
    <3> QED  BY <2>2, <3>1
  <2>4. f[n + 1] \in S /\ FlattenSeq(f[n + 1]) = Append(SubSeq(script, 1, n), script[n + 1])
    <3> HIDE DEF Next1, S, N
    <3> QED  BY <1>2, <2>1, <2>2, <2>3
  <2>5. SubSeq(script, 1, n + 1) = SubSeq(script, 1, n) \o <<script[n + 1]>>
    <3>1. 1 \in 1 .. Len(script) /\ n + 1 \in 1 .. Len(script)
      BY <1>1, <2>2
    <3>2. SubSeq(script, 1, n + 1) = SubSeq(script, 1, (n + 1) - 1) \o <<script[n + 1]>>
      BY <3>1, SubSeqRecursiveSecond, Zenon
    <3> QED  BY <2>2, <3>2
  <2>6. Append(SubSeq(script, 1, n), script[n + 1]) = SubSeq(script, 1, n) \o <<script[n + 1]>>
    <3>1. SubSeq(script, 1, n) \in Seq(T)
      BY <1>1, <2>2, SubSeqProperties
    <3>2. script[n + 1] \in T
      BY <1>1, <2>2
    <3> QED  BY <3>1, <3>2, AppendIsConcat
  <2> QED  BY <2>4, <2>5, <2>6
<1>11. Nat \subseteq Q
  <2> HIDE DEF Q
  <2> QED  BY <1>9, <1>10, SetInduction
<1>12. FlattenSeq(f[N]) = SubSeq(script, 1, N)
  <2> HIDE DEF S
  <2> QED  BY <1>1, <1>11
<1>13. SubSeq(script, 1, N) = script
  BY SubSeqFull
<1> QED  BY <1>8, <1>12, <1>13

-----------------------------------------------------------------------------
(* What the messages mean *)

LEMMA GreatestIs ==
  ASSUME NEW S \in SUBSET Nat, NEW x \in S, \A y \in S : x >= y
  PROVE  Max(S) = x
<1>1. Max(S) \in S /\ \A y \in S : Max(S) >= y
  BY DEF Max
<1>2. Max(S) \in Nat /\ x \in Nat /\ Max(S) >= x /\ x >= Max(S)
  BY <1>1
<1> QED  BY <1>2

\* A set of numbers up to n has a greatest one.
LEMMA GreatestExists ==
  ASSUME NEW n \in Nat, NEW S \in SUBSET (1 .. n), S # {}
  PROVE  \E x \in S : \A y \in S : x >= y
<1> DEFINE Has1(R) == \E x \in R : \A y \in R : x >= y
           Q == {k \in Nat : \A R \in SUBSET (1 .. k) : R # {} => Has1(R)}
<1>1. 0 \in Q
  <2>1. 1 .. 0 = {}
    OBVIOUS
  <2> QED  BY <2>1
<1>2. ASSUME NEW k \in Nat, k \in Q
      PROVE  k + 1 \in Q
  <2> SUFFICES ASSUME NEW R \in SUBSET (1 .. k + 1), R # {} PROVE Has1(R)
    OBVIOUS
  <2>1. CASE k + 1 \in R
    <3>1. \A y \in R : k + 1 >= y
      OBVIOUS
    <3> QED  BY <2>1, <3>1
  <2>2. CASE k + 1 \notin R
    <3>1. R \in SUBSET (1 .. k)
      BY <2>2
    <3> HIDE DEF Has1
    <3> QED  BY <1>2, <3>1
  <2> QED  BY <2>1, <2>2
<1>3. Nat \subseteq Q
  <2> HIDE DEF Q
  <2> QED  BY <1>1, <1>2, SetInduction
<1> QED  BY <1>3

\* Without messages there is no script.
LEMMA NothingMeant ==
  /\ Orderly(<<>>) /\ <<>> \in Seq(Messages) /\ <<>> \in Scripts
  /\ \A t : Meant(<<>>, t) = <<>>
<1>1. Len(<<>>) = 0 /\ 1 .. Len(<<>>) = {}
  BY EmptySeq
<1>2. ASSUME NEW t
      PROVE  Meant(<<>>, t) = <<>>
  BY <1>1 DEF Meant
<1> QED  BY <1>1, <1>2, EmptySeq DEF Orderly, Scripts

\* Where the ends of scripts of type t are in a sequence of messages.
Ends(ms, t) == {i \in 1 .. Len(ms) : ms[i].type = t /\ ms[i].num \in {"01", "91"}}

\* A message more that ends a script of type t is the last such end.
LEMMA EndedLast ==
  ASSUME NEW ms \in Seq(Messages), NEW m \in Messages, NEW t, m.type = t, m.num \in {"01", "91"}
  PROVE  /\ Ends(Append(ms, m), t) # {}
         /\ Max(Ends(Append(ms, m), t)) = Len(ms) + 1
<1> DEFINE S == Ends(Append(ms, m), t)
<1>1. Len(ms) \in Nat /\ Len(Append(ms, m)) = Len(ms) + 1 /\ Append(ms, m)[Len(ms) + 1] = m
  BY AppendProperties, LenProperties
<1>2. Len(ms) + 1 \in S
  BY <1>1 DEF Ends
<1>3. S \in SUBSET Nat /\ \A y \in S : Len(ms) + 1 >= y
  BY <1>1 DEF Ends
<1>4. Max(S) = Len(ms) + 1
  <2> HIDE DEF S
  <2> QED  BY <1>2, <1>3, GreatestIs
<1> QED  BY <1>2, <1>4

\* Any other leaves the ends where they were.
LEMMA EndsKept ==
  ASSUME NEW ms \in Seq(Messages), NEW m \in Messages, NEW t,
         ~ (m.type = t /\ m.num \in {"01", "91"})
  PROVE  Ends(Append(ms, m), t) = Ends(ms, t)
<1>1. /\ Len(ms) \in Nat /\ Len(Append(ms, m)) = Len(ms) + 1 /\ Append(ms, m)[Len(ms) + 1] = m
      /\ \A i \in 1 .. Len(ms) : Append(ms, m)[i] = ms[i]
  BY AppendProperties, LenProperties
<1> QED  BY <1>1 DEF Ends

\* An orderly message more: what it is, and what the messages mean with it.
LEMMA OneMessageMore ==
  ASSUME NEW ms \in Seq(Messages), NEW m \in Messages, Orderly(Append(ms, m))
  PROVE  /\ m.sent /\ m.type \in {"71", "72"} /\ m.num \in {"01", "81", "91"}
         /\ m.flag \in {"0", "1"} /\ m.body # <<>>
         /\ m.num = "91" => ms # <<>> /\ Last(ms).num = "81" /\ Last(ms).type = m.type
         /\ \A t \in {"71", "72"} :
              Meant(Append(ms, m), t) =
                IF m.type = t /\ m.num = "01" THEN m.body
                ELSE IF m.type = t /\ m.num = "91" THEN Last(ms).body \o m.body
                ELSE Meant(ms, t)
<1> DEFINE n == Len(ms)
           more == Append(ms, m)
<1>1. /\ n \in Nat /\ Len(more) = n + 1 /\ more[n + 1] = m
      /\ \A i \in 1 .. n : more[i] = ms[i]
  BY AppendProperties, LenProperties
<1>2. n + 1 \in 1 .. Len(more)
  BY <1>1
<1>3. /\ m.sent /\ m.type \in {"71", "72"} /\ m.num \in {"01", "81", "91"}
      /\ m.flag \in {"0", "1"} /\ m.body # <<>>
      /\ m.num = "91" => n + 1 > 1 /\ more[(n + 1) - 1].num = "81"
                         /\ more[(n + 1) - 1].type = m.type
  <2> HIDE DEF n, more
  <2> QED  BY <1>1, <1>2 DEF Orderly, more
<1>4. m.num = "91" => ms # <<>> /\ more[n] = Last(ms) /\ more[n] = more[(n + 1) - 1]
  <2> SUFFICES ASSUME m.num = "91" PROVE ms # <<>> /\ more[n] = Last(ms) /\ more[n] = more[(n + 1) - 1]
    OBVIOUS
  <2>1. n \in 1 .. n /\ (n + 1) - 1 = n
    BY <1>1, <1>3
  <2>2. ms # <<>>
    BY <2>1, EmptySeq
  <2> HIDE DEF more
  <2> QED  BY <1>1, <2>1, <2>2 DEF Last
<1>5. ASSUME NEW t \in {"71", "72"}, m.type = t, m.num \in {"01", "91"}
      PROVE  Meant(more, t) = IF m.num = "01" THEN m.body ELSE Last(ms).body \o m.body
  <2>1. Ends(more, t) # {} /\ Max(Ends(more, t)) = n + 1
    BY <1>5, EndedLast
  <2>2. Meant(more, t) = IF more[n + 1].num = "01" THEN more[n + 1].body
                         ELSE more[(n + 1) - 1].body \o more[n + 1].body
    <3> HIDE DEF more, n
    <3> QED  BY <2>1 DEF Meant, Ends
  <2> HIDE DEF more
  <2> QED  BY <1>1, <1>4, <1>5, <2>2
<1>6. ASSUME NEW t \in {"71", "72"}, ~ (m.type = t /\ m.num \in {"01", "91"})
      PROVE  Meant(more, t) = Meant(ms, t)
  <2>1. Ends(more, t) = Ends(ms, t)
    BY <1>6, EndsKept
  <2>2. CASE Ends(ms, t) = {}
    <3> HIDE DEF more
    <3> QED  BY <2>1, <2>2 DEF Meant, Ends
  <2>3. CASE Ends(ms, t) # {}
    <3> DEFINE i == Max(Ends(ms, t))
    <3>1. Ends(ms, t) \in SUBSET (1 .. n)
      BY DEF Ends
    <3>2. i \in Ends(ms, t)
      <4>1. \E j \in Ends(ms, t) : \A k \in Ends(ms, t) : j >= k
        BY <1>1, <2>3, <3>1, GreatestExists
      <4> QED  BY <4>1 DEF Max
    <3>3. i \in 1 .. n /\ ms[i].num \in {"01", "91"}
      BY <3>2 DEF Ends
    <3>4. i \in 1 .. Len(more) /\ more[i] = ms[i]
      BY <1>1, <3>3
    <3>5. more[i].num = "91" => i - 1 \in 1 .. n
      <4>1. more[i].num = "91" => i > 1
        <5> HIDE DEF more, i, n
        <5> QED  BY <3>4 DEF Orderly, more
      <4> QED  BY <1>1, <3>3, <4>1
    <3>6. more[i].num = "91" => more[i - 1] = ms[i - 1]
      BY <1>1, <3>5
    <3>7. Meant(ms, t) = IF ms[i].num = "01" THEN ms[i].body ELSE ms[i - 1].body \o ms[i].body
      BY <2>3 DEF Meant, Ends
    <3>8. Meant(more, t) = IF more[i].num = "01" THEN more[i].body
                           ELSE more[i - 1].body \o more[i].body
      <4>1. Ends(more, t) # {} /\ Max(Ends(more, t)) = i
        BY <2>1, <2>3
      <4> HIDE DEF i, more
      <4> QED  BY <4>1 DEF Meant, Ends
    <3> HIDE DEF i, more
    <3> QED  BY <3>3, <3>4, <3>6, <3>7, <3>8
  <2> QED  BY <2>2, <2>3
<1> QED  BY <1>3, <1>4, <1>5, <1>6
-----------------------------------------------------------------------------
(* A card is presented *)

\* What the kernel and the results may be once a card has been presented by t.
Presented(t, K, R, n) ==
  /\ K \in KernelData(Cards \cup {NoCard}) /\ R \in ResultData
  /\ t \in {"CHIP", "TAP"} => K.card \in Cards /\ K.card.sale = sale /\ K.card.try = n
  /\ t = "CHIP" =>
       /\ R.ctls = NoCard /\ R.info = None
       /\ R.ct # NoCard => R.ct = K.card \/ (R.ct.sale = sale /\ R.ct.try < n)
  /\ t = "TAP" =>
       /\ R.ct # NoCard => R.ct.sale = sale /\ R.ct.try < n
       /\ R.ctls \in {NoCard, K.card}
       /\ R.info = "CHIP" => R.ctls = K.card
       /\ Has(K.cvm) => R.cvm = K.cvm

\* A card is a value, and not NoCard.
LEMMA CardValue ==
  ASSUME NEW c \in Cards
  PROVE  c # NoCard /\ c.sale \in Nat /\ c.try \in Nat /\ c.scheme \in Schemes
BY TokensAssumption, ExchangeAssumption DEF Cards

\* The card presented next.
LEMMA NewCard ==
  ASSUME TypeOK, WhileReading, Present, NEW s \in Schemes
  PROVE  /\ Card(s) \in Cards /\ Card(s).sale = sale /\ Card(s).try = attempt'
         /\ attempt \in Nat /\ attempt' = attempt + 1 /\ attempt' \in 0 .. 3
BY ExchangeAssumption DEF TypeOK, WhileReading, Present, Card, Cards

\* A value of the kernel that is there is a result, and is not None.
LEMMA CvmValue ==
  ASSUME NEW v \in CvmData
  PROVE  /\ v # None
         /\ Has(v) => v \in Cvms
BY TokensAssumption DEF CvmData, Cvm, Has, Cvms

\* The AID told is that of the card, or, without one in the kernel, of a result.
LEMMA AidOf ==
  ASSUME NEW K \in KernelData(Cards \cup {NoCard}), NEW R
  PROVE  \/ Aid(K, R) = NoCard
         \/ Aid(K, R) = K.card
         \/ K.aid = Empty /\ (Aid(K, R) = R.ct \/ Aid(K, R) = R.ctls)
<1>1. K.aid \in {Absent, Empty, "Value"} /\ Absent # Empty /\ "Value" \notin {Absent, Empty}
  BY TokensAssumption DEF KernelData, getCT_EMV_TAG
<1>2. CASE K.aid = Absent
  BY <1>1, <1>2 DEF Aid
<1>3. CASE K.aid = "Value"
  BY <1>1, <1>3 DEF Aid
<1>4. CASE K.aid = Empty
  BY <1>1, <1>4 DEF Aid
<1> QED  BY <1>1, <1>2, <1>3, <1>4

\* What C53 says.
LEMMA C53Says ==
  ASSUME NEW t, NEW req, sent' = Answer("C53", t, req)
  PROVE  /\ sent'.cmd = "C53" /\ sent'.sale = sale /\ sent'.tech = t
         /\ sent'.kernel = kernel' /\ sent'.info = res'.info
         /\ sent'.chip <=> t = "CHIP" \/ (t = "TAP" /\ res'.info = "CHIP")
         /\ sent'.chip => sent'.e1 = assembleTokenE1(kernel', res', t, stValue.amount)
         /\ sent'.chip => sent'.e2 = assembleTokenE2(req, kernel', res', t, "C53", stValue.amount)
         /\ ~sent'.chip => sent'.e1 = NoToken1 /\ sent'.e2 = NoToken2
         /\ sent'.cut => sent'.chip /\ identify_AMEX_card(kernel', res')
<1> DEFINE chip == t = "CHIP" \/ (t = "TAP" /\ res'.info = "CHIP")
           e1 == assembleTokenE1(kernel', res', t, stValue.amount)
           e2 == assembleTokenE2(req, kernel', res', t, "C53", stValue.amount)
           amex == identify_AMEX_card(kernel', res')
           form == FormFactor(kernel', res', t)
<1>1. sent' = [cmd |-> "C53", sale |-> sale, tech |-> t, chip |-> chip,
               kernel |-> kernel', info |-> res'.info,
               e1 |-> IF chip THEN e1 ELSE NoToken1,
               e2 |-> IF chip THEN e2 ELSE NoToken2,
               cut |-> chip /\ kernel'.data = "Value" /\ amex,
               form |-> form]
  BY DEF Answer, Check_typ_CTLS
<1> HIDE DEF chip, e1, e2, amex, form
<1>2. /\ sent'.cmd = "C53" /\ sent'.sale = sale /\ sent'.tech = t
      /\ sent'.kernel = kernel' /\ sent'.info = res'.info /\ sent'.chip = chip
      /\ sent'.e1 = IF chip THEN e1 ELSE NoToken1
      /\ sent'.e2 = IF chip THEN e2 ELSE NoToken2
      /\ sent'.cut = (chip /\ kernel'.data = "Value" /\ amex)
  BY <1>1
<1> QED  BY <1>2 DEF chip, e1, e2, amex

\* Both tokens give the same CVM result, when the ECR asks for it.
LEMMA SameCvm ==
  ASSUME NEW req, NEW t, NEW K \in KernelData(Cards \cup {NoCard}), NEW R, NEW a, NEW cmd,
         "9F34" \in req, t \in {"CHIP", "TAP"},
         t = "TAP" => R.info = "CHIP" /\ (Has(K.cvm) => R.cvm = K.cvm)
  PROVE  assembleTokenE2(req, K, R, t, cmd, a)["9F34"] = E1Cvm(K, R, a)
<1>1. K.cvm # None
  BY CvmValue DEF KernelData
<1>2. assembleTokenE2(req, K, R, t, cmd, a)["9F34"] =
        IF Fetched("9F34", K, R, t, cmd) # None THEN Fetched("9F34", K, R, t, cmd)
        ELSE Filled("9F34", K, R, a)
  BY DEF assembleTokenE2, LocalTags
<1>3. Fetched("9F34", K, R, t, cmd) = IF ~Has(K.cvm) THEN None ELSE K.cvm
  BY DEF Fetched
<1>4. Filled("9F34", K, R, a) = IF R.info = "CHIP" THEN TapCvm(K, R, a) ELSE None
  BY DEF Filled, Check_typ_CTLS
<1>5. CASE Has(K.cvm)
  BY <1>1, <1>2, <1>3, <1>5 DEF E1Cvm
<1>6. CASE ~Has(K.cvm)
  BY <1>2, <1>3, <1>4, <1>6 DEF E1Cvm, Check_typ_CTLS
<1> QED  BY <1>5, <1>6

\* The method made up for a tapped card depends on the amount only for a Visa card
\* whose qualifiers leave it open.
LEMMA AmountApart ==
  ASSUME NEW K, NEW R, NEW a, NEW b, R.ctls = K.card,
         ~ (IsScheme(K.card, "Visa") /\ ~Has(K.cvm) /\ K.ctq = "Other"),
         K.ctq \in CtqData
  PROVE  E1Cvm(K, R, a) = E1Cvm(K, R, b)
<1>1. CASE Has(K.cvm)
  BY <1>1 DEF E1Cvm
<1>2. CASE ~IsScheme(K.card, "Visa")
  BY <1>2 DEF E1Cvm, TapCvm, inGet9F34Ctls
<1>3. CASE ~Has(K.cvm) /\ IsScheme(K.card, "Visa")
  <2>1. K.ctq \in {Absent, "Zero", "OnDevice", "Signature"}
    BY <1>3 DEF CtqData
  <2>2. \A c : inCTQvalue(K.ctq, c) = CASE K.ctq \in {Absent, "Zero"} -> 31
                                       [] K.ctq = "OnDevice"  -> 65
                                       [] OTHER -> 30
    <3>1. CASE K.ctq \in {Absent, "Zero"}
      BY <3>1, TokensAssumption DEF inCTQvalue
    <3>2. CASE K.ctq \notin {Absent, "Zero"}
      BY <2>1, <3>2 DEF inCTQvalue
    <3> QED  BY <3>1, <3>2
  <2>3. TapCvm(K, R, a) = TapCvm(K, R, b)
    BY <1>3, <2>2 DEF TapCvm
  <2> QED  BY <2>3 DEF E1Cvm
<1> QED  BY <1>1, <1>2, <1>3

-----------------------------------------------------------------------------
(* What C53 leaves *)

\* The step CvmAgrees speaks of.
Agreed ==
  LET asked == "9F34" \in DOMAIN sent'.e2
      gone  == IsScheme(sent'.kernel.card, "Visa") /\ sent'.tech = "TAP"
               /\ ~Has(sent'.kernel.cvm) /\ sent'.kernel.ctq = "Other"
  IN /\ sent'.cmd = "C53" /\ asked => sent'.e2["9F34"] = sent'.e1.cvm
     /\ sent.cmd = "C53" /\ sent'.cmd = "C54" /\ sent'.sale = sent.sale /\ asked /\ ~gone
          => sent'.e2["9F34"] = sent.e1.cvm

\* An empty map is as logged.
LEMMA MapCleared ==
  ASSUME stValue' = NoFields, log' = <<>>
  PROVE  AsLogged' /\ stValue' \in Fields
<1>1. NoFields \in Fields
  BY NothingMeant DEF NoFields, Fields, Scripts
<1>2. AsLogged'
  <2>1. /\ log' \in Seq(Messages) /\ Orderly(log')
        /\ Meant(log', "71") = <<>> /\ Meant(log', "72") = <<>>
    BY NothingMeant
  <2>2. stValue'.s71 = <<>> /\ stValue'.s72 = <<>>
    BY DEF NoFields
  <2> QED  BY <2>1, <2>2, NothingMeant DEF AsLogged
<1> QED  BY <1>1, <1>2

\* A C53 for a card as presented keeps the invariant, and its tokens agree.
LEMMA CloseStep ==
  ASSUME IInv, phase = "Reading", NEW req, Close53(req), attempt' \in 0 .. 3,
         chTechnology' \in {"None", "CHIP", "TAP", "MSR", "KBD"},
         Presented(chTechnology', kernel', res', attempt')
  PROVE  IInv' /\ Agreed
<1> DEFINE t == chTechnology'
           K == kernel'
           R == res'
           a == stValue.amount
<1>1. /\ sent'.cmd = "C53" /\ sent'.sale = sale /\ sent'.tech = t
      /\ sent'.kernel = K /\ sent'.info = R.info
      /\ sent'.chip <=> t = "CHIP" \/ (t = "TAP" /\ R.info = "CHIP")
      /\ sent'.chip => sent'.e1 = assembleTokenE1(K, R, t, a)
      /\ sent'.chip => sent'.e2 = assembleTokenE2(req, K, R, t, "C53", a)
      /\ ~sent'.chip => sent'.e1 = NoToken1 /\ sent'.e2 = NoToken2
      /\ sent'.cut => sent'.chip /\ identify_AMEX_card(K, R)
  BY C53Says DEF Close53
<1>2. K \in KernelData(Cards \cup {NoCard}) /\ R \in ResultData /\ a \in Amounts \cup {0}
  BY DEF Presented, IInv, Shapes, Fields
<1>3. /\ phase' = "Open" /\ stValue' = NoFields /\ log' = <<>> /\ sale' = sale /\ sale \in Nat
      /\ count_fallback' = 0 /\ count' = count /\ given' = given
  BY ExchangeAssumption DEF Close53, IInv, TypeOK
<1>4. sent'.chip => /\ sent'.e1.aid = Aid(K, R) /\ sent'.e1.cvm = E1Cvm(K, R, a)
  BY <1>1 DEF assembleTokenE1
<1>5. ~sent'.chip => sent'.e1.aid = NoCard /\ DOMAIN sent'.e2 = {}
  BY <1>1 DEF NoToken1, NoToken2
<1>6. /\ R.ct \in Cards \cup {NoCard} /\ R.ctls \in Cards \cup {NoCard}
      /\ R.info \in {None, "CHIP", "MSR"}
  BY <1>2 DEF ResultData
<1>7. sent'.chip => Aid(K, R) \in Cards \cup {NoCard}
  <2>1. K.card \in Cards \cup {NoCard}
    BY <1>2 DEF KernelData
  <2> QED  BY <1>2, <1>6, <2>1, AidOf
<1>8. TypeOK' /\ Shapes'
  <2>1. stValue' \in Fields
    BY <1>3, MapCleared
  <2>2. sent'.e1.aid \in Cards \cup {NoCard}
    BY <1>4, <1>5, <1>7
  <2>3. sent'.sale \in 0 .. sale'
    BY <1>1, <1>3
  <2> QED  BY <1>2, <1>3, <1>6, <2>1, <2>2, <2>3 DEF IInv, TypeOK, Shapes, Fields
<1>9. WhileReading'
  BY <1>3 DEF WhileReading
<1>10. AsSent'
  <2>1. sent'.chip => t \in {"CHIP", "TAP"}
    BY <1>1
  <2>2. sent'.chip /\ t = "CHIP" => R.info = None
    BY DEF Presented
  <2>3. sent'.chip /\ t = "TAP" => /\ R.info = "CHIP" /\ R.ctls = K.card
                                   /\ Has(K.cvm) => R.cvm = K.cvm
    BY <1>1 DEF Presented
  <2> QED  BY <1>1, <1>2, <1>4, <2>1, <2>2, <2>3 DEF AsSent
<1>11. AsLogged' /\ ScriptsWhole'
  BY <1>3, MapCleared DEF IInv, ScriptsWhole
<1>12. OwnData'
  <2> SUFFICES ASSUME sent'.chip
               PROVE  /\ Aid(K, R) # NoCard =>
                           \/ Aid(K, R) = K.card
                           \/ K.aid = Empty /\ Aid(K, R).sale = sale /\ Aid(K, R).try < K.card.try
                      /\ t = "CHIP" => E1Cvm(K, R, a) \in {None, K.cvm}
                      /\ identify_AMEX_card(K, R) => IsScheme(K.card, "Amex") \/ K.aid = Empty
    BY <1>1, <1>4 DEF OwnData
  <2>1. t \in {"CHIP", "TAP"} /\ K.card.try = attempt'
    BY <1>1 DEF Presented
  <2>2. /\ R.ct # NoCard => R.ct = K.card \/ (R.ct.sale = sale /\ R.ct.try < attempt')
        /\ R.ctls # NoCard => R.ctls = K.card
    BY <2>1 DEF Presented
  <2>3. Aid(K, R) # NoCard =>
          \/ Aid(K, R) = K.card
          \/ K.aid = Empty /\ Aid(K, R).sale = sale /\ Aid(K, R).try < K.card.try
    BY <1>2, <2>1, <2>2, AidOf
  <2>4. t = "CHIP" => E1Cvm(K, R, a) \in {None, K.cvm}
    <3>1. t = "CHIP" => R.info # "CHIP"
      BY TokensAssumption DEF Presented
    <3> QED  BY <3>1 DEF E1Cvm, Check_typ_CTLS
  <2>5. identify_AMEX_card(K, R) => IsScheme(K.card, "Amex") \/ K.aid = Empty
    BY <1>2, AidOf DEF identify_AMEX_card, IsScheme
  <2> QED  BY <2>3, <2>4, <2>5
<1>13. Agreed
  <2>1. sent'.chip /\ "9F34" \in DOMAIN sent'.e2 => sent'.e2["9F34"] = E1Cvm(K, R, a)
    <3> SUFFICES ASSUME sent'.chip, "9F34" \in DOMAIN sent'.e2
                 PROVE  sent'.e2["9F34"] = E1Cvm(K, R, a)
      OBVIOUS
    <3>1. "9F34" \in req
      BY <1>1 DEF assembleTokenE2
    <3>2. /\ t \in {"CHIP", "TAP"}
          /\ t = "TAP" => R.info = "CHIP" /\ (Has(K.cvm) => R.cvm = K.cvm)
      BY <1>1 DEF Presented
    <3>3. assembleTokenE2(req, K, R, t, "C53", a)["9F34"] = E1Cvm(K, R, a)
      <4> HIDE DEF t, K, R, a
      <4> QED  BY <1>2, <3>1, <3>2, SameCvm
    <3> QED  BY <1>1, <3>3
  <2> QED  BY <1>1, <1>4, <1>5, <2>1 DEF Agreed
<1> QED  BY <1>8, <1>9, <1>10, <1>11, <1>12, <1>13 DEF IInv

-----------------------------------------------------------------------------
(* The actions *)

\* A field of a record of kernel data, changed.
LEMMA CardPut ==
  ASSUME NEW d \in Data, NEW c \in Cards
  PROVE  /\ [d EXCEPT !.card = c] \in KernelData(Cards \cup {NoCard})
         /\ [d EXCEPT !.card = c].card = c /\ [d EXCEPT !.card = c].cvm = d.cvm
BY ExchangeAssumption DEF KernelData

LEMMA InitIInv == Init => IInv
<1> SUFFICES ASSUME Init PROVE IInv
  OBVIOUS
<1>1. NoFields \in Fields
  BY NothingMeant DEF NoFields, Fields, Scripts
<1>2. NoResults \in ResultData
  BY DEF NoResults, ResultData, Cvms
<1>3. NoKernel \in KernelData(Cards \cup {NoCard})
  BY DEF NoKernel, KernelData, getCT_EMV_TAG, CvmData, CtqData, FormData
<1>4. TypeOK /\ Shapes
  BY <1>1, <1>2, <1>3, ExchangeAssumption
     DEF Init, TypeOK, Shapes, Fields, ResultData, NoAnswer, NoToken1
<1>5. WhileReading /\ AsSent /\ OwnData
  BY DEF Init, WhileReading, AsSent, OwnData, NoAnswer
<1>6. AsLogged
  BY NothingMeant DEF Init, AsLogged, NoFields
<1>7. ScriptsWhole
  <2>1. FlattenSeq(<< <<>> >>) = <<>>
    BY FlattenNothing
  <2> QED  BY <2>1, NothingMeant DEF Init, ScriptsWhole, NothingGiven
<1> QED  BY <1>4, <1>5, <1>6, <1>7 DEF IInv

LEMMA StartSaleStep ==
  ASSUME IInv, NEW a \in Amounts, StartSale(a)
  PROVE  IInv' /\ sent' = sent
<1>1. /\ phase' = "Reading" /\ sale' = sale + 1 /\ sale \in Nat /\ sale' \in 0 .. MaxSales
      /\ chTechnology' = "None" /\ count_fallback' = 0 /\ attempt' = 0
      /\ kernel' = NoKernel /\ res' = NoResults /\ log' = log /\ count' = count
      /\ sent' = sent /\ given' = given /\ stValue' = [stValue EXCEPT !.amount = a]
  BY ExchangeAssumption DEF StartSale, IInv, TypeOK
<1>2. NoResults \in ResultData /\ NoResults.ct = NoCard /\ NoResults.ctls = NoCard
      /\ NoResults.info = None
  BY DEF NoResults, ResultData, Cvms
<1>3. NoKernel \in KernelData(Cards \cup {NoCard})
  BY DEF NoKernel, KernelData, getCT_EMV_TAG, CvmData, CtqData, FormData
<1>4. /\ stValue' \in Fields /\ stValue'.s71 = stValue.s71 /\ stValue'.s72 = stValue.s72
      /\ stValue'.aux = stValue.aux
  BY <1>1 DEF IInv, Shapes, Fields
<1>5. sent.sale \in 0 .. sale
  BY DEF IInv, Shapes
<1>6. TypeOK' /\ Shapes'
  BY <1>1, <1>2, <1>3, <1>4, <1>5 DEF IInv, TypeOK, Shapes, Fields, ResultData
<1>7. WhileReading' /\ AsSent'
  BY <1>1, <1>2, <1>5 DEF WhileReading, AsSent
<1>8. AsLogged' /\ OwnData' /\ ScriptsWhole'
  BY <1>1, <1>4 DEF IInv, AsLogged, OwnData, ScriptsWhole
<1> QED  BY <1>1, <1>6, <1>7, <1>8 DEF IInv

LEMMA ChipFailsStep ==
  ASSUME IInv, NEW s \in Schemes, NEW d \in Data, ChipFails(s, d)
  PROVE  IInv' /\ sent' = sent
<1>1. /\ phase = "Reading" /\ phase' = "Reading" /\ count_fallback \in 0 .. 1
      /\ attempt' = attempt + 1 /\ count_fallback' = count_fallback + 1
      /\ stValue' = stValue /\ log' = log /\ sale' = sale /\ count' = count
      /\ sent' = sent /\ given' = given /\ chTechnology' = "CHIP"
  BY DEF ChipFails, Present, map, IInv, TypeOK
<1>2. /\ attempt = count_fallback /\ sale > 0 /\ sent.sale < sale
      /\ res.ctls = NoCard /\ res.info = None
      /\ res.ct # NoCard => res.ct.sale = sale /\ res.ct.try =< attempt
  BY <1>1 DEF IInv, WhileReading
<1>3. Card(s) \in Cards /\ Card(s).sale = sale /\ Card(s).try = attempt'
  BY NewCard DEF IInv, ChipFails
<1>4. /\ kernel' \in KernelData(Cards \cup {NoCard}) /\ res' \in ResultData
      /\ res'.ctls = res.ctls /\ res'.info = res.info
      /\ res'.ct = res.ct \/ res'.ct \in {NoCard, Card(s)}
  <2>0. kernel \in KernelData(Cards \cup {NoCard}) /\ res \in ResultData
    BY DEF IInv, TypeOK, Shapes
  <2>1. CASE UNCHANGED reading
    BY <2>0, <2>1 DEF reading
  <2>2. CASE /\ kernel' = [d EXCEPT !.card = Card(s)]
             /\ \E c \in {NoCard, Card(s)} : res' = [res EXCEPT !.ct = c]
    <3> HIDE DEF Card
    <3>1. kernel' \in KernelData(Cards \cup {NoCard})
      BY <1>3, <2>2, CardPut
    <3>2. PICK c \in {NoCard, Card(s)} : res' = [res EXCEPT !.ct = c]
      BY <2>2
    <3> QED  BY <1>3, <2>0, <3>1, <3>2 DEF ResultData
  <2> QED  BY <2>1, <2>2 DEF ChipFails
<1>5. TypeOK' /\ Shapes'
  BY <1>1, <1>2, <1>4 DEF IInv, TypeOK, Shapes, ResultData
<1>6. WhileReading'
  <2>1. attempt \in Nat /\ (res.ct # NoCard => res.ct.try \in Nat)
    BY CardValue DEF IInv, TypeOK, Shapes, ResultData
  <2>2. res'.ct # NoCard => res'.ct.sale = sale /\ res'.ct.try =< attempt'
    <3>1. CASE res'.ct = res.ct
      BY <1>1, <1>2, <2>1, <3>1
    <3>2. CASE res'.ct \in {NoCard, Card(s)}
      <4> HIDE DEF Card
      <4> QED  BY <1>1, <1>3, <2>1, <3>2
    <3> QED  BY <1>4, <3>1, <3>2
  <2> QED  BY <1>1, <1>2, <1>4, <2>2 DEF WhileReading
<1>7. AsSent' /\ AsLogged' /\ OwnData' /\ ScriptsWhole'
  BY <1>1 DEF IInv, AsSent, AsLogged, OwnData, ScriptsWhole
<1> QED  BY <1>1, <1>5, <1>6, <1>7 DEF IInv

LEMMA ReadChipStep ==
  ASSUME IInv, NEW s \in Schemes, NEW d \in Data, NEW req, ReadChip(s, d, req)
  PROVE  IInv' /\ Agreed
<1>1. phase = "Reading" /\ chTechnology' = "CHIP" /\ Close53(req)
      /\ kernel' = [d EXCEPT !.card = Card(s)]
  BY DEF ReadChip, Present
<1>2. /\ attempt = count_fallback /\ res.ctls = NoCard /\ res.info = None
      /\ res.ct # NoCard => res.ct.sale = sale /\ res.ct.try =< attempt
  BY <1>1 DEF IInv, WhileReading
<1>3. /\ Card(s) \in Cards /\ Card(s).sale = sale /\ Card(s).try = attempt'
      /\ attempt \in Nat /\ attempt' = attempt + 1 /\ attempt' \in 0 .. 3
  BY NewCard DEF IInv, ReadChip
<1>4. kernel' \in KernelData(Cards \cup {NoCard}) /\ kernel'.card = Card(s)
  <2> HIDE DEF Card
  <2> QED  BY <1>1, <1>3, CardPut
<1>5. res \in ResultData
  BY DEF IInv, Shapes
<1>6. /\ res' \in ResultData /\ res'.ctls = res.ctls /\ res'.info = res.info
      /\ res'.ct = res.ct \/ res'.ct \in {NoCard, Card(s)}
  <2>1. CASE UNCHANGED res
    BY <1>5, <2>1
  <2>2. ASSUME NEW c \in {NoCard, Card(s)}, res' = [res EXCEPT !.ct = c]
        PROVE  /\ res' \in ResultData /\ res'.ctls = res.ctls /\ res'.info = res.info
               /\ res'.ct \in {NoCard, Card(s)}
    <3> HIDE DEF Card
    <3> QED  BY <1>3, <1>5, <2>2 DEF ResultData
  <2> QED  BY <2>1, <2>2 DEF ReadChip
<1>7. Presented("CHIP", kernel', res', attempt')
  <2>1. res.ct # NoCard => res.ct.try \in Nat
    BY <1>5, CardValue DEF ResultData
  <2> QED  BY <1>2, <1>3, <1>4, <1>6, <2>1 DEF Presented
<1> QED  BY <1>1, <1>3, <1>7, CloseStep

LEMMA ReadTapStep ==
  ASSUME IInv, NEW s \in Schemes, NEW d \in Data, NEW kind \in {None, "CHIP", "MSR"}, NEW req,
         ReadTap(s, d, kind, req)
  PROVE  IInv' /\ Agreed
<1>1. phase = "Reading" /\ chTechnology' = "TAP" /\ Close53(req)
      /\ kernel' = [d EXCEPT !.card = Card(s)]
  BY DEF ReadTap, Present
<1>2. res.ct # NoCard => res.ct.sale = sale /\ res.ct.try =< attempt
  BY <1>1 DEF IInv, WhileReading
<1>3. /\ Card(s) \in Cards /\ Card(s).sale = sale /\ Card(s).try = attempt'
      /\ attempt \in Nat /\ attempt' = attempt + 1 /\ attempt' \in 0 .. 3
  BY NewCard DEF IInv, ReadTap
<1>4. /\ kernel' \in KernelData(Cards \cup {NoCard}) /\ kernel'.card = Card(s)
      /\ kernel'.cvm = d.cvm
  <2> HIDE DEF Card
  <2> QED  BY <1>1, <1>3, CardPut
<1>5. res \in ResultData
  BY DEF IInv, Shapes
<1>6. d.cvm \in CvmData
  BY ExchangeAssumption DEF KernelData
<1> DEFINE l == IF kind = None THEN NoCard ELSE Card(s)
           v == IF Has(d.cvm) THEN d.cvm ELSE Cvm(0, 0)
<1>7. l \in Cards \cup {NoCard} /\ v \in Cvms
  BY <1>3, <1>6, CvmValue DEF Cvms
<1>8. res' = [res EXCEPT !.ctls = l, !.info = kind, !.cvm = v]
  BY DEF ReadTap
<1>9. res' \in ResultData /\ res'.ct = res.ct /\ res'.ctls = l /\ res'.info = kind /\ res'.cvm = v
  <2> HIDE DEF l, v, Card
  <2> QED  BY <1>5, <1>7, <1>8 DEF ResultData
<1>10. kind = "CHIP" => l = Card(s)
  BY TokensAssumption
<1>11. Presented("TAP", kernel', res', attempt')
  <2>1. res.ct # NoCard => res.ct.try \in Nat
    BY <1>5, CardValue DEF ResultData
  <2>2. Has(kernel'.cvm) => res'.cvm = kernel'.cvm
    BY <1>4, <1>9
  <2>3. res'.ctls \in {NoCard, kernel'.card} /\ (res'.info = "CHIP" => res'.ctls = kernel'.card)
    BY <1>4, <1>9, <1>10
  <2> HIDE DEF l, v, Card
  <2> QED  BY <1>2, <1>3, <1>4, <1>9, <2>1, <2>2, <2>3 DEF Presented
<1> QED  BY <1>1, <1>3, <1>11, CloseStep

LEMMA ReadOtherStep ==
  ASSUME IInv, NEW t \in {"None", "MSR", "KBD"}, ReadOther(t)
  PROVE  IInv' /\ Agreed
<1>1. /\ phase = "Reading" /\ chTechnology' = t /\ Close53({})
      /\ kernel' = kernel /\ res' = res /\ attempt' = attempt + 1
  BY DEF ReadOther, Present, reading
<1>2. attempt' \in 0 .. 3
  BY <1>1 DEF IInv, TypeOK, WhileReading
<1>3. Presented(t, kernel', res', attempt')
  BY <1>1 DEF Presented, IInv, TypeOK, Shapes
<1> QED  BY <1>1, <1>2, <1>3, CloseStep

LEMMA AbandonStep ==
  ASSUME IInv, Abandon
  PROVE  IInv' /\ sent' = sent
<1>1. /\ phase = "Reading" /\ phase' = "Open"
      /\ UNCHANGED <<chTechnology, count_fallback, attempt, kernel, res, stValue, log, sale,
                     count, sent, given>>
  BY DEF Abandon, reading, map
<1>2. sent.sale < sale /\ sent.sale \in 0 .. sale /\ sale \in Nat
  BY <1>1, ExchangeAssumption DEF IInv, WhileReading, Shapes, TypeOK
<1>3. TypeOK' /\ Shapes'
  BY <1>1 DEF IInv, TypeOK, Shapes
<1>4. WhileReading' /\ AsSent'
  BY <1>1, <1>2 DEF WhileReading, AsSent
<1>5. AsLogged' /\ OwnData' /\ ScriptsWhole'
  BY <1>1 DEF IInv, AsLogged, OwnData, ScriptsWhole
<1> QED  BY <1>1, <1>3, <1>4, <1>5 DEF IInv

LEMMA CancelStep ==
  ASSUME IInv, Cancel
  PROVE  IInv' /\ sent' = sent
<1>1. /\ phase' = "Idle" /\ stValue' = NoFields /\ log' = <<>>
      /\ UNCHANGED <<chTechnology, count_fallback, attempt, kernel, res, sale, count, sent, given>>
  BY DEF Cancel, reading
<1>2. AsLogged' /\ stValue' \in Fields
  BY <1>1, MapCleared
<1>3. TypeOK' /\ Shapes'
  BY <1>1, <1>2 DEF IInv, TypeOK, Shapes, Fields
<1>4. WhileReading' /\ AsSent' /\ OwnData' /\ ScriptsWhole'
  BY <1>1 DEF IInv, WhileReading, AsSent, OwnData, ScriptsWhole
<1> QED  BY <1>1, <1>2, <1>3, <1>4 DEF IInv

\* A message that is logged is stored as it is meant.
LEMMA MessageKept ==
  ASSUME IInv, NEW m \in Messages, inDoC25BBVA(m)
  PROVE  AsLogged' /\ stValue' \in Fields
<1> DEFINE script == Script(m)
           next == IF Status25(m, script) # "00" THEN stValue
                   ELSE IF m.type = "71" THEN Stored71(m, script) ELSE Stored72(m, script)
<1>1. stValue' = [next EXCEPT !.script = script] /\ log' = Logged(m)
  BY DEF inDoC25BBVA
<1>2. stValue \in Fields /\ m.body \in Scripts /\ <<"Pad">> \in Scripts
  <2>1. <<"Pad">> \in Seq(Texts)
    BY DEF Texts
  <2> QED  BY <2>1, ExchangeAssumption DEF IInv, Shapes, Scripts
<1>3. script \in Scripts
  BY <1>2 DEF Script, Fields
<1>4. ASSUME NEW pad \in {<<>>, <<"Pad">>}
      PROVE  Assembled(m, script, pad) \in Scripts
  <2>1. pad \in Scripts /\ stValue.aux \in Scripts
    BY <1>2, NothingMeant DEF Fields
  <2>2. (pad \o stValue.aux) \o script \in Scripts
    <3>1. pad \o stValue.aux \in Scripts
      BY <2>1, ConcatProperties DEF Scripts
    <3> QED  BY <1>3, <3>1, ConcatProperties DEF Scripts
  <2> QED  BY <1>3, <2>2 DEF Assembled
<1>5. next \in Fields
  <2>1. Stored71(m, script) \in Fields
    <3> HIDE DEF script
    <3> QED  BY <1>2, <1>3, <1>4 DEF Stored71, Fields
  <2>2. Stored72(m, script) \in Fields
    <3> HIDE DEF script
    <3> QED  BY <1>2, <1>3, <1>4 DEF Stored72, Fields
  <2> QED  BY <1>2, <2>1, <2>2
<1>6. /\ stValue' \in Fields /\ stValue'.s71 = next.s71 /\ stValue'.s72 = next.s72
      /\ stValue'.aux = next.aux
  <2> HIDE DEF next, script
  <2> QED  BY <1>1, <1>3, <1>5 DEF Fields
<1>7. ASSUME log' # None
      PROVE  AsLogged'
  <2>1. log # None /\ Orderly(Append(log, m)) /\ log' = Append(log, m)
    BY <1>1, <1>7 DEF Logged
  <2>2. /\ log \in Seq(Messages)
        /\ Meant(log, "71") \in Scripts /\ Meant(log, "72") \in Scripts
        /\ stValue.s71 = Meant(log, "71")
        /\ stValue.s72 \in {Meant(log, "72"), <<"Pad">> \o Meant(log, "72")}
        /\ log # <<>> /\ Last(log).num = "81" => stValue.aux = Last(log).body
    BY <2>1 DEF IInv, AsLogged
  <2>3. /\ m.sent /\ m.type \in {"71", "72"} /\ m.num \in {"01", "81", "91"}
        /\ m.flag \in {"0", "1"} /\ m.body # <<>>
        /\ m.num = "91" => log # <<>> /\ Last(log).num = "81"
        /\ \A t \in {"71", "72"} :
              Meant(log', t) = IF m.type = t /\ m.num = "01" THEN m.body
                               ELSE IF m.type = t /\ m.num = "91" THEN Last(log).body \o m.body
                               ELSE Meant(log, t)
    <3>1. /\ m.sent /\ m.type \in {"71", "72"} /\ m.num \in {"01", "81", "91"}
          /\ m.flag \in {"0", "1"} /\ m.body # <<>>
          /\ m.num = "91" => log # <<>> /\ Last(log).num = "81" /\ Last(log).type = m.type
          /\ \A t \in {"71", "72"} :
              Meant(Append(log, m), t) =
                IF m.type = t /\ m.num = "01" THEN m.body
                ELSE IF m.type = t /\ m.num = "91" THEN Last(log).body \o m.body
                ELSE Meant(log, t)
      BY <2>1, <2>2, OneMessageMore, Zenon
    <3> QED  BY <2>1, <3>1
  <2>4. script = m.body /\ Status25(m, script) = "00"
    BY <2>3 DEF Script, Status25
  <2>5. next = IF m.type = "71" THEN Stored71(m, m.body) ELSE Stored72(m, m.body)
    BY <2>4
  <2>6. log' \in Seq(Messages) /\ log' # <<>> /\ Last(log') = m
    BY <2>1, <2>2, AppendProperties DEF Last
  <2>7. m.num = "91" => /\ stValue.aux = Last(log).body
                        /\ Assembled(m, m.body, <<>>) = Last(log).body \o m.body
                        /\ Assembled(m, m.body, <<"Pad">>) = <<"Pad">> \o (Last(log).body \o m.body)
                        /\ Last(log).body \o m.body \in Scripts
    <3> SUFFICES ASSUME m.num = "91"
                 PROVE  /\ stValue.aux = Last(log).body
                        /\ Assembled(m, m.body, <<>>) = Last(log).body \o m.body
                        /\ Assembled(m, m.body, <<"Pad">>) = <<"Pad">> \o (Last(log).body \o m.body)
                        /\ Last(log).body \o m.body \in Scripts
      OBVIOUS
    <3>1. stValue.aux = Last(log).body /\ stValue.aux \in Seq(Texts) /\ m.body \in Seq(Texts)
      BY <1>2, <2>2, <2>3 DEF Fields, Scripts
    <3>2. <<>> \o stValue.aux = stValue.aux
      BY <3>1, ConcatEmptySeq
    <3>3. (<<"Pad">> \o stValue.aux) \o m.body = <<"Pad">> \o (stValue.aux \o m.body)
      <4>1. <<"Pad">> \in Seq(Texts)
        BY <1>2 DEF Scripts
      <4> DEFINE p == <<"Pad">>
                 x == stValue.aux
                 y == m.body
      <4>2. p \in Seq(Texts) /\ x \in Seq(Texts) /\ y \in Seq(Texts)
        BY <3>1, <4>1
      <4>3. (p \o x) \o y = p \o (x \o y)
        <5> HIDE DEF p, x, y
        <5> QED  BY <4>2, ConcatAssociative
      <4> QED  BY <4>3
    <3>4. stValue.aux \o m.body \in Seq(Texts)
      BY <3>1, ConcatProperties
    <3> QED  BY <3>1, <3>2, <3>3, <3>4 DEF Assembled, Scripts
  <2>8. m.num = "01" => \A pad : Assembled(m, m.body, pad) = m.body
    BY DEF Assembled
  <2>9. Complete(m) <=> m.num \in {"01", "91"}
    BY <2>3 DEF Complete
  <2>10. CASE m.num = "81"
    <3>1. next = [stValue EXCEPT !.aux = m.body]
      BY <2>5, <2>9, <2>10 DEF Stored71, Stored72
    <3>2. next.aux = m.body /\ next.s71 = stValue.s71 /\ next.s72 = stValue.s72
      <4> HIDE DEF next
      <4> QED  BY <1>2, <3>1 DEF Fields
    <3> HIDE DEF next, script
    <3> QED  BY <1>6, <2>1, <2>2, <2>3, <2>6, <2>10, <3>2 DEF AsLogged
  <2>11. CASE m.num \in {"01", "91"} /\ m.type = "71"
    <3>1. next = [stValue EXCEPT !.s71 = Assembled(m, m.body, <<>>)]
      BY <2>5, <2>9, <2>11 DEF Stored71
    <3>2. next.s71 = Assembled(m, m.body, <<>>) /\ next.s72 = stValue.s72
      <4> HIDE DEF next
      <4> QED  BY <1>2, <3>1 DEF Fields
    <3> HIDE DEF next, script
    <3> QED  BY <1>2, <1>6, <2>1, <2>2, <2>3, <2>6, <2>7, <2>8, <2>11, <3>2 DEF AsLogged
  <2>12. CASE m.num \in {"01", "91"} /\ m.type = "72"
    <3>1. next = [stValue EXCEPT !.s72 = Assembled(m, m.body, <<"Pad">>)]
      BY <2>5, <2>9, <2>12 DEF Stored72
    <3>2. next.s72 = Assembled(m, m.body, <<"Pad">>) /\ next.s71 = stValue.s71
      <4> HIDE DEF next
      <4> QED  BY <1>2, <3>1 DEF Fields
    <3> HIDE DEF next, script
    <3> QED  BY <1>2, <1>6, <2>1, <2>2, <2>3, <2>6, <2>7, <2>8, <2>12, <3>2 DEF AsLogged
  <2> QED  BY <2>3, <2>10, <2>11, <2>12
<1>8. AsLogged'
  BY <1>7 DEF AsLogged
<1> QED  BY <1>6, <1>8

LEMMA C25Step ==
  ASSUME IInv, NEW m \in Messages, inDoC25BBVA(m)
  PROVE  IInv' /\ sent' = sent
<1>1. /\ phase # "Reading" /\ count' \in 0 .. MaxMessages
      /\ UNCHANGED <<phase, chTechnology, count_fallback, attempt, kernel, res, sale, sent, given>>
  BY ExchangeAssumption DEF inDoC25BBVA, session, reading, IInv, TypeOK
<1>2. AsLogged' /\ stValue' \in Fields
  BY MessageKept
<1>3. TypeOK' /\ Shapes'
  BY <1>1, <1>2 DEF IInv, TypeOK, Shapes, Fields
<1>4. WhileReading' /\ AsSent' /\ OwnData' /\ ScriptsWhole'
  BY <1>1 DEF IInv, WhileReading, AsSent, OwnData, ScriptsWhole
<1> QED  BY <1>1, <1>2, <1>3, <1>4 DEF IInv

\* What the card is given is what was meant.
LEMMA ScriptsGiven ==
  ASSUME IInv, log # None
  PROVE  LET s71 == Meant(log, "71")
             s72 == Meant(log, "72")
         IN /\ Len(s71) < ScriptLimit => FlattenSeq(Given.s71) = s71
            /\ Len(s72) < ScriptLimit => FlattenSeq(Given.s72) \in {s72, <<"Pad">> \o s72}
<1> DEFINE s71 == Meant(log, "71")
           s72 == Meant(log, "72")
<1>1. /\ s71 \in Seq(Texts) /\ s72 \in Seq(Texts)
      /\ stValue.s71 = s71 /\ stValue.s72 \in {s72, <<"Pad">> \o s72}
  BY DEF IInv, AsLogged, Scripts
<1> HIDE DEF s71, s72
<1>2. Given.s71 = Script_Format(stValue.s71) /\ Given.s72 = Script_Format(stValue.s72)
  BY DEF Given
<1>3. ScriptLimit \in Nat
  BY ExchangeAssumption
<1>4. ASSUME Len(s71) < ScriptLimit
      PROVE  FlattenSeq(Given.s71) = s71
  <2>1. Len(s71) =< ScriptLimit
    BY <1>1, <1>3, <1>4, LenProperties
  <2> QED  BY <1>1, <1>2, <2>1, ScriptKept
<1>5. ASSUME Len(s72) < ScriptLimit
      PROVE  FlattenSeq(Given.s72) = stValue.s72
  <2>1. <<"Pad">> \in Seq(Texts) /\ Len(<<"Pad">>) = 1
    BY DEF Texts
  <2>2. <<"Pad">> \o s72 \in Seq(Texts) /\ Len(<<"Pad">> \o s72) = 1 + Len(s72)
    BY <1>1, <2>1, ConcatProperties
  <2>3. stValue.s72 \in Seq(Texts) /\ Len(stValue.s72) =< ScriptLimit
    <3>1. Len(s72) \in Nat
      BY <1>1, LenProperties
    <3>2. CASE stValue.s72 = s72
      BY <1>1, <1>3, <1>5, <3>1, <3>2
    <3>3. CASE stValue.s72 = <<"Pad">> \o s72
      BY <1>3, <1>5, <2>2, <3>1, <3>3
    <3> QED  BY <1>1, <3>2, <3>3
  <2> QED  BY <1>2, <2>3, ScriptKept
<1> QED  BY <1>1, <1>4, <1>5 DEF s71, s72

\* After C53 the second cryptogram changes neither the card nor the verification.
LEMMA SecondIs ==
  ASSUME NEW K \in KernelData(Cards \cup {NoCard}), NEW L \in Second(K)
  PROVE  /\ L \in KernelData(Cards \cup {NoCard}) /\ L.card = K.card /\ L.cvm = K.cvm
         /\ L.ctq = K.ctq /\ L.f6e = K.f6e
BY DEF Second, KernelData, Cryptograms

\* A C54: what its token says of the verification is what C53 said.
LEMMA EndSaleStep ==
  ASSUME IInv, NEW req, NEW present \in BOOLEAN, EndSale(req, present)
  PROVE  IInv' /\ Agreed
<1> DEFINE t == chTechnology
           asked == IF t = "CHIP" /\ ~present THEN {} ELSE req
           a == stValue.amount
           K == kernel'
           e2 == assembleTokenE2(asked, K, res', t, "C54", a)
           chip == t = "CHIP" \/ (t = "TAP" /\ res'.info = "CHIP")
<1>1. /\ phase = "Open" /\ phase' = "Idle" /\ chTechnology' = "None"
      /\ stValue' = NoFields /\ log' = <<>> /\ res' = res
      /\ UNCHANGED <<count_fallback, attempt, sale, count>>
      /\ given' = Given \/ given' = NothingGiven
      /\ kernel' = kernel \/ kernel' \in Second(kernel)
  BY DEF EndSale
<1>2. /\ kernel \in KernelData(Cards \cup {NoCard}) /\ K \in KernelData(Cards \cup {NoCard})
      /\ K.card = kernel.card /\ K.cvm = kernel.cvm /\ K.ctq = kernel.ctq /\ K.f6e = kernel.f6e
  BY <1>1, SecondIs DEF IInv, TypeOK
<1>3. /\ sent'.cmd = "C54" /\ sent'.sale = sale /\ sent'.tech = t /\ sent'.kernel = K
      /\ sent'.e1 = NoToken1 /\ sent'.e2 = IF chip THEN e2 ELSE NoToken2
  BY DEF EndSale, Answer, Check_typ_CTLS
<1>4. stValue' \in Fields /\ AsLogged'
  BY <1>1, MapCleared
<1>5. TypeOK' /\ Shapes'
  <2>1. sent'.e1.aid = NoCard /\ sent'.sale \in 0 .. sale' /\ sale' = sale
    BY <1>1, <1>3, ExchangeAssumption DEF NoToken1, IInv, TypeOK
  <2> QED  BY <1>1, <1>2, <1>4, <2>1 DEF IInv, TypeOK, Shapes, Fields
<1>6. WhileReading' /\ AsSent' /\ OwnData'
  BY <1>1, <1>3 DEF WhileReading, AsSent, OwnData
<1>7. ScriptsWhole'
  <2>1. CASE given' = Given
    <3>1. given'.log = log /\ given'.s71 = Given.s71 /\ given'.s72 = Given.s72
      BY <2>1 DEF Given
    <3> QED  BY <3>1, ScriptsGiven DEF ScriptsWhole
  <2>2. CASE given' = NothingGiven
    <3>1. FlattenSeq(<< <<>> >>) = <<>>
      BY FlattenNothing
    <3> QED  BY <2>2, <3>1, NothingMeant DEF ScriptsWhole, NothingGiven
  <2> QED  BY <1>1, <2>1, <2>2
<1>8. Agreed
  <2> SUFFICES ASSUME sent.cmd = "C53", sent.sale = sale, "9F34" \in DOMAIN sent'.e2,
                      ~ (IsScheme(K.card, "Visa") /\ t = "TAP" /\ ~Has(K.cvm) /\ K.ctq = "Other")
               PROVE  sent'.e2["9F34"] = sent.e1.cvm
    BY <1>3 DEF Agreed
  <2>1. chip /\ sent'.e2 = e2
    BY <1>3 DEF NoToken2
  <2>2. "9F34" \in asked
    BY <2>1 DEF assembleTokenE2
  <2>3. /\ sent.tech = t /\ sent.kernel = kernel /\ sent.info = res.info
        /\ sent.chip <=> t = "CHIP" \/ (t = "TAP" /\ res.info = "CHIP")
        /\ sent.chip => /\ sent.e1.cvm \in {E1Cvm(kernel, res, b) : b \in Amounts \cup {0}}
                        /\ t = "CHIP" => res.info = None
                        /\ t = "TAP" => /\ res.ctls = kernel.card
                                        /\ Has(kernel.cvm) => res.cvm = kernel.cvm
    BY <1>1 DEF IInv, AsSent
  <2>4. sent.chip
    BY <1>1, <2>1, <2>3
  <2>5. t \in {"CHIP", "TAP"} /\ (t = "TAP" => res.info = "CHIP")
    BY <1>1, <2>1
  <2>6. e2["9F34"] = E1Cvm(K, res, a)
    <3>1. t = "TAP" => res.info = "CHIP" /\ (Has(K.cvm) => res.cvm = K.cvm)
      BY <1>2, <2>3, <2>4, <2>5
    <3>2. assembleTokenE2(asked, K, res, t, "C54", a)["9F34"] = E1Cvm(K, res, a)
      <4>1. /\ K \in KernelData(Cards \cup {NoCard}) /\ "9F34" \in asked /\ t \in {"CHIP", "TAP"}
            /\ t = "TAP" => res.info = "CHIP" /\ (Has(K.cvm) => res.cvm = K.cvm)
        BY <1>2, <2>2, <2>5, <3>1
      <4> DEFINE R == res
      <4>2. t = "TAP" => R.info = "CHIP" /\ (Has(K.cvm) => R.cvm = K.cvm)
        BY <4>1
      <4>3. assembleTokenE2(asked, K, R, t, "C54", a)["9F34"] = E1Cvm(K, R, a)
        <5> HIDE DEF t, K, R, a, asked, e2, chip
        <5> QED  BY <4>1, <4>2, SameCvm
      <4> QED  BY <4>3
    <3> QED  BY <1>1, <3>2
  <2>7. PICK b \in Amounts \cup {0} : sent.e1.cvm = E1Cvm(kernel, res, b)
    BY <2>3, <2>4
  <2>8. E1Cvm(kernel, res, b) = E1Cvm(K, res, b)
    BY <1>2 DEF E1Cvm, TapCvm, inGet9F34Ctls, Check_typ_CTLS
  <2>9. E1Cvm(K, res, a) = E1Cvm(K, res, b)
    <3>1. CASE t = "CHIP"
      <4>1. res.info # "CHIP"
        BY <2>3, <2>4, <3>1, TokensAssumption
      <4> QED  BY <4>1 DEF E1Cvm, Check_typ_CTLS
    <3>2. CASE t = "TAP"
      <4>1. res.ctls = K.card /\ K.ctq \in CtqData
        BY <1>2, <2>3, <2>4, <3>2 DEF KernelData
      <4> HIDE DEF K, a
      <4> QED  BY <3>2, <4>1, AmountApart
    <3> QED  BY <2>5, <3>1, <3>2
  <2> QED  BY <2>1, <2>6, <2>7, <2>8, <2>9
<1> QED  BY <1>1, <1>4, <1>5, <1>6, <1>7, <1>8 DEF IInv

LEMMA StutterIInv == IInv /\ UNCHANGED vars => IInv'
<1> SUFFICES ASSUME IInv, UNCHANGED vars PROVE IInv'
  OBVIOUS
<1>1. UNCHANGED <<phase, chTechnology, count_fallback, attempt, kernel, res, stValue, log, sale,
                  count, sent, given>>
  BY DEF vars, session, reading, map
<1>2. TypeOK' /\ Shapes' /\ WhileReading' /\ AsSent'
  BY <1>1 DEF IInv, TypeOK, Shapes, WhileReading, AsSent
<1>3. AsLogged' /\ OwnData' /\ ScriptsWhole'
  BY <1>1 DEF IInv, AsLogged, OwnData, ScriptsWhole
<1> QED  BY <1>2, <1>3 DEF IInv

LEMMA NextIInv == IInv /\ [Next]_vars => IInv' /\ (Agreed \/ sent' = sent)
<1> SUFFICES ASSUME IInv, [Next]_vars PROVE IInv' /\ (Agreed \/ sent' = sent)
  OBVIOUS
<1>1. ASSUME NEW a \in Amounts, StartSale(a) PROVE IInv' /\ sent' = sent
  BY <1>1, StartSaleStep
<1>2. ASSUME NEW s \in Schemes, NEW d \in Data, ChipFails(s, d) PROVE IInv' /\ sent' = sent
  BY <1>2, ChipFailsStep
<1>3. ASSUME NEW s \in Schemes, NEW d \in Data, NEW req \in Requests, ReadChip(s, d, req)
      PROVE  IInv' /\ Agreed
  BY <1>3, ReadChipStep
<1>4. ASSUME NEW s \in Schemes, NEW d \in Data, NEW req \in Requests,
             NEW kind \in {None, "CHIP", "MSR"}, ReadTap(s, d, kind, req)
      PROVE  IInv' /\ Agreed
  BY <1>4, ReadTapStep
<1>5. ASSUME NEW t \in {"None", "MSR", "KBD"}, ReadOther(t) PROVE IInv' /\ Agreed
  BY <1>5, ReadOtherStep
<1>6. CASE Abandon
  BY <1>6, AbandonStep
<1>7. ASSUME NEW m \in Messages, inDoC25BBVA(m) PROVE IInv' /\ sent' = sent
  BY <1>7, C25Step
<1>8. ASSUME NEW req \in Requests, NEW present \in BOOLEAN, EndSale(req, present)
      PROVE  IInv' /\ Agreed
  BY <1>8, EndSaleStep
<1>9. CASE Cancel
  BY <1>9, CancelStep
<1>10. CASE UNCHANGED vars
  <2>1. sent' = sent
    BY <1>10 DEF vars
  <2> QED  BY <1>10, <2>1, StutterIInv
<1> QED  BY <1>1, <1>2, <1>3, <1>4, <1>5, <1>6, <1>7, <1>8, <1>9, <1>10 DEF Next

-----------------------------------------------------------------------------
(* The theorems *)

THEOREM Invariant == Spec => []IInv
<1>1. Init => IInv
  BY InitIInv
<1>2. IInv /\ [Next]_vars => IInv'
  BY NextIInv
<1> QED  BY <1>1, <1>2, PTL DEF Spec

\* The variables have their types.
THEOREM TypeCorrect == Spec => []TypeOK
<1>1. IInv => TypeOK
  BY DEF IInv
<1> QED  BY <1>1, Invariant, PTL

\* C53 tells of the card that was read, whatever the results held before it.
THEOREM ToldOfOwnCard == Spec => []OwnData
<1>1. IInv => OwnData
  BY DEF IInv
<1> QED  BY <1>1, Invariant, PTL

\* The card gets the last complete script of each type, whole and in order.
THEOREM ScriptsArriveWhole == Spec => []ScriptsWhole
<1>1. IInv => ScriptsWhole
  BY DEF IInv
<1> QED  BY <1>1, Invariant, PTL

\* The three places that tell how the cardholder was verified agree.
THEOREM VerificationAgrees == Spec => CvmAgrees
<1>1. IInv /\ [Next]_vars => [Agreed]_sent
  BY NextIInv
<1>2. [][Agreed]_sent => CvmAgrees
  BY DEF Agreed, CvmAgrees
<1> QED  BY <1>1, <1>2, Invariant, PTL DEF Spec
=============================================================================
