---------------------------- MODULE BinTableProofs ---------------------------
(***************************************************************************)
(* Theorems about the table of excepted cards, for any versions and any    *)
(* lengths of account numbers: IInv is inductive, and every property the   *)
(* run checks follows from it.                                             *)
(*                                                                         *)
(* FixedTable computes the one table inCrpSavExc writes, from the constant *)
(* text character by character; ExceptsIs is the comparison of an account  *)
(* number with it.                                                         *)
(***************************************************************************)
EXTENDS BinTable, SequenceTheorems, TLAPS

USE DEF vars, hist

-----------------------------------------------------------------------------
(* Reading the text: inCrpSavExc *)

\* What each character of the text does.
LEMMA CharacterIs ==
  ASSUME NEW st, ~st.stop
  PROVE  /\ Character(st, A) = [st EXCEPT !.cur = ExcCrd, !.end = "min"]
         /\ Character(st, C) =
              [st EXCEPT !.out = Append(st.out, IF st.cur.max = <<>>
                                             THEN [st.cur EXCEPT !.max = st.cur.min]
                                             ELSE st.cur),
                         !.cur = ExcCrd]
         /\ Character(st, 3) =
              [st EXCEPT !.cur = [st.cur EXCEPT ![st.end] = Append(st.cur[st.end], 3)]]
<1>1. A # B /\ A # C /\ A # F /\ B # C /\ B # F /\ C # F /\ 3 \notin {A, B, C, F}
  BY DEF A, B, C, F
<1>2. Character(st, A) = [st EXCEPT !.cur = ExcCrd, !.end = "min"]
  BY <1>1, Zenon DEF Character
<1>3. Character(st, C) =
        [st EXCEPT !.out = Append(st.out, IF st.cur.max = <<>>
                                       THEN [st.cur EXCEPT !.max = st.cur.min]
                                       ELSE st.cur),
                   !.cur = ExcCrd]
  BY <1>1, Zenon DEF Character
<1>4. Character(st, 3) =
        [st EXCEPT !.cur = [st.cur EXCEPT ![st.end] = Append(st.cur[st.end], 3)]]
  BY <1>1, Zenon DEF Character
<1> QED  BY <1>2, <1>3, <1>4

\* The loop over the text is its three characters one after the other.
LEMMA ReadText ==
  /\ Read(Start, ExcText) = Character(Character(Character(Start, A), 3), C)
  /\ Read(Start, <<>>) = Start
<1>1. Len(ExcText) = 3 /\ ExcText[1] = A /\ ExcText[2] = 3 /\ ExcText[3] = C
  BY DEF ExcText
<1>2. Read(Start, ExcText) = Character(Character(Character(Start, A), 3), C)
  <2> DEFINE s1 == Character(Start, A)
             s2 == Character(s1, 3)
             s3 == Character(s2, C)
             g == [i \in 0 .. 3 |-> IF i = 0 THEN Start ELSE IF i = 1 THEN s1
                                    ELSE IF i = 2 THEN s2 ELSE s3]
             Runs(h) == h = [i \in 0 .. Len(ExcText) |->
                               IF i = 0 THEN Start ELSE Character(h[i - 1], ExcText[i])]
             f == CHOOSE h : Runs(h)
  <2>1. g = [i \in 0 .. Len(ExcText) |-> IF i = 0 THEN Start ELSE Character(g[i - 1], ExcText[i])]
    <3>1. ASSUME NEW i \in 0 .. 3
          PROVE  g[i] = IF i = 0 THEN Start ELSE Character(g[i - 1], ExcText[i])
      <4>1. g[0] = Start /\ g[1] = s1 /\ g[2] = s2 /\ g[3] = s3
        OBVIOUS
      <4>2. s1 = Character(Start, A) /\ s2 = Character(s1, 3) /\ s3 = Character(s2, C)
        OBVIOUS
      <4>3. i = 0 \/ i = 1 \/ i = 2 \/ i = 3
        OBVIOUS
      <4> HIDE DEF g, s1, s2, s3
      <4>4. CASE i = 0  BY <4>1, <4>4
      <4>5. CASE i = 1  BY <4>1, <4>2, <4>5, <1>1
      <4>6. CASE i = 2  BY <4>1, <4>2, <4>6, <1>1
      <4>7. CASE i = 3  BY <4>1, <4>2, <4>7, <1>1
      <4> QED  BY <4>3, <4>4, <4>5, <4>6, <4>7
    <3>2. g = [i \in 0 .. 3 |-> g[i]]
      OBVIOUS
    <3> HIDE DEF g
    <3> QED  BY <3>1, <3>2, <1>1
  <2>2. Runs(f)
    <3>1. Runs(g)
      BY <2>1, Zenon
    <3> HIDE DEF g, Runs
    <3> QED  BY <3>1, Zenon
  <2>3. Read(Start, ExcText) = f[Len(ExcText)]
    BY Zenon DEF Read
  <2>4. /\ f[0] = Start /\ f[1] = Character(f[0], ExcText[1])
        /\ f[2] = Character(f[1], ExcText[2]) /\ f[3] = Character(f[2], ExcText[3])
    <3>1. \A i \in 0 .. 3 : f[i] = IF i = 0 THEN Start ELSE Character(f[i - 1], ExcText[i])
      <4> HIDE DEF f
      <4> QED  BY <2>2, <1>1
    <3> HIDE DEF f
    <3> QED  BY <3>1
  <2> HIDE DEF f, g, Runs
  <2> QED  BY <2>3, <2>4, <1>1
<1>3. Read(Start, <<>>) = Start
  <2> DEFINE Runs(h) == h = [i \in 0 .. Len(<<>>) |->
                               IF i = 0 THEN Start ELSE Character(h[i - 1], <<>>[i])]
             f == CHOOSE h : Runs(h)
             g == [i \in 0 .. 0 |-> Start]
  <2>1. Len(<<>>) = 0
    BY EmptySeq
  <2>2. Runs(g)
    BY <2>1
  <2>3. Runs(f)
    <3> HIDE DEF g, Runs
    <3> QED  BY <2>2, Zenon
  <2>4. Read(Start, <<>>) = f[Len(<<>>)]
    BY Zenon DEF Read
  <2>5. f[0] = Start
    <3> HIDE DEF f
    <3> QED  BY <2>1, <2>3
  <2> HIDE DEF f
  <2> QED  BY <2>1, <2>4, <2>5
<1> QED  BY <1>2, <1>3

Three == [min |-> <<3>>, max |-> <<3>>]

\* The constant text is one record, whose two ends are 3; no text is none.
LEMMA FixedTable ==
  /\ Parse(ExcText) = <<Three>> /\ Parse(<<>>) = <<>>
  /\ Parse(ExcText) \in Seq(ExcCrds) /\ Parse(<<>>) \in Seq(ExcCrds)
<1>0. <<>> \in Seq(Digits) /\ Append(<<>>, 3) = <<3>>
  BY EmptySeq
<1>1. Start = [cur |-> ExcCrd, end |-> "min", out |-> <<>>, stop |-> FALSE]
  BY DEF Start
<1> DEFINE s1 == Character(Start, A)
           s2 == Character(s1, 3)
           s3 == Character(s2, C)
           half == [min |-> <<3>>, max |-> <<>>]
<1>2. s1 = [cur |-> ExcCrd, end |-> "min", out |-> <<>>, stop |-> FALSE]
  <2>1. ~Start.stop
    BY <1>1
  <2>2. s1 = [Start EXCEPT !.cur = ExcCrd, !.end = "min"]
    BY <2>1, CharacterIs
  <2> HIDE DEF s1
  <2> QED  BY <1>1, <2>2
<1>3. s2 = [cur |-> half, end |-> "min", out |-> <<>>, stop |-> FALSE]
  <2>1. s1.stop = FALSE /\ s1.end = "min" /\ s1.cur = ExcCrd
    BY <1>2
  <2>2. [s1.cur EXCEPT ![s1.end] = Append(s1.cur[s1.end], 3)] = half
    BY <2>1, <1>0 DEF ExcCrd
  <2>3. s2 = [s1 EXCEPT !.cur = [s1.cur EXCEPT ![s1.end] = Append(s1.cur[s1.end], 3)]]
    <3> HIDE DEF s1
    <3> QED  BY <2>1, CharacterIs
  <2>4. s2 = [s1 EXCEPT !.cur = half]
    <3> HIDE DEF s1, half
    <3> QED  BY <2>2, <2>3
  <2> HIDE DEF s1, s2, half
  <2> QED  BY <1>2, <2>4
<1>4. s3.out = <<Three>>
  <2>1. s2.stop = FALSE /\ s2.cur = half /\ s2.out = <<>>
    BY <1>3
  <2>2. s3 = [s2 EXCEPT !.out = Append(s2.out, IF s2.cur.max = <<>>
                                              THEN [s2.cur EXCEPT !.max = s2.cur.min]
                                              ELSE s2.cur),
                        !.cur = ExcCrd]
    <3> HIDE DEF s2
    <3> QED  BY <2>1, CharacterIs
  <2>3. (IF s2.cur.max = <<>> THEN [s2.cur EXCEPT !.max = s2.cur.min] ELSE s2.cur) = Three
    <3>1. half.max = <<>> /\ [half EXCEPT !.max = half.min] = Three
      BY DEF Three
    <3> HIDE DEF s2, half
    <3> QED  BY <2>1, <3>1
  <2>4. Append(<<>>, Three) = <<Three>>
    OBVIOUS
  <2>5. s3.out = Append(s2.out, Three)
    <3>1. s2 = [cur |-> half, end |-> "min", out |-> <<>>, stop |-> FALSE]
      BY <1>3
    <3> HIDE DEF s2, s3, half
    <3> QED  BY <2>2, <2>3, <3>1
  <2> HIDE DEF s2, s3
  <2> QED  BY <2>1, <2>4, <2>5
<1>5. Parse(ExcText) = <<Three>> /\ Parse(<<>>) = <<>>
  <2>1. Read(Start, ExcText) = s3
    BY ReadText
  <2>2. Start.out = <<>>
    BY <1>1
  <2> HIDE DEF s1, s2, s3
  <2> QED  BY <1>4, <2>1, <2>2, ReadText, Zenon DEF Parse
<1>6. Three \in ExcCrds
  <2>1. <<3>> \in Seq(Digits)
    BY DEF Digits
  <2> QED  BY <2>1 DEF Three, ExcCrds
<1>7. <<Three>> \in Seq(ExcCrds) /\ <<>> \in Seq(ExcCrds)
  BY <1>6, EmptySeq
<1> QED  BY <1>5, <1>7

\* What a save of the token leaves on the file, and the records read from it.
LEMMA DatTypes ==
  /\ Empty \in Dats
  /\ \A t \in Tokens : Saved(t, <<>>) \in Dats /\ Saved(t, ExcText) \in Dats
BY DEF Empty, Dats, NoToken, Saved

LEMMA RecordsType ==
  ASSUME dat \in Dats
  PROVE  /\ Records \in Seq(ExcCrds) /\ Len(Records) \in Nat
         /\ dat.text = ExcText => Records = Parse(ExcText)
         /\ dat.text = <<>> => Records = <<>>
         /\ dat.text = ExcText \/ dat.text = <<>>
<1>1. dat.text = ExcText \/ dat.text = <<>>
  BY DEF Dats
<1>2. Records \in Seq(ExcCrds)
  BY <1>1, FixedTable DEF Records
<1>3. Len(Records) \in Nat
  BY <1>2, LenProperties
<1> QED  BY <1>1, <1>2, <1>3, FixedTable DEF Records

-----------------------------------------------------------------------------
(* Sequences *)

\* The record written next extends what has been written so far by one.
LEMMA OneMore ==
  ASSUME NEW S, NEW s \in Seq(S), NEW n \in Nat, n < Len(s)
  PROVE  /\ s[n + 1] \in S
         /\ Append(SubSeq(s, 1, n), s[n + 1]) = SubSeq(s, 1, n + 1)
<1>1. n + 1 \in 1 .. Len(s)
  BY LenProperties
<1>2. s[n + 1] \in S
  BY <1>1, ElementOfSeq
<1> DEFINE a == Append(SubSeq(s, 1, n), s[n + 1])
           b == SubSeq(s, 1, n + 1)
<1>3. SubSeq(s, 1, n) \in Seq(S) /\ Len(SubSeq(s, 1, n)) = n
  BY <1>1, LenProperties, SubSeqProperties
<1>4. b \in Seq(S) /\ Len(b) = n + 1
  BY <1>1, LenProperties, SubSeqProperties
<1>5. a \in Seq(S) /\ Len(a) = n + 1
  BY <1>2, <1>3, AppendProperties
<1>6. \A i \in 1 .. n + 1 : a[i] = b[i]
  <2> TAKE i \in 1 .. n + 1
  <2>1. b[i] = s[i]
    BY <1>1, LenProperties, SubSeqProperties
  <2>2. CASE i = n + 1
    BY <2>1, <2>2, <1>2, <1>3, AppendProperties
  <2>3. CASE i # n + 1
    <3>1. i \in 1 .. n
      BY <2>3
    <3>2. a[i] = SubSeq(s, 1, n)[i]
      BY <3>1, <1>2, <1>3, AppendProperties
    <3>3. SubSeq(s, 1, n)[i] = s[i]
      BY <3>1, <1>1, LenProperties, SubSeqProperties
    <3> QED  BY <2>1, <3>2, <3>3
  <2> QED  BY <2>2, <2>3
<1>7. a = b
  BY <1>4, <1>5, <1>6, SeqEqual
<1> QED  BY <1>2, <1>7

\* All of a sequence, and nothing of it.
LEMMA AllAndNone ==
  ASSUME NEW S, NEW s \in Seq(S)
  PROVE  SubSeq(s, 1, Len(s)) = s /\ SubSeq(s, 1, 0) = <<>> /\ <<>> \in Seq(S)
<1>1. SubSeq(s, 1, Len(s)) = s
  BY LenProperties, SubSeqProperties, SeqEqual
<1>2. SubSeq(s, 1, 0) = <<>>
  BY LenProperties, SubSeqProperties, EmptySeq
<1> QED  BY <1>1, <1>2

-----------------------------------------------------------------------------
(* The steps *)

LEMMA InitIInv == Init => IInv
<1> SUFFICES ASSUME Init PROVE IInv  OBVIOUS
<1>1. TypeOK
  <2>1. <<>> \in Seq(ExcCrds)
    BY EmptySeq
  <2>2. table \in Seq(ExcCrds) /\ before \in [table : Seq(ExcCrds), version : Versions \cup {NoVersion}]
    BY <2>1 DEF Init, Nothing
  <2> QED  BY <2>2, DatTypes DEF Init, TypeOK
<1>2. TokenInv /\ WriteInv /\ KeepInv
  BY DEF Init, TokenInv, WriteInv, KeepInv
<1>3. TableOfVersion /\ RefusedKeepsTable /\ AcceptedNamesToken /\ GoodTokenLoads
  BY DEF Init, TableOfVersion, RefusedKeepsTable, AcceptedNamesToken, GoodTokenLoads, inAsmQs
<1> QED  BY <1>1, <1>2, <1>3 DEF IInv

LEMMA SwitchKeyIInv ==
  ASSUME IInv, SwitchKey
  PROVE  IInv'
<1>0. /\ TypeOK /\ TokenInv /\ WriteInv /\ KeepInv
      /\ TableOfVersion /\ RefusedKeepsTable /\ AcceptedNamesToken /\ GoodTokenLoads
  BY DEF IInv
<1>1. TypeOK'
  BY <1>0, DatTypes, EmptySeq DEF TypeOK, TokenInv, SwitchKey
<1>2. TokenInv'
  BY <1>0 DEF TypeOK, TokenInv, SwitchKey
<1>3. WriteInv'
  BY <1>0 DEF TokenInv, WriteInv, Records, SwitchKey
<1>4. KeepInv'
  BY <1>0 DEF KeepInv, SwitchKey
<1>5. TableOfVersion'
  BY <1>0 DEF TokenInv, WriteInv, TableOfVersion, inAsmQs, SwitchKey
<1>6. RefusedKeepsTable' /\ AcceptedNamesToken' /\ GoodTokenLoads'
  BY <1>0 DEF TypeOK, TokenInv, WriteInv, KeepInv, RefusedKeepsTable, AcceptedNamesToken,
     GoodTokenLoads, SwitchKey
<1> QED  BY <1>1, <1>2, <1>3, <1>4, <1>5, <1>6 DEF IInv

LEMMA RestartIInv ==
  ASSUME IInv, Restart
  PROVE  IInv'
<1>0. /\ TypeOK /\ TokenInv /\ WriteInv /\ KeepInv
      /\ TableOfVersion /\ RefusedKeepsTable /\ AcceptedNamesToken /\ GoodTokenLoads
  BY DEF IInv
<1>1. TypeOK'
  BY <1>0, DatTypes, EmptySeq DEF TypeOK, TokenInv, Restart, Nothing
<1>2. TokenInv'
  BY <1>0 DEF TypeOK, TokenInv, Restart, Nothing
<1>3. WriteInv'
  BY <1>0 DEF TokenInv, WriteInv, Records, Restart, Nothing
<1>4. KeepInv'
  BY <1>0 DEF KeepInv, Restart, Nothing
<1>5. TableOfVersion'
  BY <1>0 DEF TokenInv, WriteInv, TableOfVersion, inAsmQs, Restart, Nothing
<1>6. RefusedKeepsTable' /\ AcceptedNamesToken' /\ GoodTokenLoads'
  BY <1>0 DEF TypeOK, TokenInv, WriteInv, KeepInv, RefusedKeepsTable, AcceptedNamesToken,
     GoodTokenLoads, Restart, Nothing
<1> QED  BY <1>1, <1>2, <1>3, <1>4, <1>5, <1>6 DEF IInv

LEMMA ReceiveIInv ==
  ASSUME IInv, NEW t \in Tokens, Receive(t)
  PROVE  IInv'
<1>0. /\ TypeOK /\ TokenInv /\ WriteInv /\ KeepInv
      /\ TableOfVersion /\ RefusedKeepsTable /\ AcceptedNamesToken /\ GoodTokenLoads
  BY DEF IInv
<1>1. TypeOK'
  BY <1>0, DatTypes, EmptySeq DEF TypeOK, TokenInv, Receive
<1>2. TokenInv'
  BY <1>0 DEF TypeOK, TokenInv, Receive
<1>3. WriteInv'
  BY <1>0 DEF TokenInv, WriteInv, Records, Receive
<1>4. KeepInv'
  BY <1>0 DEF KeepInv, Receive
<1>5. TableOfVersion'
  BY <1>0 DEF TokenInv, WriteInv, TableOfVersion, inAsmQs, Receive
<1>6. RefusedKeepsTable' /\ AcceptedNamesToken' /\ GoodTokenLoads'
  BY <1>0 DEF TypeOK, TokenInv, WriteInv, KeepInv, RefusedKeepsTable, AcceptedNamesToken,
     GoodTokenLoads, Receive
<1> QED  BY <1>1, <1>2, <1>3, <1>4, <1>5, <1>6 DEF IInv

\* The token is on file, or C14 is refused.
LEMMA inDsmQtIInv ==
  ASSUME IInv, inDsmQt
  PROVE  IInv'
<1>0. /\ TypeOK /\ TokenInv /\ WriteInv /\ KeepInv
      /\ TableOfVersion /\ RefusedKeepsTable /\ AcceptedNamesToken /\ GoodTokenLoads
  BY DEF IInv
<1>1. TypeOK'
  BY <1>0, DatTypes, EmptySeq DEF TypeOK, TokenInv, inDsmQt, WriteFails, Reply, Fail, Saved
<1>2. TokenInv'
  BY <1>0 DEF TypeOK, TokenInv, inDsmQt, WriteFails, Reply, Fail, Saved
<1>3. WriteInv'
  BY <1>0 DEF TokenInv, WriteInv, Records, inDsmQt, WriteFails, Reply, Fail, Saved
<1>4. KeepInv'
  BY <1>0 DEF KeepInv, inDsmQt, WriteFails, Reply, Fail, Saved
<1>5. TableOfVersion'
  BY <1>0 DEF TokenInv, WriteInv, TableOfVersion, inAsmQs, inDsmQt, WriteFails, Reply, Fail, Saved
<1>6. RefusedKeepsTable' /\ AcceptedNamesToken' /\ GoodTokenLoads'
  BY <1>0 DEF TypeOK, TokenInv, WriteInv, KeepInv, RefusedKeepsTable, AcceptedNamesToken,
     GoodTokenLoads, inDsmQt, WriteFails, Reply, Fail, Saved
<1> QED  BY <1>1, <1>2, <1>3, <1>4, <1>5, <1>6 DEF IInv

\* The text is on file with it, or something has failed.
LEMMA inCrpExcDsmIInv ==
  ASSUME IInv, inCrpExcDsm
  PROVE  IInv'
<1>0. /\ TypeOK /\ TokenInv /\ WriteInv /\ KeepInv
      /\ TableOfVersion /\ RefusedKeepsTable /\ AcceptedNamesToken /\ GoodTokenLoads
  BY DEF IInv
<1>1. TypeOK'
  BY <1>0, DatTypes, EmptySeq DEF TypeOK, TokenInv, inCrpExcDsm, WriteFails, Loads, Reply, Fail, Saved
<1>2. TokenInv'
  <2>1. pc = "Dsm" /\ tok' = tok /\ tok \in Tokens /\ dat.tok = tok /\ dat.ok
    BY <1>0 DEF TokenInv, inCrpExcDsm
  <2>2. \/ pc' = "Reply"
        \/ /\ pc' = "Save" /\ dat.tok.crc
           /\ \/ dat' = Saved(dat.tok, ExcText)
              \/ dat' = dat /\ fault' = TRUE
    BY DEF inCrpExcDsm, Loads, Reply, Fail
  <2>3. CASE dat' = Saved(dat.tok, ExcText)
    <3>1. dat'.tok = tok /\ dat'.ok /\ dat'.text = ExcText
      BY <2>1, <2>3 DEF Saved
    <3> QED  BY <2>1, <2>2, <3>1 DEF TokenInv
  <2> QED  BY <2>1, <2>2, <2>3 DEF TokenInv
<1>3. WriteInv'
  BY <1>0 DEF TokenInv, WriteInv, Records, inCrpExcDsm, WriteFails, Loads, Reply, Fail, Saved
<1>4. KeepInv'
  BY <1>0 DEF KeepInv, inCrpExcDsm, WriteFails, Loads, Reply, Fail, Saved
<1>5. TableOfVersion'
  BY <1>0 DEF TokenInv, WriteInv, TableOfVersion, inAsmQs, inCrpExcDsm, WriteFails, Loads, Reply, Fail, Saved
<1>6. RefusedKeepsTable' /\ AcceptedNamesToken' /\ GoodTokenLoads'
  BY <1>0 DEF TypeOK, TokenInv, WriteInv, KeepInv, RefusedKeepsTable, AcceptedNamesToken,
     GoodTokenLoads, inCrpExcDsm, WriteFails, Loads, Reply, Fail, Saved
<1> QED  BY <1>1, <1>2, <1>3, <1>4, <1>5, <1>6 DEF IInv

LEMMA ClearVersionIInv ==
  ASSUME IInv, ClearVersion
  PROVE  IInv'
<1>0. /\ TypeOK /\ TokenInv /\ WriteInv /\ KeepInv
      /\ TableOfVersion /\ RefusedKeepsTable /\ AcceptedNamesToken /\ GoodTokenLoads
  BY DEF IInv
<1>1. TypeOK'
  BY <1>0, DatTypes, EmptySeq DEF TypeOK, TokenInv, ClearVersion, Loads, Reply, Fail
<1>2. TokenInv'
  BY <1>0 DEF TypeOK, TokenInv, ClearVersion, Loads, Reply, Fail
<1>3. WriteInv'
  BY <1>0 DEF TokenInv, WriteInv, Records, ClearVersion, Loads, Reply, Fail
<1>4. KeepInv'
  BY <1>0 DEF KeepInv, ClearVersion, Loads, Reply, Fail
<1>5. TableOfVersion'
  BY <1>0 DEF TokenInv, WriteInv, TableOfVersion, inAsmQs, ClearVersion, Loads, Reply, Fail
<1>6. RefusedKeepsTable' /\ AcceptedNamesToken' /\ GoodTokenLoads'
  BY <1>0 DEF TypeOK, TokenInv, WriteInv, KeepInv, RefusedKeepsTable, AcceptedNamesToken,
     GoodTokenLoads, ClearVersion, Loads, Reply, Fail
<1> QED  BY <1>1, <1>2, <1>3, <1>4, <1>5, <1>6 DEF IInv

LEMMA OpenIInv ==
  ASSUME IInv, Open
  PROVE  IInv'
<1>0. /\ TypeOK /\ TokenInv /\ WriteInv /\ KeepInv
      /\ TableOfVersion /\ RefusedKeepsTable /\ AcceptedNamesToken /\ GoodTokenLoads
  BY DEF IInv
<1>1. TypeOK'
  <2>1. table' \in Seq(ExcCrds) /\ k' \in Nat
    <3>1. <<>> \in Seq(ExcCrds)
      BY EmptySeq
    <3>2. (table' = <<>> /\ k' = 0) \/ (table' = table /\ k' = k)
      BY DEF Open
    <3>3. table \in Seq(ExcCrds) /\ k \in Nat
      BY <1>0 DEF TypeOK
    <3>4. table' \in Seq(ExcCrds)
      BY <3>1, <3>2, <3>3, Zenon
    <3>5. k' \in Nat
      BY <3>2, <3>3
    <3> QED  BY <3>4, <3>5
  <2>2. torn' \in BOOLEAN /\ fault' \in BOOLEAN
    BY <1>0 DEF TypeOK, Open, Reply, Fail
  <2>3. skipped' \in BOOLEAN
    <3>1. skipped \in BOOLEAN /\ (dat.text = <<>>) \in BOOLEAN
      BY <1>0 DEF TypeOK
    <3>2. skipped' = (dat.text = <<>>) \/ skipped' = skipped
      BY Zenon DEF Open
    <3> QED  BY <3>1, <3>2, Zenon
  <2> QED  BY <1>0, <2>1, <2>2, <2>3 DEF TypeOK, Open, Reply, Fail
<1>2. TokenInv'
  BY <1>0 DEF TypeOK, TokenInv, Open, Reply, Fail
<1>3. WriteInv'
  <2>1. CASE pc' = "Reply"
    BY <2>1 DEF WriteInv
  <2>2. CASE pc' # "Reply"
    <3>1. /\ pc = "Open" /\ pc' = "Write" /\ table' = <<>> /\ k' = 0 /\ torn' = FALSE
          /\ skipped' = (dat.text = <<>>) /\ dat' = dat /\ version' = version
      BY <2>2 DEF Open, Reply, Fail
    <3>2. Records \in Seq(ExcCrds) /\ Len(Records) \in Nat
      BY <1>0, RecordsType DEF TypeOK
    <3>3. SubSeq(Records, 1, 0) = <<>> /\ Records' = Records
      BY <3>1, <3>2, AllAndNone DEF Records
    <3>4. version = NoVersion
      BY <1>0, <3>1 DEF WriteInv
    <3> QED  BY <3>1, <3>2, <3>3, <3>4 DEF WriteInv
  <2> QED  BY <2>1, <2>2
<1>4. KeepInv'
  BY <1>0 DEF KeepInv, Open, Reply, Fail
<1>5. TableOfVersion'
  BY <1>0 DEF TokenInv, WriteInv, TableOfVersion, inAsmQs, Open, Reply, Fail
<1>6. RefusedKeepsTable' /\ AcceptedNamesToken' /\ GoodTokenLoads'
  BY <1>0 DEF TypeOK, TokenInv, WriteInv, KeepInv, RefusedKeepsTable, AcceptedNamesToken,
     GoodTokenLoads, Open, Reply, Fail
<1> QED  BY <1>1, <1>2, <1>3, <1>4, <1>5, <1>6 DEF IInv

\* The record written is the next one of the text, or is lost.
LEMMA WriteIInv ==
  ASSUME IInv, Write
  PROVE  IInv'
<1>0. /\ TypeOK /\ TokenInv /\ WriteInv /\ KeepInv
      /\ TableOfVersion /\ RefusedKeepsTable /\ AcceptedNamesToken /\ GoodTokenLoads
  BY DEF IInv
<1>1. /\ pc = "Write" /\ version = NoVersion /\ k \in Nat /\ k =< Len(Records)
      /\ torn \/ table = SubSeq(Records, 1, k)
      /\ skipped = (dat.text = <<>>) /\ (torn => fault)
      /\ dat' = dat /\ version' = version /\ skipped' = skipped /\ Records' = Records
  BY <1>0 DEF TypeOK, WriteInv, Write, Records
<1>2. Records \in Seq(ExcCrds) /\ Len(Records) \in Nat
  BY <1>0, RecordsType DEF TypeOK
<1>3. pc' \in {"Write", "Name"} /\ UNCHANGED <<tok, keylod, sent, before>>
  BY <1>1 DEF Write
<1>4. /\ table' \in Seq(ExcCrds) /\ torn' \in BOOLEAN /\ fault' \in BOOLEAN /\ k' \in Nat
      /\ (fault => fault') /\ WriteInv'
  <2> DEFINE rs == Records
  <2>0. table \in Seq(ExcCrds) /\ torn \in BOOLEAN /\ fault \in BOOLEAN
    BY <1>0 DEF TypeOK
  <2>1. CASE k < Len(rs)
    <3>1. /\ rs[k + 1] \in ExcCrds
          /\ Append(SubSeq(rs, 1, k), rs[k + 1]) = SubSeq(rs, 1, k + 1)
      BY <1>1, <1>2, <2>1, OneMore
    <3>2. /\ k' = k + 1 /\ pc' = "Write"
          /\ \/ table' = Append(table, rs[k + 1]) /\ torn' = torn /\ fault' = fault
             \/ table' = table /\ torn' = TRUE /\ fault' = TRUE
      BY <1>1, <2>1 DEF Write
    <3>3. Append(table, rs[k + 1]) \in Seq(ExcCrds)
      BY <2>0, <3>1, AppendProperties
    <3> HIDE DEF rs
    <3>4. table' \in Seq(ExcCrds) /\ torn' \in BOOLEAN /\ fault' \in BOOLEAN /\ (fault => fault')
      <4>1. CASE table' = Append(table, rs[k + 1]) /\ torn' = torn /\ fault' = fault
        BY <2>0, <3>3, <4>1
      <4>2. CASE table' = table /\ torn' = TRUE /\ fault' = TRUE
        BY <2>0, <4>2
      <4> QED  BY <3>2, <4>1, <4>2
    <3>5. torn' \/ table' = SubSeq(rs, 1, k')
      BY <1>1, <3>1, <3>2 DEF rs
    <3>6. k' \in Nat /\ k' =< Len(rs)
      BY <1>1, <1>2, <2>1, <3>2 DEF rs
    <3>7. torn' => fault'
      BY <1>1, <3>2
    <3> QED  BY <1>1, <3>2, <3>4, <3>5, <3>6, <3>7 DEF WriteInv, rs
  <2>2. CASE ~(k < Len(rs))
    <3>1. k = Len(rs) /\ SubSeq(rs, 1, Len(rs)) = rs
      BY <1>1, <1>2, <2>2, AllAndNone
    <3>2. pc' = "Name" /\ k' = 0 /\ table' = table /\ torn' = torn /\ fault' = fault
      BY <1>1, <2>2 DEF Write
    <3> QED  BY <1>1, <2>0, <3>1, <3>2 DEF WriteInv
  <2> QED  BY <2>1, <2>2
<1>5. TypeOK'
  BY <1>0, <1>1, <1>3, <1>4 DEF TypeOK
<1>6. TokenInv' /\ KeepInv'
  BY <1>0, <1>1, <1>3, <1>4 DEF TypeOK, TokenInv, KeepInv
<1>7. TableOfVersion' /\ RefusedKeepsTable' /\ AcceptedNamesToken' /\ GoodTokenLoads'
  BY <1>1, <1>3 DEF TableOfVersion, inAsmQs, RefusedKeepsTable, AcceptedNamesToken, GoodTokenLoads
<1> QED  BY <1>4, <1>5, <1>6, <1>7 DEF IInv

\* The version that is named has its table, unless something failed.
LEMMA NameVersionIInv ==
  ASSUME IInv, NameVersion
  PROVE  IInv'
<1>0. /\ TypeOK /\ TokenInv /\ WriteInv /\ KeepInv
      /\ TableOfVersion /\ RefusedKeepsTable /\ AcceptedNamesToken /\ GoodTokenLoads
  BY DEF IInv
<1>1. /\ pc = "Name" /\ pc' = "Reply" /\ sent' = "00" /\ version' = dat.tok.ver
      /\ UNCHANGED <<tok, dat, table, k, keylod, before, fault, torn, skipped>>
  BY DEF NameVersion, Reply
<1>2. /\ dat.tok = tok /\ tok \in Tokens /\ (dat.text = ExcText \/ fault)
      /\ torn \/ table = Records
      /\ skipped = (dat.text = <<>>) /\ (torn => fault)
  BY <1>0, <1>1 DEF TokenInv, WriteInv
<1>3. /\ dat.text = ExcText => Records = Parse(ExcText)
      /\ dat.text = <<>> => Records = <<>>
      /\ dat.text = ExcText \/ dat.text = <<>>
  BY <1>0, RecordsType DEF TypeOK
<1>4. tok.ver \in Versions
  BY <1>2 DEF Tokens
<1>5. TypeOK'
  BY <1>0, <1>1, <1>2, <1>4 DEF TypeOK
<1>6. TokenInv' /\ WriteInv' /\ KeepInv'
  BY <1>1 DEF TokenInv, WriteInv, KeepInv
<1>7. TableOfVersion'
  BY <1>1, <1>2, <1>3 DEF TableOfVersion
<1>8. RefusedKeepsTable' /\ AcceptedNamesToken' /\ GoodTokenLoads'
  BY <1>1, <1>2, <1>3 DEF RefusedKeepsTable, AcceptedNamesToken, GoodTokenLoads
<1> QED  BY <1>5, <1>6, <1>7, <1>8 DEF IInv

LEMMA ReturnIInv ==
  ASSUME IInv, Return
  PROVE  IInv'
<1>0. /\ TypeOK /\ TokenInv /\ WriteInv /\ KeepInv
      /\ TableOfVersion /\ RefusedKeepsTable /\ AcceptedNamesToken /\ GoodTokenLoads
  BY DEF IInv
<1>1. TypeOK'
  BY <1>0, DatTypes, EmptySeq DEF TypeOK, TokenInv, Return, Nothing
<1>2. TokenInv'
  BY <1>0 DEF TypeOK, TokenInv, Return, Nothing
<1>3. WriteInv'
  BY <1>0 DEF TokenInv, WriteInv, Records, Return, Nothing
<1>4. KeepInv'
  BY <1>0 DEF KeepInv, Return, Nothing
<1>5. TableOfVersion'
  BY <1>0 DEF TokenInv, WriteInv, TableOfVersion, inAsmQs, Return, Nothing
<1>6. RefusedKeepsTable' /\ AcceptedNamesToken' /\ GoodTokenLoads'
  BY <1>0 DEF TypeOK, TokenInv, WriteInv, KeepInv, RefusedKeepsTable, AcceptedNamesToken,
     GoodTokenLoads, Return, Nothing
<1> QED  BY <1>1, <1>2, <1>3, <1>4, <1>5, <1>6 DEF IInv

LEMMA StutterIInv == IInv /\ UNCHANGED vars => IInv'
<1> SUFFICES ASSUME IInv, UNCHANGED vars PROVE IInv'  OBVIOUS
<1>1. TypeOK' /\ TokenInv'
  BY DEF IInv, TypeOK, TokenInv
<1>2. WriteInv' /\ KeepInv'
  BY DEF IInv, WriteInv, KeepInv, Records
<1>3. TableOfVersion' /\ RefusedKeepsTable' /\ AcceptedNamesToken' /\ GoodTokenLoads'
  BY DEF IInv, TableOfVersion, inAsmQs, RefusedKeepsTable, AcceptedNamesToken, GoodTokenLoads
<1> QED  BY <1>1, <1>2, <1>3 DEF IInv

LEMMA NextIInv == IInv /\ [Next]_vars => IInv'
<1> SUFFICES ASSUME IInv, [Next]_vars PROVE IInv'  OBVIOUS
<1>1. CASE SwitchKey \/ Restart \/ inDsmQt \/ inCrpExcDsm
  BY <1>1, SwitchKeyIInv, RestartIInv, inDsmQtIInv, inCrpExcDsmIInv
<1>2. CASE ClearVersion \/ Open \/ Write \/ NameVersion \/ Return
  BY <1>2, ClearVersionIInv, OpenIInv, WriteIInv, NameVersionIInv, ReturnIInv
<1>3. ASSUME NEW t \in Tokens, Receive(t) PROVE IInv'
  BY <1>3, ReceiveIInv
<1>4. CASE UNCHANGED vars
  BY <1>4, StutterIInv
<1> QED  BY <1>1, <1>2, <1>3, <1>4 DEF Next

-----------------------------------------------------------------------------
(* What a table excepts *)

\* The one record of the table excepts the account numbers that begin with 3.
LEMMA ExceptsIs ==
  ASSUME NEW pan \in Pans
  PROVE  inCrpCrdExc(<<Three>>, pan) <=> pan[1] = 3
<1>1. Len(pan) \in Nat /\ 1 =< Len(pan) /\ pan[1] \in Digits
  <2>1. PICK n \in CardLens : pan \in [1 .. n -> Digits]
    BY DEF Pans
  <2>2. n \in Nat /\ 1 =< n
    BY BinTextAssumption
  <2>3. pan \in Seq(Digits) /\ Len(pan) = n
    BY <2>1, <2>2, IsASeq, LenProperties
  <2> QED  BY <2>1, <2>2, <2>3
<1> DEFINE s == <<3>>
<1>2. Len(s) = 1 /\ At(s, 1) = 4 /\ At(pan, 1) = pan[1] + 1 /\ pan[1] \in 0 .. 9
  BY <1>1 DEF At, Digits
<1>3. Differ(pan, s) = IF pan[1] = 3 THEN {} ELSE {1}
  <2>1. At(pan, 1) # At(s, 1) <=> pan[1] # 3
    BY <1>2
  <2>2. 1 .. Len(s) = {1}
    BY <1>2
  <2> HIDE DEF s
  <2> QED  BY <2>1, <2>2 DEF Differ
<1>4. First({1}) = 1
  BY DEF First
<1>5. ~Below(pan, s) /\ ~Above(pan, s) <=> pan[1] = 3
  <2>1. CASE pan[1] = 3
    <3> HIDE DEF s
    <3> QED  BY <2>1, <1>3 DEF Below, Above
  <2>2. CASE pan[1] # 3
    <3>1. At(pan, 1) < At(s, 1) \/ At(pan, 1) > At(s, 1)
      BY <1>2, <2>2
    <3> HIDE DEF s
    <3>2. Differ(pan, s) = {1}
      BY <1>3, <2>2
    <3> QED  BY <2>2, <1>4, <3>1, <3>2 DEF Below, Above
  <2> QED  BY <2>1, <2>2
<1>6. Len(<<Three>>) = 1 /\ <<Three>>[1].min = s /\ <<Three>>[1].max = s
  BY DEF Three
<1> HIDE DEF s
<1> QED  BY <1>5, <1>6 DEF inCrpCrdExc

LEMMA WholeTableExcepts == IInv => ExceptsThrees
<1> SUFFICES ASSUME IInv, version # NoVersion, ~torn, ~skipped, NEW pan \in Pans
             PROVE  inCrpExcCrd(table, pan) <=> Len(pan) = ExcLen \/ pan[1] = 3
  BY DEF ExceptsThrees
<1>1. table = <<Three>>
  BY FixedTable DEF IInv, TableOfVersion, inAsmQs
<1> QED  BY <1>1, ExceptsIs DEF inCrpExcCrd

-----------------------------------------------------------------------------
(* Theorems *)

\* IInv holds in every state of every run, for any versions: from inCrpExcDsm on the
\* file holds the token of this C14 with the constant text, or something has failed;
\* while the table is rewritten there is no version.
THEOREM Invariant == Spec => []IInv
  BY InitIInv, NextIInv, PTL DEF Spec

\* The types of the variables; part of IInv.
THEOREM TypeCorrect == Spec => []TypeOK
<1>1. IInv => TypeOK  BY DEF IInv
<1> QED  BY <1>1, Invariant, PTL

\* A version told to the host has its whole table on file, at whatever step of
\* inCrpExcSav and inCrpSavExc power goes or a write fails and is noticed.
THEOREM VersionIsOfTable == Spec => []TableOfVersion
<1>1. IInv => TableOfVersion  BY DEF IInv
<1> QED  BY <1>1, Invariant, PTL

\* A refused C14 changes neither table nor version, or takes the version away.
THEOREM RefusalKeepsTable == Spec => []RefusedKeepsTable
<1>1. IInv => RefusedKeepsTable  BY DEF IInv
<1> QED  BY <1>1, Invariant, PTL

\* An accepted C14 has named the version of its own token, not of one that an earlier
\* C14 left on file.
THEOREM AcceptedIsNamed == Spec => []AcceptedNamesToken
<1>1. IInv => AcceptedNamesToken  BY DEF IInv
<1> QED  BY <1>1, Invariant, PTL

\* A good token is accepted and its table whole when nothing fails, whatever state
\* earlier C14s and power losses left the files in.
THEOREM GoodTokenIsLoaded == Spec => []GoodTokenLoads
<1>1. IInv => GoodTokenLoads  BY DEF IInv
<1> QED  BY <1>1, Invariant, PTL

\* A whole table with a version excepts the account numbers that begin with 3, of any
\* length, through the text, the file and the comparison of digits.
THEOREM ThreesAreExcepted == Spec => []ExceptsThrees
  BY Invariant, WholeTableExcepts, PTL
=============================================================================
