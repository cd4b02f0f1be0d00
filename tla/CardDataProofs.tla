--------------------------- MODULE CardDataProofs ---------------------------
(***************************************************************************)
(* Theorems about the card data, for any cards, lists and bounds: IInv is  *)
(* inductive, and from it TokenOfItsCard, ClearOnlyIfExcepted and          *)
(* SerialOnce; on top of it AnswerInv is, and from that Deliverable and    *)
(* KeyErrorsReported.                                                      *)
(***************************************************************************)
EXTENDS CardData, TLAPS

USE CardDataAssumption
USE DEF vars, sale, envs, hist

\* A record with some of its members replaced is still a record of its kind.
LEMMA NoRecords == NoToken \in Tokens /\ NoFields \in Fields /\ Empty \in Records /\ NoReply \in Replies
  BY DEF NoToken, Tokens, NoFields, Fields, Empty, Records, NoReply, Replies, Techs

LEMMA InitIInv == Init => IInv
<1> SUFFICES ASSUME Init PROVE IInv  OBVIOUS
<1>1. TypeOK
  <2>1. MaxIssue \in Nat /\ Digits \in Nat
    OBVIOUS
  <2>2. 0 \in 0 .. MaxIssue /\ 0 \in 0 .. Digits /\ {} \in SUBSET (0 .. MaxIssue) /\ {} \in SUBSET Cards
    BY <2>1
  <2>3. "None" \in Techs /\ NoCard \in Cards \cup {NoCard}
    BY DEF Techs
  <2> QED  BY <2>2, <2>3, NoRecords, Zenon DEF Init, TypeOK
<1>2. FieldInv /\ RecordInv /\ TokenInv
  BY DEF Init, FieldInv, RecordInv, TokenInv, NoFields, NoToken
<1>3. TokenOfItsCard /\ ClearOnlyIfExcepted
  BY DEF Init, TokenOfItsCard, ClearOnlyIfExcepted, NoReply, NoFields
<1> QED  BY <1>1, <1>2, <1>3 DEF IInv

\* The fields with some of them set anew.
LEMMA PanType ==
  ASSUME NEW f \in Fields, NEW p \in Cards \cup {NoCard}
  PROVE  [f EXCEPT !.pan = p] \in Fields
  BY DEF Fields

LEMMA TrkType ==
  ASSUME NEW f \in Fields, NEW t \in Cards \cup {NoCard}
  PROVE  [f EXCEPT !.trk = t] \in Fields
  BY DEF Fields

LEMMA EzType ==
  ASSUME NEW f \in Fields, NEW z \in Tokens
  PROVE  [f EXCEPT !.ez = z] \in Fields
  BY DEF Fields

LEMMA PanCvvType ==
  ASSUME NEW f \in Fields, NEW p \in Cards \cup {NoCard}, NEW v \in {"None", "Clear", "Enc"}
  PROVE  [f EXCEPT !.pan = p, !.cvv = v] \in Fields
  BY DEF Fields

LEMMA PanTrkCvvType ==
  ASSUME NEW f \in Fields, NEW p \in Cards \cup {NoCard}, NEW t \in Cards \cup {NoCard},
         NEW v \in {"None", "Clear", "Enc"}
  PROVE  /\ [f EXCEPT !.pan = p, !.trk = t, !.cvv = v] \in Fields
         /\ [f EXCEPT !.pan = p, !.trk = t, !.cvv = v, !.ez = NoToken] \in Fields
  BY NoRecords DEF Fields

LEMMA StutterIInv == IInv /\ UNCHANGED vars => IInv'
  BY DEF IInv, TypeOK, FieldInv, RecordInv, TokenInv, TokenOfItsCard, ClearOnlyIfExcepted,
         inCrpExcCrd, MerchantException

\* What Write leaves is a record; done, it is the one written.
LEMMA WriteType ==
  ASSUME NEW r \in Records, NEW done \in BOOLEAN, file \in Records, Write(r, done)
  PROVE  /\ file' \in Records
         /\ file'.ok => IF done THEN file' = [r EXCEPT !.ok = TRUE] ELSE file' = file
  BY NoRecords DEF Write, Records, Empty

LEMMA LoadKeyIInv ==
  ASSUME IInv, LoadKey
  PROVE  IInv'
<1>0. TypeOK /\ FieldInv /\ RecordInv /\ TokenInv /\ TokenOfItsCard /\ ClearOnlyIfExcepted
  BY DEF IInv
<1>1. TypeOK'
  BY <1>0, NoRecords DEF TypeOK, LoadKey, FieldInv
<1>2. FieldInv'
  BY <1>0 DEF TypeOK, FieldInv, inCrpExcCrd, MerchantException, LoadKey, NoFields, Fields
<1>3. RecordInv'
  BY <1>0 DEF TypeOK, FieldInv, RecordInv, TokenInv, LoadKey, Records, Empty
<1>4. TokenInv'
  BY <1>0 DEF TypeOK, FieldInv, RecordInv, TokenInv, LoadKey, NoFields, NoToken, Fields, Tokens, Records
<1>5. TokenOfItsCard' /\ ClearOnlyIfExcepted'
  BY <1>0 DEF TypeOK, FieldInv, TokenInv, TokenOfItsCard, ClearOnlyIfExcepted, inCrpExcCrd, MerchantException, LoadKey, NoReply, NoFields
<1> QED  BY <1>1, <1>2, <1>3, <1>4, <1>5 DEF IInv

LEMMA SetTableIInv ==
  ASSUME NEW S \in SUBSET Cards, IInv, SetTable(S)
  PROVE  IInv'
<1>0. TypeOK /\ FieldInv /\ RecordInv /\ TokenInv /\ TokenOfItsCard /\ ClearOnlyIfExcepted
  BY DEF IInv
<1>1. TypeOK'
  BY <1>0, NoRecords DEF TypeOK, SetTable, FieldInv
<1>2. FieldInv'
  BY <1>0 DEF TypeOK, FieldInv, inCrpExcCrd, MerchantException, SetTable, NoFields, Fields
<1>3. RecordInv'
  BY <1>0 DEF TypeOK, FieldInv, RecordInv, TokenInv, SetTable, Records, Empty
<1>4. TokenInv'
  BY <1>0 DEF TypeOK, FieldInv, RecordInv, TokenInv, SetTable, NoFields, NoToken, Fields, Tokens, Records
<1>5. TokenOfItsCard' /\ ClearOnlyIfExcepted'
  BY <1>0 DEF TypeOK, FieldInv, TokenInv, TokenOfItsCard, ClearOnlyIfExcepted, inCrpExcCrd, MerchantException, SetTable, NoReply, NoFields
<1> QED  BY <1>1, <1>2, <1>3, <1>4, <1>5 DEF IInv

LEMMA HostAnswerIInv ==
  ASSUME NEW auth, NEW key \in BOOLEAN, IInv, HostAnswer(auth, key)
  PROVE  IInv'
<1>0. TypeOK /\ FieldInv /\ RecordInv /\ TokenInv /\ TokenOfItsCard /\ ClearOnlyIfExcepted
  BY DEF IInv
<1>1. TypeOK'
  <2>1. dkperr' \in 0 .. Digits
    BY <1>0 DEF TypeOK, HostAnswer, inCrpDukErr, SetEnv
  <2>2. declines' \in 0 .. Digits
    BY <1>0 DEF TypeOK, HostAnswer
  <2> QED  BY <1>0, <2>1, <2>2, NoRecords DEF TypeOK, HostAnswer
<1>2. FieldInv'
  BY <1>0 DEF TypeOK, FieldInv, inCrpExcCrd, MerchantException, HostAnswer, inCrpDukErr, SetEnv, NoFields, Fields
<1>3. RecordInv'
  BY <1>0 DEF TypeOK, FieldInv, RecordInv, TokenInv, HostAnswer, inCrpDukErr, SetEnv, Records, Empty
<1>4. TokenInv'
  BY <1>0 DEF TypeOK, FieldInv, RecordInv, TokenInv, HostAnswer, inCrpDukErr, SetEnv, NoFields, NoToken, Fields, Tokens, Records
<1>5. TokenOfItsCard' /\ ClearOnlyIfExcepted'
  BY <1>0 DEF TypeOK, FieldInv, TokenInv, TokenOfItsCard, ClearOnlyIfExcepted, inCrpExcCrd, MerchantException, HostAnswer, inCrpDukErr, SetEnv, NoReply, NoFields
<1> QED  BY <1>1, <1>2, <1>3, <1>4, <1>5 DEF IInv

LEMMA RestartIInv ==
  ASSUME IInv, Restart
  PROVE  IInv'
<1>0. TypeOK /\ FieldInv /\ RecordInv /\ TokenInv /\ TokenOfItsCard /\ ClearOnlyIfExcepted
  BY DEF IInv
<1>1. TypeOK'
  BY <1>0, NoRecords DEF TypeOK, Restart, FieldInv, Techs
<1>2. FieldInv'
  BY <1>0 DEF TypeOK, FieldInv, inCrpExcCrd, MerchantException, Restart, NoFields, Fields
<1>3. RecordInv'
  BY <1>0 DEF TypeOK, FieldInv, RecordInv, TokenInv, Restart, Records, Empty
<1>4. TokenInv'
  BY <1>0 DEF TypeOK, FieldInv, RecordInv, TokenInv, Restart, NoFields, NoToken, Fields, Tokens, Records
<1>5. TokenOfItsCard' /\ ClearOnlyIfExcepted'
  BY <1>0 DEF TypeOK, FieldInv, TokenInv, TokenOfItsCard, ClearOnlyIfExcepted, inCrpExcCrd, MerchantException, Restart, NoReply, NoFields
<1> QED  BY <1>1, <1>2, <1>3, <1>4, <1>5 DEF IInv

LEMMA PresentIInv ==
  ASSUME NEW t \in Techs \ {"None"}, NEW c \in Cards, IInv, Present(t, c)
  PROVE  IInv'
<1>0. TypeOK /\ FieldInv /\ RecordInv /\ TokenInv /\ TokenOfItsCard /\ ClearOnlyIfExcepted
  BY DEF IInv
<1>1. TypeOK'
  BY <1>0, NoRecords DEF TypeOK, Present, FieldInv
<1>2. FieldInv'
  BY <1>0 DEF TypeOK, FieldInv, inCrpExcCrd, MerchantException, Present, NoFields, Fields
<1>3. RecordInv'
  BY <1>0 DEF TypeOK, FieldInv, RecordInv, TokenInv, Present, Records, Empty
<1>4. TokenInv'
  BY <1>0 DEF TypeOK, FieldInv, RecordInv, TokenInv, Present, NoFields, NoToken, Fields, Tokens, Records
<1>5. TokenOfItsCard' /\ ClearOnlyIfExcepted'
  BY <1>0 DEF TypeOK, FieldInv, TokenInv, TokenOfItsCard, ClearOnlyIfExcepted, inCrpExcCrd, MerchantException, Present, NoReply, NoFields
<1> QED  BY <1>1, <1>2, <1>3, <1>4, <1>5 DEF IInv

LEMMA ReadMSRIInv ==
  ASSUME IInv, ReadMSR
  PROVE  IInv'
<1>0. TypeOK /\ FieldInv /\ RecordInv /\ TokenInv /\ TokenOfItsCard /\ ClearOnlyIfExcepted
  BY DEF IInv
<1>1. TypeOK'
  <2>1. fld \in Fields /\ hand \in Cards \cup {NoCard}
    BY <1>0 DEF TypeOK
  <2>2. \/ fld' = [fld EXCEPT !.pan = hand]
        \/ fld' = [fld EXCEPT !.pan = hand, !.trk = hand, !.cvv = "Clear"]
    BY DEF ReadMSR
  <2>3. fld' \in Fields
    <3>1. [fld EXCEPT !.pan = hand] \in Fields
      BY <2>1, PanType
    <3>2. [fld EXCEPT !.pan = hand, !.trk = hand, !.cvv = "Clear"] \in Fields
      BY <2>1, PanTrkCvvType
    <3> QED  BY <2>2, <3>1, <3>2
  <2> QED  BY <1>0, <2>3 DEF TypeOK, ReadMSR, Kept
<1>2. FieldInv'
  BY <1>0 DEF TypeOK, FieldInv, inCrpExcCrd, MerchantException, ReadMSR, Kept, NoFields, Fields
<1>3. RecordInv'
  BY <1>0 DEF TypeOK, FieldInv, RecordInv, TokenInv, ReadMSR, Kept, Records, Empty
<1>4. TokenInv'
  BY <1>0 DEF TypeOK, FieldInv, RecordInv, TokenInv, ReadMSR, Kept, NoFields, NoToken, Fields, Tokens, Records
<1>5. TokenOfItsCard' /\ ClearOnlyIfExcepted'
  BY <1>0 DEF TypeOK, FieldInv, TokenInv, TokenOfItsCard, ClearOnlyIfExcepted, inCrpExcCrd, MerchantException, ReadMSR, Kept, NoReply, NoFields
<1> QED  BY <1>1, <1>2, <1>3, <1>4, <1>5 DEF IInv

LEMMA ReadKBDIInv ==
  ASSUME IInv, ReadKBD
  PROVE  IInv'
<1>0. TypeOK /\ FieldInv /\ RecordInv /\ TokenInv /\ TokenOfItsCard /\ ClearOnlyIfExcepted
  BY DEF IInv
<1>1. TypeOK'
  <2>1. fld \in Fields /\ hand \in Cards \cup {NoCard}
    BY <1>0 DEF TypeOK
  <2>2. \/ fld' = fld
        \/ \E v \in {"Enc", "Clear"} : fld' = [fld EXCEPT !.pan = hand, !.cvv = v]
    BY DEF ReadKBD
  <2>3. fld' \in Fields
    <3>1. \A v \in {"Enc", "Clear"} : [fld EXCEPT !.pan = hand, !.cvv = v] \in Fields
      BY <2>1, PanCvvType
    <3> QED  BY <2>1, <2>2, <3>1
  <2> QED  BY <1>0, <2>3 DEF TypeOK, ReadKBD, Kept
<1>2. FieldInv'
  BY <1>0 DEF TypeOK, FieldInv, inCrpExcCrd, MerchantException, ReadKBD, Kept, bo_crp_crd, NoFields, Fields
<1>3. RecordInv'
  BY <1>0 DEF TypeOK, FieldInv, RecordInv, TokenInv, ReadKBD, Kept, bo_crp_crd, Records, Empty
<1>4. TokenInv'
  BY <1>0 DEF TypeOK, FieldInv, RecordInv, TokenInv, ReadKBD, Kept, bo_crp_crd, NoFields, NoToken, Fields, Tokens, Records
<1>5. TokenOfItsCard' /\ ClearOnlyIfExcepted'
  BY <1>0 DEF TypeOK, FieldInv, TokenInv, TokenOfItsCard, ClearOnlyIfExcepted, inCrpExcCrd, MerchantException, ReadKBD, Kept, bo_crp_crd, NoReply, NoFields
<1> QED  BY <1>1, <1>2, <1>3, <1>4, <1>5 DEF IInv

LEMMA ReadCHIPIInv ==
  ASSUME IInv, ReadCHIP
  PROVE  IInv'
<1>0. TypeOK /\ FieldInv /\ RecordInv /\ TokenInv /\ TokenOfItsCard /\ ClearOnlyIfExcepted
  BY DEF IInv
<1>1. TypeOK'
  BY <1>0, NoRecords DEF TypeOK, ReadCHIP, Kept, FieldInv
<1>2. FieldInv'
  BY <1>0 DEF TypeOK, FieldInv, inCrpExcCrd, MerchantException, ReadCHIP, Kept, NoFields, Fields
<1>3. RecordInv'
  BY <1>0 DEF TypeOK, FieldInv, RecordInv, TokenInv, ReadCHIP, Kept, Records, Empty
<1>4. TokenInv'
  BY <1>0 DEF TypeOK, FieldInv, RecordInv, TokenInv, ReadCHIP, Kept, NoFields, NoToken, Fields, Tokens, Records
<1>5. TokenOfItsCard' /\ ClearOnlyIfExcepted'
  BY <1>0 DEF TypeOK, FieldInv, TokenInv, TokenOfItsCard, ClearOnlyIfExcepted, inCrpExcCrd, MerchantException, ReadCHIP, Kept, NoReply, NoFields
<1> QED  BY <1>1, <1>2, <1>3, <1>4, <1>5 DEF IInv

LEMMA ReadCTLSIInv ==
  ASSUME IInv, ReadCTLS
  PROVE  IInv'
<1>0. TypeOK /\ FieldInv /\ RecordInv /\ TokenInv /\ TokenOfItsCard /\ ClearOnlyIfExcepted
  BY DEF IInv
<1>1. TypeOK'
  BY <1>0, NoRecords DEF TypeOK, ReadCTLS, Kept, FieldInv
<1>2. FieldInv'
  BY <1>0 DEF TypeOK, FieldInv, inCrpExcCrd, MerchantException, ReadCTLS, Kept, NoFields, Fields
<1>3. RecordInv'
  BY <1>0 DEF TypeOK, FieldInv, RecordInv, TokenInv, ReadCTLS, Kept, Records, Empty
<1>4. TokenInv'
  BY <1>0 DEF TypeOK, FieldInv, RecordInv, TokenInv, ReadCTLS, Kept, NoFields, NoToken, Fields, Tokens, Records
<1>5. TokenOfItsCard' /\ ClearOnlyIfExcepted'
  BY <1>0 DEF TypeOK, FieldInv, TokenInv, TokenOfItsCard, ClearOnlyIfExcepted, inCrpExcCrd, MerchantException, ReadCTLS, Kept, NoReply, NoFields
<1> QED  BY <1>1, <1>2, <1>3, <1>4, <1>5 DEF IInv

LEMMA SaveTracksRecord ==
  ASSUME TypeOK, hand \in Cards, NEW some, SaveTracks(some)
  PROVE  /\ file' \in Records /\ lost' \in BOOLEAN
         /\ ~file'.ok \/ file'.card = hand \/ lost'
<1>1. CASE keylod /\ some
  <2>1. PICK done \in BOOLEAN :
           /\ Write([Empty EXCEPT !.card = hand, !.tk2 = TRUE], done)
           /\ lost' = (~done /\ file'.ok)
    BY <1>1 DEF SaveTracks
  <2>2. [Empty EXCEPT !.card = hand, !.tk2 = TRUE] \in Records
    BY NoRecords DEF Records
  <2>3. file' \in Records
    BY <2>1, <2>2, WriteType DEF TypeOK
  <2>4. CASE done
    <3>1. file'.card = hand
      BY <2>1, <2>4 DEF Write, Empty
    <3>2. lost' = FALSE
      BY <2>1, <2>4
    <3> QED  BY <2>3, <3>1, <3>2
  <2>5. CASE ~done
    <3>1. lost' = file'.ok
      BY <2>1, <2>5, <2>3 DEF Records
    <3> QED  BY <2>3, <3>1 DEF Records
  <2> QED  BY <2>4, <2>5
<1>2. CASE ~(keylod /\ some)
  BY <1>2 DEF SaveTracks, TypeOK
<1> QED  BY <1>1, <1>2

LEMMA SaveTracksIInv ==
  ASSUME IInv, pc = "Save", NEW some, SaveTracks(some), Still
  PROVE  IInv'
<1>0. TypeOK /\ FieldInv /\ RecordInv /\ TokenInv /\ TokenOfItsCard /\ ClearOnlyIfExcepted
  BY DEF IInv
<1>3. hand \in Cards /\ fld.ez = NoToken
  BY <1>0 DEF FieldInv, TokenInv
<1>1. /\ file' \in Records /\ lost' \in BOOLEAN
      /\ ~file'.ok \/ file'.card = hand \/ lost'
  BY <1>0, <1>3, SaveTracksRecord
<1>2. /\ pc' = "Cvv" /\ UNCHANGED <<res, crp, issued, gone, unread, declines>>
      /\ UNCHANGED <<tech, hand, envs, fld, flagC51, sent>>
  BY DEF SaveTracks, Still
<1>4. TypeOK'
  BY <1>0, <1>1, <1>2 DEF TypeOK
<1>5. FieldInv'
  BY <1>0, <1>2, <1>3 DEF FieldInv, inCrpExcCrd, MerchantException
<1>6. RecordInv'
  BY <1>1, <1>2 DEF RecordInv
<1>7. TokenInv'
  BY <1>0, <1>2, <1>3 DEF TokenInv
<1>8. TokenOfItsCard' /\ ClearOnlyIfExcepted'
  BY <1>0, <1>2 DEF TokenOfItsCard, ClearOnlyIfExcepted
<1> QED  BY <1>4, <1>5, <1>6, <1>7, <1>8 DEF IInv

LEMMA SaveStripeIInv ==
  ASSUME IInv, SaveStripe
  PROVE  IInv'
<1>1. CASE res' = "Stop" /\ pc' = After /\ UNCHANGED <<crp, file, hist>>
  <2>0. TypeOK /\ FieldInv /\ RecordInv /\ TokenInv /\ TokenOfItsCard /\ ClearOnlyIfExcepted
    BY DEF IInv
  <2>1. /\ pc = "Save" /\ pc' \in {"Send", "Reply"} /\ UNCHANGED <<file, issued, gone, lost, unread, declines>>
        /\ crp' = crp /\ res' = "Stop" /\ UNCHANGED <<tech, hand, envs, fld, flagC51, sent>>
    BY <1>1 DEF SaveStripe, Still, After
  <2>2. TypeOK'
    BY <2>0, <2>1 DEF TypeOK
  <2>3. FieldInv'
    BY <2>0, <2>1 DEF FieldInv, inCrpExcCrd, MerchantException
  <2>4. RecordInv'
    BY <2>1 DEF RecordInv
  <2>5. TokenInv'
    BY <2>0, <2>1 DEF TokenInv
  <2>6. TokenOfItsCard' /\ ClearOnlyIfExcepted'
    BY <2>0, <2>1 DEF TokenOfItsCard, ClearOnlyIfExcepted
  <2> QED  BY <2>2, <2>3, <2>4, <2>5, <2>6 DEF IInv
<1>2. CASE inCrpSwpCrdSav
  BY <1>2, SaveTracksIInv DEF SaveStripe, inCrpSwpCrdSav
<1> QED  BY <1>1, <1>2 DEF SaveStripe

LEMMA SaveChipIInv ==
  ASSUME IInv, SaveChip
  PROVE  IInv'
<1>1. PICK tag57 \in BOOLEAN : SaveTracks(tag57)
  BY DEF SaveChip, inCrpChpCrdSav
<1> QED  BY <1>1, SaveTracksIInv DEF SaveChip

LEMMA SaveKeyedIInv ==
  ASSUME IInv, SaveKeyed
  PROVE  IInv'
BY SaveTracksIInv DEF SaveKeyed, inCrpKbdCrdSav

LEMMA SaveCvvIInv ==
  ASSUME IInv, SaveCvv
  PROVE  IInv'
<1>0. TypeOK /\ FieldInv /\ RecordInv /\ TokenInv /\ TokenOfItsCard /\ ClearOnlyIfExcepted
  BY DEF IInv
<1>1. TypeOK'
  BY <1>0, WriteType, NoRecords DEF TypeOK, SaveCvv, Still, Records, FieldInv
<1>2. FieldInv'
  BY <1>0 DEF TypeOK, FieldInv, inCrpExcCrd, MerchantException, SaveCvv, Still, NoFields, Fields
<1>3. RecordInv'
  BY <1>0, WriteType DEF TypeOK, FieldInv, RecordInv, TokenInv, SaveCvv, Still, Records, Empty, Write
<1>4. TokenInv'
  BY <1>0 DEF TypeOK, FieldInv, RecordInv, TokenInv, SaveCvv, Still, NoFields, NoToken, Fields, Tokens, Records
<1>5. TokenOfItsCard' /\ ClearOnlyIfExcepted'
  BY <1>0 DEF TypeOK, FieldInv, TokenInv, TokenOfItsCard, ClearOnlyIfExcepted, inCrpExcCrd, MerchantException, SaveCvv, Still, NoReply, NoFields
<1> QED  BY <1>1, <1>2, <1>3, <1>4, <1>5 DEF IInv

LEMMA AsmBgnIInv ==
  ASSUME IInv, AsmBgn
  PROVE  IInv'
<1>0. TypeOK /\ FieldInv /\ RecordInv /\ TokenInv /\ TokenOfItsCard /\ ClearOnlyIfExcepted
  BY DEF IInv
<1>1. TypeOK'
  BY <1>0, WriteType, NoRecords DEF TypeOK, AsmBgn, Still, Leave, Loads, Records, FieldInv
<1>2. FieldInv'
  BY <1>0 DEF TypeOK, FieldInv, inCrpExcCrd, MerchantException, AsmBgn, Still, Leave, Loads, NoFields, Fields
<1>3. RecordInv'
  BY <1>0, WriteType DEF TypeOK, FieldInv, RecordInv, TokenInv, AsmBgn, Still, Leave, Loads, Records, Empty, Write
<1>4. TokenInv'
  BY <1>0 DEF TypeOK, FieldInv, RecordInv, TokenInv, AsmBgn, Still, Leave, Loads, NoFields, NoToken, Fields, Tokens, Records
<1>5. TokenOfItsCard' /\ ClearOnlyIfExcepted'
  BY <1>0 DEF TypeOK, FieldInv, TokenInv, TokenOfItsCard, ClearOnlyIfExcepted, inCrpExcCrd, MerchantException, AsmBgn, Still, Leave, Loads, NoReply, NoFields
<1> QED  BY <1>1, <1>2, <1>3, <1>4, <1>5 DEF IInv

LEMMA EngineIInv ==
  ASSUME IInv, Engine
  PROVE  IInv'
<1>0. TypeOK /\ FieldInv /\ RecordInv /\ TokenInv /\ TokenOfItsCard /\ ClearOnlyIfExcepted
  BY DEF IInv
<1>1. issued' \in {issued, issued + 1} /\ issued' \in 0 .. MaxIssue
  <2>1. issued \in 0 .. MaxIssue /\ MaxIssue \in Nat
    BY <1>0 DEF TypeOK
  <2>2. issued' = issued \/ (issued < MaxIssue /\ issued' = issued + 1)
    BY DEF Engine, Leave
  <2> QED  BY <2>1, <2>2
<1>2. /\ file' \in Records
      /\ pc' \in {"End", "Tokens"} /\ crp' \in {"OK", "Err"}
      /\ pc' = "End" => issued' = issued + 1 /\ (file'.ok => file'.asm = file.asm /\ file'.ksn = issued')
      /\ pc' = "Tokens" => crp' = "Err"
      /\ file'.ok => file.ok
  <2>1. CASE Leave("Err")
    BY <1>0, <2>1 DEF Leave, TypeOK
  <2>2. CASE ~Leave("Err")
    <3>1. issued' = issued + 1
      BY <2>2 DEF Engine
    <3>2. PICK got \in {file.ok, FALSE}, done \in BOOLEAN :
             IF got
             THEN /\ Write([file EXCEPT !.ksn = issued'], done)
                  /\ crp' = IF done THEN "OK" ELSE "Err"
                  /\ pc' = IF done THEN "End" ELSE "Tokens"
             ELSE crp' = "Err" /\ pc' = "Tokens" /\ UNCHANGED file
      BY <2>2 DEF Engine, Loads
    <3>3. CASE ~got
      BY <1>0, <3>2, <3>3 DEF TypeOK
    <3>4. CASE got
      <4>1. [file EXCEPT !.ksn = issued'] \in Records /\ file.ok
        BY <1>0, <1>1, <3>2, <3>4 DEF TypeOK, Records
      <4>2. Write([file EXCEPT !.ksn = issued'], done)
        BY <3>2, <3>4
      <4>3. crp' = (IF done THEN "OK" ELSE "Err") /\ pc' = (IF done THEN "End" ELSE "Tokens")
        BY <3>2, <3>4
      <4>4. file' \in Records
        BY <1>0, <4>1, <4>2, WriteType DEF TypeOK
      <4>5. CASE done
        <5>1. file' = [[file EXCEPT !.ksn = issued'] EXCEPT !.ok = TRUE]
          BY <4>2, <4>5 DEF Write
        <5>2. file'.asm = file.asm /\ file'.ksn = issued'
          BY <1>0, <5>1 DEF TypeOK, Records
        <5> QED  BY <3>1, <4>1, <4>3, <4>4, <4>5, <5>2
      <4>6. CASE ~done
        BY <4>1, <4>3, <4>4, <4>6
      <4> QED  BY <4>5, <4>6
    <3> QED  BY <3>2, <3>3, <3>4 DEF TypeOK, Records
  <2> QED  BY <2>1, <2>2
<1>3. /\ pc = "Engine" /\ fld.ez = NoToken
      /\ UNCHANGED <<tech, hand, res, dkperr, table, fld, flagC51, sent, gone, lost, unread, declines>>
      /\ keylod' \in {keylod, FALSE}
  BY <1>0 DEF Engine, TokenInv
<1>4. TypeOK'
  BY <1>0, <1>1, <1>2, <1>3 DEF TypeOK
<1>5. FieldInv'
  BY <1>0, <1>2, <1>3 DEF FieldInv, inCrpExcCrd, MerchantException
<1>6. gone \subseteq 1 .. issued'
  BY <1>0, <1>1 DEF TokenInv, TypeOK
<1>7. RecordInv'
  BY <1>0, <1>1, <1>2, <1>3 DEF RecordInv, TokenInv, TypeOK
<1>8. TokenInv'
  BY <1>2, <1>3, <1>6 DEF TokenInv
<1>9. TokenOfItsCard' /\ ClearOnlyIfExcepted'
  BY <1>0, <1>3 DEF TokenOfItsCard, ClearOnlyIfExcepted
<1> QED  BY <1>4, <1>5, <1>7, <1>8, <1>9 DEF IInv

LEMMA AsmEndIInv ==
  ASSUME IInv, AsmEnd
  PROVE  IInv'
<1>0. TypeOK /\ FieldInv /\ RecordInv /\ TokenInv /\ TokenOfItsCard /\ ClearOnlyIfExcepted
  BY DEF IInv
<1>1. TypeOK'
  BY <1>0, WriteType, NoRecords DEF TypeOK, AsmEnd, Still, Loads, Records, FieldInv
<1>2. FieldInv'
  BY <1>0 DEF TypeOK, FieldInv, inCrpExcCrd, MerchantException, AsmEnd, Still, Loads, NoFields, Fields
<1>3. RecordInv'
  BY <1>0, WriteType DEF TypeOK, FieldInv, RecordInv, TokenInv, AsmEnd, Still, Loads, Records, Empty, Write
<1>4. TokenInv'
  BY <1>0 DEF TypeOK, FieldInv, RecordInv, TokenInv, AsmEnd, Still, Loads, NoFields, NoToken, Fields, Tokens, Records
<1>5. TokenOfItsCard' /\ ClearOnlyIfExcepted'
  BY <1>0 DEF TypeOK, FieldInv, TokenInv, TokenOfItsCard, ClearOnlyIfExcepted, inCrpExcCrd, MerchantException, AsmEnd, Still, Loads, NoReply, NoFields
<1> QED  BY <1>1, <1>2, <1>3, <1>4, <1>5 DEF IInv

LEMMA BuildTokensIInv ==
  ASSUME IInv, BuildTokens
  PROVE  IInv'
<1>0. TypeOK /\ FieldInv /\ RecordInv /\ TokenInv /\ TokenOfItsCard /\ ClearOnlyIfExcepted
  BY DEF IInv
<1>1. TypeOK'
  <2>1. inAsmQz \in Tokens
    BY <1>0 DEF TypeOK, Records, Tokens, inAsmQz
  <2>2. fld' \in Fields
    <3>1. PICK got \in BOOLEAN : fld' = [fld EXCEPT !.ez = IF got THEN inAsmQz ELSE NoToken]
      BY <1>0 DEF BuildTokens, Loads, TypeOK, Records
    <3> QED  BY <1>0, <2>1, <3>1, NoRecords, EzType DEF TypeOK
  <2> QED  BY <1>0, <2>2 DEF TypeOK, BuildTokens, Result, After, Loads
<1>2. FieldInv'
  BY <1>0 DEF TypeOK, FieldInv, inCrpExcCrd, MerchantException, BuildTokens, Result, After, Loads, inAsmQz, NoFields, Fields
<1>3. RecordInv'
  BY <1>0 DEF TypeOK, FieldInv, RecordInv, TokenInv, BuildTokens, Result, After, Loads, inAsmQz, Records, Empty
<1>4. TokenInv'
  <2>1. PICK got \in BOOLEAN :
          /\ got => file.ok /\ crp = "OK"
          /\ fld' = [fld EXCEPT !.ez = IF got THEN inAsmQz ELSE NoToken]
    BY <1>0 DEF BuildTokens, Loads, TypeOK, Records
  <2>2. fld'.ez = IF got THEN inAsmQz ELSE NoToken
    BY <1>0, <2>1 DEF TypeOK, Fields
  <2>3. got => inAsmQz.card = file.asm /\ inAsmQz.ksn = file.ksn
    BY DEF inAsmQz
  <2>4. pc = "Tokens" /\ pc' \in {"Send", "Reply"}
    BY DEF BuildTokens, After
  <2>5. UNCHANGED <<gone, issued, hand, lost>>
    BY DEF BuildTokens
  <2>6. got => (inAsmQz.card = hand \/ lost) /\ inAsmQz.ksn = issued /\ issued > 0 /\ issued \notin gone
    BY <1>0, <2>1, <2>3, <2>4 DEF RecordInv
  <2> QED  BY <1>0, <2>2, <2>4, <2>5, <2>6 DEF TokenInv
<1>5. TokenOfItsCard' /\ ClearOnlyIfExcepted'
  BY <1>0 DEF TypeOK, FieldInv, TokenInv, TokenOfItsCard, ClearOnlyIfExcepted, inCrpExcCrd, MerchantException, BuildTokens, Result, After, Loads, inAsmQz, NoReply, NoFields
<1> QED  BY <1>1, <1>2, <1>3, <1>4, <1>5 DEF IInv

LEMMA ReplyIInv ==
  ASSUME IInv, Reply
  PROVE  IInv'
<1>0. TypeOK /\ FieldInv /\ RecordInv /\ TokenInv /\ TokenOfItsCard /\ ClearOnlyIfExcepted
  BY DEF IInv
<1>1. TypeOK'
  <2>1. NoCard \in Cards \cup {NoCard} /\ hand \in Cards \cup {NoCard} /\ fld \in Fields /\ NoToken \in Tokens
    BY <1>0, NoRecords DEF TypeOK
  <2>2. fld' \in Fields
    <3>1. CASE ReplyChip
      <4>1. PICK p \in {hand, NoCard} :
              fld' = IF p # NoCard /\ MerchantException(p)
                     THEN [fld EXCEPT !.pan = p, !.trk = hand, !.cvv = "None", !.ez = NoToken]
                     ELSE [fld EXCEPT !.pan = p, !.trk = NoCard, !.cvv = "None"]
        BY <3>1 DEF ReplyChip
      <4> QED  BY <2>1, <4>1, PanTrkCvvType
    <3>2. CASE ReplyTappedStripe
      <4>1. \/ fld' = [fld EXCEPT !.pan = hand]
            \/ fld' = [fld EXCEPT !.pan = hand, !.trk = hand, !.cvv = "Clear", !.ez = NoToken]
            \/ fld' = [fld EXCEPT !.pan = hand, !.trk = NoCard, !.cvv = "None"]
        BY <3>2 DEF ReplyTappedStripe
      <4>2. [fld EXCEPT !.pan = hand] \in Fields
        BY <2>1, PanType
      <4>3. [fld EXCEPT !.pan = hand, !.trk = hand, !.cvv = "Clear", !.ez = NoToken] \in Fields
        BY <2>1, PanTrkCvvType
      <4>4. [fld EXCEPT !.pan = hand, !.trk = NoCard, !.cvv = "None"] \in Fields
        BY <2>1, PanTrkCvvType
      <4> QED  BY <4>1, <4>2, <4>3, <4>4
    <3>3. CASE ReplyKeyed
      BY <2>1, <3>3, TrkType DEF ReplyKeyed
    <3> QED  BY <3>1, <3>2, <3>3 DEF Reply
  <2> QED  BY <1>0, <2>2 DEF TypeOK, Reply
<1>2. FieldInv'
  BY <1>0 DEF TypeOK, FieldInv, inCrpExcCrd, MerchantException, Reply, ReplyChip, ReplyTappedStripe, ReplyKeyed, NoFields, Fields
<1>3. RecordInv'
  BY <1>0 DEF TypeOK, FieldInv, RecordInv, TokenInv, Reply, ReplyChip, ReplyTappedStripe, ReplyKeyed, Records, Empty
<1>4. TokenInv'
  BY <1>0 DEF TypeOK, FieldInv, RecordInv, TokenInv, Reply, ReplyChip, ReplyTappedStripe, ReplyKeyed, NoFields, NoToken, Fields, Tokens, Records
<1>5. TokenOfItsCard' /\ ClearOnlyIfExcepted'
  BY <1>0 DEF TypeOK, FieldInv, TokenInv, TokenOfItsCard, ClearOnlyIfExcepted, inCrpExcCrd, MerchantException, Reply, ReplyChip, ReplyTappedStripe, ReplyKeyed, NoReply, NoFields
<1> QED  BY <1>1, <1>2, <1>3, <1>4, <1>5 DEF IInv

LEMMA SendIInv ==
  ASSUME IInv, Send
  PROVE  IInv'
<1>0. TypeOK /\ FieldInv /\ RecordInv /\ TokenInv /\ TokenOfItsCard /\ ClearOnlyIfExcepted
  BY DEF IInv
<1>1. TypeOK'
  <2>1. sent' \in Replies
    <3>1. /\ (res = "OK") \in BOOLEAN /\ inCrpExcCrd(hand) \in BOOLEAN
          /\ tech \in Techs /\ hand \in Cards \cup {NoCard} /\ fld \in Fields
          /\ lost \in BOOLEAN /\ unread \in BOOLEAN /\ declines \in 0 .. Digits
      BY <1>0 DEF TypeOK, inCrpExcCrd
    <3> QED  BY <3>1 DEF Send, Replies
  <2>2. fld.ez.ksn \in 0 .. MaxIssue
    BY <1>0 DEF TypeOK, Fields, Tokens
  <2> QED  BY <1>0, <2>1, <2>2, NoRecords DEF TypeOK, Send, Techs
<1>2. FieldInv'
  BY <1>0 DEF TypeOK, FieldInv, inCrpExcCrd, MerchantException, Send, NoFields, Fields
<1>3. RecordInv'
  BY <1>0 DEF TypeOK, FieldInv, RecordInv, TokenInv, Send, Records, Empty
<1>4. TokenInv'
  <2>1. issued \in Nat /\ issued' = issued /\ fld' = NoFields /\ NoFields.ez = NoToken
    BY <1>0 DEF TypeOK, Send, NoFields
  <2>2. gone' \subseteq 1 .. issued
    <3>1. CASE fld.ez = NoToken
      BY <1>0, <3>1 DEF Send, TokenInv
    <3>2. CASE fld.ez # NoToken
      <4>1. fld.ez.ksn = issued /\ issued > 0 /\ gone \subseteq 1 .. issued
        BY <1>0, <3>2 DEF TokenInv
      <4>2. gone' = gone \cup {fld.ez.ksn}
        BY <3>2 DEF Send
      <4> QED  BY <2>1, <4>1, <4>2
    <3> QED  BY <3>1, <3>2
  <2> QED  BY <2>1, <2>2 DEF TokenInv
<1>5. TokenOfItsCard' /\ ClearOnlyIfExcepted'
  BY <1>0 DEF TypeOK, FieldInv, TokenInv, TokenOfItsCard, ClearOnlyIfExcepted, inCrpExcCrd, MerchantException, Send, NoReply, NoFields
<1> QED  BY <1>1, <1>2, <1>3, <1>4, <1>5 DEF IInv

LEMMA NextIInv == IInv /\ [Next]_vars => IInv'
<1> SUFFICES ASSUME IInv, [Next]_vars PROVE IInv'  OBVIOUS
<1>1. CASE LoadKey \/ Restart \/ ReadMSR \/ ReadKBD \/ ReadCHIP \/ ReadCTLS
  BY <1>1, LoadKeyIInv, RestartIInv, ReadMSRIInv, ReadKBDIInv, ReadCHIPIInv, ReadCTLSIInv
<1>2. CASE SaveStripe \/ SaveChip \/ SaveKeyed \/ SaveCvv \/ AsmBgn \/ Engine \/ AsmEnd \/ BuildTokens \/ Reply \/ Send
  BY <1>2, SaveStripeIInv, SaveChipIInv, SaveKeyedIInv, SaveCvvIInv, AsmBgnIInv, EngineIInv, AsmEndIInv, BuildTokensIInv,
     ReplyIInv, SendIInv
<1>3. ASSUME NEW S \in SUBSET Cards, SetTable(S) PROVE IInv'
  BY <1>3, SetTableIInv
<1>4. ASSUME NEW auth, NEW key \in BOOLEAN, HostAnswer(auth, key) PROVE IInv'
  BY <1>4, HostAnswerIInv
<1>5. ASSUME NEW t \in Techs \ {"None"}, NEW c \in Cards, Present(t, c) PROVE IInv'
  BY <1>5, PresentIInv
<1>6. CASE UNCHANGED vars
  BY <1>6, StutterIInv
<1> QED  BY <1>1, <1>2, <1>3, <1>4, <1>5, <1>6 DEF Next

\* IInv holds in every state of every run, for any cards, lists and bounds.
THEOREM Invariant == Spec => []IInv
  BY InitIInv, NextIInv, PTL DEF Spec

\* The types of the variables; part of IInv.
THEOREM TypeCorrect == Spec => []TypeOK
<1>1. IInv => TypeOK  BY DEF IInv
<1> QED  BY <1>1, Invariant, PTL

\* The encrypted data of a C53 are those of its card, unless the save of the record
\* was lost (the results that usrcmds.cpp:1061, 1134 and 1253 ignore).
THEOREM TokenIsOfItsCard == Spec => []TokenOfItsCard
<1>1. IInv => TokenOfItsCard  BY DEF IInv
<1> QED  BY <1>1, Invariant, PTL

\* Only cards of the C14 table or of the merchant's lists leave in clear.
THEOREM ClearIsExcepted == Spec => []ClearOnlyIfExcepted
<1>1. IInv => ClearOnlyIfExcepted  BY DEF IInv
<1> QED  BY <1>1, Invariant, PTL

\* A step that sends a token sends one whose number the host has not had.
LEMMA NextSerial == IInv /\ [Next]_vars => [sent'.fld.ez.ksn \notin gone]_sent
<1> SUFFICES ASSUME IInv, Next, sent' # sent PROVE sent'.fld.ez.ksn \notin gone
  OBVIOUS
<1>1. TokenInv /\ TypeOK
  BY DEF IInv
<1>2. 0 \notin gone
  BY <1>1 DEF TokenInv, TypeOK
<1>3. CASE sent' = NoReply
  BY <1>2, <1>3 DEF NoReply, NoFields, NoToken
<1>4. CASE Send
  <2>1. sent'.fld = fld
    BY <1>4 DEF Send
  <2>2. fld.ez = NoToken \/ fld.ez.ksn \notin gone
    BY <1>1 DEF TokenInv
  <2> QED  BY <1>2, <2>1, <2>2 DEF NoToken
<1>5. sent' = NoReply \/ Send
  BY DEF Next, LoadKey, SetTable, HostAnswer, Restart, Present, ReadMSR, ReadKBD, ReadCHIP,
         ReadCTLS, Kept, SaveStripe, SaveChip, SaveKeyed, inCrpSwpCrdSav,
         inCrpChpCrdSav, inCrpKbdCrdSav, SaveTracks, SaveCvv, AsmBgn, Engine, AsmEnd, Still, BuildTokens, Reply
<1> QED  BY <1>3, <1>4, <1>5

\* A serial number goes to the host once, although the record of an earlier sale
\* stays on the file.
THEOREM SerialGoesOnce == Spec => SerialOnce
  BY Invariant, NextSerial, PTL DEF Spec, SerialOnce

-----------------------------------------------------------------------------
(* The answers: AnswerInv, on top of IInv *)

\* The properties of the last C53 hold as long as there is no new one.
LEMMA SameAnswer ==
  ASSUME AnswerInv, UNCHANGED sent
  PROVE  Deliverable' /\ KeyErrorsReported'
  BY DEF AnswerInv, Deliverable, KeyErrorsReported

\* ... and of no C53 at all.
LEMMA NoAnswer ==
  ASSUME sent' = NoReply
  PROVE  Deliverable' /\ KeyErrorsReported'
  BY DEF Deliverable, KeyErrorsReported, NoReply, NoFields

LEMMA InitAnswers == Init => AnswerInv
  BY DEF Init, AnswerInv, DeliverInv, ErrorInv, Deliverable, KeyErrorsReported, NoReply,
         NoFields, NoToken

LEMMA LoadKeyAnswers ==
  ASSUME IInv, AnswerInv, LoadKey
  PROVE  AnswerInv'
<1>0. TypeOK /\ FieldInv /\ RecordInv /\ TokenInv /\ DeliverInv /\ ErrorInv
  BY DEF IInv, AnswerInv
<1>1. DeliverInv'
  BY <1>0 DEF DeliverInv, FieldInv, TokenInv, TypeOK, Techs, inCrpExcCrd, MerchantException,
         Excepted, LoadKey, Kept, Still
<1>2. ErrorInv'
  BY <1>0 DEF ErrorInv, TokenInv, TypeOK, Fields, Records, LoadKey, Kept, Still
<1>3. Deliverable' /\ KeyErrorsReported'
  BY SameAnswer DEF LoadKey, Kept, Still
<1> QED  BY <1>1, <1>2, <1>3 DEF AnswerInv

LEMMA SetTableAnswers ==
  ASSUME IInv, AnswerInv, NEW S \in SUBSET Cards, SetTable(S)
  PROVE  AnswerInv'
<1>0. TypeOK /\ FieldInv /\ RecordInv /\ TokenInv /\ DeliverInv /\ ErrorInv
  BY DEF IInv, AnswerInv
<1>1. DeliverInv'
  BY <1>0 DEF DeliverInv, FieldInv, TokenInv, TypeOK, Techs, inCrpExcCrd, MerchantException,
         Excepted, SetTable, Kept, Still
<1>2. ErrorInv'
  BY <1>0 DEF ErrorInv, TokenInv, TypeOK, Fields, Records, SetTable, Kept, Still
<1>3. Deliverable' /\ KeyErrorsReported'
  BY SameAnswer DEF SetTable, Kept, Still
<1> QED  BY <1>1, <1>2, <1>3 DEF AnswerInv

LEMMA HostAnswerAnswers ==
  ASSUME IInv, AnswerInv, NEW auth, NEW key \in BOOLEAN, HostAnswer(auth, key)
  PROVE  AnswerInv'
<1>0. TypeOK /\ FieldInv /\ RecordInv /\ TokenInv /\ DeliverInv /\ ErrorInv
  BY DEF IInv, AnswerInv
<1>1. DeliverInv'
  BY <1>0 DEF DeliverInv, FieldInv, TokenInv, TypeOK, Techs, inCrpExcCrd, MerchantException,
         Excepted, HostAnswer, Kept, Still, inCrpDukErr, SetEnv, NoFields
<1>2. ErrorInv'
  BY <1>0 DEF ErrorInv, TokenInv, TypeOK, Fields, Records, HostAnswer, Kept, Still, inCrpDukErr, SetEnv, NoFields
<1>3. Deliverable' /\ KeyErrorsReported'
  BY SameAnswer DEF HostAnswer, Kept, Still
<1> QED  BY <1>1, <1>2, <1>3 DEF AnswerInv

LEMMA RestartAnswers ==
  ASSUME IInv, AnswerInv, Restart
  PROVE  AnswerInv'
<1>0. TypeOK /\ FieldInv /\ RecordInv /\ TokenInv /\ DeliverInv /\ ErrorInv
  BY DEF IInv, AnswerInv
<1>1. DeliverInv'
  BY <1>0 DEF DeliverInv, FieldInv, TokenInv, TypeOK, Techs, inCrpExcCrd, MerchantException,
         Excepted, Restart, Kept, Still, NoFields
<1>2. ErrorInv'
  BY <1>0 DEF ErrorInv, TokenInv, TypeOK, Fields, Records, Restart, Kept, Still, NoFields
<1>3. Deliverable' /\ KeyErrorsReported'
  BY NoAnswer DEF Restart, Kept, Still
<1> QED  BY <1>1, <1>2, <1>3 DEF AnswerInv

LEMMA PresentAnswers ==
  ASSUME IInv, AnswerInv, NEW t \in Techs \ {"None"}, NEW c \in Cards, Present(t, c)
  PROVE  AnswerInv'
<1>0. TypeOK /\ FieldInv /\ RecordInv /\ TokenInv /\ DeliverInv /\ ErrorInv
  BY DEF IInv, AnswerInv
<1>1. DeliverInv'
  BY <1>0 DEF DeliverInv, FieldInv, TokenInv, TypeOK, Techs, inCrpExcCrd, MerchantException,
         Excepted, Present, Kept, Still, NoFields
<1>2. ErrorInv'
  BY <1>0 DEF ErrorInv, TokenInv, TypeOK, Fields, Records, Present, Kept, Still, NoFields
<1>3. Deliverable' /\ KeyErrorsReported'
  BY NoAnswer DEF Present, Kept, Still
<1> QED  BY <1>1, <1>2, <1>3 DEF AnswerInv

LEMMA ReadMSRAnswers ==
  ASSUME IInv, AnswerInv, ReadMSR
  PROVE  AnswerInv'
<1>0. TypeOK /\ FieldInv /\ RecordInv /\ TokenInv /\ DeliverInv /\ ErrorInv
  BY DEF IInv, AnswerInv
<1>1. DeliverInv'
  <2>1. pc' \in {"Save", "Send"} /\ UNCHANGED <<tech, hand, table, unread>> /\ tech = "MSR"
    BY DEF ReadMSR, Kept
  <2>2. pc' = "Save" => ~inCrpExcCrd(hand)
    BY DEF ReadMSR
  <2>3. pc' = "Send" /\ res' = "OK" => fld'.trk = hand
    BY <1>0 DEF ReadMSR, TypeOK, Fields
  <2> QED  BY <2>1, <2>2, <2>3 DEF DeliverInv, inCrpExcCrd
<1>2. ErrorInv'
  BY <1>0 DEF ErrorInv, TokenInv, TypeOK, Fields, Records, ReadMSR, Kept, Still
<1>3. Deliverable' /\ KeyErrorsReported'
  BY SameAnswer DEF ReadMSR, Kept, Still
<1> QED  BY <1>1, <1>2, <1>3 DEF AnswerInv

LEMMA ReadKBDAnswers ==
  ASSUME IInv, AnswerInv, ReadKBD
  PROVE  AnswerInv'
<1>0. TypeOK /\ FieldInv /\ RecordInv /\ TokenInv /\ DeliverInv /\ ErrorInv
  BY DEF IInv, AnswerInv
<1>1. DeliverInv'
  BY <1>0 DEF DeliverInv, FieldInv, TokenInv, TypeOK, Techs, inCrpExcCrd, MerchantException,
         Excepted, ReadKBD, Kept, Still
<1>2. ErrorInv'
  BY <1>0 DEF ErrorInv, TokenInv, TypeOK, Fields, Records, ReadKBD, Kept, Still
<1>3. Deliverable' /\ KeyErrorsReported'
  BY SameAnswer DEF ReadKBD, Kept, Still
<1> QED  BY <1>1, <1>2, <1>3 DEF AnswerInv

LEMMA ReadCHIPAnswers ==
  ASSUME IInv, AnswerInv, ReadCHIP
  PROVE  AnswerInv'
<1>0. TypeOK /\ FieldInv /\ RecordInv /\ TokenInv /\ DeliverInv /\ ErrorInv
  BY DEF IInv, AnswerInv
<1>1. DeliverInv'
  BY <1>0 DEF DeliverInv, FieldInv, TokenInv, TypeOK, Techs, inCrpExcCrd, MerchantException,
         Excepted, ReadCHIP, Kept, Still
<1>2. ErrorInv'
  BY <1>0 DEF ErrorInv, TokenInv, TypeOK, Fields, Records, ReadCHIP, Kept, Still
<1>3. Deliverable' /\ KeyErrorsReported'
  BY SameAnswer DEF ReadCHIP, Kept, Still
<1> QED  BY <1>1, <1>2, <1>3 DEF AnswerInv

LEMMA ReadCTLSAnswers ==
  ASSUME IInv, AnswerInv, ReadCTLS
  PROVE  AnswerInv'
<1>0. TypeOK /\ FieldInv /\ RecordInv /\ TokenInv /\ DeliverInv /\ ErrorInv
  BY DEF IInv, AnswerInv
<1>1. DeliverInv'
  BY <1>0 DEF DeliverInv, FieldInv, TokenInv, TypeOK, Techs, inCrpExcCrd, MerchantException,
         Excepted, ReadCTLS, Kept, Still
<1>2. ErrorInv'
  BY <1>0 DEF ErrorInv, TokenInv, TypeOK, Fields, Records, ReadCTLS, Kept, Still
<1>3. Deliverable' /\ KeyErrorsReported'
  BY SameAnswer DEF ReadCTLS, Kept, Still
<1> QED  BY <1>1, <1>2, <1>3 DEF AnswerInv

LEMMA SaveStripeAnswers ==
  ASSUME IInv, AnswerInv, SaveStripe
  PROVE  AnswerInv'
<1>0. TypeOK /\ FieldInv /\ RecordInv /\ TokenInv /\ DeliverInv /\ ErrorInv
  BY DEF IInv, AnswerInv
<1>1. DeliverInv'
  BY <1>0 DEF DeliverInv, FieldInv, TokenInv, TypeOK, Techs, inCrpExcCrd, MerchantException,
         Excepted, SaveStripe, Kept, Still, SaveTracks, inCrpSwpCrdSav, After
<1>2. ErrorInv'
  BY <1>0 DEF ErrorInv, TokenInv, TypeOK, Fields, Records, SaveStripe, Kept, Still, SaveTracks, inCrpSwpCrdSav, After
<1>3. Deliverable' /\ KeyErrorsReported'
  BY SameAnswer DEF SaveStripe, Kept, Still
<1> QED  BY <1>1, <1>2, <1>3 DEF AnswerInv

LEMMA SaveChipAnswers ==
  ASSUME IInv, AnswerInv, SaveChip
  PROVE  AnswerInv'
<1>0. TypeOK /\ FieldInv /\ RecordInv /\ TokenInv /\ DeliverInv /\ ErrorInv
  BY DEF IInv, AnswerInv
<1>1. DeliverInv'
  BY <1>0 DEF DeliverInv, FieldInv, TokenInv, TypeOK, Techs, inCrpExcCrd, MerchantException,
         Excepted, SaveChip, Kept, Still, SaveTracks, inCrpChpCrdSav
<1>2. ErrorInv'
  BY <1>0 DEF ErrorInv, TokenInv, TypeOK, Fields, Records, SaveChip, Kept, Still, SaveTracks, inCrpChpCrdSav
<1>3. Deliverable' /\ KeyErrorsReported'
  BY SameAnswer DEF SaveChip, Kept, Still
<1> QED  BY <1>1, <1>2, <1>3 DEF AnswerInv

LEMMA SaveKeyedAnswers ==
  ASSUME IInv, AnswerInv, SaveKeyed
  PROVE  AnswerInv'
<1>0. TypeOK /\ FieldInv /\ RecordInv /\ TokenInv /\ DeliverInv /\ ErrorInv
  BY DEF IInv, AnswerInv
<1>1. DeliverInv'
  BY <1>0 DEF DeliverInv, FieldInv, TokenInv, TypeOK, Techs, inCrpExcCrd, MerchantException,
         Excepted, SaveKeyed, Kept, Still, SaveTracks, inCrpKbdCrdSav
<1>2. ErrorInv'
  BY <1>0 DEF ErrorInv, TokenInv, TypeOK, Fields, Records, SaveKeyed, Kept, Still, SaveTracks, inCrpKbdCrdSav
<1>3. Deliverable' /\ KeyErrorsReported'
  BY SameAnswer DEF SaveKeyed, Kept, Still
<1> QED  BY <1>1, <1>2, <1>3 DEF AnswerInv

LEMMA SaveCvvAnswers ==
  ASSUME IInv, AnswerInv, SaveCvv
  PROVE  AnswerInv'
<1>0. TypeOK /\ FieldInv /\ RecordInv /\ TokenInv /\ DeliverInv /\ ErrorInv
  BY DEF IInv, AnswerInv
<1>1. DeliverInv'
  BY <1>0 DEF DeliverInv, FieldInv, TokenInv, TypeOK, Techs, inCrpExcCrd, MerchantException,
         Excepted, SaveCvv, Kept, Still
<1>2. ErrorInv'
  BY <1>0 DEF ErrorInv, TokenInv, TypeOK, Fields, Records, SaveCvv, Kept, Still
<1>3. Deliverable' /\ KeyErrorsReported'
  BY SameAnswer DEF SaveCvv, Kept, Still
<1> QED  BY <1>1, <1>2, <1>3 DEF AnswerInv

LEMMA AsmBgnAnswers ==
  ASSUME IInv, AnswerInv, AsmBgn
  PROVE  AnswerInv'
<1>0. TypeOK /\ FieldInv /\ RecordInv /\ TokenInv /\ DeliverInv /\ ErrorInv
  BY DEF IInv, AnswerInv
<1>1. DeliverInv'
  BY <1>0 DEF DeliverInv, FieldInv, TokenInv, TypeOK, Techs, inCrpExcCrd, MerchantException,
         Excepted, AsmBgn, Kept, Still, Leave, Loads, Write
<1>2. ErrorInv'
  BY <1>0 DEF ErrorInv, TokenInv, TypeOK, Fields, Records, AsmBgn, Kept, Still, Leave, Loads, Write
<1>3. Deliverable' /\ KeyErrorsReported'
  BY SameAnswer DEF AsmBgn, Kept, Still
<1> QED  BY <1>1, <1>2, <1>3 DEF AnswerInv

LEMMA EngineAnswers ==
  ASSUME IInv, AnswerInv, Engine
  PROVE  AnswerInv'
<1>0. TypeOK /\ FieldInv /\ RecordInv /\ TokenInv /\ DeliverInv /\ ErrorInv
  BY DEF IInv, AnswerInv
<1>1. DeliverInv'
  BY <1>0 DEF DeliverInv, FieldInv, TokenInv, TypeOK, Techs, inCrpExcCrd, MerchantException,
         Excepted, Engine, Kept, Still, Leave, Loads, Write
<1>2. ErrorInv'
  BY <1>0 DEF ErrorInv, TokenInv, TypeOK, Fields, Records, Engine, Kept, Still, Leave, Loads, Write
<1>3. Deliverable' /\ KeyErrorsReported'
  BY SameAnswer DEF Engine, Kept, Still
<1> QED  BY <1>1, <1>2, <1>3 DEF AnswerInv

LEMMA AsmEndAnswers ==
  ASSUME IInv, AnswerInv, AsmEnd
  PROVE  AnswerInv'
<1>0. TypeOK /\ FieldInv /\ RecordInv /\ TokenInv /\ DeliverInv /\ ErrorInv
  BY DEF IInv, AnswerInv
<1>1. DeliverInv'
  BY <1>0 DEF DeliverInv, FieldInv, TokenInv, TypeOK, Techs, inCrpExcCrd, MerchantException,
         Excepted, AsmEnd, Kept, Still, Loads, Write
<1>2. ErrorInv'
  BY <1>0 DEF ErrorInv, TokenInv, TypeOK, Fields, Records, AsmEnd, Kept, Still, Loads, Write
<1>3. Deliverable' /\ KeyErrorsReported'
  BY SameAnswer DEF AsmEnd, Kept, Still
<1> QED  BY <1>1, <1>2, <1>3 DEF AnswerInv

LEMMA BuildTokensAnswers ==
  ASSUME IInv, AnswerInv, BuildTokens
  PROVE  AnswerInv'
<1>0. TypeOK /\ FieldInv /\ RecordInv /\ TokenInv /\ DeliverInv /\ ErrorInv
  BY DEF IInv, AnswerInv
<1>1. PICK got \in BOOLEAN :
       /\ got => file.ok /\ crp = "OK"
       /\ fld' = [fld EXCEPT !.ez = IF got THEN inAsmQz ELSE NoToken]
       /\ unread' = (crp = "OK" /\ ~got)
  BY <1>0 DEF BuildTokens, Loads, TypeOK, Records
<1>2. fld'.ez = IF got THEN inAsmQz ELSE NoToken
  BY <1>0, <1>1 DEF TypeOK, Fields
<1>4. pc = "Tokens" /\ pc' = After /\ Result /\ UNCHANGED <<tech, hand, crp, file, dkperr, table, declines>>
  BY DEF BuildTokens
<1>5. got => fld'.ez # NoToken
  BY <1>0, <1>1, <1>2, <1>4 DEF RecordInv, inAsmQz, NoToken
<1>6. DeliverInv'
  <2>1. res' = "OK" => tech = "CTLS" \/ crp # "Err"
    BY <1>4 DEF Result
  <2>2. crp = "OK" => fld'.ez # NoToken \/ unread'
    BY <1>1, <1>5
  <2>3. crp = "EXC" => inCrpExcCrd(hand) /\ tech # "CTLSM"
    BY <1>0, <1>4 DEF DeliverInv, Excepted
  <2>4. tech = "MSR" => ~inCrpExcCrd(hand)
    BY <1>0, <1>4 DEF DeliverInv
  <2>5. crp \in {"OK", "EXC", "Err"} /\ tech \in Techs \ {"None"}
    BY <1>0, <1>4 DEF TypeOK, DeliverInv
  <2>6. pc' = IF tech = "MSR" THEN "Send" ELSE "Reply"
    BY <1>4 DEF After
  <2>7. inCrpExcCrd(hand)' <=> inCrpExcCrd(hand)
    BY <1>4 DEF inCrpExcCrd
  <2>8. pc' = "Reply" /\ res' = "OK" =>
          \/ fld'.ez # NoToken \/ unread' \/ tech = "CTLS"
          \/ inCrpExcCrd(hand) /\ tech \in {"CHIP", "KBD"}
    BY <2>1, <2>2, <2>3, <2>5, <2>6 DEF Techs
  <2>9. pc' = "Send" /\ res' = "OK" => fld'.ez # NoToken \/ unread'
    BY <2>1, <2>2, <2>3, <2>4, <2>5, <2>6
  <2> QED  BY <1>4, <2>5, <2>6, <2>7, <2>8, <2>9 DEF DeliverInv
<1>7. ErrorInv'
  <2>1. pc' # "Tokens"
    BY <1>4 DEF After
  <2>2. got => fld'.ez.err = dkperr
    BY <1>0, <1>1, <1>2, <1>4 DEF ErrorInv, inAsmQz
  <2> QED  BY <1>0, <1>2, <1>4, <2>1, <2>2 DEF ErrorInv
<1>3. Deliverable' /\ KeyErrorsReported'
  BY SameAnswer DEF BuildTokens, Kept, Still
<1> QED  BY <1>6, <1>7, <1>3 DEF AnswerInv

LEMMA ReplyAnswers ==
  ASSUME IInv, AnswerInv, Reply
  PROVE  AnswerInv'
<1>0. TypeOK /\ FieldInv /\ RecordInv /\ TokenInv /\ DeliverInv /\ ErrorInv
  BY DEF IInv, AnswerInv
<1>1. DeliverInv'
  <2>1. /\ pc = "Reply" /\ pc' = "Send" /\ fld \in Fields /\ hand \in Cards /\ tech # "None"
        /\ UNCHANGED <<tech, hand, res, table, unread>>
    BY <1>0 DEF Reply, sale, envs, hist, TypeOK, FieldInv, DeliverInv
  <2>2. res = "OK" =>
          \/ fld.ez # NoToken \/ unread \/ tech = "CTLS"
          \/ inCrpExcCrd(hand) /\ tech \in {"CHIP", "KBD"}
          \/ MerchantException(hand) /\ tech = "CHIP"
    BY <1>0, <2>1 DEF DeliverInv
  <2>3. \/ fld'.trk = hand \/ fld'.pan = NoCard
        \/ fld'.ez = fld.ez /\ ~(MerchantException(hand) /\ tech = "CHIP")
    <3>1. CASE tech \in {"CHIP", "CTLS"} /\ ReplyChip
      <4>1. PICK p \in {hand, NoCard} :
              fld' = IF p # NoCard /\ MerchantException(p)
                     THEN [fld EXCEPT !.pan = p, !.trk = hand, !.cvv = "None", !.ez = NoToken]
                     ELSE [fld EXCEPT !.pan = p, !.trk = NoCard, !.cvv = "None"]
        BY <3>1 DEF ReplyChip
      <4>2. CASE p = NoCard
        BY <2>1, <4>1, <4>2 DEF Fields
      <4>3. CASE p = hand /\ MerchantException(hand)
        BY <2>1, <4>1, <4>3 DEF Fields
      <4>4. CASE p = hand /\ ~MerchantException(hand)
        BY <2>1, <4>1, <4>4 DEF Fields
      <4> QED  BY <4>1, <4>2, <4>3, <4>4
    <3>2. CASE tech = "CTLSM" /\ ReplyTappedStripe
      BY <2>1, <3>2 DEF ReplyTappedStripe, Fields
    <3>3. CASE tech = "KBD" /\ ReplyKeyed
      BY <2>1, <3>3 DEF ReplyKeyed, Fields
    <3> QED  BY <3>1, <3>2, <3>3 DEF Reply
  <2> QED  BY <2>1, <2>2, <2>3 DEF DeliverInv, inCrpExcCrd
<1>2. ErrorInv'
  BY <1>0 DEF ErrorInv, TokenInv, TypeOK, Fields, Records, Reply, Kept, Still, ReplyChip, ReplyTappedStripe, ReplyKeyed
<1>3. Deliverable' /\ KeyErrorsReported'
  BY SameAnswer DEF Reply, Kept, Still
<1> QED  BY <1>1, <1>2, <1>3 DEF AnswerInv

LEMMA SendAnswers ==
  ASSUME IInv, AnswerInv, Send
  PROVE  AnswerInv'
<1>0. TypeOK /\ FieldInv /\ RecordInv /\ TokenInv /\ DeliverInv /\ ErrorInv
  BY DEF IInv, AnswerInv
<1>1. DeliverInv'
  BY <1>0 DEF DeliverInv, FieldInv, TokenInv, TypeOK, Techs, inCrpExcCrd, MerchantException,
         Excepted, Send, Kept, Still, NoFields
<1>2. ErrorInv'
  BY <1>0 DEF ErrorInv, TokenInv, TypeOK, Fields, Records, Send, Kept, Still, NoFields
<1>3. Deliverable' /\ KeyErrorsReported'
  <2>1. /\ sent'.ok = (res = "OK") /\ sent'.tech = tech /\ sent'.card = hand /\ sent'.fld = fld
        /\ sent'.exc = inCrpExcCrd(hand) /\ sent'.unread = unread /\ sent'.declines = declines
        /\ pc = "Send"
    BY DEF Send
  <2>2. Deliverable'
    BY <1>0, <2>1 DEF Deliverable, DeliverInv
  <2>3. KeyErrorsReported'
    BY <1>0, <2>1 DEF KeyErrorsReported, ErrorInv
  <2> QED  BY <2>2, <2>3
<1> QED  BY <1>1, <1>2, <1>3 DEF AnswerInv
LEMMA NextAnswers == IInv /\ AnswerInv /\ [Next]_vars => AnswerInv'
<1> SUFFICES ASSUME IInv, AnswerInv, [Next]_vars PROVE AnswerInv'  OBVIOUS
<1>1. CASE LoadKey \/ Restart \/ ReadMSR \/ ReadKBD \/ ReadCHIP \/ ReadCTLS
  BY <1>1, LoadKeyAnswers, RestartAnswers, ReadMSRAnswers, ReadKBDAnswers, ReadCHIPAnswers,
     ReadCTLSAnswers
<1>2. CASE SaveStripe \/ SaveChip \/ SaveKeyed \/ SaveCvv \/ AsmBgn \/ Engine \/ AsmEnd \/ BuildTokens \/ Reply \/ Send
  BY <1>2, SaveStripeAnswers, SaveChipAnswers, SaveKeyedAnswers, SaveCvvAnswers, AsmBgnAnswers,
     EngineAnswers, AsmEndAnswers, BuildTokensAnswers, ReplyAnswers, SendAnswers
<1>3. ASSUME NEW S \in SUBSET Cards, SetTable(S) PROVE AnswerInv'
  BY <1>3, SetTableAnswers
<1>4. ASSUME NEW auth, NEW key \in BOOLEAN, HostAnswer(auth, key) PROVE AnswerInv'
  BY <1>4, HostAnswerAnswers
<1>5. ASSUME NEW t \in Techs \ {"None"}, NEW c \in Cards, Present(t, c) PROVE AnswerInv'
  BY <1>5, PresentAnswers
<1>6. CASE UNCHANGED vars
  BY <1>6 DEF AnswerInv, DeliverInv, ErrorInv, Deliverable, KeyErrorsReported, Excepted,
         inCrpExcCrd, MerchantException
<1> QED  BY <1>1, <1>2, <1>3, <1>4, <1>5, <1>6 DEF Next

\* What IInv leaves open of the answers holds in every state as well.
THEOREM Answers == Spec => [](IInv /\ AnswerInv)
  BY InitIInv, InitAnswers, NextIInv, NextAnswers, PTL DEF Spec

\* A success with an account number carries the card's data, in clear or encrypted,
\* or one of the reasons the code has for sending neither.
THEOREM DataAreDelivered == Spec => []Deliverable
<1>1. AnswerInv => Deliverable  BY DEF AnswerInv
<1> QED  BY <1>1, Answers, PTL

\* The token carries the number of key errors the host has reported in a row, while
\* that number has one digit (inCrpDukErr, dkprsa.cpp:3082).
THEOREM ErrorsAreReported == Spec => []KeyErrorsReported
<1>1. AnswerInv => KeyErrorsReported  BY DEF AnswerInv
<1> QED  BY <1>1, Answers, PTL

=============================================================================
