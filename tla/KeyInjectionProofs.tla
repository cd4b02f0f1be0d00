------------------------- MODULE KeyInjectionProofs -------------------------
(***************************************************************************)
(* Theorems about the injection of the initial key: IInv is inductive, and *)
(* every safety property of KeyInjection is one of its parts.              *)
(***************************************************************************)
EXTENDS KeyInjection, TLAPS

USE DEF vars, dev, rec, hist

-----------------------------------------------------------------------------
(* Records with some of their members replaced *)

LEMMA Constants ==
  /\ NoAnswer \in Answers /\ NoAnswer.worth = "None" /\ NoAnswer.fits = TRUE
  /\ Empty \in Records /\ Empty.ok = FALSE /\ Empty.rsp = NoAnswer
  /\ NoFields \in Fields /\ NoFields.ew = FALSE /\ NoFields.ex = NoAnswer
  /\ NoReply \in Replies /\ NoReply.cmd = "None"
<1>1. NoAnswer \in Answers /\ NoAnswer.worth = "None" /\ NoAnswer.fits = TRUE
  BY DEF NoAnswer, Answers, Worths
<1>2. Empty \in Records /\ Empty.ok = FALSE /\ Empty.rsp = NoAnswer
  BY <1>1 DEF Empty, Records, Keys
<1>3. NoFields \in Fields /\ NoFields.ew = FALSE /\ NoFields.ex = NoAnswer
  BY <1>1 DEF NoFields, Fields, Statuses
<1>4. NoReply \in Replies /\ NoReply.cmd = "None"
  BY DEF NoReply, Replies, Statuses, Keys
<1> QED  BY <1>1, <1>2, <1>3, <1>4

LEMMA StatusType ==
  ASSUME NEW f \in Fields, NEW s \in Statuses, NEW g, g = [f EXCEPT !.status = s]
  PROVE  g \in Fields /\ g.status = s /\ g.ew = f.ew /\ g.ex = f.ex
BY DEF Fields

LEMMA TokenType ==
  ASSUME NEW f \in Fields, NEW g, g = [f EXCEPT !.status = "00", !.ew = TRUE]
  PROVE  g \in Fields /\ g.ew = TRUE /\ g.ex = f.ex
BY DEF Fields, Statuses

LEMMA ExType ==
  ASSUME NEW f \in Fields, NEW r \in Answers, NEW g, g = [f EXCEPT !.ex = r]
  PROVE  g \in Fields /\ g.status = f.status /\ g.ew = f.ew /\ g.ex = r
BY DEF Fields

LEMMA NewRecordType == NewRecord \in Records /\ NewRecord.ok = TRUE /\ NewRecord.rsp = NoAnswer
<1>1. Empty \in Records /\ Empty.rsp = NoAnswer
  BY Constants
<1> QED  BY <1>1 DEF NewRecord, Records

LEMMA KeyType ==
  ASSUME NEW f \in Records, NEW v \in Keys, NEW g, g = [f EXCEPT !.key = v]
  PROVE  g \in Records /\ g.ok = f.ok /\ g.rsp = f.rsp /\ g.key = v
BY DEF Records

\* The members of the variables that are records.
LEMMA Members ==
  ASSUME TypeOK
  PROVE  /\ file.ok \in BOOLEAN /\ file.rsp \in Answers /\ file.ksn \in Keys /\ file.key \in Keys
         /\ fld.status \in Statuses /\ fld.ew \in BOOLEAN /\ fld.ex \in Answers
         /\ file.rsp.worth \in Worths /\ fld.ex.worth \in Worths /\ fld.ex.fits \in BOOLEAN
         /\ KeyOn \in Keys
<1>1. file \in Records /\ fld \in Fields /\ engine \in Keys
  BY DEF TypeOK
<1>2. /\ file.ok \in BOOLEAN /\ file.rsp \in Answers /\ file.ksn \in Keys /\ file.key \in Keys
      /\ fld.status \in Statuses /\ fld.ew \in BOOLEAN /\ fld.ex \in Answers
  BY <1>1 DEF Records, Fields
<1>3. file.rsp.worth \in Worths /\ fld.ex.worth \in Worths /\ fld.ex.fits \in BOOLEAN
  BY <1>2 DEF Answers
<1> QED  BY <1>1, <1>2, <1>3 DEF KeyOn, Keys

-----------------------------------------------------------------------------
(* The steps *)

LEMMA InitIInv == Init => IInv
<1> SUFFICES ASSUME Init PROVE IInv  OBVIOUS
<1>1. TypeOK
  BY Constants DEF Init, TypeOK, Keys
<1>2. RecordInv /\ CommandInv /\ StatusInv /\ RecoverInv
  BY Constants DEF Init, RecordInv, CommandInv, StatusInv, RecoverInv
<1>3. NoRewind /\ AnswerTellsKey /\ Recovers
  BY Constants DEF Init, NoRewind, AnswerTellsKey, Recovers
<1> QED  BY <1>1, <1>2, <1>3 DEF IInv

\* Z10: a new record, or none.
LEMMA AskIInv ==
  ASSUME IInv, Ask
  PROVE  IInv'
<1>0. /\ TypeOK /\ RecordInv /\ CommandInv /\ StatusInv /\ RecoverInv
      /\ NoRewind /\ AnswerTellsKey /\ Recovers
  BY DEF IInv
<1>m. /\ file.ok \in BOOLEAN /\ file.rsp \in Answers /\ file.ksn \in Keys /\ file.key \in Keys
      /\ fld.status \in Statuses /\ fld.ew \in BOOLEAN /\ fld.ex \in Answers
      /\ file.rsp.worth \in Worths /\ fld.ex.worth \in Worths /\ fld.ex.fits \in BOOLEAN
      /\ KeyOn \in Keys
  BY <1>0, Members
<1>e. /\ pc = "Idle" /\ acqmul = "MULTI" /\ pc' \in {"Qw", "Reply10"} /\ fld' = fld /\ sent' = NoReply
      /\ file' \in Records /\ torn' \in BOOLEAN /\ earned' \in BOOLEAN
      /\ (file' = file /\ earned' = earned) \/ file'.rsp = NoAnswer
      /\ file'.ok \/ (file'.ok = file.ok /\ torn' = torn) \/ torn'
      /\ lost' = FALSE /\ unread' = FALSE /\ fault' = FALSE /\ rewound' = FALSE /\ before' = "None"
      /\ UNCHANGED <<acqmul, engine, keylod, spent, told>>
  <2>1. CASE file' = NewRecord /\ torn' = FALSE /\ pc' = "Qw" /\ fld' = fld
    BY <1>0, <2>1, NewRecordType DEF Ask, NewCommand, TypeOK
  <2>2. CASE WriteFails /\ torn' = (torn \/ Cut) /\ NoToken
    <3>1. file' \in {file, Empty} /\ pc' = "Reply10" /\ fld' = fld
      BY <2>2 DEF WriteFails, NoToken
    <3>2. file' \in Records /\ (file' = file \/ (file'.rsp = NoAnswer /\ ~file'.ok))
      BY <1>0, <3>1, Constants DEF TypeOK
    <3>3. /\ torn' \in BOOLEAN
          /\ file'.ok \/ (file'.ok = file.ok /\ torn' = torn) \/ torn'
      BY <1>0, <1>m, <2>2, <3>2, Constants, <3>1 DEF TypeOK, Cut
    <3>4. earned' \in BOOLEAN /\ (file' = file => earned' = earned)
      BY <1>0 DEF Ask, TypeOK
    <3> QED  BY <3>1, <3>2, <3>3, <3>4 DEF Ask, NewCommand
  <2> QED  BY <2>1, <2>2 DEF Ask
<1>1. TypeOK'
  BY <1>0, <1>m, <1>e, Constants DEF TypeOK, Keys
<1>2. RecordInv'
  BY <1>0, <1>m, <1>e, Constants DEF RecordInv
<1>3. CommandInv'
  BY <1>0, <1>m, <1>e, Constants DEF CommandInv, RecordInv, Good, KeyOn
<1>4. StatusInv'
  BY <1>0, <1>m, <1>e, Constants DEF StatusInv, CommandInv, Good, KeyOn
<1>5. RecoverInv'
  BY <1>0, <1>m, <1>e, Constants DEF RecoverInv, RecordInv, Good, KeyOn
<1>6. NoRewind' /\ AnswerTellsKey'
  BY <1>0, <1>m, <1>e, Constants DEF NoRewind, AnswerTellsKey, RecordInv, CommandInv, StatusInv, Good, KeyOn
<1>7. Recovers'
  BY <1>0, <1>m, <1>e, Constants DEF Recovers, RecoverInv, RecordInv, Good, KeyOn
<1> QED  BY <1>1, <1>2, <1>3, <1>4, <1>5, <1>6, <1>7 DEF IInv

\* The tokens of a Z10.
LEMMA BuildTokensIInv ==
  ASSUME IInv, BuildTokens
  PROVE  IInv'
<1>0. /\ TypeOK /\ RecordInv /\ CommandInv /\ StatusInv /\ RecoverInv
      /\ NoRewind /\ AnswerTellsKey /\ Recovers
  BY DEF IInv
<1>m. /\ file.ok \in BOOLEAN /\ file.rsp \in Answers /\ file.ksn \in Keys /\ file.key \in Keys
      /\ fld.status \in Statuses /\ fld.ew \in BOOLEAN /\ fld.ex \in Answers
      /\ file.rsp.worth \in Worths /\ fld.ex.worth \in Worths /\ fld.ex.fits \in BOOLEAN
      /\ KeyOn \in Keys
  BY <1>0, Members
<1>e. /\ pc = "Qw" /\ pc' = "Reply10" /\ fld' \in Fields /\ fld'.ex = fld.ex
      /\ fld'.ew = fld.ew \/ file.ok
      /\ UNCHANGED <<acqmul, dev, sent, spent, rec, hist>>
  <2>1. CASE file.ok /\ fld' = [fld EXCEPT !.status = "00", !.ew = TRUE] /\ pc' = "Reply10"
    BY <1>0, <2>1, TokenType DEF BuildTokens, TypeOK
  <2>2. CASE pc' = "Reply10" /\ fld' = fld
    BY <1>0, <2>2 DEF BuildTokens, TypeOK
  <2> QED  BY <1>m, <2>1, <2>2 DEF BuildTokens, NoToken, Loads
<1>1. TypeOK'
  BY <1>0, <1>m, <1>e, Constants DEF TypeOK, Keys
<1>2. RecordInv'
  BY <1>0, <1>m, <1>e, Constants DEF RecordInv
<1>3. CommandInv'
  BY <1>0, <1>m, <1>e, Constants DEF CommandInv, RecordInv, Good, KeyOn
<1>4. StatusInv'
  BY <1>0, <1>m, <1>e, Constants DEF StatusInv, CommandInv, Good, KeyOn
<1>5. RecoverInv'
  BY <1>0, <1>m, <1>e, Constants DEF RecoverInv, RecordInv, Good, KeyOn
<1>6. NoRewind' /\ AnswerTellsKey'
  BY <1>0, <1>m, <1>e, Constants DEF NoRewind, AnswerTellsKey, RecordInv, CommandInv, StatusInv, Good, KeyOn
<1>7. Recovers'
  BY <1>0, <1>m, <1>e, Constants DEF Recovers, RecoverInv, RecordInv, Good, KeyOn
<1> QED  BY <1>1, <1>2, <1>3, <1>4, <1>5, <1>6, <1>7 DEF IInv

\* The answer to a Z10.
LEMMA Reply10IInv ==
  ASSUME IInv, Reply10
  PROVE  IInv'
<1>0. /\ TypeOK /\ RecordInv /\ CommandInv /\ StatusInv /\ RecoverInv
      /\ NoRewind /\ AnswerTellsKey /\ Recovers
  BY DEF IInv
<1>m. /\ file.ok \in BOOLEAN /\ file.rsp \in Answers /\ file.ksn \in Keys /\ file.key \in Keys
      /\ fld.status \in Statuses /\ fld.ew \in BOOLEAN /\ fld.ex \in Answers
      /\ file.rsp.worth \in Worths /\ fld.ex.worth \in Worths /\ fld.ex.fits \in BOOLEAN
      /\ KeyOn \in Keys
  BY <1>0, Members
<1>e. /\ pc = "Reply10" /\ pc' = "Idle" /\ sent'.cmd = "Z10" /\ sent' \in Replies
      /\ told' = (told \/ fld.ew)
      /\ UNCHANGED <<acqmul, dev, fld, spent, torn, earned, hist>>
  BY <1>m DEF Reply10, Replies
<1>1. TypeOK'
  BY <1>0, <1>m, <1>e, Constants DEF TypeOK, Keys
<1>2. RecordInv'
  BY <1>0, <1>m, <1>e, Constants DEF RecordInv
<1>3. CommandInv'
  BY <1>0, <1>m, <1>e, Constants DEF CommandInv, RecordInv, Good, KeyOn
<1>4. StatusInv'
  BY <1>0, <1>m, <1>e, Constants DEF StatusInv, CommandInv, Good, KeyOn
<1>5. RecoverInv'
  BY <1>0, <1>m, <1>e, Constants DEF RecoverInv, RecordInv, Good, KeyOn
<1>6. NoRewind' /\ AnswerTellsKey'
  BY <1>0, <1>m, <1>e, Constants DEF NoRewind, AnswerTellsKey, RecordInv, CommandInv, StatusInv, Good, KeyOn
<1>7. Recovers'
  BY <1>0, <1>m, <1>e, Constants DEF Recovers, RecoverInv, RecordInv, Good, KeyOn
<1> QED  BY <1>1, <1>2, <1>3, <1>4, <1>5, <1>6, <1>7 DEF IInv

\* A program for one acquirer refuses.
LEMMA RefuseIInv ==
  ASSUME IInv, NEW cmd \in {"Z10", "Z11"}, Refuse(cmd)
  PROVE  IInv'
<1>0. /\ TypeOK /\ RecordInv /\ CommandInv /\ StatusInv /\ RecoverInv
      /\ NoRewind /\ AnswerTellsKey /\ Recovers
  BY DEF IInv
<1>m. /\ file.ok \in BOOLEAN /\ file.rsp \in Answers /\ file.ksn \in Keys /\ file.key \in Keys
      /\ fld.status \in Statuses /\ fld.ew \in BOOLEAN /\ fld.ex \in Answers
      /\ file.rsp.worth \in Worths /\ fld.ex.worth \in Worths /\ fld.ex.fits \in BOOLEAN
      /\ KeyOn \in Keys
  BY <1>0, Members
<1>e. /\ pc = "Idle" /\ acqmul = "UNI" /\ fld' \in Fields /\ sent' \in Replies
      /\ fld'.ew = FALSE /\ fld'.ex = NoAnswer
      /\ UNCHANGED <<pc, acqmul, dev, spent, rec, hist>>
  <2>1. fld' \in Fields /\ fld'.ew = FALSE /\ fld'.ex = NoAnswer
    BY Constants, StatusType DEF Refuse, Statuses
  <2>2. sent' \in Replies
    BY Constants DEF Refuse, Replies, Statuses
  <2> QED  BY <2>1, <2>2 DEF Refuse
<1>1. TypeOK'
  BY <1>0, <1>m, <1>e, Constants DEF TypeOK, Keys
<1>2. RecordInv'
  BY <1>0, <1>m, <1>e, Constants DEF RecordInv
<1>3. CommandInv'
  BY <1>0, <1>m, <1>e, Constants DEF CommandInv, RecordInv, Good, KeyOn
<1>4. StatusInv'
  BY <1>0, <1>m, <1>e, Constants DEF StatusInv, CommandInv, Good, KeyOn
<1>5. RecoverInv'
  BY <1>0, <1>m, <1>e, Constants DEF RecoverInv, RecordInv, Good, KeyOn
<1>6. NoRewind' /\ AnswerTellsKey'
  BY <1>0, <1>m, <1>e, Constants DEF NoRewind, AnswerTellsKey, RecordInv, CommandInv, StatusInv, Good, KeyOn
<1>7. Recovers'
  BY <1>0, <1>m, <1>e, Constants DEF Recovers, RecoverInv, RecordInv, Good, KeyOn
<1> QED  BY <1>1, <1>2, <1>3, <1>4, <1>5, <1>6, <1>7 DEF IInv

\* A Z11 arrives.
LEMMA InjectIInv ==
  ASSUME IInv, NEW r \in Tokens, Inject(r)
  PROVE  IInv'
<1>0. /\ TypeOK /\ RecordInv /\ CommandInv /\ StatusInv /\ RecoverInv
      /\ NoRewind /\ AnswerTellsKey /\ Recovers
  BY DEF IInv
<1>m. /\ file.ok \in BOOLEAN /\ file.rsp \in Answers /\ file.ksn \in Keys /\ file.key \in Keys
      /\ fld.status \in Statuses /\ fld.ew \in BOOLEAN /\ fld.ex \in Answers
      /\ file.rsp.worth \in Worths /\ fld.ex.worth \in Worths /\ fld.ex.fits \in BOOLEAN
      /\ KeyOn \in Keys
  BY <1>0, Members
<1>e. /\ pc = "Idle" /\ pc' = "Dsm" /\ acqmul = "MULTI"
      /\ fld' \in Fields /\ fld'.status = fld.status /\ fld'.ew = fld.ew /\ fld'.ex = r
      /\ r \in Answers
      /\ lost' = FALSE /\ unread' = FALSE /\ fault' = FALSE /\ rewound' = FALSE /\ before' = KeyOn
      /\ sent' = NoReply /\ UNCHANGED <<acqmul, dev, spent, rec>>
  <2>1. r \in Answers
    BY <1>m DEF Tokens
  <2>2. fld' \in Fields /\ fld'.status = fld.status /\ fld'.ew = fld.ew /\ fld'.ex = r
    BY <1>0, <2>1, ExType DEF TypeOK, Inject
  <2> QED  BY <2>1, <2>2 DEF Inject
<1>1. TypeOK'
  BY <1>0, <1>m, <1>e, Constants DEF TypeOK, Keys
<1>2. RecordInv'
  BY <1>0, <1>m, <1>e, Constants DEF RecordInv
<1>3. CommandInv'
  BY <1>0, <1>m, <1>e, Constants DEF CommandInv, RecordInv, Good, KeyOn
<1>4. StatusInv'
  BY <1>0, <1>m, <1>e, Constants DEF StatusInv, CommandInv, Good, KeyOn
<1>5. RecoverInv'
  BY <1>0, <1>m, <1>e, Constants DEF RecoverInv, RecordInv, Good, KeyOn
<1>6. NoRewind' /\ AnswerTellsKey'
  BY <1>0, <1>m, <1>e, Constants DEF NoRewind, AnswerTellsKey, RecordInv, CommandInv, StatusInv, Good, KeyOn
<1>7. Recovers'
  BY <1>0, <1>m, <1>e, Constants DEF Recovers, RecoverInv, RecordInv, Good, KeyOn
<1> QED  BY <1>1, <1>2, <1>3, <1>4, <1>5, <1>6, <1>7 DEF IInv

\* The answer goes into the record.
LEMMA inDsmQxIInv ==
  ASSUME IInv, inDsmQx
  PROVE  IInv'
<1>0. /\ TypeOK /\ RecordInv /\ CommandInv /\ StatusInv /\ RecoverInv
      /\ NoRewind /\ AnswerTellsKey /\ Recovers
  BY DEF IInv
<1>m. /\ file.ok \in BOOLEAN /\ file.rsp \in Answers /\ file.ksn \in Keys /\ file.key \in Keys
      /\ fld.status \in Statuses /\ fld.ew \in BOOLEAN /\ fld.ex \in Answers
      /\ file.rsp.worth \in Worths /\ fld.ex.worth \in Worths /\ fld.ex.fits \in BOOLEAN
      /\ KeyOn \in Keys
  BY <1>0, Members
<1>e. /\ pc = "Dsm" /\ file' \in Records /\ fld' \in Fields /\ fld'.ew = fld.ew /\ fld'.ex = fld.ex
      /\ torn' \in BOOLEAN /\ (torn => torn') /\ (file'.ok = file.ok \/ torn')
      /\ earned' \in BOOLEAN /\ (earned => earned') /\ (file'.rsp.worth = "00" => earned')
      /\ lost' \in BOOLEAN /\ (lost => lost') /\ unread' \in BOOLEAN /\ fault' \in BOOLEAN
      /\ pc' \in {"Xlt", "Reply11"} /\ (pc' = "Xlt" => fld'.ex.fits)
      /\ pc' = "Reply11" => fld'.status = "99"
      /\ \/ file'.rsp = fld.ex /\ (file'.ksn = "Env" \/ (unread' /\ fault'))
         \/ lost' /\ (fault' \/ ~file.ok)
         \/ pc' = "Reply11" /\ (fault' \/ ~file.ok \/ ~fld.ex.fits)
      /\ pc' = "Reply11" => fault' \/ ~file.ok \/ ~fld.ex.fits
      /\ UNCHANGED <<acqmul, engine, keylod, sent, spent, told, rewound, before>>
  <2>0. /\ UNCHANGED <<acqmul, engine, keylod, sent, spent, told, rewound, before>>
        /\ pc = "Dsm" /\ torn' = (torn \/ Cut) /\ earned' = (earned \/ file'.rsp.worth = "00")
        /\ torn' \in BOOLEAN /\ earned' \in BOOLEAN
    BY <1>0 DEF inDsmQx, TypeOK
  <2>f. ASSUME Fails("99")
        PROVE  /\ pc' = "Reply11" /\ fld' \in Fields /\ fld'.status = "99"
               /\ fld'.ew = fld.ew /\ fld'.ex = fld.ex
    BY <1>0, <2>f, StatusType DEF TypeOK, Fails, Statuses
  <2>g. ASSUME IF fld.ex.fits THEN pc' = "Xlt" /\ UNCHANGED fld ELSE Fails("99")
        PROVE  /\ fld' \in Fields /\ fld'.ew = fld.ew /\ fld'.ex = fld.ex
               /\ pc' \in {"Xlt", "Reply11"}
               /\ pc' = "Xlt" => fld.ex.fits
               /\ pc' = "Reply11" => ~fld.ex.fits /\ fld'.status = "99"
    BY <1>0, <1>m, <2>f, <2>g DEF TypeOK
  <2>1. CASE \E s \in {"Env", "Zero"} :
                 /\ file' = [file EXCEPT !.rsp = fld.ex, !.ksn = s]
                 /\ unread' = (s = "Zero")
                 /\ fault' = (s = "Zero")
                 /\ lost' = lost
                 /\ (IF fld.ex.fits THEN pc' = "Xlt" /\ UNCHANGED fld ELSE Fails("99"))
    <3>0. PICK s \in {"Env", "Zero"} :
            /\ file' = [file EXCEPT !.rsp = fld.ex, !.ksn = s]
            /\ unread' = (s = "Zero") /\ fault' = (s = "Zero") /\ lost' = lost
            /\ IF fld.ex.fits THEN pc' = "Xlt" /\ UNCHANGED fld ELSE Fails("99")
      BY <2>1
    <3>1. file' \in Records /\ file'.ok = file.ok /\ file'.rsp = fld.ex /\ file'.ksn = s
      <4>1. file \in Records /\ fld.ex \in Answers /\ s \in Keys
        BY <1>0, <1>m DEF TypeOK, Keys
      <4>2. file' = [file EXCEPT !.rsp = fld.ex, !.ksn = s]
        BY <3>0
      <4> QED  BY <4>1, <4>2 DEF Records
    <3> QED  BY <1>0, <1>m, <2>0, <3>0, <2>g, <3>1 DEF TypeOK
  <2>2. CASE /\ WriteFails
             /\ lost' = TRUE
             /\ fault' = TRUE
             /\ unread' = unread
             /\ (IF fld.ex.fits THEN pc' = "Xlt" /\ UNCHANGED fld ELSE Fails("99"))
    <3>1. file' \in {file, Empty}
      BY <2>2 DEF WriteFails
    <3> QED  BY <1>0, <1>m, <2>0, <2>2, <2>g, <3>1, Constants DEF TypeOK, Cut
  <2>3. CASE /\ fault' = file.ok
             /\ file' = file
             /\ unread' = unread
             /\ fld.ex = NoAnswer
             /\ lost' = TRUE
             /\ pc' = "Xlt"
             /\ fld' = fld
    BY <1>0, <1>m, <2>0, <2>3, Constants DEF TypeOK
  <2>4. CASE /\ fault' = file.ok
             /\ file' = file
             /\ unread' = unread
             /\ Fails("99")
             /\ lost' = lost
    BY <1>0, <1>m, <2>0, <2>4, <2>f DEF TypeOK
  <2> QED  BY <2>1, <2>2, <2>3, <2>4 DEF inDsmQx
<1>1. TypeOK'
  BY <1>0, <1>m, <1>e, Constants DEF TypeOK, Keys
<1>2. RecordInv'
  BY <1>0, <1>m, <1>e, Constants DEF RecordInv
<1>3. CommandInv'
  BY <1>0, <1>m, <1>e, Constants DEF CommandInv, RecordInv, Good, KeyOn
<1>4. StatusInv'
  BY <1>0, <1>m, <1>e, Constants DEF StatusInv, CommandInv, Good, KeyOn
<1>5. RecoverInv'
  BY <1>0, <1>m, <1>e, Constants DEF RecoverInv, RecordInv, Good, KeyOn
<1>6. NoRewind' /\ AnswerTellsKey'
  BY <1>0, <1>m, <1>e, Constants DEF NoRewind, AnswerTellsKey, RecordInv, CommandInv, StatusInv, Good, KeyOn
<1>7. Recovers'
  BY <1>0, <1>m, <1>e, Constants DEF Recovers, RecoverInv, RecordInv, Good, KeyOn
<1> QED  BY <1>1, <1>2, <1>3, <1>4, <1>5, <1>6, <1>7 DEF IInv

\* The answer of the record is tested.
LEMMA inCrpKtkDsmIInv ==
  ASSUME IInv, inCrpKtkDsm
  PROVE  IInv'
<1>0. /\ TypeOK /\ RecordInv /\ CommandInv /\ StatusInv /\ RecoverInv
      /\ NoRewind /\ AnswerTellsKey /\ Recovers
  BY DEF IInv
<1>m. /\ file.ok \in BOOLEAN /\ file.rsp \in Answers /\ file.ksn \in Keys /\ file.key \in Keys
      /\ fld.status \in Statuses /\ fld.ew \in BOOLEAN /\ fld.ex \in Answers
      /\ file.rsp.worth \in Worths /\ fld.ex.worth \in Worths /\ fld.ex.fits \in BOOLEAN
      /\ KeyOn \in Keys
  BY <1>0, Members
<1>e. /\ pc = "Xlt" /\ file' \in Records /\ fld' \in Fields /\ fld'.ew = fld.ew /\ fld'.ex = fld.ex
      /\ torn' \in BOOLEAN /\ (torn => torn') /\ (file'.ok = file.ok \/ torn')
      /\ file'.rsp \in {file.rsp, NoAnswer}
      /\ unread' \in BOOLEAN /\ (unread => unread') /\ fault' \in BOOLEAN /\ (fault => fault')
      /\ \/ /\ pc' = "Load" /\ fld' = fld /\ file.rsp.worth = "00"
            /\ file'.key = file.ksn \/ (unread' /\ fault')
         \/ /\ pc' = "Reply11" /\ fld'.status # "00"
            /\ fault' \/ ~file.ok \/ file.rsp.worth # "00"
      /\ UNCHANGED <<acqmul, engine, keylod, sent, spent, told, earned, lost, rewound, before>>
  <2>0. /\ UNCHANGED <<acqmul, engine, keylod, sent, spent, told, earned, lost, rewound, before>>
        /\ pc = "Xlt" /\ torn' = (torn \/ Cut) /\ torn' \in BOOLEAN
    BY <1>0 DEF inCrpKtkDsm, TypeOK
  <2>f. ASSUME NEW s \in Statuses, Fails(s)
        PROVE  /\ pc' = "Reply11" /\ fld' \in Fields /\ fld'.status = s
               /\ fld'.ew = fld.ew /\ fld'.ex = fld.ex
    BY <1>0, <2>f, StatusType DEF TypeOK, Fails
  <2>1. CASE /\ Fails("99")
             /\ fault' = (fault \/ file.ok)
             /\ file' = file
             /\ unread' = unread
    BY <1>0, <1>m, <2>0, <2>1, <2>f DEF TypeOK, Statuses
  <2>2. CASE /\ file.rsp.worth # "00"
             /\ Fails(Verdict)
             /\ file' = file
             /\ unread' = unread
             /\ fault' = fault
    <3>1. Verdict \in Statuses /\ Verdict # "00"
      BY <1>m, <2>2 DEF Verdict, Worths, Statuses
    <3> QED  BY <1>0, <1>m, <2>0, <2>2, <2>f, <3>1 DEF TypeOK
  <2>3. CASE \E v \in {"Env", "Zero"} :
                 /\ file.rsp.worth = "00"
                 /\ file' = [file EXCEPT !.key = WithNumber(v)]
                 /\ unread' = (unread \/ v = "Zero")
                 /\ fault' = (fault \/ v = "Zero")
                 /\ pc' = "Load"
                 /\ fld' = fld
    <3>0. PICK v \in {"Env", "Zero"} :
            /\ file' = [file EXCEPT !.key = WithNumber(v)]
            /\ unread' = (unread \/ v = "Zero") /\ fault' = (fault \/ v = "Zero")
            /\ file.rsp.worth = "00" /\ pc' = "Load" /\ fld' = fld
      BY <2>3
    <3>1. WithNumber(v) \in Keys /\ (v = "Env" => WithNumber(v) = file.ksn)
      BY <1>m DEF WithNumber, Keys
    <3>2. file' \in Records /\ file'.ok = file.ok /\ file'.rsp = file.rsp /\ file'.key = WithNumber(v)
      BY <1>0, <3>0, <3>1, KeyType DEF TypeOK
    <3> QED  BY <1>0, <1>m, <2>0, <3>0, <3>1, <3>2 DEF TypeOK
  <2>4. CASE /\ WriteFails
             /\ Fails("99")
             /\ fault' = TRUE
             /\ unread' = unread
    <3>1. file' \in {file, Empty}
      BY <2>4 DEF WriteFails
    <3> QED  BY <1>0, <1>m, <2>0, <2>4, <2>f, <3>1, Constants DEF TypeOK, Statuses, Cut
  <2> QED  BY <2>1, <2>2, <2>3, <2>4 DEF inCrpKtkDsm
<1>1. TypeOK'
  BY <1>0, <1>m, <1>e, Constants DEF TypeOK, Keys
<1>2. RecordInv'
  BY <1>0, <1>m, <1>e, Constants DEF RecordInv
<1>3. CommandInv'
  BY <1>0, <1>m, <1>e, Constants DEF CommandInv, RecordInv, Good, KeyOn
<1>4. StatusInv'
  BY <1>0, <1>m, <1>e, Constants DEF StatusInv, CommandInv, Good, KeyOn
<1>5. RecoverInv'
  BY <1>0, <1>m, <1>e, Constants DEF RecoverInv, RecordInv, Good, KeyOn
<1>6. NoRewind' /\ AnswerTellsKey'
  BY <1>0, <1>m, <1>e, Constants DEF NoRewind, AnswerTellsKey, RecordInv, CommandInv, StatusInv, Good, KeyOn
<1>7. Recovers'
  BY <1>0, <1>m, <1>e, Constants DEF Recovers, RecoverInv, RecordInv, Good, KeyOn
<1> QED  BY <1>1, <1>2, <1>3, <1>4, <1>5, <1>6, <1>7 DEF IInv

\* The key is switched off.
LEMMA LoadIInv ==
  ASSUME IInv, Load
  PROVE  IInv'
<1>0. /\ TypeOK /\ RecordInv /\ CommandInv /\ StatusInv /\ RecoverInv
      /\ NoRewind /\ AnswerTellsKey /\ Recovers
  BY DEF IInv
<1>m. /\ file.ok \in BOOLEAN /\ file.rsp \in Answers /\ file.ksn \in Keys /\ file.key \in Keys
      /\ fld.status \in Statuses /\ fld.ew \in BOOLEAN /\ fld.ex \in Answers
      /\ file.rsp.worth \in Worths /\ fld.ex.worth \in Worths /\ fld.ex.fits \in BOOLEAN
      /\ KeyOn \in Keys
  BY <1>0, Members
<1>e. /\ pc = "Load" /\ fld' \in Fields /\ fld'.ew = fld.ew /\ fld'.ex = fld.ex
      /\ \/ keylod' = FALSE /\ pc' = "Engine" /\ fld' = fld /\ fault' = fault
         \/ pc' = "Reply11" /\ fld'.status = "99" /\ fault' = TRUE /\ keylod' = keylod
      /\ UNCHANGED <<acqmul, file, engine, sent, spent, rec, lost, unread, rewound, before>>
  <2>1. CASE keylod' = FALSE /\ pc' = "Engine" /\ fld' = fld /\ fault' = fault
    BY <1>0, <2>1 DEF Load, TypeOK
  <2>2. CASE Fails("99") /\ fault' = TRUE /\ keylod' = keylod
    <3>1. fld' \in Fields /\ fld'.status = "99" /\ fld'.ew = fld.ew /\ fld'.ex = fld.ex /\ pc' = "Reply11"
      BY <1>0, <2>2, StatusType DEF TypeOK, Fails, Statuses
    <3> QED  BY <2>2, <3>1 DEF Load
  <2> QED  BY <2>1, <2>2 DEF Load
<1>1. TypeOK'
  BY <1>0, <1>m, <1>e, Constants DEF TypeOK, Keys
<1>2. RecordInv'
  BY <1>0, <1>m, <1>e, Constants DEF RecordInv
<1>3. CommandInv'
  BY <1>0, <1>m, <1>e, Constants DEF CommandInv, RecordInv, Good, KeyOn
<1>4. StatusInv'
  BY <1>0, <1>m, <1>e, Constants DEF StatusInv, CommandInv, Good, KeyOn
<1>5. RecoverInv'
  BY <1>0, <1>m, <1>e, Constants DEF RecoverInv, RecordInv, Good, KeyOn
<1>6. NoRewind' /\ AnswerTellsKey'
  BY <1>0, <1>m, <1>e, Constants DEF NoRewind, AnswerTellsKey, RecordInv, CommandInv, StatusInv, Good, KeyOn
<1>7. Recovers'
  BY <1>0, <1>m, <1>e, Constants DEF Recovers, RecoverInv, RecordInv, Good, KeyOn
<1> QED  BY <1>1, <1>2, <1>3, <1>4, <1>5, <1>6, <1>7 DEF IInv

\* The engine is rewritten.
LEMMA LoadEngineIInv ==
  ASSUME IInv, LoadEngine
  PROVE  IInv'
<1>0. /\ TypeOK /\ RecordInv /\ CommandInv /\ StatusInv /\ RecoverInv
      /\ NoRewind /\ AnswerTellsKey /\ Recovers
  BY DEF IInv
<1>m. /\ file.ok \in BOOLEAN /\ file.rsp \in Answers /\ file.ksn \in Keys /\ file.key \in Keys
      /\ fld.status \in Statuses /\ fld.ew \in BOOLEAN /\ fld.ex \in Answers
      /\ file.rsp.worth \in Worths /\ fld.ex.worth \in Worths /\ fld.ex.fits \in BOOLEAN
      /\ KeyOn \in Keys
  BY <1>0, Members
<1>e. /\ pc = "Engine" /\ pc' = "Reply11" /\ fld' \in Fields /\ fld'.ew = fld.ew /\ fld'.ex = fld.ex
      /\ engine' \in Keys /\ lost' \in BOOLEAN /\ fault' \in BOOLEAN /\ keylod' \in BOOLEAN
      /\ rewound' \in BOOLEAN
      /\ \/ /\ engine' = file.key /\ lost' = lost /\ fault' = fault
            /\ keylod' = TRUE /\ fld'.status = "00"
         \/ /\ lost' = TRUE /\ fault' = TRUE /\ rewound' = rewound /\ fld'.status = "00"
         \/ /\ fault' = TRUE /\ lost' = lost /\ keylod' = keylod /\ rewound' = rewound
            /\ fld'.status = "99"
      /\ UNCHANGED <<acqmul, file, sent, spent, rec, unread, before>>
  <2>0. UNCHANGED <<acqmul, file, sent, spent, rec, unread, before>> /\ pc = "Engine"
    BY DEF LoadEngine
  <2>f. ASSUME NEW s \in {"00", "99"}, Fails(s)
        PROVE  /\ pc' = "Reply11" /\ fld' \in Fields /\ fld'.status = s
               /\ fld'.ew = fld.ew /\ fld'.ex = fld.ex
    BY <1>0, <2>f, StatusType DEF TypeOK, Fails, Statuses
  <2>1. CASE /\ engine' = file.key
             /\ rewound' = (file.key \in spent)
             /\ lost' = lost
             /\ fault' = fault
             /\ keylod' = TRUE
             /\ Fails("00")
    <3>1. rewound' \in BOOLEAN
      BY <2>1
    <3>2. fld' \in Fields /\ fld'.status = "00" /\ fld'.ew = fld.ew /\ fld'.ex = fld.ex /\ pc' = "Reply11"
      BY <2>1, <2>f
    <3>3. lost' \in BOOLEAN /\ fault' \in BOOLEAN /\ engine' \in Keys /\ keylod' \in BOOLEAN
      BY <1>0, <1>m, <2>1 DEF TypeOK
    <3> QED  BY <2>0, <2>1, <3>1, <3>2, <3>3
  <2>2. CASE /\ engine' = "None"
             /\ lost' = TRUE
             /\ fault' = TRUE
             /\ rewound' = rewound
             /\ keylod' = TRUE
             /\ Fails("00")
    BY <1>0, <2>0, <2>2, <2>f DEF TypeOK, Keys
  <2>3. CASE /\ engine' \in {engine, "None"}
             /\ fault' = TRUE
             /\ Fails("99")
             /\ lost' = lost
             /\ keylod' = keylod
             /\ rewound' = rewound
    BY <1>0, <2>0, <2>3, <2>f DEF TypeOK, Keys
  <2> QED  BY <2>1, <2>2, <2>3 DEF LoadEngine
<1>1. TypeOK'
  BY <1>0, <1>m, <1>e, Constants DEF TypeOK, Keys
<1>2. RecordInv'
  BY <1>0, <1>m, <1>e, Constants DEF RecordInv
<1>3. CommandInv'
  BY <1>0, <1>m, <1>e, Constants DEF CommandInv, RecordInv, Good, KeyOn
<1>4. StatusInv'
  BY <1>0, <1>m, <1>e, Constants DEF StatusInv, CommandInv, Good, KeyOn
<1>5. RecoverInv'
  BY <1>0, <1>m, <1>e, Constants DEF RecoverInv, RecordInv, Good, KeyOn
<1>6. NoRewind' /\ AnswerTellsKey'
  BY <1>0, <1>m, <1>e, Constants DEF NoRewind, AnswerTellsKey, RecordInv, CommandInv, StatusInv, Good, KeyOn
<1>7. Recovers'
  BY <1>0, <1>m, <1>e, Constants DEF Recovers, RecoverInv, RecordInv, Good, KeyOn
<1> QED  BY <1>1, <1>2, <1>3, <1>4, <1>5, <1>6, <1>7 DEF IInv

\* The answer to a Z11.
LEMMA Reply11IInv ==
  ASSUME IInv, Reply11
  PROVE  IInv'
<1>0. /\ TypeOK /\ RecordInv /\ CommandInv /\ StatusInv /\ RecoverInv
      /\ NoRewind /\ AnswerTellsKey /\ Recovers
  BY DEF IInv
<1>m. /\ file.ok \in BOOLEAN /\ file.rsp \in Answers /\ file.ksn \in Keys /\ file.key \in Keys
      /\ fld.status \in Statuses /\ fld.ew \in BOOLEAN /\ fld.ex \in Answers
      /\ file.rsp.worth \in Worths /\ fld.ex.worth \in Worths /\ fld.ex.fits \in BOOLEAN
      /\ KeyOn \in Keys
  BY <1>0, Members
<1>e. /\ pc = "Reply11" /\ pc' = "Idle" /\ sent'.cmd = "Z11" /\ sent'.status = fld.status
      /\ sent'.on = KeyOn /\ sent' \in Replies
      /\ UNCHANGED <<acqmul, dev, fld, spent, rec, hist>>
  BY <1>m DEF Reply11, Replies
<1>1. TypeOK'
  BY <1>0, <1>m, <1>e, Constants DEF TypeOK, Keys
<1>2. RecordInv'
  BY <1>0, <1>m, <1>e, Constants DEF RecordInv
<1>3. CommandInv'
  BY <1>0, <1>m, <1>e, Constants DEF CommandInv, RecordInv, Good, KeyOn
<1>4. StatusInv'
  BY <1>0, <1>m, <1>e, Constants DEF StatusInv, CommandInv, Good, KeyOn
<1>5. RecoverInv'
  BY <1>0, <1>m, <1>e, Constants DEF RecoverInv, RecordInv, Good, KeyOn
<1>6. NoRewind' /\ AnswerTellsKey'
  BY <1>0, <1>m, <1>e, Constants DEF NoRewind, AnswerTellsKey, RecordInv, CommandInv, StatusInv, Good, KeyOn
<1>7. Recovers'
  BY <1>0, <1>m, <1>e, Constants DEF Recovers, RecoverInv, RecordInv, Good, KeyOn
<1> QED  BY <1>1, <1>2, <1>3, <1>4, <1>5, <1>6, <1>7 DEF IInv

\* A sale uses the key.
LEMMA SaleIInv ==
  ASSUME IInv, Sale
  PROVE  IInv'
<1>0. /\ TypeOK /\ RecordInv /\ CommandInv /\ StatusInv /\ RecoverInv
      /\ NoRewind /\ AnswerTellsKey /\ Recovers
  BY DEF IInv
<1>m. /\ file.ok \in BOOLEAN /\ file.rsp \in Answers /\ file.ksn \in Keys /\ file.key \in Keys
      /\ fld.status \in Statuses /\ fld.ew \in BOOLEAN /\ fld.ex \in Answers
      /\ file.rsp.worth \in Worths /\ fld.ex.worth \in Worths /\ fld.ex.fits \in BOOLEAN
      /\ KeyOn \in Keys
  BY <1>0, Members
<1>e. /\ pc = "Idle" /\ pc' = "Idle" /\ spent' \in SUBSET Keys /\ keylod' \in BOOLEAN
      /\ fld' = NoFields /\ sent' = NoReply
      /\ lost' = FALSE /\ unread' = FALSE /\ fault' = FALSE /\ rewound' = FALSE /\ before' = "None"
      /\ UNCHANGED <<acqmul, file, engine, rec>>
  BY <1>0 DEF Sale, NewCommand, TypeOK
<1>1. TypeOK'
  BY <1>0, <1>m, <1>e, Constants DEF TypeOK, Keys
<1>2. RecordInv'
  BY <1>0, <1>m, <1>e, Constants DEF RecordInv
<1>3. CommandInv'
  BY <1>0, <1>m, <1>e, Constants DEF CommandInv, RecordInv, Good, KeyOn
<1>4. StatusInv'
  BY <1>0, <1>m, <1>e, Constants DEF StatusInv, CommandInv, Good, KeyOn
<1>5. RecoverInv'
  BY <1>0, <1>m, <1>e, Constants DEF RecoverInv, RecordInv, Good, KeyOn
<1>6. NoRewind' /\ AnswerTellsKey'
  BY <1>0, <1>m, <1>e, Constants DEF NoRewind, AnswerTellsKey, RecordInv, CommandInv, StatusInv, Good, KeyOn
<1>7. Recovers'
  BY <1>0, <1>m, <1>e, Constants DEF Recovers, RecoverInv, RecordInv, Good, KeyOn
<1> QED  BY <1>1, <1>2, <1>3, <1>4, <1>5, <1>6, <1>7 DEF IInv

\* The power comes back.
LEMMA RestartIInv ==
  ASSUME IInv, Restart
  PROVE  IInv'
<1>0. /\ TypeOK /\ RecordInv /\ CommandInv /\ StatusInv /\ RecoverInv
      /\ NoRewind /\ AnswerTellsKey /\ Recovers
  BY DEF IInv
<1>m. /\ file.ok \in BOOLEAN /\ file.rsp \in Answers /\ file.ksn \in Keys /\ file.key \in Keys
      /\ fld.status \in Statuses /\ fld.ew \in BOOLEAN /\ fld.ex \in Answers
      /\ file.rsp.worth \in Worths /\ fld.ex.worth \in Worths /\ fld.ex.fits \in BOOLEAN
      /\ KeyOn \in Keys
  BY <1>0, Members
<1>e. /\ pc' = "Idle" /\ engine' \in Keys /\ fld' = NoFields /\ sent' = NoReply
      /\ lost' = FALSE /\ unread' = FALSE /\ fault' = FALSE /\ rewound' = FALSE /\ before' = "None"
      /\ UNCHANGED <<acqmul, file, keylod, spent, rec>>
  BY <1>0, <1>m DEF Restart, NewCommand, TypeOK, Keys
<1>1. TypeOK'
  BY <1>0, <1>m, <1>e, Constants DEF TypeOK, Keys
<1>2. RecordInv'
  BY <1>0, <1>m, <1>e, Constants DEF RecordInv
<1>3. CommandInv'
  BY <1>0, <1>m, <1>e, Constants DEF CommandInv, RecordInv, Good, KeyOn
<1>4. StatusInv'
  BY <1>0, <1>m, <1>e, Constants DEF StatusInv, CommandInv, Good, KeyOn
<1>5. RecoverInv'
  BY <1>0, <1>m, <1>e, Constants DEF RecoverInv, RecordInv, Good, KeyOn
<1>6. NoRewind' /\ AnswerTellsKey'
  BY <1>0, <1>m, <1>e, Constants DEF NoRewind, AnswerTellsKey, RecordInv, CommandInv, StatusInv, Good, KeyOn
<1>7. Recovers'
  BY <1>0, <1>m, <1>e, Constants DEF Recovers, RecoverInv, RecordInv, Good, KeyOn
<1> QED  BY <1>1, <1>2, <1>3, <1>4, <1>5, <1>6, <1>7 DEF IInv

\* The steps together.
LEMMA Inductive == IInv /\ [Next]_vars => IInv'
<1> SUFFICES ASSUME IInv, [Next]_vars PROVE IInv'  OBVIOUS
<1>1. CASE Ask
  BY <1>1, AskIInv
<1>2. CASE BuildTokens
  BY <1>2, BuildTokensIInv
<1>3. CASE Reply10
  BY <1>3, Reply10IInv
<1>4. CASE Refuse("Z10") \/ Refuse("Z11")
  BY <1>4, RefuseIInv
<1>5. ASSUME NEW r \in Tokens, Inject(r) PROVE IInv'
  BY <1>5, InjectIInv
<1>6. CASE inDsmQx
  BY <1>6, inDsmQxIInv
<1>7. CASE inCrpKtkDsm
  BY <1>7, inCrpKtkDsmIInv
<1>8. CASE Load
  BY <1>8, LoadIInv
<1>9. CASE LoadEngine
  BY <1>9, LoadEngineIInv
<1>10. CASE Reply11
  BY <1>10, Reply11IInv
<1>11. CASE Sale
  BY <1>11, SaleIInv
<1>12. CASE Restart
  BY <1>12, RestartIInv
<1>13. CASE UNCHANGED vars
  BY <1>13 DEF IInv, TypeOK, RecordInv, CommandInv, StatusInv, RecoverInv, NoRewind, AnswerTellsKey,
               Recovers, Good, KeyOn
<1> QED  BY <1>1, <1>2, <1>3, <1>4, <1>5, <1>6, <1>7, <1>8, <1>9, <1>10, <1>11, <1>12, <1>13 DEF Next

-----------------------------------------------------------------------------
(* The theorems *)

\* The inductive invariant of KeyInjection holds of every behaviour.
THEOREM Invariant == Spec => []IInv
  BY InitIInv, Inductive, PTL DEF Spec

\* The types of the variables; part of IInv.
THEOREM TypeCorrect == Spec => []TypeOK
<1>1. IInv => TypeOK  BY DEF IInv
<1> QED  BY <1>1, Invariant, PTL

\* A key that has been used is started anew only by a good answer, or when the
\* save of an answer was lost (dkprsa.cpp:1584) after a good answer to the same
\* Z10.
THEOREM KeyNotRewound == Spec => []NoRewind
<1>1. IInv => NoRewind  BY DEF IInv
<1> QED  BY <1>1, Invariant, PTL

\* The status of a Z11 tells which key is on, unless a save was lost or a read of
\* the environment failed unnoticed (dkprsa.cpp:362, 1560).
THEOREM StatusTellsKey == Spec => []AnswerTellsKey
<1>1. IInv => AnswerTellsKey  BY DEF IInv
<1> QED  BY <1>1, Invariant, PTL

\* Once a token has been sent, a good answer loads the environment's key in a Z11
\* in which nothing fails, unless the record was cut short on file.
THEOREM InjectionRecovers == Spec => []Recovers
<1>1. IInv => Recovers  BY DEF IInv
<1> QED  BY <1>1, Invariant, PTL
=============================================================================
