------------------------------- MODULE CardData -----------------------------
(***************************************************************************)
(* The card data of one sale: what the reader gave, the record CRPCRD_DAT  *)
(* it is saved in, the encryption of that record under the next DUKPT key  *)
(* (inCrpDkpRun), the tokens built from the record, and what of it all     *)
(* goes into the C53.                                                      *)
(*                                                                         *)
(* The record is a file.  Every write may be lost (the file cannot be      *)
(* opened: the old record stays) or cut short (the record can no longer be *)
(* loaded); the results of the writes that save the tracks are ignored by  *)
(* the code.  The engine is the one of module Dukpt, of which only the     *)
(* order of the results is kept: a number that grows with each of them.    *)
(*                                                                         *)
(* Track data, account number and names are the card they were read from.  *)
(* inCrpCrdRmv is left out: it does nothing unless the variable CRPDKPRSA  *)
(* is set, and nothing in the program sets it.                             *)
(***************************************************************************)
EXTENDS Naturals

CONSTANTS Cards,
          NoCard,
          Merchants,   \* cards whose BIN is in exception.txt
          Ranges,      \* cards whose BIN is in a range of exceptionRange.txt
          Digits,      \* a count below it is read back as it was written (10)
          MaxIssue     \* bound: results of the engine

ASSUME CardDataAssumption ==
  /\ NoCard \notin Cards
  /\ Merchants \subseteq Cards /\ Ranges \subseteq Cards
  /\ Digits \in Nat \ {0} /\ MaxIssue \in Nat

VARIABLES
  pc,      \* the step of the sale
  tech,    \* the reader; CTLS and CTLSM are a tapped chip and a tapped stripe
  hand,    \* the card presented for this sale
  res,     \* what the reader's handler returns
  crp,     \* the result of inCrpDkpRun
  file,    \* CRPCRD_DAT
  keylod,  \* DKPKEYLOD
  dkperr,  \* DKPERR
  table,   \* CRPCRDEXC: the cards a C14 has excepted
  fld,     \* stValue: PAN, TRACK1/TRACK2, SEC_CODE, TOKEZ
  flagC51, \* a C54 would be processed
  sent,    \* the last C53
  issued,  \* history: results of the engine
  gone,    \* history: their numbers that went out in a C53
  lost,    \* history: the save of this sale's tracks did not happen
  unread,  \* history: the encrypted record could not be read back
  declines \* history: key errors the host reported in a row, at most Digits

sale == <<tech, hand, res, crp>>
envs == <<keylod, dkperr, table>>
hist == <<issued, gone, lost, unread, declines>>
vars == <<pc, sale, file, envs, fld, flagC51, sent, hist>>

Techs == {"None", "MSR", "KBD", "CHIP", "CTLS", "CTLSM"}

\* CrpCrd: ok is false for a file too short to load; asm is the card whose data
\* were assembled last.
Records == [ok : BOOLEAN, card : Cards \cup {NoCard}, tk2 : BOOLEAN,
            asm : Cards \cup {NoCard}, ksn : 0 .. MaxIssue, err : 0 .. Digits]

Empty == [ok |-> FALSE, card |-> NoCard, tk2 |-> FALSE, asm |-> NoCard,
          ksn |-> 0, err |-> 0]

\* Token EZ: whose data, under which result of the engine, and the error count.
Tokens == [card : Cards \cup {NoCard}, ksn : 0 .. MaxIssue, err : 0 .. Digits]
NoToken == [card |-> NoCard, ksn |-> 0, err |-> 0]

Fields == [pan : Cards \cup {NoCard}, trk : Cards \cup {NoCard},
           cvv : {"None", "Clear", "Enc"}, ez : Tokens]
NoFields == [pan |-> NoCard, trk |-> NoCard, cvv |-> "None", ez |-> NoToken]

Replies == [ok : BOOLEAN, tech : Techs, card : Cards \cup {NoCard}, fld : Fields,
            exc : BOOLEAN, lost : BOOLEAN, unread : BOOLEAN, declines : 0 .. Digits]
NoReply == [ok |-> FALSE, tech |-> "None", card |-> NoCard, fld |-> NoFields,
            exc |-> FALSE, lost |-> FALSE, unread |-> FALSE, declines |-> 0]

TypeOK ==
  /\ pc \in {"Idle", "Read", "Save", "Cvv", "Bgn", "Engine", "End", "Tokens", "Reply", "Send"}
  /\ tech \in Techs /\ hand \in Cards \cup {NoCard}
  /\ res \in {"OK", "ARQC", "TC", "Stop"} /\ crp \in {"OK", "EXC", "Err"}
  /\ file \in Records
  /\ keylod \in BOOLEAN /\ dkperr \in 0 .. Digits /\ table \in SUBSET Cards
  /\ fld \in Fields /\ flagC51 \in BOOLEAN /\ sent \in Replies
  /\ issued \in 0 .. MaxIssue /\ gone \in SUBSET (0 .. MaxIssue)
  /\ lost \in BOOLEAN /\ unread \in BOOLEAN /\ declines \in 0 .. Digits

Init ==
  /\ pc = "Idle" /\ tech = "None" /\ hand = NoCard /\ res = "OK" /\ crp = "OK"
  /\ file = Empty /\ keylod = FALSE /\ dkperr = 0 /\ table = {}
  /\ fld = NoFields /\ flagC51 = FALSE /\ sent = NoReply
  /\ issued = 0 /\ gone = {} /\ lost = FALSE /\ unread = FALSE /\ declines = 0

-----------------------------------------------------------------------------
(* The file *)

\* inCrpSav: done, not opened, or cut short.
Write(r, done) ==
  IF done THEN file' = [r EXCEPT !.ok = TRUE] ELSE file' \in {file, Empty}

\* inCrpLod may find the file and fail to open it.
Loads == {file.ok, FALSE}

-----------------------------------------------------------------------------
(* Outside a sale *)

\* A Z11 loads an initial key.
LoadKey ==
  /\ pc = "Idle" /\ ~keylod
  /\ keylod' = TRUE
  /\ UNCHANGED <<pc, sale, file, dkperr, table, fld, flagC51, sent, hist>>

\* A C14 replaces the table.
SetTable(S) ==
  /\ pc = "Idle"
  /\ table' = S
  /\ UNCHANGED <<pc, sale, file, keylod, dkperr, fld, flagC51, sent, hist>>

\* The number is written in hexadecimal and read back in decimal: a letter is zero.
SetEnv(n) == IF n < Digits THEN n ELSE 0

\* Mutant: a good answer does not clear the count.
inCrpDukErr_Kept(auth, key) ==
  dkperr' = IF auth = "Declined" /\ key THEN SetEnv(dkperr + 1) ELSE dkperr

\* The key errors (answer 70) of the host in a row; an answer that never came
\* changes nothing.
inCrpDukErr(auth, key) ==
  dkperr' = IF auth = "NoConnection" THEN dkperr
            ELSE IF auth = "Declined" /\ key THEN SetEnv(dkperr + 1) ELSE 0

\* C54 brings the host's answer.
HostAnswer(auth, key) ==
  /\ pc = "Idle" /\ flagC51
  /\ inCrpDukErr(auth, key)
  /\ declines' = IF auth = "NoConnection" THEN declines
                 ELSE IF auth # "Declined" \/ ~key THEN 0
                 ELSE IF declines < Digits THEN declines + 1 ELSE declines
  /\ flagC51' = FALSE /\ fld' = NoFields
  /\ UNCHANGED <<pc, sale, file, keylod, table, sent, issued, gone, lost, unread>>

\* Power fails; the files and the environment stay.  What was half written is
\* covered by a short write.
Restart ==
  /\ pc' = "Idle" /\ tech' = "None" /\ hand' = NoCard /\ res' = "OK" /\ crp' = "OK"
  /\ fld' = NoFields /\ flagC51' = FALSE /\ sent' = NoReply
  /\ lost' = FALSE /\ unread' = FALSE
  /\ UNCHANGED <<file, envs, issued, gone, declines>>

-----------------------------------------------------------------------------
(* The reader *)

Present(t, c) ==
  /\ pc = "Idle" /\ keylod
  /\ tech' = t /\ hand' = c /\ flagC51' = TRUE /\ res' = "OK" /\ crp' = "OK"
  /\ lost' = FALSE /\ unread' = FALSE /\ sent' = NoReply
  /\ pc' = "Read"
  /\ UNCHANGED <<file, envs, fld, issued, gone, declines>>

\* inCrpExcCrd, and the two lists of the merchant.
inCrpExcCrd(c) == c \in table
MerchantException(c) == c \in Merchants \cup Ranges

Kept == UNCHANGED <<tech, hand, crp, file, envs, flagC51, sent, hist>>

\* Mutant: an excepted card is sent in clear and encrypted, others in clear too.
ReadMSR_AlwaysClear ==
  /\ pc = "Read" /\ tech = "MSR"
  /\ fld' = [fld EXCEPT !.pan = hand, !.trk = hand, !.cvv = "Clear"]
  /\ pc' = IF inCrpExcCrd(hand) \/ MerchantException(hand) THEN "Send" ELSE "Save"
  /\ res' = "OK" /\ Kept

\* Mutant: the tracks are masked for every card.
ReadMSR_AlwaysMasked ==
  /\ pc = "Read" /\ tech = "MSR"
  /\ \/ fld' = [fld EXCEPT !.pan = hand] /\ res' = "Stop" /\ pc' = "Send"
     \/ /\ fld' = [fld EXCEPT !.pan = hand]
        /\ pc' = IF inCrpExcCrd(hand) \/ MerchantException(hand) THEN "Send" ELSE "Save"
        /\ res' = "OK"
  /\ Kept

\* processMSRTransaction.  The code on the back is asked for when track 1 was
\* read; cancelled there, the sale ends.  An excepted card goes in clear and is
\* not encrypted.
ReadMSR ==
  /\ pc = "Read" /\ tech = "MSR"
  /\ \/ fld' = [fld EXCEPT !.pan = hand] /\ res' = "Stop" /\ pc' = "Send"
     \/ /\ IF inCrpExcCrd(hand) \/ MerchantException(hand)
           THEN fld' = [fld EXCEPT !.pan = hand, !.trk = hand, !.cvv = "Clear"] /\ pc' = "Send"
           ELSE fld' = [fld EXCEPT !.pan = hand] /\ pc' = "Save"
        /\ res' = "OK"
  /\ Kept

\* bo_crp_crd: a key is loaded and the card is not excepted.
bo_crp_crd(c) == keylod /\ ~inCrpExcCrd(c)

\* KBD_Transaction_banorte: cancelled, or the code goes encrypted or in clear.
ReadKBD ==
  /\ pc = "Read" /\ tech = "KBD"
  /\ \/ res' = "Stop" /\ pc' = "Send" /\ UNCHANGED fld
     \/ /\ fld' = [fld EXCEPT !.pan = hand, !.cvv = IF bo_crp_crd(hand) THEN "Enc" ELSE "Clear"]
        /\ res' = "OK" /\ pc' = "Save"
  /\ Kept

\* EMV_Transaction: online, approved by the card, or neither.  A card of the
\* merchant's lists is not encrypted.
ReadCHIP ==
  /\ pc = "Read" /\ tech = "CHIP"
  /\ \/ res' = "Stop" /\ pc' = "Reply"
     \/ ~MerchantException(hand) /\ res' \in {"ARQC", "TC"} /\ pc' = "Save"
     \/ MerchantException(hand) /\ res' \in {"OK", "TC"} /\ pc' = "Reply"
  /\ UNCHANGED fld /\ Kept

\* CTLS_CHIP and CTLS_MSR: an error of the kernel still returns success.
ReadCTLS ==
  /\ pc = "Read" /\ tech \in {"CTLS", "CTLSM"}
  /\ res' = "OK"
  /\ pc' \in IF tech = "CTLS" THEN {"Save", "Reply"} ELSE {"Save"}
  /\ UNCHANGED fld /\ Kept

-----------------------------------------------------------------------------
(* in_txn_crd *)

Still == UNCHANGED <<tech, hand, envs, fld, flagC51, sent>>

\* Where the handler goes on after the encryption.
After == IF tech = "MSR" THEN "Send" ELSE "Reply"

\* The tracks are saved if there are any and a key is loaded, and the reader's
\* handler goes on whether or not that worked.
SaveTracks(some) ==
  /\ IF keylod /\ some
     THEN \E done \in BOOLEAN :
            /\ Write([Empty EXCEPT !.card = hand, !.tk2 = TRUE], done)
            /\ lost' = (~done /\ file'.ok)
     ELSE lost' = TRUE /\ UNCHANGED file
  /\ pc' = "Cvv"
  /\ UNCHANGED <<res, crp, issued, gone, unread, declines>>

inCrpSwpCrdSav == SaveTracks(TRUE)
\* Tag 57 may be empty.
inCrpChpCrdSav == \E tag57 \in BOOLEAN : SaveTracks(tag57)
inCrpKbdCrdSav == SaveTracks(TRUE)

\* in_cpx_crd_mag; a stripe without enough of track 2 is given up.
SaveStripe ==
  /\ pc = "Save" /\ tech \in {"MSR", "CTLSM"}
  /\ \/ res' = "Stop" /\ pc' = After /\ UNCHANGED <<crp, file, hist>>
     \/ inCrpSwpCrdSav
  /\ Still

\* in_cpx_crd_chp
SaveChip ==
  /\ pc = "Save" /\ tech \in {"CHIP", "CTLS"}
  /\ inCrpChpCrdSav
  /\ Still

\* Mutant: a keyed card is not saved.
SaveKeyed_NotSaved ==
  /\ pc = "Save" /\ tech = "KBD"
  /\ pc' = "Cvv" /\ lost' = FALSE
  /\ UNCHANGED <<file, res, crp, issued, gone, unread, declines>>
  /\ Still

\* in_cpx_crd_kbd
SaveKeyed ==
  /\ pc = "Save" /\ tech = "KBD"
  /\ inCrpKbdCrdSav
  /\ Still

\* inCrpCrdCv2Sav rewrites the record it loads, with the code on the back.
SaveCvv ==
  /\ pc = "Cvv"
  /\ \/ UNCHANGED file
     \/ keylod /\ file.ok /\ \E done \in BOOLEAN : Write(file, done)
  /\ pc' = "Bgn"
  /\ UNCHANGED <<res, crp, hist>> /\ Still

\* The end of inCrpDkpRun before its end.
Leave(v) ==
  /\ crp' = v /\ pc' = "Tokens"
  /\ UNCHANGED <<file, issued>>

\* The account number in_cry_asm hands over.  That of a tapped stripe still has the
\* start sentinel in front, and no entry of the table begins with one.
Excepted == inCrpExcCrd(hand) /\ tech # "CTLSM"

\* inCrpDkpRun to inCrpAsmBgn: key, exception table, and the tracks of the
\* record, whoever they are from, laid out for the encryption.
AsmBgn ==
  /\ pc = "Bgn"
  /\ \/ ~keylod /\ Leave("Err")
     \/ keylod /\ Excepted /\ Leave("EXC")
     \/ /\ keylod /\ ~Excepted
        /\ \E got \in Loads, done \in BOOLEAN :
             IF got /\ file.tk2
             THEN /\ Write([file EXCEPT !.asm = file.card], done)
                  /\ crp' = IF done THEN "OK" ELSE "Err"
                  /\ pc' = IF done THEN "Engine" ELSE "Tokens"
                  /\ UNCHANGED issued
             ELSE Leave("Err")
  /\ UNCHANGED <<res, gone, lost, unread, declines>> /\ Still

\* inDkpRqtDta: a new result, written into the record; or none, and perhaps no
\* key any more (the engine is empty or its file is gone).
Engine ==
  /\ pc = "Engine"
  /\ \/ /\ issued < MaxIssue
        /\ issued' = issued + 1
        /\ \E got \in Loads, done \in BOOLEAN :
             IF got
             THEN /\ Write([file EXCEPT !.ksn = issued'], done)
                  /\ crp' = IF done THEN "OK" ELSE "Err"
                  /\ pc' = IF done THEN "End" ELSE "Tokens"
             ELSE crp' = "Err" /\ pc' = "Tokens" /\ UNCHANGED file
        /\ keylod' \in {keylod, FALSE}
     \/ Leave("Err") /\ keylod' \in {keylod, FALSE}
  /\ UNCHANGED <<tech, hand, res, dkperr, table, fld, flagC51, sent,
                 gone, lost, unread, declines>>

\* inCrpAsmEnd: the error count goes into the record.
AsmEnd ==
  /\ pc = "End"
  /\ \E got \in Loads, done \in BOOLEAN :
       IF got
       THEN /\ Write([file EXCEPT !.err = dkperr], done)
            /\ crp' = IF done THEN "OK" ELSE "Err"
       ELSE crp' = "Err" /\ UNCHANGED file
  /\ pc' = "Tokens"
  /\ UNCHANGED <<res, hist>> /\ Still

\* inAsmQz takes the token from the record.
inAsmQz == [card |-> file.asm, ksn |-> file.ksn, err |-> file.err]

\* What becomes of the result: the tapped chip ignores it, the chip only sees
\* it when the sale goes online.
Result ==
  res' = IF tech = "CTLS" THEN "OK"
         ELSE IF res = "TC" THEN "TC"
         ELSE IF crp = "Err" THEN "Stop" ELSE "OK"

\* Mutant: the token is built whatever became of the encryption.
BuildTokens_Always ==
  /\ pc = "Tokens"
  /\ \E got \in Loads :
       /\ fld' = [fld EXCEPT !.ez = IF got THEN inAsmQz ELSE NoToken]
       /\ unread' = (crp = "OK" /\ ~got)
  /\ Result /\ pc' = After
  /\ UNCHANGED <<tech, hand, crp, file, envs, flagC51, sent, issued, gone, lost, declines>>

\* in_cry_asm after the encryption, and the three fields set by in_txn_crd.  The
\* token is empty for an excepted card and after an error.
BuildTokens ==
  /\ pc = "Tokens"
  /\ \E got \in IF crp = "OK" THEN Loads ELSE {FALSE} :
       /\ fld' = [fld EXCEPT !.ez = IF got THEN inAsmQz ELSE NoToken]
       /\ unread' = (crp = "OK" /\ ~got)
  /\ Result /\ pc' = After
  /\ UNCHANGED <<tech, hand, crp, file, envs, flagC51, sent, issued, gone, lost, declines>>

-----------------------------------------------------------------------------
(* The reply *)

\* buildInitTransactionReply53 for a chip: the account number, if a tag holds
\* it, decides on the merchant's lists; a card on them goes in clear.
ReplyChip ==
  \E p \in {hand, NoCard} :
    fld' = IF p # NoCard /\ MerchantException(p)
           THEN [fld EXCEPT !.pan = p, !.trk = hand, !.cvv = "None", !.ez = NoToken]
           ELSE [fld EXCEPT !.pan = p, !.trk = NoCard, !.cvv = "None"]

\* ... for a tapped stripe only the ranges are asked.  A code that is cancelled
\* ends the reply before its tracks, and nobody looks at that.
ReplyTappedStripe ==
  \/ fld' = [fld EXCEPT !.pan = hand]
  \/ fld' = IF hand \in Ranges
            THEN [fld EXCEPT !.pan = hand, !.trk = hand, !.cvv = "Clear", !.ez = NoToken]
            ELSE [fld EXCEPT !.pan = hand, !.trk = NoCard, !.cvv = "None"]

\* build_C53_C54Offline for a keyed card keeps account number and code.
ReplyKeyed == fld' = [fld EXCEPT !.trk = NoCard]

Reply ==
  /\ pc = "Reply"
  /\ \/ tech \in {"CHIP", "CTLS"} /\ ReplyChip
     \/ tech = "CTLSM" /\ ReplyTappedStripe
     \/ tech = "KBD" /\ ReplyKeyed
  /\ pc' = "Send"
  /\ UNCHANGED <<sale, file, envs, flagC51, sent, hist>>

\* C53 goes out and the fields are cleared.
Send ==
  /\ pc = "Send"
  /\ sent' = [ok |-> res = "OK", tech |-> tech, card |-> hand, fld |-> fld,
              exc |-> inCrpExcCrd(hand), lost |-> lost, unread |-> unread,
              declines |-> declines]
  /\ gone' = IF fld.ez = NoToken THEN gone ELSE gone \cup {fld.ez.ksn}
  /\ fld' = NoFields
  /\ tech' = "None" /\ hand' = NoCard /\ res' = "OK" /\ crp' = "OK"
  /\ lost' = FALSE /\ unread' = FALSE
  /\ pc' = "Idle"
  /\ UNCHANGED <<file, envs, flagC51, issued, declines>>

Next ==
  \/ LoadKey \/ \E S \in SUBSET Cards : SetTable(S)
  \/ \E auth \in {"Authorised", "Declined", "NoConnection"}, key \in BOOLEAN : HostAnswer(auth, key)
  \/ Restart
  \/ \E t \in Techs \ {"None"}, c \in Cards : Present(t, c)
  \/ ReadMSR \/ ReadKBD \/ ReadCHIP \/ ReadCTLS
  \/ SaveStripe \/ SaveChip \/ SaveKeyed \/ SaveCvv \/ AsmBgn \/ Engine \/ AsmEnd \/ BuildTokens
  \/ Reply \/ Send

Spec == Init /\ [][Next]_vars

-----------------------------------------------------------------------------
(* Properties *)

\* The encrypted data of a C53 are those of the card presented for its sale.
\* The record is a file that outlives the sale and the results of its saves are
\* ignored (usrcmds.cpp:1061, 1134, 1253), so a save that was lost is the one way
\* to send another card's data.
TokenOfItsCard ==
  sent.fld.ez # NoToken => sent.fld.ez.card = sent.card \/ sent.lost

\* A result of the engine goes to the host once: the record of an earlier sale,
\* still on the file with its serial number, is never sent again, whatever step of
\* a later encryption fails (in_cry_asm, usrcmds.cpp:1306).
SerialOnce ==
  [][sent'.fld.ez.ksn \notin gone]_sent

\* Tracks and the code on the back leave in clear only for a card of the C14
\* table or of the merchant's lists, whichever reader it came by.
ClearOnlyIfExcepted ==
  sent.fld.trk # NoCard \/ sent.fld.cvv = "Clear" =>
    sent.exc \/ sent.card \in Merchants \cup Ranges

\* A sale reported as a success with an account number gives the host the card's
\* data, in clear or encrypted.  The ways out: a record that cannot be read back
\* after its encryption, a chip the C14 table excepts (buildInitTransactionReply53
\* does not ask the table, so the data go neither way), and the tapped chip, whose
\* encryption result is ignored (TRANS.cpp:1692).
Deliverable ==
  sent.ok /\ sent.fld.pan # NoCard =>
    \/ sent.fld.trk = sent.card
    \/ sent.fld.ez # NoToken
    \/ sent.unread
    \/ sent.exc /\ sent.tech \in {"CHIP", "KBD"}
    \/ sent.tech = "CTLS"

\* The token tells the host how many key errors it has reported in a row, as long
\* as they are fewer than ten (dkprsa.cpp:3082).
KeyErrorsReported ==
  sent.fld.ez # NoToken /\ sent.declines < Digits => sent.fld.ez.err = sent.declines

-----------------------------------------------------------------------------
(* The inductive invariant *)

\* A sale starts with a key and with no fields; what is in clear is excepted.
FieldInv ==
  /\ pc \in {"Idle", "Read"} => fld = NoFields
  /\ pc = "Read" => keylod
  /\ pc # "Idle" => hand \in Cards
  /\ fld.trk # NoCard \/ fld.cvv = "Clear" =>
       inCrpExcCrd(hand) \/ MerchantException(hand)

\* From its save on a record that loads is this sale's, and from the engine on it
\* holds the engine's last result.
RecordInv ==
  /\ pc \in {"Cvv", "Bgn"} => ~file.ok \/ file.card = hand \/ lost
  /\ pc \in {"Engine", "End"} => ~file.ok \/ file.asm = hand \/ lost
  /\ pc = "Tokens" /\ crp = "OK" => ~file.ok \/ file.asm = hand \/ lost
  /\ pc = "End" \/ (pc = "Tokens" /\ crp = "OK") =>
       /\ issued > 0 /\ issued \notin gone
       /\ ~file.ok \/ file.ksn = issued

\* Only results the engine has given are with the host, and a token that waits
\* for its reply is of the last one.
TokenInv ==
  /\ gone \subseteq 1 .. issued
  /\ pc \notin {"Reply", "Send"} => fld.ez = NoToken
  /\ fld.ez # NoToken =>
       /\ fld.ez.card = hand \/ lost
       /\ fld.ez.ksn = issued /\ issued > 0 /\ issued \notin gone

\* The parts together, with what they say of the C53 that was sent; used by the
\* proofs.
IInv ==
  TypeOK /\ FieldInv /\ RecordInv /\ TokenInv /\ TokenOfItsCard /\ ClearOnlyIfExcepted

\* The way of the data to a success: a stripe that is encrypted is on no C14 table,
\* an encryption that ends with nothing has a reason, and the reply of a success has
\* a token, or one of the reasons of Deliverable.
DeliverInv ==
  /\ pc # "Idle" => tech # "None"
  /\ pc \in {"Save", "Cvv", "Bgn", "Engine", "End", "Tokens"} /\ tech = "MSR" =>
       ~inCrpExcCrd(hand)
  /\ pc = "Tokens" /\ crp = "EXC" => Excepted
  /\ pc = "Reply" /\ res = "OK" =>
       \/ fld.ez # NoToken \/ unread \/ tech = "CTLS"
       \/ inCrpExcCrd(hand) /\ tech \in {"CHIP", "KBD"}
       \/ MerchantException(hand) /\ tech = "CHIP"
  /\ pc = "Send" /\ res = "OK" /\ fld.pan # NoCard =>
       \/ fld.trk = hand \/ fld.ez # NoToken \/ unread \/ tech = "CTLS"
       \/ inCrpExcCrd(hand) /\ tech \in {"CHIP", "KBD"}

\* The count on file is the host's until it has a digit too many, and it stands in
\* the record that is encrypted and in the token that waits for its reply.
ErrorInv ==
  /\ declines < Digits => dkperr = declines
  /\ pc = "Tokens" /\ crp = "OK" /\ file.ok => file.err = dkperr
  /\ fld.ez # NoToken => fld.ez.err = dkperr

\* What IInv does not say of the answers: on top of it, inductive as well.
AnswerInv == DeliverInv /\ ErrorInv /\ Deliverable /\ KeyErrorsReported
=============================================================================
