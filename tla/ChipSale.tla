------------------------------ MODULE ChipSale ------------------------------
(***************************************************************************)
(* The sale with a card in the chip slot, from C51 to the answer to C54:   *)
(* EMV_Transaction and EMVFLOW (TRANS.cpp) lead the vendor's EMV kernel    *)
(* through its steps by the wrappers of VosEMVProcess.cpp; C53 reports the *)
(* outcome, and endTransaction54 (FlowPinPad.cpp) takes the host's answer  *)
(* back to the card.                                                       *)
(*                                                                         *)
(* The card may leave the slot, and come back, between any two steps.  The *)
(* program looks at the slot now and then (_CHECK_INSERTED_CARD); once a   *)
(* wrapper has seen it empty, fRemovedCard holds the card for removed      *)
(* until the next Detect_input.  The results of most wrappers are ignored: *)
(* what counts is the slot between them and the answer to the last one.    *)
(*                                                                         *)
(* The kernel, the customer at the PIN pad and the host are external: an   *)
(* answer is chosen among those they can give.  Card data are the business *)
(* of module CardData, the other readers' part of the sale that of CmdFlow.*)
(***************************************************************************)
EXTENDS Naturals

CONSTANTS TokenSizes, \* sizes a token E2 can have
          ByteRange   \* 256 in the code: what one byte can count

ASSUME SizesAssumption ==
  /\ TokenSizes \subseteq Nat /\ 2 \in TokenSizes
  /\ ByteRange \in Nat \ {0}

VARIABLES
  pc, stage,       \* where the program is; the wrapper EMVFLOW is in
  slot, session,   \* the slot; the kernel's session with the card in it
  kernel, info,    \* how far the kernel is, and its last answer (eEMVInfo)
  failedPin,       \* byte 3 of the CVM result (9F34) says: failed
  told,            \* MS_ABORT_TXN is in TxnSteps
  fRemovedCard,
  step,            \* iResult of EMV_steps, then what the wrapper returned
  chTechnology,    \* with the type of a tap (Check_typ_CTLS)
  flagC51, count_fallback,
  host, online,    \* the C54 received; xOnlineInputCT or xOnlineInputCTLS
  field,           \* stValue: STATUS, and the sizes of TOKE2 and in LENGH
  screen           \* the result shown to the customer

card  == <<slot, session>>
emv   == <<kernel, info, failedPin, told>>
sess  == <<chTechnology, flagC51, count_fallback>>
reply == <<field, screen>>
vars  == <<pc, stage, card, emv, fRemovedCard, step, sess, host, online, reply>>

-----------------------------------------------------------------------------
Stages == {"Records", "Auth", "Cvm", "Process", "Risk", "FirstAC"}

Flow == {"Call", "Steps", "Top", "Again", "Test", "Check"}
Selection == {"Detect", "Select", "Selected", "Looked", "Failed"}
Completion == {"Host", "Second", "Token", "Length", "Finish", "Remove", "Reply54"}

PinRequests == {"PLAIN_PIN", "OFL_PIN", "ONL_PIN", "CUST_CVM"}
PinCodes == {"PinAbort", "PinTimeout", "PinOther"}
Cryptograms == {"ARQC", "TC", "AAC"}

Infos == {"None", "OK", "BADAPP", "NOAPP", "APP_BLOCKED", "FALLBACK", "ABORT", "ERROR",
          "READREC", "DATAAUTH", "CVM_END", "RISK_MAN"} \cup PinRequests \cup Cryptograms

Statuses == {"None", "00", "21", "23", "99", "Host"}

\* STATUS and HOSTRESPONSE of a C54, as memcmp sees them.
HostStatuses == {"Authorised", "Declined", "NoConnection", "Aborted", "Other", "Empty"}
Hosts == [status : HostStatuses, response : {"00", "Other", "Empty"}]

Online == [result : BOOLEAN, resp : {"None", "00", "05"}]
NotOnline == [result |-> FALSE, resp |-> "None"]

NoField == [status |-> "None", tok |-> 0, len |-> 0]

TypeOK ==
  /\ pc \in {"Idle", "Outcome", "Reply53"} \cup Selection \cup Flow \cup Completion
  /\ stage \in Stages
  /\ slot \in {"In", "Out"} /\ session \in BOOLEAN
  /\ kernel \in {"None", "Selected", "Read", "Auth", "Pin", "Cvm", "Risk", "Online", "Over"}
  /\ info \in Infos /\ failedPin \in BOOLEAN /\ told \in BOOLEAN
  /\ fRemovedCard \in BOOLEAN
  /\ step \in Infos \cup PinCodes \cup {"Removed"}
  /\ chTechnology \in {"None", "CHIP", "TAP", "TAPMSR", "MSR", "KBD"}
  /\ flagC51 \in BOOLEAN /\ count_fallback \in 0 .. 2
  /\ host \in Hosts /\ online \in Online
  /\ field \in [status : Statuses, tok : TokenSizes \cup {0, 1}, len : Nat]
  /\ screen \in {"None", "Approved", "Declined", "Removed"}

Init ==
  /\ pc = "Idle" /\ stage = "Records"
  /\ slot \in {"In", "Out"} /\ session = FALSE
  /\ kernel = "None" /\ info = "None" /\ failedPin = FALSE /\ told = FALSE
  /\ fRemovedCard = FALSE /\ step = "None"
  /\ chTechnology = "None" /\ flagC51 = FALSE /\ count_fallback = 0
  /\ host = [status |-> "Other", response |-> "Other"] /\ online = NotOnline
  /\ field = NoField /\ screen = "None"

-----------------------------------------------------------------------------
(* The card *)

Insert ==
  /\ slot = "Out" /\ slot' = "In"
  /\ UNCHANGED <<pc, stage, session, emv, fRemovedCard, step, sess, host, online, reply>>

Pull ==
  /\ slot = "In" /\ slot' = "Out" /\ session' = FALSE
  /\ UNCHANGED <<pc, stage, emv, fRemovedCard, step, sess, host, online, reply>>

\* _CHECK_INSERTED_CARD
Present == slot = "In" /\ ~fRemovedCard

\* What the wrappers do with it.
Look == fRemovedCard' = (fRemovedCard \/ slot = "Out")

-----------------------------------------------------------------------------
(* The kernel *)

\* What EMV_CT_ContinueOffline comes back with, from where it stands.
Answers(k) ==
  CASE k = "Selected" -> {<<"READREC", "Read">>, <<"FALLBACK", "Over">>, <<"ABORT", "Over">>}
    [] k = "Read"     -> {<<"DATAAUTH", "Auth">>}
    [] k \in {"Auth", "Pin"} -> (PinRequests \X {"Pin"}) \cup {<<"CVM_END", "Cvm">>}
    [] k = "Cvm"      -> {<<"RISK_MAN", "Risk">>}
    [] k = "Risk"     -> {<<"ARQC", "Online">>, <<"TC", "Over">>, <<"AAC", "Over">>,
                          <<"FALLBACK", "Over">>}
    [] OTHER          -> {<<"ERROR", "Over">>, <<"ABORT", "Over">>}

\* An offline PIN was right or wrong.
Verdicts(next) ==
  IF kernel = "Pin" /\ info \in {"PLAIN_PIN", "OFL_PIN"}
  THEN IF next = "CVM_END" THEN BOOLEAN ELSE {TRUE}
  ELSE {FALSE}

\* A second PIN request follows a failed one only.  When the call fails, the
\* CVM result may be left as it was.
EMV_CT_ContinueOffline ==
  /\ IF session /\ ~told
     THEN \E a \in Answers(kernel) :
            /\ info' = a[1] /\ kernel' = a[2]
            /\ kernel = "Pin" /\ info \in {"ONL_PIN", "CUST_CVM"} => info' = "CVM_END"
            /\ failedPin' \in (IF kernel = "Over" THEN {failedPin, FALSE} ELSE Verdicts(info'))
     ELSE /\ info' \in {"ERROR", "ABORT"} /\ kernel' = "Over"
          /\ failedPin' \in {failedPin, FALSE}
  /\ UNCHANGED told

\* EMV_CT_ContinueOnline and its contactless twin: an approval needs a kernel
\* that waits for the host, and no refusal by it.
SecondAnswers(alive) ==
  IF ~alive THEN {"ERROR", "ABORT"}
  ELSE {"AAC", "ABORT", "ERROR"} \cup
       (IF online.result /\ online.resp = "05" THEN {} ELSE {"TC"})

-----------------------------------------------------------------------------
(* C51: initTransaction51 and EMV_AppSelection *)

StartSale ==
  /\ pc = "Idle"
  /\ flagC51' = TRUE /\ chTechnology' = "None" /\ count_fallback' = 0
  /\ kernel' = "None" /\ info' = "None" /\ failedPin' = FALSE /\ told' = FALSE
  /\ online' = NotOnline /\ field' = NoField /\ screen' = "None" /\ step' = "None"
  /\ pc' = "Detect"
  /\ UNCHANGED <<stage, card, fRemovedCard, host>>

\* Detect_input finds a card in the slot; the stripe reader alone is left on
\* after two failures.
DetectChip ==
  /\ pc = "Detect" /\ slot = "In" /\ count_fallback < 2
  /\ fRemovedCard' = FALSE /\ chTechnology' = "CHIP"
  /\ pc' = "Select"
  /\ UNCHANGED <<stage, card, emv, step, flagC51, count_fallback, host, online, reply>>

\* ... or a card that does not answer.
DetectMute ==
  /\ pc = "Detect" /\ slot = "In" /\ count_fallback < 2
  /\ fRemovedCard' = FALSE /\ count_fallback' = count_fallback + 1
  /\ pc' = "Failed"
  /\ UNCHANGED <<stage, card, emv, step, chTechnology, flagC51, host, online, reply>>

\* ... or the sale is made by another reader, or ends without a card.
DetectOther(t, s) ==
  /\ pc = "Detect"
  /\ s \in (CASE t = "None" -> {"99"} [] t = "MSR" -> {"21", "99"} [] OTHER -> {"00", "99"})
  /\ fRemovedCard' = FALSE /\ chTechnology' = t
  /\ field' = [field EXCEPT !.status = s]
  /\ pc' = "Reply53"
  /\ UNCHANGED <<stage, card, emv, step, flagC51, count_fallback, host, online, screen>>

\* EMV_AppSelection: the kernel starts with the card in the slot.
EMV_AppSelection ==
  /\ pc = "Select"
  /\ Look
  /\ IF slot = "In"
     THEN /\ info' \in {"OK", "BADAPP", "NOAPP", "APP_BLOCKED", "FALLBACK", "ABORT", "ERROR"}
          /\ session' = TRUE
     ELSE info' = "ERROR" /\ session' = FALSE
  /\ kernel' = IF info' = "OK" THEN "Selected" ELSE "Over"
  /\ pc' = "Selected"
  /\ UNCHANGED <<stage, slot, failedPin, told, step, sess, host, online, reply>>

\* EMV_AppSelection looks once more; a blocked application is taken off the list.
AfterSelection ==
  /\ pc = "Selected"
  /\ Look
  /\ pc' = IF info = "BADAPP" THEN "Select" ELSE "Looked"
  /\ UNCHANGED <<stage, slot, session, emv, step, sess, host, online, reply>>

\* EMV_Transaction returns at once if the card is not there, and remembers nothing of
\* it; then it looks at the result.  EMV_ReadRecords starts TxnSteps afresh.
AppSelected ==
  /\ pc = "Looked"
  /\ IF ~Present
     THEN pc' = "Reply53" /\ field' = [field EXCEPT !.status = "99"] /\ UNCHANGED <<stage, step>>
     ELSE /\ UNCHANGED field
          /\ IF info = "OK"
             THEN pc' = "Call" /\ stage' = "Records" /\ UNCHANGED step
             ELSE pc' = "Outcome" /\ step' = (IF info = "ERROR" THEN "ABORT" ELSE info)
                  /\ UNCHANGED stage
  /\ told' = (told /\ pc' # "Call")
  /\ UNCHANGED <<card, kernel, info, failedPin, fRemovedCard, sess, host, online, screen>>

-----------------------------------------------------------------------------
(* EMVFLOW: a wrapper calls the kernel, EMV_steps acts on the answer, and  *)
(* EMVFLOW looks at the slot before the next wrapper                       *)

\* The wrappers differ in what they do before the call: the first two do not look.
EMV_ReadRecords == stage = "Records" /\ UNCHANGED fRemovedCard
EMV_DataAuthentication == stage = "Auth" /\ UNCHANGED fRemovedCard
EMV_CardHolderVerification == stage = "Cvm" /\ Look
EMV_CardHoldVerificationProcess == stage = "Process" /\ Look
EMV_RiskManagement == stage = "Risk" /\ Look
EMV_FirstGenerateAC == stage = "FirstAC" /\ Look

Call ==
  /\ pc = "Call"
  /\ \/ EMV_ReadRecords \/ EMV_DataAuthentication \/ EMV_CardHolderVerification
     \/ EMV_CardHoldVerificationProcess \/ EMV_RiskManagement \/ EMV_FirstGenerateAC
  /\ EMV_CT_ContinueOffline
  /\ pc' = "Steps"
  /\ UNCHANGED <<stage, card, step, sess, host, online, reply>>

\* inGUIInputAction at the PIN pad: digits, cancelled or aborted, timed out, or
\* anything else.  No key bypasses the PIN: ENTER_PIN is called with bypass FALSE.
UIEnterPin == {"Okay"} \cup PinCodes

\* An offline PIN goes on to the card, which may be gone.
ENTER_PIN ==
  IF info = "ONL_PIN" \/ session THEN UIEnterPin ELSE PinCodes \cup {"CommErr"}

OnlinePin ==
  /\ step' = "ONL_PIN"
  /\ \E p \in ENTER_PIN : told' = (told \/ p # "Okay")

\* A PIN that did not reach the card counts as entered.
EncipheredPin ==
  \E p \in ENTER_PIN :
    /\ told' = (told \/ p \in PinCodes)
    /\ step' = CASE p \in {"Okay", "CommErr"} -> "OFL_PIN"
                 [] p = "PinAbort" -> "PinAbort"
                 [] OTHER -> "PinTimeout"

PlainPin ==
  \E p \in ENTER_PIN :
    /\ told' = (told \/ p # "Okay")
    /\ step' = CASE p = "Okay" -> "PLAIN_PIN"
                 [] p = "CommErr" -> "PinTimeout"
                 [] OTHER -> p

\* A custom method is confirmed without asking; other answers pass through.
NoPin ==
  /\ step' \in (IF info = "FALLBACK" THEN {"FALLBACK", "ABORT"} ELSE {info})
  /\ UNCHANGED told

\* EMV_steps acts on the kernel's last answer.
StepResult ==
  CASE info = "ONL_PIN"   -> OnlinePin
    [] info = "OFL_PIN"   -> EncipheredPin
    [] info = "PLAIN_PIN" -> PlainPin
    [] OTHER              -> NoPin

\* It ends with a look at the slot, except on an abort for SW 6985.
EMV_steps ==
  /\ StepResult
  /\ IF info = "FALLBACK" /\ step' = "ABORT" THEN UNCHANGED fRemovedCard ELSE Look
  /\ UNCHANGED <<kernel, info, failedPin>>

Steps ==
  /\ pc = "Steps"
  /\ EMV_steps
  /\ pc' = IF stage = "Cvm" /\ step' \notin PinCodes THEN "Top" ELSE "Check"
  /\ UNCHANGED <<stage, card, sess, host, online, reply>>

\* EMV_CardHolderVerification, the do loop: an offline PIN goes to the kernel.
LoopTop ==
  /\ pc = "Top"
  /\ IF step \in {"PLAIN_PIN", "OFL_PIN"}
     THEN Look /\ EMV_CT_ContinueOffline /\ pc' = "Again"
     ELSE pc' = "Test" /\ UNCHANGED <<fRemovedCard, emv>>
  /\ UNCHANGED <<stage, card, step, sess, host, online, reply>>

\* A wrong one is asked for again.
LoopAgain ==
  /\ pc = "Again"
  /\ IF failedPin
     THEN /\ EMV_steps
          /\ pc' = IF step' \in PinCodes \cup {"CVM_END"} THEN "Check" ELSE "Test"
     ELSE pc' = "Test" /\ UNCHANGED <<step, emv, fRemovedCard>>
  /\ UNCHANGED <<stage, card, sess, host, online, reply>>

\* while (maskCVM == 1)
LoopTest ==
  /\ pc = "Test"
  /\ IF failedPin THEN pc' = "Top" /\ UNCHANGED step ELSE pc' = "Check" /\ step' = info
  /\ UNCHANGED <<stage, card, emv, fRemovedCard, sess, host, online, reply>>

After == [Records |-> "Auth", Auth |-> "Cvm", Process |-> "Risk", Risk |-> "FirstAC"]

\* Mutant: EMVFLOW does not look at the slot after the first cryptogram.
Check_LastUnwatched ==
  /\ pc = "Check"
  /\ IF ~Present /\ stage # "FirstAC"
     THEN pc' = "Outcome" /\ step' = "Removed" /\ UNCHANGED stage
     ELSE \/ /\ stage \in DOMAIN After
             /\ stage' = After[stage] /\ pc' = "Call" /\ UNCHANGED step
          \/ /\ stage = "Cvm" /\ step \notin {"PinAbort", "PinTimeout"}
             /\ stage' = (IF step = "CVM_END" THEN "Risk" ELSE "Process")
             /\ pc' = "Call" /\ UNCHANGED step
          \/ /\ stage = "FirstAC" \/ (stage = "Cvm" /\ step \in {"PinAbort", "PinTimeout"})
             /\ pc' = "Outcome" /\ UNCHANGED <<stage, step>>
  /\ UNCHANGED <<card, emv, fRemovedCard, sess, host, online, reply>>

\* Mutant: a wrapper that fails is called again.
Check_Repeat ==
  /\ pc = "Check"
  /\ IF ~Present
     THEN pc' = "Outcome" /\ step' = "Removed" /\ UNCHANGED stage
     ELSE \/ /\ stage \in DOMAIN After
             /\ stage' = (IF step = "ERROR" THEN stage ELSE After[stage])
             /\ pc' = "Call" /\ UNCHANGED step
          \/ /\ stage = "Cvm" /\ step \notin {"PinAbort", "PinTimeout"}
             /\ stage' = (IF step = "CVM_END" THEN "Risk" ELSE "Process")
             /\ pc' = "Call" /\ UNCHANGED step
          \/ /\ stage = "FirstAC" \/ (stage = "Cvm" /\ step \in {"PinAbort", "PinTimeout"})
             /\ pc' = "Outcome" /\ UNCHANGED <<stage, step>>
  /\ UNCHANGED <<card, emv, fRemovedCard, sess, host, online, reply>>

\* EMVFLOW between two wrappers: only a cancelled or timed out PIN and the
\* result of EMV_FirstGenerateAC count.
Check ==
  /\ pc = "Check"
  /\ IF ~Present
     THEN pc' = "Outcome" /\ step' = "Removed" /\ UNCHANGED stage
     ELSE \/ /\ stage \in DOMAIN After
             /\ stage' = After[stage] /\ pc' = "Call" /\ UNCHANGED step
          \/ /\ stage = "Cvm" /\ step \notin {"PinAbort", "PinTimeout"}
             /\ stage' = (IF step = "CVM_END" THEN "Risk" ELSE "Process")
             /\ pc' = "Call" /\ UNCHANGED step
          \/ /\ stage = "FirstAC" \/ (stage = "Cvm" /\ step \in {"PinAbort", "PinTimeout"})
             /\ pc' = "Outcome" /\ UNCHANGED <<stage, step>>
  /\ UNCHANGED <<card, emv, fRemovedCard, sess, host, online, reply>>

-----------------------------------------------------------------------------
(* The outcome: the end of EMV_Transaction, and C53 *)

\* Whether in_txn_crd encrypts the card data, or returns an error.
Encrypted == {"OK", "CryptError"}

\* Mutant: an offline approval is reported like a request to go online.
EMV_Transaction_OfflineToo ==
  CASE step = "ARQC" -> Encrypted
    [] step = "TC"   -> {"OK"}
    [] OTHER -> {step}

\* What EMV_Transaction returns: SUCCESS_TRX for a request to go online only;
\* an offline approval keeps its own code.
EMV_Transaction ==
  CASE step = "ARQC" -> Encrypted
    [] OTHER -> {step}

\* EMV_EndTransactionCT: the card is switched off.
SwitchedOff == step \notin {"ARQC", "TC", "FALLBACK", "ABORT", "APP_BLOCKED", "NOAPP",
                            "PinAbort", "PinTimeout"}

\* The common way out of initTransaction51, for the technology it ends with.
Status51(r) ==
  CASE r = "OK" -> IF chTechnology = "MSR" THEN "21" ELSE "00"
    [] r \in {"ABORT", "PinAbort", "PinTimeout"} -> "23"
    [] OTHER -> "99"

Fallback ==
  /\ pc = "Outcome" /\ step = "FALLBACK"
  /\ count_fallback' = count_fallback + 1
  /\ pc' = "Failed"
  /\ UNCHANGED <<stage, card, emv, fRemovedCard, step, chTechnology, flagC51, host, online,
                 reply>>

Outcome ==
  /\ pc = "Outcome" /\ step # "FALLBACK"
  /\ \E r \in EMV_Transaction : field' = [field EXCEPT !.status = Status51(r)]
  /\ session' = (session /\ ~SwitchedOff)
  /\ kernel' = IF SwitchedOff THEN "Over" ELSE kernel
  /\ pc' = "Reply53"
  /\ UNCHANGED <<stage, slot, info, failedPin, told, fRemovedCard, step, sess, host, online,
                 screen>>

\* Remove_Card after a failed chip.
RemoveFailed ==
  /\ pc = "Failed" /\ slot = "Out"
  /\ pc' = "Detect"
  /\ UNCHANGED <<stage, card, emv, fRemovedCard, step, sess, host, online, reply>>

\* C53 is sent and the map cleared; the sale stays open whatever its outcome.
Reply53 ==
  /\ pc = "Reply53"
  /\ field' = NoField /\ count_fallback' = 0
  /\ pc' = "Idle"
  /\ UNCHANGED <<stage, card, emv, fRemovedCard, step, chTechnology, flagC51, host, online,
                 screen>>

-----------------------------------------------------------------------------
(* C54: endTransaction54 *)

ByCard == chTechnology \in {"CHIP", "TAP"}

\* in_ath: a STATUS of no bytes compares equal to "authorised".
Authorised(h) == h.status \in {"Authorised", "Empty"}

\* ... and an empty HOSTRESPONSE equal to "00".
Approves(h) == h.response \in {"00", "Empty"}

\* The host's answer is in the map; TOKE2 lists the tags asked for.
ReceiveC54(h) ==
  /\ pc = "Idle" /\ flagC51
  /\ host' = h
  /\ field' = [status |-> "Host", tok |-> 1, len |-> 0]
  /\ pc' = "Host"
  /\ UNCHANGED <<stage, card, emv, fRemovedCard, step, sess, online, screen>>

\* AuthResp: HOSTRESPONSE is copied, or replaced by a refusal.
AuthResp(r) == IF r = "00" THEN "00" ELSE IF r = "Empty" THEN "None" ELSE "05"

\* Mutant: the branch for a declined sale is missing.
Host_Response_NoDecline ==
  CASE Authorised(host) -> [result |-> TRUE, resp |-> AuthResp(host.response)]
    [] host.status = "NoConnection" -> [result |-> FALSE, resp |-> "05"]
    [] host.status = "Aborted" /\ chTechnology = "TAP" -> [result |-> FALSE, resp |-> "05"]
    [] OTHER -> online

\* Host_Response: xOnlineInput of the reader, unchanged since C51 for a status it does
\* not know, and for one that aborts a chip.
Host_Response ==
  CASE Authorised(host) -> [result |-> TRUE, resp |-> AuthResp(host.response)]
    [] host.status = "Declined" -> [result |-> TRUE, resp |-> "05"]
    [] host.status = "NoConnection" -> [result |-> FALSE, resp |-> "05"]
    [] host.status = "Aborted" /\ chTechnology = "TAP" -> [result |-> FALSE, resp |-> "05"]
    [] OTHER -> online

\* A stripe or a keyed number: the terminal decides by STATUS alone.
HostForStripe ==
  /\ pc = "Host" /\ chTechnology \in {"MSR", "TAPMSR", "KBD"}
  /\ field' = [field EXCEPT !.status = "00"]
  /\ screen' = IF Authorised(host) THEN "Approved" ELSE "Declined"
  /\ pc' = "Token"
  /\ UNCHANGED <<stage, card, emv, fRemovedCard, step, sess, host, online>>

\* No card was used: no branch, and the reply carries back what the host sent.
HostForNone ==
  /\ pc = "Host" /\ chTechnology = "None"
  /\ pc' = "Reply54"
  /\ UNCHANGED <<stage, card, emv, fRemovedCard, step, sess, host, online, reply>>

\* processHostAuthForEMV, with the card gone ...
HostCardGone ==
  /\ pc = "Host" /\ chTechnology = "CHIP" /\ ~Present
  /\ field' = [field EXCEPT !.status = "23"]
  /\ screen' = "Removed"
  /\ pc' = "Token"
  /\ UNCHANGED <<stage, card, emv, fRemovedCard, step, sess, host, online>>

\* Mutant: the slot is not looked at before the host's answer is used.
HostForCard_Unwatched ==
  /\ pc = "Host" /\ ByCard
  /\ online' = Host_Response
  /\ pc' = "Second"
  /\ UNCHANGED <<stage, card, emv, fRemovedCard, step, sess, host, reply>>

\* ... and with the card in the slot, up to EMV_SecondGenerateAC.
HostForCard ==
  /\ pc = "Host" /\ ByCard /\ (chTechnology = "CHIP" => Present)
  /\ online' = Host_Response
  /\ pc' = "Second"
  /\ UNCHANGED <<stage, card, emv, fRemovedCard, step, sess, host, reply>>

Status54(answer) ==
  IF answer \in {"TC", "AAC"} THEN "00" ELSE IF answer = "ABORT" THEN "23" ELSE "99"

Screen54(answer) == IF answer = "TC" THEN "Approved" ELSE "Declined"

\* EMV_SecondGenerateAC looks first, and asks the kernel all the same.  A refusal
\* by the card is shown only when the host had approved.
SecondForEMV ==
  /\ pc = "Second" /\ chTechnology = "CHIP"
  /\ Look
  /\ \E a \in SecondAnswers(session /\ kernel = "Online") :
       /\ field' = [field EXCEPT !.status = Status54(a)]
       /\ screen' = IF a = "AAC" /\ ~(Authorised(host) /\ Approves(host)) THEN screen
                    ELSE Screen54(a)
  /\ kernel' = "Over"
  /\ pc' = "Token"
  /\ UNCHANGED <<stage, card, info, failedPin, told, step, sess, host, online>>

\* processHostAuthForCTLS: 00 for every decision; on an error nothing is built.
SecondForCTLS ==
  /\ pc = "Second" /\ chTechnology = "TAP"
  /\ \E a \in SecondAnswers(TRUE) :
       IF a = "ERROR" THEN pc' = "Finish" /\ UNCHANGED <<field, screen>>
       ELSE /\ field' = [field EXCEPT !.status = "00"]
            /\ screen' = Screen54(a)
            /\ pc' = "Token"
  /\ UNCHANGED <<stage, card, emv, fRemovedCard, step, sess, host, online>>

\* The tags the host asked for, as far as the kernel has them: only their size.
assembleTokenE2 == TokenSizes

\* buildEndTransactionReply54: the token, empty when the card is gone ...
Token ==
  /\ pc = "Token"
  /\ \E n \in (IF chTechnology = "CHIP" /\ ~Present THEN {0}
               ELSE IF ByCard THEN assembleTokenE2 ELSE {2}) :
       field' = [field EXCEPT !.tok = n]
  /\ pc' = "Length"
  /\ UNCHANGED <<stage, card, emv, fRemovedCard, step, sess, host, online, screen>>

\* Mutant: the low byte is rounded up to a full byte's range.
Length_HighByteSet ==
  /\ pc = "Length"
  /\ field' = [field EXCEPT !.len = IF chTechnology = "CHIP" /\ ~Present THEN 0
                                    ELSE IF field.tok < ByteRange THEN field.tok
                                    ELSE ByteRange + field.tok]
  /\ pc' = IF ByCard THEN "Finish" ELSE "Reply54"
  /\ UNCHANGED <<stage, card, emv, fRemovedCard, step, sess, host, online, screen>>

\* ... and its length, after a second look at the slot.  Of two bytes only the
\* low one is kept.
Length ==
  /\ pc = "Length"
  /\ field' = [field EXCEPT !.len = IF chTechnology = "CHIP" /\ ~Present THEN 0
                                    ELSE field.tok % ByteRange]
  /\ pc' = IF ByCard THEN "Finish" ELSE "Reply54"
  /\ UNCHANGED <<stage, card, emv, fRemovedCard, step, sess, host, online, screen>>

\* EMV_EndTransactionCT; and with a card in the slot, Remove_Card.
Finish ==
  /\ pc = "Finish"
  /\ session' = (session /\ chTechnology # "CHIP")
  /\ pc' = IF Present THEN "Remove" ELSE "Reply54"
  /\ UNCHANGED <<stage, slot, emv, fRemovedCard, step, sess, host, online, reply>>

\* Mutant: the wait goes on while the slot is empty.
Remove_Card_Swapped ==
  /\ pc = "Remove" /\ slot = "In"
  /\ pc' = "Reply54"
  /\ UNCHANGED <<stage, card, emv, fRemovedCard, step, sess, host, online, reply>>

\* It waits for the customer, without a time-out.
Remove_Card ==
  /\ pc = "Remove" /\ slot = "Out"
  /\ pc' = "Reply54"
  /\ UNCHANGED <<stage, card, emv, fRemovedCard, step, sess, host, online, reply>>

\* An error of the reader ends the wait as well.
RemoveError ==
  /\ pc \in {"Failed", "Remove"}
  /\ pc' = IF pc = "Failed" THEN "Detect" ELSE "Reply54"
  /\ UNCHANGED <<stage, card, emv, fRemovedCard, step, sess, host, online, reply>>

\* C54 is sent, and the sale closed.
Reply54 ==
  /\ pc = "Reply54"
  /\ chTechnology' = "None" /\ flagC51' = FALSE
  /\ field' = NoField
  /\ pc' = "Idle"
  /\ UNCHANGED <<stage, card, emv, fRemovedCard, step, count_fallback, host, online, screen>>

-----------------------------------------------------------------------------
FlowStep == Call \/ Steps \/ LoopTop \/ LoopAgain \/ LoopTest \/ Check

SaleStep ==
  \/ DetectChip \/ DetectMute \/ EMV_AppSelection \/ AfterSelection \/ AppSelected
  \/ \E t \in {"None", "MSR", "TAP", "TAPMSR", "KBD"}, s \in Statuses : DetectOther(t, s)
  \/ Fallback \/ RemoveFailed \/ Outcome \/ Reply53

CompletionStep ==
  \/ HostForStripe \/ HostForNone \/ HostCardGone \/ HostForCard
  \/ SecondForEMV \/ SecondForCTLS
  \/ Token \/ Length \/ Finish \/ Remove_Card \/ Reply54

Command == StartSale \/ \E h \in Hosts : ReceiveC54(h)

Next == Insert \/ Pull \/ RemoveError \/ Command \/ SaleStep \/ FlowStep \/ CompletionStep

Spec == Init /\ [][Next]_vars

\* The program runs on by itself, the kernel answers and the PIN pad times out;
\* nothing is assumed of the customer's card or of the cash register.
FairSpec == Spec /\ WF_vars(FlowStep) /\ WF_vars(CompletionStep) /\ WF_vars(Outcome)
-----------------------------------------------------------------------------
(* What must hold *)

\* The card: out of the slot the kernel has no session with it.
SlotInv == slot = "Out" => ~session

\* The kernel's request to go online is still its state where the program acts on
\* it, and a wrapper's result is never the code of success by itself.
FlowInv ==
  /\ pc \in {"Selected", "Looked"} => info \notin Cryptograms
  /\ pc \in {"Steps", "Top", "Again", "Test", "Check"} =>
       info # "OK" /\ (info = "ARQC" => kernel = "Online")
  /\ pc \in {"Top", "Again", "Test", "Check", "Outcome"} => step # "OK"
  /\ pc \in {"Top", "Again", "Test", "Check", "Outcome"} /\ step = "ARQC" => kernel = "Online"
  /\ pc \in {"Outcome", "Select", "Selected", "Looked"} \cup Flow =>
       chTechnology = "CHIP" /\ count_fallback < 2
  /\ pc = "Outcome" /\ step = "ARQC" => ~fRemovedCard

\* While the host's answer is on its way to the card.
HostInv ==
  /\ pc \in {"Host", "Second"} => screen = "None" /\ field.len = 0 /\ field.status = "Host"
  /\ pc = "Idle" /\ flagC51 => screen = "None"
  /\ pc \in {"Reply53", "Outcome"} \cup Flow \cup Selection => screen = "None"
  /\ pc = "Second" /\ chTechnology = "CHIP" => ~fRemovedCard
  /\ pc = "Second" => ByCard
  /\ pc = "Second" /\ (host.status = "Declined" \/ (Authorised(host) /\ ~Approves(host))) =>
       online.result /\ online.resp = "05"

\* A card seen to have left its slot does not succeed, although most results of
\* the wrappers are dropped and the slot is looked at in some thirty places: no
\* C53 asks the host to authorise it, and no C54 confirms the sale (EMVFLOW,
\* fRemovedCard, processHostAuthForEMV).
LatchStops ==
  chTechnology = "CHIP" /\ fRemovedCard =>
    /\ pc = "Reply53" => field.status # "00"
    /\ pc \in {"Token", "Length", "Finish", "Remove", "Reply54"} => field.status \in {"23", "99"}

\* C53 reports 00 for a chip card only when the kernel asked to go online, and
\* waits for the host's answer: EMV_Transaction mixes the kernel's codes with its
\* own, whose success has the value of EMV_ADK_OK.
OnlineOnlyOnRequest ==
  pc = "Reply53" /\ chTechnology = "CHIP" /\ field.status = "00" => kernel = "Online"

\* "APROBADA" is shown against no host that declined the sale, and for a card
\* with a chip against no response code other than 00 (endTransaction54,
\* Host_Response).
NoApprovalAgainstHost ==
  pc \in {"Token", "Length", "Finish", "Remove", "Reply54"} /\ screen = "Approved" =>
    /\ host.status # "Declined"
    /\ ByCard => ~(Authorised(host) /\ ~Approves(host))
    /\ ~ByCard => Authorised(host)

\* LENGH never says more bytes than TOKE2 has, although the card may leave between
\* the two looks of buildEndTransactionReply54 and the high byte is lost.
LengthNeverOverstates ==
  pc \in {"Finish", "Remove", "Reply54"} => field.len <= field.tok

\* The inductive invariant.
IInv ==
  /\ TypeOK /\ SlotInv /\ FlowInv /\ HostInv
  /\ LatchStops /\ OnlineOnlyOnRequest /\ NoApprovalAgainstHost /\ LengthNeverOverstates

\* A C54 is answered, unless the customer leaves the card in the slot.
Completed ==
  (pc \in Completion) ~> (pc = "Idle" \/ (pc = "Remove" /\ slot = "In"))

\* EMVFLOW comes to an outcome whatever the card and the customer do, as long as
\* no offline PIN is wrong: every wrapper is called once, dead kernel or not.
FlowEnds == (pc \in Flow) ~> (pc \notin Flow \/ failedPin)

\* A card seen to have left its slot ends the flow, wrong PIN or not.
RemovalEndsSale == (pc \in Flow /\ fRemovedCard) ~> (pc \notin Flow)
=============================================================================
