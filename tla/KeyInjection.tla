---------------------------- MODULE KeyInjection ----------------------------
(***************************************************************************)
(* The injection of the initial DUKPT key, as it is built: dkprsa.h:232    *)
(* defines HRD_COD_RSP.  Z10 writes the record CRPKTK_DAT and sends the    *)
(* transport key to the host in token EW; Z11 brings the host's answer in  *)
(* token EX, which goes through the same file three times (inDsmQx,        *)
(* inCrpKtkDsm, in_ipk_sav) before the engine loads a key.                 *)
(*                                                                         *)
(* Under HRD_COD_RSP the transport key is a constant, the CRC of an answer *)
(* is that of a constant, and the key and serial number loaded are those   *)
(* of the environment (CRPDUKKEY, CRPDUKKSN), whatever the answer holds.   *)
(* An answer is left with what it is tested for, so one that is good is    *)
(* good for every Z10, and every Z11 that succeeds loads the same key.     *)
(*                                                                         *)
(* The fields of the commands (token, status) are in a map that neither    *)
(* Z10 nor Z11 clears: what one command leaves there the next one may      *)
(* send.  A write of CRPKTK_DAT may be lost or cut short, a read of it or  *)
(* of the environment may fail, RSA may fail, power may fail.  The engine  *)
(* is the one of module Dukpt; here it is the key and number it holds.     *)
(***************************************************************************)

VARIABLES
  pc,      \* the step of the command
  acqmul,  \* the program was configured for one acquirer or for several
  file,    \* CRPKTK_DAT
  engine,  \* DKPENV_DAT: the initial key and serial number it descends from
  keylod,  \* DKPKEYLOD
  fld,     \* stValue: STATUS, TOKEW, TOKEX
  sent,    \* the last Z10 or Z11 sent, until the next command
  spent,   \* history: the initial keys that have encrypted something
  told,    \* history: the host has been sent a token
  torn,    \* history: the record was cut short, and not written whole since
  earned,  \* history: the record has held an answer worth a key
  lost,    \* history: a write of this Z11 did not happen, and nobody noticed
  unread,  \* history: a read of the environment failed in this Z11, unnoticed
  fault,   \* history: something failed in this Z11
  rewound, \* history: this Z11 started a spent key anew
  before   \* history: the key that was on when this Z11 began

dev  == <<file, engine, keylod>>
rec  == <<told, torn, earned>>
hist == <<lost, unread, fault, rewound, before>>
vars == <<pc, acqmul, dev, fld, sent, spent, rec, hist>>

\* A key with its serial number: those of the environment; or zeros in place of
\* one of them, from a cleared record or a read that failed (they are taken for
\* one and the same key); or none.
Keys == {"None", "Zero", "Env"}

\* What an answer is worth under the constants: error code 00 (else 99), the CRC of
\* the constant (12), a check value that fits its key under the transport key (13).
Worths == {"None", "00", "12", "13", "99"}

\* Token EX: its worth, and whether it is no longer than its fields.
Answers == [worth : Worths, fits : BOOLEAN]
NoAnswer == [worth |-> "None", fits |-> TRUE]

\* CrpKtk: srKtkRsp, the answer with the serial number put in it, and the key the
\* engine is to load.  ok is false for a file that is missing or too short.
Records == [ok : BOOLEAN, rsp : Answers, ksn : Keys, key : Keys]
Empty == [ok |-> FALSE, rsp |-> NoAnswer, ksn |-> "Zero", key |-> "Zero"]

Statuses == {"None", "00", "12", "13", "62", "99"}
Fields == [status : Statuses, ew : BOOLEAN, ex : Answers]
NoFields == [status |-> "None", ew |-> FALSE, ex |-> NoAnswer]

Replies == [cmd : {"None", "Z10", "Z11"}, status : Statuses, on : Keys]
NoReply == [cmd |-> "None", status |-> "None", on |-> "None"]

TypeOK ==
  /\ pc \in {"Idle", "Qw", "Reply10", "Dsm", "Xlt", "Load", "Engine", "Reply11"}
  /\ acqmul \in {"UNI", "MULTI"}
  /\ file \in Records /\ engine \in Keys /\ keylod \in BOOLEAN
  /\ fld \in Fields /\ sent \in Replies /\ spent \in SUBSET Keys
  /\ told \in BOOLEAN /\ torn \in BOOLEAN /\ earned \in BOOLEAN
  /\ lost \in BOOLEAN /\ unread \in BOOLEAN /\ fault \in BOOLEAN
  /\ rewound \in BOOLEAN /\ before \in Keys

Init ==
  /\ pc = "Idle" /\ acqmul \in {"UNI", "MULTI"}
  /\ file = Empty /\ engine = "None" /\ keylod = FALSE
  /\ fld = NoFields /\ sent = NoReply /\ spent = {}
  /\ told = FALSE /\ torn = FALSE /\ earned = FALSE
  /\ lost = FALSE /\ unread = FALSE /\ fault = FALSE
  /\ rewound = FALSE /\ before = "None"

\* inCrpSav did not write, or wrote a part.
WriteFails == file' \in {file, Empty}
Cut == file.ok /\ ~file'.ok

\* inCrpLod may find the file and fail to open it.
Loads == {file.ok, FALSE}

\* What is remembered of a Z11 ends with the next command.
NewCommand ==
  /\ lost' = FALSE /\ unread' = FALSE /\ fault' = FALSE /\ rewound' = FALSE
  /\ before' = "None"

KeyOn == IF keylod THEN engine ELSE "None"

-----------------------------------------------------------------------------
(* Z10, requestTransportKeyZ10 *)

\* inCrpKtkAsm: inCrpKtkRnd copies the constant transport key into a record that
\* is zero otherwise, and RSA and the check value are taken of it.
NewRecord == [Empty EXCEPT !.ok = TRUE]

\* in_cpx_ipk_ktk fails: no status is set, the map stays as it is.
NoToken == pc' = "Reply10" /\ UNCHANGED fld

\* Mutant: the token is built before the new record is saved.
Ask_TokenFirst ==
  /\ pc = "Idle" /\ acqmul = "MULTI"
  /\ fld' = [fld EXCEPT !.status = "00", !.ew = TRUE]
  /\ file' \in {NewRecord, file}
  /\ torn' = (torn /\ ~file'.ok) /\ earned' = FALSE
  /\ pc' = "Reply10" /\ sent' = NoReply /\ NewCommand
  /\ UNCHANGED <<acqmul, engine, keylod, spent, told>>

\* The record, and the answer in it, is overwritten; or RSA or the save fails.
Ask ==
  /\ pc = "Idle" /\ acqmul = "MULTI"
  /\ \/ file' = NewRecord /\ torn' = FALSE /\ pc' = "Qw" /\ UNCHANGED fld
     \/ WriteFails /\ torn' = (torn \/ Cut) /\ NoToken
  /\ earned' = (earned /\ file' = file)
  /\ sent' = NoReply /\ NewCommand
  /\ UNCHANGED <<acqmul, engine, keylod, spent, told>>

\* inAsmQw and inAsmQs: the tokens are built from the file.
BuildTokens ==
  /\ pc = "Qw"
  /\ \E got \in Loads :
       IF got THEN fld' = [fld EXCEPT !.status = "00", !.ew = TRUE] /\ pc' = "Reply10"
              ELSE NoToken
  /\ UNCHANGED <<acqmul, dev, sent, spent, rec, hist>>

\* The reply carries what the map holds.
Reply10 ==
  /\ pc = "Reply10"
  /\ sent' = [cmd |-> "Z10", status |-> fld.status, on |-> KeyOn]
  /\ told' = (told \/ fld.ew)
  /\ pc' = "Idle"
  /\ UNCHANGED <<acqmul, dev, fld, spent, torn, earned, hist>>

\* A program for one acquirer answers both commands with 62.
Refuse(cmd) ==
  /\ pc = "Idle" /\ acqmul = "UNI"
  /\ fld' = [NoFields EXCEPT !.status = "62"]
  /\ sent' = [NoReply EXCEPT !.cmd = cmd, !.status = "62"]
  /\ UNCHANGED <<pc, acqmul, dev, spent, rec, hist>>

-----------------------------------------------------------------------------
(* Z11, injectKeyZ11 *)

\* A Z11 with any answer, intact or garbled on its way, or with no data:
\* PP_CMD_unpack then leaves the TOKEX of the Z11 before in the map.
Tokens == {r \in Answers : r.worth # "None"} \cup {fld.ex}

Inject(r) ==
  /\ pc = "Idle" /\ acqmul = "MULTI"
  /\ fld' = [fld EXCEPT !.ex = r]
  /\ lost' = FALSE /\ unread' = FALSE /\ fault' = FALSE /\ rewound' = FALSE
  /\ before' = KeyOn
  /\ pc' = "Dsm" /\ sent' = NoReply
  /\ UNCHANGED <<acqmul, dev, spent, rec>>

\* The codes of a Z11: 12 for the CRC, 13 for the check value, 99 for all else.
Fails(status) ==
  pc' = "Reply11" /\ fld' = [fld EXCEPT !.status = status]

Good(r) == r.worth = "00" /\ r.fits

\* inDsmQx: the answer goes into the record with the environment's serial number,
\* of which the read may fail; the result of the save is ignored.  The bytes read
\* are compared with those of the token: a file that cannot be loaded counts as
\* none, which is too few unless there was no token at all (-1 bytes).
inDsmQx ==
  /\ pc = "Dsm"
  /\ \E got \in Loads :
       IF got
       THEN /\ \/ \E s \in {"Env", "Zero"} :
                    /\ file' = [file EXCEPT !.rsp = fld.ex, !.ksn = s]
                    /\ unread' = (s = "Zero") /\ fault' = (s = "Zero") /\ UNCHANGED lost
               \/ WriteFails /\ lost' = TRUE /\ fault' = TRUE /\ UNCHANGED unread
            /\ IF fld.ex.fits THEN pc' = "Xlt" /\ UNCHANGED fld ELSE Fails("99")
       ELSE /\ fault' = file.ok /\ UNCHANGED <<file, unread>>
            /\ IF fld.ex = NoAnswer
               THEN lost' = TRUE /\ pc' = "Xlt" /\ UNCHANGED fld
               ELSE Fails("99") /\ UNCHANGED lost
  /\ torn' = (torn \/ Cut) /\ earned' = (earned \/ file'.rsp.worth = "00")
  /\ UNCHANGED <<acqmul, engine, keylod, sent, spent, told, rewound, before>>

\* The code for the answer of the record; the error code of no answer is not 00.
Verdict == IF file.rsp.worth = "None" THEN "99" ELSE file.rsp.worth

\* The serial number and the key that are saved for the engine, for the key v read.
WithNumber(v) == IF v = "Env" THEN file.ksn ELSE "Zero"

\* Mutant: the result of inCrpKtkDsm is not looked at.
inCrpKtkDsm_Ignored ==
  /\ pc = "Xlt"
  /\ file' = IF file.ok /\ file.rsp.worth = "00"
             THEN [file EXCEPT !.key = WithNumber("Env")] ELSE file
  /\ pc' = "Load"
  /\ UNCHANGED <<acqmul, engine, keylod, fld, sent, spent, rec, hist>>

\* inCrpKtkDsm: the answer of the record is tested; the key it opens to is replaced
\* by the environment's, of which the read may fail, and saved with the number.
inCrpKtkDsm ==
  /\ pc = "Xlt"
  /\ \E got \in Loads :
       IF ~got
       THEN Fails("99") /\ fault' = (fault \/ file.ok) /\ UNCHANGED <<file, unread>>
       ELSE IF file.rsp.worth # "00"
       THEN Fails(Verdict) /\ UNCHANGED <<file, unread, fault>>
       ELSE \/ \E v \in {"Env", "Zero"} :
                 /\ file' = [file EXCEPT !.key = WithNumber(v)]
                 /\ unread' = (unread \/ v = "Zero") /\ fault' = (fault \/ v = "Zero")
                 /\ pc' = "Load" /\ UNCHANGED fld
            \/ WriteFails /\ Fails("99") /\ fault' = TRUE /\ UNCHANGED unread
  /\ torn' = (torn \/ Cut)
  /\ UNCHANGED <<acqmul, engine, keylod, sent, spent, told, earned, lost, rewound, before>>

\* in_ipk_sav switches the key off before the engine is rewritten.
Load ==
  /\ pc = "Load"
  /\ \E got \in Loads :
       IF got
       THEN keylod' = FALSE /\ pc' = "Engine" /\ UNCHANGED <<fld, fault>>
       ELSE Fails("99") /\ fault' = TRUE /\ UNCHANGED keylod
  /\ UNCHANGED <<acqmul, file, engine, sent, spent, rec, lost, unread, rewound, before>>

\* inDkpIpkLod: the key is loaded and switched on; the last save of the engine
\* may be lost, unnoticed; or the first one fails.
LoadEngine ==
  /\ pc = "Engine"
  /\ \/ /\ engine' = file.key /\ rewound' = (file.key \in spent)
        /\ UNCHANGED <<lost, fault>>
        /\ keylod' = TRUE /\ Fails("00")
     \/ /\ engine' = "None" /\ lost' = TRUE /\ fault' = TRUE /\ UNCHANGED rewound
        /\ keylod' = TRUE /\ Fails("00")
     \/ /\ engine' \in {engine, "None"} /\ fault' = TRUE /\ Fails("99")
        /\ UNCHANGED <<lost, keylod, rewound>>
  /\ UNCHANGED <<acqmul, file, sent, spent, rec, unread, before>>

Reply11 ==
  /\ pc = "Reply11"
  /\ sent' = [cmd |-> "Z11", status |-> fld.status, on |-> KeyOn]
  /\ pc' = "Idle"
  /\ UNCHANGED <<acqmul, dev, fld, spent, rec, hist>>

-----------------------------------------------------------------------------
(* The other commands, the power *)

\* A sale uses the key, if its file is there, perhaps for the last time, and clears
\* the map.
Sale ==
  /\ pc = "Idle" /\ keylod
  /\ spent' = spent \cup ({engine} \ {"None"})
  /\ keylod' \in {TRUE, FALSE}
  /\ fld' = NoFields /\ sent' = NoReply /\ NewCommand
  /\ UNCHANGED <<pc, acqmul, file, engine, rec>>

\* A write that power cut short is a write that failed before the restart.
Restart ==
  /\ pc' = "Idle" /\ fld' = NoFields /\ sent' = NoReply
  /\ engine' \in IF pc = "Engine" THEN {engine, "None", file.key} ELSE {engine}
  /\ NewCommand
  /\ UNCHANGED <<acqmul, file, keylod, spent, rec>>

Next ==
  \/ Ask \/ BuildTokens \/ Reply10
  \/ Refuse("Z10") \/ Refuse("Z11")
  \/ \E r \in Tokens : Inject(r)
  \/ inDsmQx \/ inCrpKtkDsm \/ Load \/ LoadEngine \/ Reply11
  \/ Sale \/ Restart

Spec == Init /\ [][Next]_vars

-----------------------------------------------------------------------------
(* Properties *)

\* Every key loaded is the environment's, so a load starts anew, at the first
\* counter, a key that has been used (dkprsa.cpp:391-432).  It happens only in a
\* Z11 that carries a good answer, or in one whose answer was not saved
\* (dkprsa.cpp:1584) after a good answer to the Z10 of the record: never by a
\* refused, garbled or missing answer, nor by what was left before the last Z10.
NoRewind == rewound => Good(fld.ex) \/ (lost /\ earned)

\* The status of a Z11 tells the host which key is on: 00, that of the environment
\* with its serial number, and only for a good answer; anything else, the one that
\* was on before, or none.  A lost save or an unnoticed failure to read the
\* environment (dkprsa.cpp:362, 1560) is all that makes it wrong.
AnswerTellsKey ==
  sent.cmd = "Z11" /\ acqmul = "MULTI" =>
    IF sent.status = "00"
    THEN (Good(fld.ex) /\ (sent.on = "Env" \/ unread)) \/ lost
    ELSE sent.on \in {"None", before}

\* Once the host has been sent a token, a fresh one or one that a failed Z10 found
\* in the map (FlowPinPad.cpp:1123-1126), a good answer is loaded by a Z11 in which
\* nothing fails, whatever was lost, refused, garbled or interrupted before;
\* only a record cut short on file, and not written since, stands in the way.
Recovers ==
  sent.cmd = "Z11" /\ acqmul = "MULTI" /\ ~fault /\ Good(fld.ex) /\ told /\ ~torn
  => sent.status = "00" /\ sent.on = "Env"

-----------------------------------------------------------------------------
(* The inductive invariant *)

\* An answer worth a key has been earned, and a token is of a record on file.
RecordInv ==
  /\ file.rsp.worth = "00" => earned
  /\ fld.ew \/ told => file.ok \/ torn
  /\ pc # "Idle" => sent = NoReply

\* From Xlt to Engine: what the record holds of this Z11, and the key that is on.
\* A program for one acquirer injects nothing.
CommandInv ==
  /\ acqmul = "UNI" => pc = "Idle" /\ ~rewound
  /\ pc \in {"Xlt", "Load", "Engine"} => fld.ex.fits
  /\ pc = "Xlt" => (file.rsp = fld.ex /\ (file.ksn = "Env" \/ unread)) \/ lost
  /\ pc \in {"Load", "Engine"} =>
       /\ earned
       /\ (Good(fld.ex) /\ (file.key = "Env" \/ unread)) \/ lost
  /\ pc \in {"Dsm", "Xlt", "Load"} => KeyOn = before
  /\ pc = "Engine" => ~keylod

\* What the status of a Z11 says, before it is sent.
StatusInv ==
  pc = "Reply11" =>
    IF fld.status = "00" THEN (Good(fld.ex) /\ (KeyOn = "Env" \/ unread)) \/ lost
                         ELSE KeyOn \in {"None", before}

\* A Z11 in which nothing has failed so far is about its own answer.
RecoverInv ==
  ~fault /\ told /\ ~torn /\ Good(fld.ex) =>
    /\ pc = "Xlt" => file.rsp = fld.ex /\ file.ksn = "Env"
    /\ pc \in {"Load", "Engine"} => file.key = "Env"
    /\ pc = "Reply11" => fld.status = "00" /\ KeyOn = "Env"

IInv ==
  /\ TypeOK /\ RecordInv /\ CommandInv /\ StatusInv /\ RecoverInv
  /\ NoRewind /\ AnswerTellsKey /\ Recovers
=============================================================================
