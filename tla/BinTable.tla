------------------------------- MODULE BinTable ------------------------------
(***************************************************************************)
(* The table of excepted cards, as it is built: dkprsa.h:232 defines       *)
(* HRD_COD_RSP.  C14 brings token ET: a name and version, and a text of    *)
(* account-number ranges.  The token goes through CRDEXC_DAT (inDsmQt,     *)
(* inCrpExcDsm, inCrpExcSav) into the table EXCCRD_DAT; the version is     *)
(* told to the host in token ES.                                           *)
(*                                                                         *)
(* Under HRD_COD_RSP the serial number of the token is replaced by that of *)
(* the key just drawn, so their comparison holds for every token, and its  *)
(* text by a constant one, written to the environment and read back.  Of a *)
(* token only its CRC and its version are left.                            *)
(*                                                                         *)
(* A write may fail, a read may fail, the engine may fail; the writes of   *)
(* the table itself are not looked at.  Power may fail at any step.        *)
(***************************************************************************)
EXTENDS BinText

CONSTANTS
  Versions,  \* the versions of the table
  NoVersion  \* "00": there is no table to rely on

ASSUME BinTableAssumption == NoVersion \notin Versions

VARIABLES
  pc,      \* the step of the command
  tok,     \* the token of this C14
  dat,     \* CRDEXC_DAT: the token last saved, ok unless cut short, and chCrd
  table,   \* EXCCRD_DAT: a sequence of ExcCrd
  version, \* BINPNP and BINVER
  k,       \* how many records inCrpSavExc has written or lost
  keylod,  \* DKPKEYLOD
  sent,    \* STATUS of this C14
  before,  \* history: table and version when this C14 began
  fault,   \* history: something failed in this C14, or there was no key
  torn,    \* history: a record of the table was lost, unnoticed
  skipped  \* history: the table is of a token whose text was not replaced

hist == <<before, fault, torn, skipped>>
vars == <<pc, tok, dat, table, version, k, keylod, sent, hist>>

\* Token ES tells the host the version, and whether a key is loaded.
inAsmQs == [ver |-> version, key |-> IF keylod THEN "5" ELSE "0"]

-----------------------------------------------------------------------------
\* The token: its version, and whether its CRC holds.
Tokens == [ver : Versions, crc : BOOLEAN]
NoToken == [ver |-> NoVersion, crc |-> FALSE]

\* CRPCRDEXC, the text that takes the place of the token's.
ExcText == <<A, 3, C>>

\* CrdExc; inDsmQt leaves no text in it.
Saved(t, text) == [ok |-> TRUE, tok |-> t, text |-> text]
Empty == [ok |-> FALSE, tok |-> NoToken, text |-> <<>>]
Dats == [ok : BOOLEAN, tok : Tokens \cup {NoToken}, text : {<<>>, ExcText}]

ExcCrds == [min : Seq(Digits), max : Seq(Digits)]

\* The records inCrpSavExc reads from the text on file.
Records == Parse(dat.text)

TypeOK ==
  /\ pc \in {"Idle", "Qt", "Dsm", "Save", "Open", "Write", "Name", "Reply"}
  /\ tok \in Tokens \cup {NoToken} /\ dat \in Dats
  /\ table \in Seq(ExcCrds)
  /\ before \in [table : Seq(ExcCrds), version : Versions \cup {NoVersion}]
  /\ version \in Versions \cup {NoVersion} /\ k \in Nat /\ keylod \in BOOLEAN
  /\ sent \in {"None", "00", "12", "99"}
  /\ fault \in BOOLEAN /\ torn \in BOOLEAN /\ skipped \in BOOLEAN

Nothing == [table |-> <<>>, version |-> NoVersion]

Init ==
  /\ pc = "Idle" /\ tok = NoToken /\ dat = Empty
  /\ table = <<>> /\ version = NoVersion /\ k = 0 /\ keylod \in BOOLEAN
  /\ sent = "None" /\ before = Nothing
  /\ fault = FALSE /\ torn = FALSE /\ skipped = FALSE

\* inCrpSav did not write, or wrote a part; inCrpLod may fail to open the file.
WriteFails == dat' \in {dat, Empty}
Loads == {dat.ok, FALSE}

Reply(status) == pc' = "Reply" /\ sent' = status
Fail == Reply("99") /\ fault' = TRUE

-----------------------------------------------------------------------------
(* The host and the other commands *)

\* A Z11 loads a key, a sale may use the last one up.
SwitchKey ==
  /\ pc = "Idle" /\ keylod' \in BOOLEAN
  /\ UNCHANGED <<pc, tok, dat, table, version, k, sent, hist>>

\* C14, with any token.
Receive(t) ==
  /\ pc = "Idle"
  /\ tok' = t /\ pc' = "Qt"
  /\ before' = [table |-> table, version |-> version] /\ fault' = FALSE
  /\ UNCHANGED <<dat, table, version, k, keylod, sent, torn, skipped>>

\* Power fails; the files and the environment stay.
Restart ==
  /\ pc' = "Idle" /\ k' = 0 /\ sent' = "None" /\ before' = Nothing
  /\ UNCHANGED <<tok, dat, table, version, keylod, fault, torn, skipped>>

-----------------------------------------------------------------------------
(* in_cpx_crd_exc *)

\* Mutant: the result of the save is not looked at.
inDsmQt_Unchecked ==
  /\ pc = "Qt"
  /\ \/ keylod /\ dat' = Saved(tok, <<>>) /\ pc' = "Dsm" /\ UNCHANGED <<sent, fault>>
     \/ keylod /\ WriteFails /\ pc' = "Dsm" /\ fault' = TRUE /\ UNCHANGED sent
     \/ ~keylod /\ UNCHANGED dat /\ Fail
  /\ UNCHANGED <<tok, table, version, k, keylod, before, torn, skipped>>

\* inDsmQt refuses without a key and when the token cannot be saved.
inDsmQt ==
  /\ pc = "Qt"
  /\ \/ keylod /\ dat' = Saved(tok, <<>>) /\ pc' = "Dsm" /\ UNCHANGED <<sent, fault>>
     \/ keylod /\ WriteFails /\ Fail
     \/ ~keylod /\ UNCHANGED dat /\ Fail
  /\ UNCHANGED <<tok, table, version, k, keylod, before, torn, skipped>>

\* inCrpExcDsm: CRC; a key is drawn, perhaps the last; the constant text goes through
\* the environment and is saved with the token.  The result of putEnvFile becomes
\* that of inCrpExcDsm: below 0 refuses; above 0 skips all that follows, and
\* in_cpx_crd_exc goes on with the record as inDsmQt left it.
inCrpExcDsm ==
  /\ pc = "Dsm"
  /\ \E got \in Loads :
       \/ ~got /\ Fail /\ UNCHANGED <<dat, keylod>>
       \/ got /\ ~dat.tok.crc /\ Reply("12") /\ UNCHANGED <<dat, keylod, fault>>
       \/ /\ got /\ dat.tok.crc
          /\ keylod' \in {keylod, FALSE}
          /\ \/ dat' = Saved(dat.tok, ExcText) /\ pc' = "Save" /\ UNCHANGED <<sent, fault>>
             \/ UNCHANGED dat /\ pc' = "Save" /\ fault' = TRUE /\ UNCHANGED sent
             \/ WriteFails /\ Fail
  /\ UNCHANGED <<tok, table, version, k, before, torn, skipped>>

\* Mutant: the version stays until the table has been written.
ClearVersion_Kept ==
  /\ pc = "Save"
  /\ \E got \in Loads : IF got THEN pc' = "Open" /\ UNCHANGED <<sent, fault>> ELSE Fail
  /\ UNCHANGED <<tok, dat, table, version, k, keylod, before, torn, skipped>>

\* Mutant: the new version is named before the table is written.
ClearVersion_NewName ==
  /\ pc = "Save"
  /\ \E got \in Loads :
       IF got THEN version' = dat.tok.ver /\ pc' = "Open" /\ UNCHANGED <<sent, fault>>
              ELSE Fail /\ UNCHANGED version
  /\ UNCHANGED <<tok, dat, table, k, keylod, before, torn, skipped>>

\* inCrpExcSav: first there is no version any more ...
ClearVersion ==
  /\ pc = "Save"
  /\ \E got \in Loads :
       IF got THEN version' = NoVersion /\ pc' = "Open" /\ UNCHANGED <<sent, fault>>
              ELSE Fail /\ UNCHANGED version
  /\ UNCHANGED <<tok, dat, table, k, keylod, before, torn, skipped>>

\* Mutant: the table is opened without O_TRUNC.
Open_Kept ==
  /\ pc = "Open"
  /\ \/ /\ torn' = FALSE /\ skipped' = (dat.text = <<>>)
        /\ k' = 0 /\ pc' = "Write" /\ UNCHANGED <<sent, fault>>
     \/ UNCHANGED <<torn, skipped, k>> /\ Fail
  /\ UNCHANGED <<tok, dat, table, version, keylod, before>>

\* ... then inCrpSavExc truncates the table ...
Open ==
  /\ pc = "Open"
  /\ \/ /\ table' = <<>> /\ torn' = FALSE /\ skipped' = (dat.text = <<>>)
        /\ k' = 0 /\ pc' = "Write" /\ UNCHANGED <<sent, fault>>
     \/ UNCHANGED <<table, torn, skipped, k>> /\ Fail
  /\ UNCHANGED <<tok, dat, version, keylod, before>>

\* ... and writes one record after the other, without looking at the result ...
Write ==
  /\ pc = "Write"
  /\ IF k < Len(Records)
     THEN /\ k' = k + 1
          /\ \/ table' = Append(table, Records[k + 1]) /\ UNCHANGED <<torn, fault>>
             \/ UNCHANGED table /\ torn' = TRUE /\ fault' = TRUE
          /\ UNCHANGED pc
     ELSE pc' = "Name" /\ k' = 0 /\ UNCHANGED <<table, torn, fault>>
  /\ UNCHANGED <<tok, dat, version, keylod, sent, before, skipped>>

\* ... and the new version is named.
NameVersion ==
  /\ pc = "Name"
  /\ version' = dat.tok.ver /\ Reply("00")
  /\ UNCHANGED <<tok, dat, table, k, keylod, hist>>

\* The status goes out with C14.
Return ==
  /\ pc = "Reply"
  /\ pc' = "Idle" /\ sent' = "None" /\ before' = Nothing
  /\ UNCHANGED <<tok, dat, table, version, k, keylod, fault, torn, skipped>>

Next ==
  \/ SwitchKey \/ Restart
  \/ \E t \in Tokens : Receive(t)
  \/ inDsmQt \/ inCrpExcDsm \/ ClearVersion \/ Open \/ Write \/ NameVersion \/ Return

Spec == Init /\ [][Next]_vars

-----------------------------------------------------------------------------
(* Properties *)

\* A version told to the host has its whole table on file: whatever step fails or
\* power goes at, a table half written has no version (inCrpExcSav clears it first,
\* dkprsa.cpp:2028).  A record whose write failed unnoticed is missing
\* (dkprsa.cpp:2197), and the table is empty after a positive result of putEnvFile
\* (dkprsa.cpp:1911).
TableOfVersion ==
  inAsmQs.ver # NoVersion => table = Parse(ExcText) \/ torn \/ (skipped /\ table = <<>>)

\* A C14 that is refused leaves table and version as they were, or no version.
RefusedKeepsTable ==
  pc = "Reply" /\ sent # "00" =>
    version = NoVersion \/ (version = before.version /\ table = before.table)

\* A C14 answered with 00 has named the version of its own token, although the token
\* goes through a file three times and the file may hold an earlier one: every save
\* and load that could fail is looked at (dkprsa.cpp:1838, 1856, 1989, 2017).
AcceptedNamesToken ==
  pc = "Reply" /\ sent = "00" => version = tok.ver

\* A C14 with a good CRC in which nothing fails is accepted and leaves the table
\* whole, whatever an earlier one left: a table or file cut short, no version, a
\* record lost, the same token sent again (its serial number is not compared).
GoodTokenLoads ==
  pc = "Reply" /\ tok.crc /\ ~fault =>
    sent = "00" /\ version = tok.ver /\ table = Parse(ExcText)

\* With a version on, the cards excepted are those that begin with 3, and those of
\* the length of CRDEXCMIN: the upper end of the one range is compared over its own
\* digits only (inCrpCrdExc).
ExceptsThrees ==
  pc = "Idle" /\ version # NoVersion /\ ~torn /\ ~skipped =>
    \A pan \in Pans : inCrpExcCrd(table, pan) <=> Len(pan) = ExcLen \/ pan[1] = 3

-----------------------------------------------------------------------------
(* The inductive invariant *)

\* From inCrpExcDsm on, the file holds the token of this C14; its text is missing
\* only after a failure.
TokenInv ==
  /\ pc \in {"Qt", "Dsm", "Save", "Open", "Write", "Name"} => tok \in Tokens
  /\ pc \in {"Dsm", "Save", "Open", "Write", "Name"} => dat.tok = tok /\ dat.ok
  /\ pc \in {"Save", "Open", "Write", "Name"} => tok.crc /\ (dat.text = ExcText \/ fault)

\* While the table is rewritten there is no version, and so far it is right.
WriteInv ==
  /\ pc \in {"Open", "Write", "Name"} => version = NoVersion
  /\ pc \in {"Write", "Name"} => skipped = (dat.text = <<>>)
  /\ pc = "Write" => k =< Len(Records) /\ (torn \/ table = SubSeq(Records, 1, k))
  /\ pc = "Name" => torn \/ table = Records
  /\ pc \in {"Write", "Name"} /\ torn => fault

\* Before that, nothing has been touched.
KeepInv ==
  pc \in {"Qt", "Dsm", "Save"} => version = before.version /\ table = before.table

IInv ==
  /\ TypeOK /\ TokenInv /\ WriteInv /\ KeepInv
  /\ TableOfVersion /\ RefusedKeepsTable /\ AcceptedNamesToken /\ GoodTokenLoads
=============================================================================
