------------------------------- MODULE CmdFlow ------------------------------
(***************************************************************************)
(* The command session of FlowPinPad.cpp: vdCmdFlow takes one frame from   *)
(* the cash register, answers it with ACK, NAK or a format error, and      *)
(* inDoCmdBBVA runs the command to its end before the next frame is read.  *)
(* The sale (C51, initTransaction51) is the do loop that asks for a card   *)
(* until one of the readers gives a result; Z4 reads the account number    *)
(* ahead of the sale; C54 brings the host's answer.                        *)
(*                                                                         *)
(* What survives from one command to the next is a handful of globals      *)
(* (flagZ4, chTechnology, count_fallback, inTransInProgress, Datas, inVal) *)
(* that the handlers set and reset each in its own way.                    *)
(*                                                                         *)
(* Amounts, tokens and the text of screens are left out.  Of the reply     *)
(* fields only the account number (a card stands for it) and POSENTRY are  *)
(* kept.  A card in a reader, a wrong swipe, a cancelled PIN or a failed   *)
(* encryption is an outcome the environment chooses.                       *)
(***************************************************************************)
EXTENDS Naturals

CONSTANTS Cards,     \* the cards presented
          ChipCards, \* those whose stripe carries service code 2xx or 6xx
          NoCard     \* no account number

ASSUME CardsAssumption == ChipCards \subseteq Cards /\ NoCard \notin Cards

VARIABLES
  pc,                 \* where the main loop is
  boCtlsON,           \* the contactless framework started at boot
  frame,              \* chRcvbuff: the command, and whether it arrived intact
  inVal,              \* vdCmdFlow's verdict, not reset between frames
  ack,                \* history: how the frame was acknowledged
  chTechnology, count_fallback, flagZ4, flagC51, inTransInProgress,
  keylod,             \* environment variable DKPKEYLOD
  Dev_type, in_val,   \* locals of initTransaction51
  Datas,              \* the stripe decoded last (NoCard when it did not decode)
  msr,                \* the stripe reader is switched on
  field,              \* stValue: the reply fields PAN and POSENTRY
  sent,               \* the C53 or C54 sent for this frame
  hand,               \* history: the card presented for this sale
  fails,              \* history: chip failures since the last C53, at most 2
  sale                \* history: the reader that gave the last C53 its success

link == <<boCtlsON, frame, inVal, ack>>
sess == <<chTechnology, count_fallback, flagZ4, flagC51, inTransInProgress>>
trn  == <<Dev_type, in_val>>
hist == <<hand, fails, sale>>
vars == <<pc, link, sess, keylod, trn, Datas, msr, field, sent, hist>>

-----------------------------------------------------------------------------
Commands == {"C51", "C54", "Z4", "72", "C23", "Q8", "Z2", "C14", "Z11", "Other"}

\* Commands with a parser of their own: PP_CMD_unpack is not called for them.
ParsedApart == {"Z2", "C14"}

Readers == {"CHIP", "MSR", "CTLS"}

\* CTS_CHIP|CTS_MSR: the card was seen by both readers at once.
Techs == Readers \cup {"None", "KBD", "CHIP+MSR"}

EntryModes == {"None", "01", "05", "07", "80", "90", "91"}

Replies == [cmd : {"None", "C53", "C54"}, ok : BOOLEAN, pan : Cards \cup {NoCard},
            pos : EntryModes, tech : Techs,
            card : Cards \cup {NoCard}, fails : 0 .. 2, sale : Techs \cup {"Unknown"}]

NoReply == [cmd |-> "None", ok |-> FALSE, pan |-> NoCard, pos |-> "None", tech |-> "None",
            card |-> NoCard, fails |-> 0, sale |-> "Unknown"]

NoFields == [pan |-> NoCard, pos |-> "None"]

TypeOK ==
  /\ pc \in {"Wait", "Do", "Try", "Handle", "Again", "Close"}
  /\ boCtlsON \in BOOLEAN
  /\ frame \in [cmd : Commands, good : BOOLEAN]
  /\ inVal \in {"OK", "LRC", "Fail"}
  /\ ack \in {"None", "ACK", "NAK", "Format"}
  /\ chTechnology \in Techs
  /\ count_fallback \in 0 .. 2
  /\ flagZ4 \in BOOLEAN /\ flagC51 \in BOOLEAN /\ inTransInProgress \in BOOLEAN
  /\ keylod \in BOOLEAN
  /\ Dev_type \in SUBSET Readers
  /\ in_val \in {"OK", "Again", "NoChip", "Abort", "Stop"}
  /\ Datas \in Cards \cup {NoCard}
  /\ msr \in {"On", "Off"}
  /\ field \in [pan : Cards \cup {NoCard}, pos : EntryModes]
  /\ sent \in Replies
  /\ hand \in Cards \cup {NoCard}
  /\ fails \in 0 .. 2
  /\ sale \in Techs \cup {"Unknown"}

Init ==
  /\ pc = "Wait" /\ boCtlsON \in BOOLEAN
  /\ frame = [cmd |-> "Other", good |-> TRUE] /\ inVal = "OK" /\ ack = "None"
  /\ chTechnology = "None" /\ count_fallback = 0
  /\ flagZ4 = FALSE /\ flagC51 = FALSE /\ inTransInProgress = FALSE
  /\ keylod \in BOOLEAN
  /\ Dev_type = {} /\ in_val = "OK"
  /\ Datas = NoCard /\ msr = "Off" /\ field = NoFields /\ sent = NoReply
  /\ hand = NoCard /\ fails = 0 /\ sale = "Unknown"

\* What PP_CMD_Pack finds in the map, and under what it is sent.
Reply(cmd, ok) ==
  [cmd |-> cmd, ok |-> ok, pan |-> field.pan, pos |-> field.pos, tech |-> chTechnology,
   card |-> hand, fails |-> fails, sale |-> sale]

\* inDkpRqtDta and inDkpRqtKey switch the key off when it is exhausted or lost.
UseKey == keylod' \in {keylod, FALSE}

-----------------------------------------------------------------------------
(* vdCmdFlow *)

\* PP_CMD_unpack judges the frame; for a command that is parsed apart the verdict
\* on the frame before stands.
Verdicts(c, g) ==
  IF c \in ParsedApart THEN {inVal} ELSE IF g THEN {"OK"} ELSE {"LRC", "Fail"}

\* A format error assigns the number of bytes sent to inVal; zero of them reads
\* as a success afterwards.
Answer(v) ==
  \/ v = "OK" /\ ack' = "ACK" /\ inVal' = v /\ pc' = "Do"
  \/ v = "LRC" /\ ack' = "NAK" /\ inVal' = v /\ pc' = "Wait"
  \/ v = "Fail" /\ ack' = "Format" /\ inVal' \in {"Fail", "OK"} /\ pc' = "Wait"

\* The command matters only when it is run.
Receive(c, g) ==
  /\ pc = "Wait"
  /\ \E v \in Verdicts(c, g) : Answer(v)
  /\ frame' = [cmd |-> IF pc' = "Do" THEN c ELSE "Other", good |-> g]
  /\ sent' = NoReply
  /\ UNCHANGED <<boCtlsON, sess, keylod, trn, Datas, msr, field, hist>>

-----------------------------------------------------------------------------
(* initTransaction51 *)

\* History: the reader that made in_val a success.
Served(r) == sale' = IF in_val' = "OK" THEN r ELSE "Unknown"

StartSale ==
  /\ flagC51' = TRUE
  /\ chTechnology' = IF flagZ4 THEN chTechnology ELSE "None"
  /\ hand' = IF flagZ4 THEN hand ELSE NoCard
  /\ sale' = "Unknown"
  /\ UNCHANGED <<flagZ4, inTransInProgress, link>>

\* No key: C53 goes out at once, and nothing is cleaned up.
SaleWithoutKey ==
  /\ pc = "Do" /\ frame.cmd = "C51" /\ ~keylod
  /\ StartSale
  /\ sent' = [Reply("C53", FALSE) EXCEPT !.tech = chTechnology', !.card = hand', !.sale = "Unknown"]
  /\ pc' = "Wait"
  /\ UNCHANGED <<count_fallback, keylod, trn, Datas, msr, field, fails>>

\* KBD_Transaction_banorte: cancelled, timed out, cancelled by a 72 or a wrong
\* check digit; or the data are complete and encrypted.  A keyed account number
\* is that of no card presented.
KBD_Transaction_banorte ==
  \/ in_val' = "Stop" /\ UNCHANGED <<field, keylod>>
  \/ in_val' \in {"OK", "Stop"} /\ field' = [pan |-> NoCard, pos |-> "01"] /\ UseKey

\* TRANSTYP asks for the account number to be keyed in.
SaleByKeyboard ==
  /\ pc = "Do" /\ frame.cmd = "C51" /\ keylod
  /\ flagC51' = TRUE /\ chTechnology' = "KBD" /\ hand' = NoCard
  /\ KBD_Transaction_banorte
  /\ Served("KBD")
  /\ pc' = "Close"
  /\ UNCHANGED <<link, count_fallback, flagZ4, inTransInProgress, Dev_type, Datas, msr,
                 sent, fails>>

\* The readers are switched on; the failure count restarts only without a Z4.
SaleByCard ==
  /\ pc = "Do" /\ frame.cmd = "C51" /\ keylod
  /\ StartSale
  /\ Dev_type' = {"CHIP", "MSR"} \cup (IF boCtlsON THEN {"CTLS"} ELSE {})
  /\ in_val' = "OK"
  /\ msr' = "On"
  /\ count_fallback' = IF flagZ4 THEN count_fallback ELSE 0
  /\ pc' = "Try"
  /\ UNCHANGED <<keylod, Datas, field, sent, fails>>

\* The card read by Z4 is used, unless it was tapped.
Saved == flagZ4 /\ chTechnology # "CTLS"

\* Mutant: the request to use the card of the Z4 is not consumed.
TrySaved_Kept ==
  /\ pc = "Try" /\ Saved
  /\ inTransInProgress' = TRUE
  /\ pc' = "Handle"
  /\ UNCHANGED <<link, chTechnology, count_fallback, flagZ4, flagC51, keylod, trn, Datas,
                 msr, field, sent, hist>>

TrySaved ==
  /\ pc = "Try" /\ Saved
  /\ flagZ4' = FALSE /\ inTransInProgress' = TRUE
  /\ pc' = "Handle"
  /\ UNCHANGED <<link, chTechnology, count_fallback, flagC51, keylod, trn, Datas, msr,
                 field, sent, hist>>

\* Back to the main loop: the locals are gone, and the card presented matters
\* only to a sale that a Z4 has announced.
Return ==
  /\ pc' = "Wait"
  /\ Dev_type' = {} /\ in_val' = "OK"
  /\ hand' = IF flagZ4 THEN hand ELSE NoCard

\* ActivateTransactionCTLS fails: the handler returns, and sends nothing.
Abandon ==
  /\ pc = "Try" /\ ~Saved /\ "CTLS" \in Dev_type
  /\ Return
  /\ UNCHANGED <<link, sess, keylod, Datas, msr, field, sent, fails, sale>>

Detected(v, t, c) ==
  /\ in_val' = v /\ chTechnology' = t /\ hand' = c
  /\ pc' = "Handle"
  /\ UNCHANGED <<link, count_fallback, flagZ4, flagC51, inTransInProgress, keylod,
                 Dev_type, Datas, msr, field, sent, fails, sale>>

\* Detect_input: a card in a reader, or in two at once.
Present(t, c) ==
  /\ pc = "Try" /\ ~Saved
  /\ \/ t \in Dev_type
     \/ t = "CHIP+MSR" /\ {"CHIP", "MSR"} \subseteq Dev_type
  /\ t = "MSR" \/ c \in ChipCards
  /\ Detected("OK", t, c)

\* Detect_input: a card that does not answer in the chip slot, and nothing at
\* all (cancelled, timed out).  The technology is then whatever the library
\* left in Tech_selected.
PresentMute(t, c) ==
  /\ pc = "Try" /\ ~Saved /\ "CHIP" \in Dev_type
  /\ t \in Dev_type \cup {"None"}
  /\ Detected("NoChip", t, c)

PresentNothing(t) ==
  /\ pc = "Try" /\ ~Saved
  /\ t \in Dev_type \cup {"None"}
  /\ Detected("Stop", t, NoCard)

\* A chip that cannot be read; after the second one only the stripe is left.
ChipFailed ==
  /\ count_fallback' = count_fallback + 1
  /\ fails' = IF fails < 2 THEN fails + 1 ELSE fails
  /\ Dev_type' = IF count_fallback' > 1 THEN {"MSR"} ELSE Dev_type
  /\ in_val' = "Again"

\* Mutant: the chip reader stays on after the second failure.
Fallback_ChipKept ==
  /\ pc = "Handle" /\ in_val = "NoChip"
  /\ count_fallback' = count_fallback + 1
  /\ fails' = IF fails < 2 THEN fails + 1 ELSE fails
  /\ in_val' = "Again"
  /\ pc' = "Again"
  /\ UNCHANGED <<link, chTechnology, flagZ4, flagC51, inTransInProgress, keylod, Dev_type, Datas, msr,
                 field, sent, hand, sale>>

Fallback ==
  /\ pc = "Handle" /\ in_val = "NoChip"
  /\ ChipFailed
  /\ pc' = "Again"
  /\ UNCHANGED <<link, chTechnology, flagZ4, flagC51, inTransInProgress, keylod, Datas, msr,
                 field, sent, hand, sale>>

\* in_val < CTS_OK: cancelled, timed out, or the failure of the attempt before
\* when the card of a Z4 is taken up in the middle of the loop.
NoInput ==
  /\ pc = "Handle" /\ in_val \in {"Stop", "Again"}
  /\ pc' = "Again"
  /\ UNCHANGED <<link, sess, keylod, trn, Datas, msr, field, sent, hist>>

\* check_service_code
ServiceCodeAllows(d) == d \notin ChipCards \/ count_fallback >= 2

\* Read_MSRdata, unless a card read before is said to be in progress.
ReadStripe(d) ==
  IF inTransInProgress THEN d = Datas ELSE d \in {hand, NoCard}

\* processMSRTransaction with a decoded stripe.
StripeData(d) ==
  IF ~ServiceCodeAllows(d)
  THEN in_val' = "Again" /\ UNCHANGED <<field, keylod, count_fallback>>
  ELSE \/ /\ in_val' = "Stop" /\ field' = [field EXCEPT !.pan = d]
          /\ UNCHANGED <<keylod, count_fallback>>
       \/ /\ in_val' \in {"OK", "Stop"} /\ UseKey
          /\ field' = [pan |-> d, pos |-> IF count_fallback > 1 THEN "80" ELSE "90"]
          /\ count_fallback' = IF count_fallback > 1 THEN 0 ELSE count_fallback

\* ... and without: the tracks do not decode (again), or the reader reported an
\* error, which ends as a success without account number.
StripeNoData ==
  \/ in_val' = "Again" /\ UNCHANGED <<field, keylod, count_fallback>>
  \/ /\ ~inTransInProgress /\ in_val' = "OK"
     /\ count_fallback' = IF count_fallback > 1 THEN 0 ELSE count_fallback
     /\ UNCHANGED <<field, keylod>>

Stripe ==
  /\ pc = "Handle" /\ in_val = "OK" /\ chTechnology = "MSR"
  /\ \E d \in Cards \cup {NoCard} :
       /\ ReadStripe(d) /\ Datas' = d
       /\ IF d # NoCard THEN StripeData(d) ELSE StripeNoData
  /\ Served("MSR")
  /\ pc' = "Again"
  /\ UNCHANGED <<link, chTechnology, flagZ4, flagC51, inTransInProgress, Dev_type, msr,
                 sent, hand, fails>>

\* buildInitTransactionReply53: the account number, if the card gave one.
Reply53(e) == \E p \in {hand, NoCard} : field' = [pan |-> p, pos |-> e]

\* Every end of EMV_Transaction but the fallback: online, approved or declined
\* by the card, PIN cancelled, card removed, encryption failed.
EMV_Transaction == in_val' \in {"OK", "Abort", "Stop"} /\ UseKey

\* Mutant: the stripe bit stays in the technology.
Chip_StripeBitKept ==
  /\ pc = "Handle" /\ in_val = "OK" /\ chTechnology \in {"CHIP", "CHIP+MSR"}
  /\ \/ ChipFailed /\ UNCHANGED <<field, keylod>>
     \/ EMV_Transaction /\ Reply53("05") /\ UNCHANGED <<count_fallback, Dev_type, fails>>
  /\ Served("CHIP")
  /\ pc' = "Again"
  /\ UNCHANGED <<link, chTechnology, flagZ4, flagC51, inTransInProgress, Datas, msr, sent, hand>>

\* The chip falls back, or the flow runs to a result; the reply is built
\* whatever the result.
Chip ==
  /\ pc = "Handle" /\ in_val = "OK" /\ chTechnology \in {"CHIP", "CHIP+MSR"}
  /\ chTechnology' = "CHIP"
  /\ \/ ChipFailed /\ UNCHANGED <<field, keylod>>
     \/ EMV_Transaction /\ Reply53("05") /\ UNCHANGED <<count_fallback, Dev_type, fails>>
  /\ Served("CHIP")
  /\ pc' = "Again"
  /\ UNCHANGED <<link, flagZ4, flagC51, inTransInProgress, Datas, msr, sent, hand>>

\* CTLS_Transaction: contactless chip or stripe, encrypted.
CTLS_Transaction == in_val' \in {"OK", "Stop"} /\ UseKey

\* A tap of no known kind leaves the account number as it was.
Tap ==
  /\ pc = "Handle" /\ in_val = "OK" /\ chTechnology = "CTLS"
  /\ CTLS_Transaction
  /\ Reply53("07") \/ Reply53("91") \/ field' = [field EXCEPT !.pos = "None"]
  /\ Served("CTLS")
  /\ pc' = "Again"
  /\ UNCHANGED <<link, sess, Dev_type, Datas, msr, sent, hand, fails>>

\* The switch has no case for the technology: in_val stays at its success.
NoReader ==
  /\ pc = "Handle" /\ in_val = "OK" /\ chTechnology \in {"None", "KBD"}
  /\ sale' = "Unknown"
  /\ pc' = "Again"
  /\ UNCHANGED <<link, sess, keylod, trn, Datas, msr, field, sent, hand, fails>>

Again ==
  /\ pc = "Again"
  /\ pc' = IF in_val = "Again" THEN "Try" ELSE "Close"
  /\ UNCHANGED <<link, sess, keylod, trn, Datas, msr, field, sent, hist>>

\* Mutant: the failure count is not cleared with the rest.
Close_CountKept ==
  /\ pc = "Close"
  /\ sent' = Reply("C53", in_val = "OK")
  /\ msr' = "Off" /\ field' = NoFields /\ fails' = 0
  /\ Return
  /\ UNCHANGED <<link, sess, keylod, Datas, sale>>

\* Mutant: the reader is switched off only when the sale succeeded.
Close_ReaderLeftOn ==
  /\ pc = "Close"
  /\ sent' = Reply("C53", in_val = "OK")
  /\ msr' = IF in_val = "OK" THEN "Off" ELSE msr
  /\ field' = NoFields /\ count_fallback' = 0 /\ fails' = 0
  /\ Return
  /\ UNCHANGED <<link, chTechnology, flagZ4, flagC51, inTransInProgress, keylod, Datas, sale>>

\* The status is chosen, C53 goes out, reader, fields and count are cleared.
Close ==
  /\ pc = "Close"
  /\ sent' = Reply("C53", in_val = "OK")
  /\ msr' = "Off" /\ field' = NoFields /\ count_fallback' = 0 /\ fails' = 0
  /\ Return
  /\ UNCHANGED <<link, chTechnology, flagZ4, flagC51, inTransInProgress, keylod, Datas, sale>>

-----------------------------------------------------------------------------
(* The other commands *)

\* A swipe the reader reports as read may still hold no account number.
read_PAN_MSR(c) ==
  /\ Datas' \in {c, NoCard}
  /\ field' = [field EXCEPT !.pan = Datas']
  /\ flagZ4' \in {TRUE, Datas' # NoCard}

\* An account number of no bytes counts as read.
read_PAN_EMV(c) ==
  /\ \E p \in {c, NoCard} : field' = [field EXCEPT !.pan = p]
  /\ flagZ4' = TRUE /\ UNCHANGED Datas

read_PAN_CTLS(c) == read_PAN_EMV(c)

\* inDoZ4BBVA reads the account number, or nothing is read.  PAN stays in the map.
ReadAhead(t, c) ==
  \/ t = "MSR" /\ c \in Cards /\ read_PAN_MSR(c)
  \/ t = "CHIP" /\ c \in ChipCards /\ read_PAN_EMV(c)
  \/ t = "CTLS" /\ c \in ChipCards /\ read_PAN_CTLS(c)
  \/ flagZ4' = FALSE /\ UNCHANGED <<Datas, field>>

DoZ4(t, c) ==
  /\ pc = "Do" /\ frame.cmd = "Z4"
  /\ chTechnology' = t
  /\ ReadAhead(t, c)
  /\ hand' = IF flagZ4' THEN c ELSE NoCard
  /\ msr' = "Off" /\ sale' = "Unknown"
  /\ pc' = "Wait"
  /\ UNCHANGED <<link, count_fallback, flagC51, inTransInProgress, keylod, trn, sent, fails>>

\* endTransaction54 runs under the technology the last command left.
DoC54 ==
  /\ pc = "Do" /\ frame.cmd = "C54"
  /\ \/ /\ flagC51
        /\ sent' = [Reply("C54", TRUE) EXCEPT !.card = NoCard]
        /\ chTechnology' = "None" /\ flagC51' = FALSE /\ field' = NoFields
     \/ /\ ~flagC51 /\ UNCHANGED <<sent, chTechnology, flagC51, field>>
  /\ pc' = "Wait"
  /\ UNCHANGED <<link, count_fallback, flagZ4, inTransInProgress, keylod, trn, Datas, msr, hist>>

\* C23, which the dispatcher knows by its first two characters, keeps the card of Z4.
Do72 ==
  /\ pc = "Do" /\ frame.cmd \in {"72", "C23"}
  /\ flagC51' = FALSE /\ field' = NoFields
  /\ flagZ4' = (flagZ4 /\ frame.cmd = "C23")
  /\ pc' = "Wait"
  /\ UNCHANGED <<link, chTechnology, count_fallback, inTransInProgress, keylod, trn, Datas,
                 msr, sent, hist>>

DoQ8 ==
  /\ pc = "Do" /\ frame.cmd = "Q8"
  /\ chTechnology' = "None" /\ sale' = "Unknown"
  /\ pc' = "Wait"
  /\ UNCHANGED <<link, count_fallback, flagZ4, flagC51, inTransInProgress, keylod, trn, Datas,
                 msr, field, sent, hand, fails>>

\* Z11 loads a key or fails; the token of a C14 is opened with the next key.
DoKeys ==
  /\ pc = "Do" /\ frame.cmd \in {"Z11", "C14"}
  /\ IF frame.cmd = "Z11" THEN keylod' \in BOOLEAN ELSE UseKey
  /\ pc' = "Wait"
  /\ UNCHANGED <<link, sess, trn, Datas, msr, field, sent, hist>>

\* Z2, Z3, Z10, C12, C25 and the control characters touch none of this.
DoOther ==
  /\ pc = "Do" /\ frame.cmd \in {"Z2", "Other"}
  /\ pc' = "Wait"
  /\ UNCHANGED <<link, sess, keylod, trn, Datas, msr, field, sent, hist>>

-----------------------------------------------------------------------------
\* What the program does by itself, once it has a frame or a card.
Device ==
  \/ SaleWithoutKey \/ SaleByKeyboard \/ SaleByCard \/ TrySaved
  \/ Fallback \/ NoInput \/ Stripe \/ Chip \/ Tap \/ NoReader \/ Again \/ Close
  \/ \E t \in Techs, c \in Cards \cup {NoCard} : DoZ4(t, c)
  \/ DoC54 \/ Do72 \/ DoQ8 \/ DoKeys \/ DoOther

\* The cash register and the customer.
Environment ==
  \/ \E c \in Commands, g \in BOOLEAN : Receive(c, g)
  \/ \E t \in Techs, c \in Cards : Present(t, c) \/ PresentMute(t, c)
  \/ \E t \in Techs : PresentNothing(t)
  \/ Abandon

Next == Device \/ Environment

Spec == Init /\ [][Next]_vars

LiveSpec == Spec /\ WF_vars(Device)

-----------------------------------------------------------------------------
(* Properties *)

\* The stripe of a chip card goes into an answered sale only when chips failed
\* twice since the last sale that ran to its C53.  The count is a global: an
\* abandoned sale leaves it behind (FlowPinPad.cpp:2233), a Z4 keeps it (2176).
FallbackEarned ==
  (sent.cmd = "C53" /\ sent.pos \in {"80", "90"} /\ sent.pan \in ChipCards)
    => sent.fails >= 2

\* The answer of the host (C54) is processed under the reader that gave the
\* sale its success, whatever retries, fallbacks and detections came before,
\* unless a Z4 or Q8 came after the sale.
CompletionTechnology ==
  sent.cmd = "C54" => sent.sale \in {"Unknown", sent.tech}

\* Back in the main loop an acknowledged C51 has been answered with its C53,
\* and the stripe reader is off, on every path out of the loop but the failed
\* activation of the contactless reader.
SaleAnswered ==
  pc = "Wait" =>
    /\ (frame.cmd = "C51" /\ ack = "ACK") => (sent.cmd = "C53" \/ (boCtlsON /\ msr = "On"))
    /\ msr = "On" => boCtlsON

AskingForCard == pc = "Try" /\ ~Saved

\* The main loop never spins: every frame leads back to the next frame or to
\* the screen that asks for a card, through every retry of the sale's loop.
NeverSpins == (pc # "Wait") ~> (pc = "Wait" \/ AskingForCard)

\* The following three state what a comment of the source says; they fail.

\* FlowPinPad.cpp:188, a command received correctly is answered with ACK.
AckOfThisFrame == (pc = "Wait" /\ ack # "None" /\ frame.good) => ack = "ACK"

\* TRANS.cpp:675, the PAN field of a stripe C53 is built from the swipe: it is
\* the account number of the card presented for this sale.
StripeOfThisSale ==
  (sent.cmd = "C53" /\ sent.pos \in {"80", "90"}) => sent.pan = sent.card

\* FlowPinPad.cpp:41, the type of input is CHIP, MSR, KBD or CTLS: a sale that
\* succeeds has one.
SuccessHasReader ==
  (sent.cmd = "C53" /\ sent.ok) => sent.tech \in Readers \cup {"KBD"}

-----------------------------------------------------------------------------
(* The inductive invariant *)

Looping == pc \in {"Try", "Handle", "Again"}

\* The failure count never claims more than happened; a second failure has
\* taken the chip reader away, so there is no third one to overflow it.
CountInv ==
  /\ count_fallback =< fails
  /\ pc \in {"Wait", "Do"} => count_fallback =< 1
  /\ (Looping /\ count_fallback > 1) => Dev_type = {"MSR"}

\* Only a first attempt, or a reader just used, can report a chip.
AttemptInv ==
  /\ pc = "Try" => in_val \in {"OK", "Again"}
  /\ (pc = "Try" /\ in_val = "OK") => "CHIP" \in Dev_type
  /\ (pc = "Handle" /\ in_val = "NoChip") => "CHIP" \in Dev_type
  /\ (pc = "Handle" /\ in_val = "OK" /\ chTechnology \in {"CHIP", "CHIP+MSR"})
       => "CHIP" \in Dev_type
  /\ "CTLS" \in Dev_type => boCtlsON

\* POSENTRY is only set on the way to C53; a chip card's stripe is earned there.
FieldInv ==
  /\ field.pos # "None" => (pc = "Close" \/ (pc = "Again" /\ in_val # "Again"))
  /\ (field.pos \in {"80", "90"} /\ field.pan \in ChipCards) => fails >= 2

\* A success belongs to the technology that C54 will be processed under.
SaleInv ==
  /\ Looping => flagC51
  /\ flagC51 => sale \in {"Unknown", chTechnology}
  /\ pc \in {"Try", "Handle"} => sale = "Unknown"
  /\ (pc = "Again" /\ in_val = "Again") => sale = "Unknown"

ReaderInv ==
  /\ Looping => msr = "On"
  /\ (pc \in {"Wait", "Do"} /\ msr = "On") => boCtlsON

IInv ==
  /\ TypeOK /\ CountInv /\ AttemptInv /\ FieldInv /\ SaleInv /\ ReaderInv
  /\ FallbackEarned /\ CompletionTechnology /\ SaleAnswered
=============================================================================
