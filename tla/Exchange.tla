------------------------------ MODULE Exchange ------------------------------
(***************************************************************************)
(* The data of a sale between C51 and C54: which card and which reading    *)
(* the answers C53 and C54 speak of (module Tokens), and the issuer's      *)
(* scripts, which come in C25 commands and go to the card with the host's  *)
(* answer (inDoC25BBVA, Host_Response, Script_Format).                     *)
(*                                                                         *)
(* The result structures are cleared when C51 begins and at no other time  *)
(* between two readings; the field map is cleared when a C53 or a C54 has  *)
(* been sent and when 72 cancels, but not by a C51 that ends early.  How a *)
(* reading comes out is the business of ChipSale and CmdFlow; here a chip  *)
(* fails, or a card is read, and the kernel's data are chosen.             *)
(***************************************************************************)
EXTENDS Tokens, SequencesExt

CONSTANTS Data,         \* what a kernel may hold, without the card
          Amounts,
          Requests,     \* the tags an ECR may ask for, in RTOKE1 or TOKE2
          Messages,     \* the C25 an ECR may send
          ScriptLimit,  \* commands a script may have (500 bytes)
          MaxSales,     \* bound: C51 in a behaviour
          MaxMessages,  \* bound: C25 in a behaviour
          MaxEvents     \* bound: C51, chips and taps of the last sale, and C25 together

Types == {"71", "72", "Other"}
Numbers == {"01", "81", "91", "Other"}
Flags == {"0", "1", "Other"}
Texts == {"9F18", "Command", "Pad"}

ASSUME ExchangeAssumption ==
  /\ Data \subseteq KernelData({NoCard})
  /\ Amounts \subseteq Nat
  /\ \A r \in Requests : r \subseteq E2Tags
  /\ \A m \in Messages : /\ m.type \in Types /\ m.num \in Numbers /\ m.flag \in Flags
                         /\ m.body \in Seq(Texts) /\ m.sent \in BOOLEAN
  /\ ScriptLimit \in Nat /\ MaxSales \in Nat /\ MaxMessages \in Nat /\ MaxEvents \in Nat

VARIABLES
  phase,           \* Idle, Reading (the loop of C51) or Open (flagC51, C51 is over)
  chTechnology,
  count_fallback,
  attempt,         \* cards presented in this sale
  kernel,          \* of chTechnology
  res,             \* pxTransRes and CTLSTransRes
  stValue,         \* AMOUNT, SCRIPT, SCRIPT_aux, SCRIPT71 and SCRIPT72
  log,             \* the C25 since the map was last cleared, None if out of order
  sale, count,     \* C51 and C25 so far
  sent,            \* the last C53 or C54
  given            \* the scripts in xOnlineInputCT at the last C54, with their log

session == <<phase, chTechnology, count_fallback, attempt>>
reading == <<kernel, res>>
map     == <<stValue, log>>
vars    == <<session, reading, map, sale, count, sent, given>>

NoFields == [amount |-> 0, script |-> <<>>, aux |-> <<>>, s71 |-> <<>>, s72 |-> <<>>]

NoToken1 == [aid |-> NoCard, data |-> None, cvm |-> None, flag |-> None, cid |-> None,
             entry |-> None, pin |-> None, f6e |-> None]
NoToken2 == [t \in {} |-> None]

NoAnswer == [cmd |-> "None", sale |-> 0, tech |-> "None", chip |-> FALSE,
             kernel |-> NoKernel, info |-> None, e1 |-> NoToken1, e2 |-> NoToken2,
             cut |-> FALSE, form |-> "Blank"]

NothingGiven == [log |-> <<>>, s71 |-> << <<>> >>, s72 |-> << <<>> >>]

Card(s) == [sale |-> sale, try |-> attempt', scheme |-> s]
Cards == [sale : 1 .. MaxSales, try : 1 .. 3, scheme : Schemes]

Scripts == Seq(Texts)

TypeOK ==
  /\ phase \in {"Idle", "Reading", "Open"}
  /\ chTechnology \in {"None", "CHIP", "TAP", "MSR", "KBD"}
  /\ count_fallback \in 0 .. 2 /\ attempt \in 0 .. 3
  /\ kernel \in KernelData(Cards \cup {NoCard})
  /\ res.ct \in Cards \cup {NoCard} /\ res.ctls \in Cards \cup {NoCard}
  /\ res.info \in {None, "CHIP", "MSR"}
  /\ stValue.amount \in Amounts \cup {0}
  /\ stValue.script \in Scripts /\ stValue.aux \in Scripts
  /\ stValue.s71 \in Scripts /\ stValue.s72 \in Scripts
  /\ sale \in 0 .. MaxSales /\ count \in 0 .. MaxMessages
  /\ sent.e1.aid \in Cards \cup {NoCard}

Init ==
  /\ phase = "Idle" /\ chTechnology = "None" /\ count_fallback = 0 /\ attempt = 0
  /\ kernel = NoKernel /\ res = NoResults
  /\ stValue = NoFields /\ log = <<>>
  /\ sale = 0 /\ count = 0 /\ sent = NoAnswer /\ given = NothingGiven

-----------------------------------------------------------------------------
(* C51 *)

\* Mutant: the result structures are not cleared.
StartSale_ResultsKept(amount) ==
  /\ phase \in {"Idle", "Open"} /\ sale < MaxSales /\ sale + count < MaxEvents
  /\ sale' = sale + 1
  /\ phase' = "Reading" /\ chTechnology' = "None" /\ count_fallback' = 0 /\ attempt' = 0
  /\ kernel' = NoKernel
  /\ stValue' = [stValue EXCEPT !.amount = amount]
  /\ UNCHANGED <<res, log, count, sent, given>>

\* A C51 is taken at any time; the map keeps what it holds.
StartSale(amount) ==
  /\ phase \in {"Idle", "Open"} /\ sale < MaxSales /\ sale + count < MaxEvents
  /\ sale' = sale + 1
  /\ phase' = "Reading" /\ chTechnology' = "None" /\ count_fallback' = 0 /\ attempt' = 0
  /\ kernel' = NoKernel /\ res' = NoResults
  /\ stValue' = [stValue EXCEPT !.amount = amount]
  /\ UNCHANGED <<log, count, sent, given>>

Present == phase = "Reading" /\ attempt' = attempt + 1
InBounds == sale + attempt + count < MaxEvents

\* A chip fails: without an answer, or in EMVFLOW, which has cleared pxTransRes
\* and may have the AID by then.
ChipFails(s, d) ==
  /\ Present /\ InBounds /\ count_fallback < 2
  /\ chTechnology' = "CHIP" /\ count_fallback' = count_fallback + 1
  /\ \/ UNCHANGED reading
     \/ /\ kernel' = [d EXCEPT !.card = Card(s)]
        /\ \E c \in {NoCard, Card(s)} : res' = [res EXCEPT !.ct = c]
  /\ UNCHANGED <<phase, map, sale, count, sent, given>>

\* The answers to C53 and C54, as the reply builders find things.
Answer(cmd, tech, req) ==
  LET chip == tech = "CHIP" \/ (tech = "TAP" /\ Check_typ_CTLS(res') = "CHIP")
      e1   == chip /\ cmd = "C53"
      e2   == assembleTokenE2(req, kernel', res', tech, cmd, stValue.amount)
  IN [cmd |-> cmd, sale |-> sale, tech |-> tech, chip |-> chip,
      kernel |-> kernel', info |-> Check_typ_CTLS(res'),
      e1 |-> IF e1 THEN assembleTokenE1(kernel', res', tech, stValue.amount) ELSE NoToken1,
      e2 |-> IF chip THEN e2 ELSE NoToken2,
      cut |-> e1 /\ kernel'.data = "Value" /\ identify_AMEX_card(kernel', res'),
      form |-> IF cmd = "C53" THEN FormFactor(kernel', res', tech) ELSE "Blank"]

\* Mutant: the map is left as it is.
Close53_MapKept(req) ==
  /\ phase' = "Open" /\ count_fallback' = 0
  /\ sent' = Answer("C53", chTechnology', req)
  /\ stValue' = stValue /\ log' = <<>>
  /\ UNCHANGED <<sale, count, given>>

\* buildInitTransactionReply53, and the end of initTransaction51.
Close53(req) ==
  /\ phase' = "Open" /\ count_fallback' = 0
  /\ sent' = Answer("C53", chTechnology', req)
  /\ stValue' = NoFields /\ log' = <<>>
  /\ UNCHANGED <<sale, count, given>>

\* Mutant: a chip is tried a third time.
ReadChip_Thrice(s, d, req) ==
  /\ Present /\ InBounds
  /\ chTechnology' = "CHIP"
  /\ kernel' = [d EXCEPT !.card = Card(s)]
  /\ \/ UNCHANGED res
     \/ \E c \in {NoCard, Card(s)} : res' = [res EXCEPT !.ct = c]
  /\ phase' = "Open" /\ count_fallback' = (IF attempt' > 2 THEN attempt' ELSE 0)
  /\ sent' = Answer("C53", chTechnology', req)
  /\ stValue' = NoFields /\ log' = <<>>
  /\ UNCHANGED <<sale, count, given>>

\* A chip is read to some end; the selection may already have failed, and
\* pxTransRes is then the one of the chip before.
ReadChip(s, d, req) ==
  /\ Present /\ InBounds /\ count_fallback < 2
  /\ chTechnology' = "CHIP"
  /\ kernel' = [d EXCEPT !.card = Card(s)]
  /\ \/ UNCHANGED res
     \/ \E c \in {NoCard, Card(s)} : res' = [res EXCEPT !.ct = c]
  /\ Close53(req)

\* A tap: EMV_CTLS_ContinueOffline fills CTLSTransRes, or fails.
ReadTap(s, d, kind, req) ==
  /\ Present /\ InBounds /\ count_fallback < 2
  /\ chTechnology' = "TAP"
  /\ kernel' = [d EXCEPT !.card = Card(s)]
  /\ res' = [res EXCEPT !.ctls = IF kind = None THEN NoCard ELSE Card(s), !.info = kind,
                        !.cvm = IF Has(d.cvm) THEN d.cvm ELSE Cvm(0, 0)]
  /\ Close53(req)

\* A stripe, a keyed number, or no card at all.
ReadOther(t) ==
  /\ Present
  /\ chTechnology' = t
  /\ UNCHANGED reading
  /\ Close53({})

\* The contactless reader cannot be set up: C51 ends without an answer.
Abandon ==
  /\ phase = "Reading" /\ count_fallback < 2
  /\ phase' = "Open"
  /\ UNCHANGED <<chTechnology, count_fallback, attempt, reading, map, sale, count, sent, given>>

-----------------------------------------------------------------------------
(* C25 *)

\* SCRIPT: a message that ends before it leaves the one of the message before.
Script(m) ==
  IF m.sent THEN m.body ELSE stValue.script

\* FLAG_FILE 1 replaces a script and 0 asks to append, but only to a file that
\* nothing reads: both store the script.
Complete(m) == m.num \in {"01", "91"} /\ m.flag \in {"0", "1"}

\* Mutant: a last part is taken for the whole script.
Assembled_LastPartOnly(m, script, pad) == script

\* A last part goes behind the first one, of whichever type that was.
Assembled(m, script, pad) ==
  IF m.num = "01" THEN script ELSE pad \o stValue.aux \o script

\* What a C25 stores: a complete script, or a first part.
Stored71(m, script) ==
  CASE Complete(m)    -> [stValue EXCEPT !.s71 = Assembled(m, script, <<>>)]
    [] m.num = "81"   -> [stValue EXCEPT !.aux = script]
    [] OTHER          -> stValue

\* A script of type 72 that came in parts has two zero bytes in front.
Stored72(m, script) ==
  CASE Complete(m)    -> [stValue EXCEPT !.s72 = Assembled(m, script, <<"Pad">>)]
    [] m.num = "81"   -> [stValue EXCEPT !.aux = script]
    [] OTHER          -> stValue

\* It is answered 00, also when nothing was stored; 02 without a script or with
\* an unknown type.
Status25(m, script) == IF script = <<>> \/ m.type = "Other" THEN "02" ELSE "00"

\* A sequence of C25 as the ECR means it: whole scripts, and first parts
\* each followed by its last part.
Orderly(ms) ==
  \A i \in 1 .. Len(ms) :
    /\ ms[i].sent /\ ms[i].type \in {"71", "72"} /\ ms[i].num \in {"01", "81", "91"}
    /\ ms[i].flag \in {"0", "1"} /\ ms[i].body # <<>>
    /\ ms[i].num = "91" => i > 1 /\ ms[i - 1].num = "81" /\ ms[i - 1].type = ms[i].type

\* One that is not is of no interest.
Logged(m) ==
  IF log # None /\ Orderly(Append(log, m)) THEN Append(log, m) ELSE None

inDoC25BBVA(m) ==
  /\ phase \in {"Idle", "Open"} /\ count < MaxMessages /\ InBounds
  /\ count' = count + 1
  /\ LET script == Script(m)
         next   == IF Status25(m, script) # "00" THEN stValue
                   ELSE IF m.type = "71" THEN Stored71(m, script) ELSE Stored72(m, script)
     IN /\ stValue' = [next EXCEPT !.script = script]
        /\ log' = Logged(m)
  /\ UNCHANGED <<session, reading, sale, sent, given>>

-----------------------------------------------------------------------------
(* C54, and 72 *)

\* Script_Format: blocks of commands, a new one at each script identifier (9F18)
\* but a first; nothing when the script is too long.
Script_Format(script) ==
  LET Blocks[i \in 0 .. Len(script)] ==
        IF i = 0 THEN << <<>> >>
        ELSE IF script[i] = "9F18" /\ Last(Blocks[i - 1]) # <<>>
               THEN Append(Blocks[i - 1], <<script[i]>>)
               ELSE Append(Front(Blocks[i - 1]), Append(Last(Blocks[i - 1]), script[i]))
  IN IF Len(script) > ScriptLimit THEN << <<>> >> ELSE Blocks[Len(script)]

\* Host_Response: scripts are for the card in the slot only.
Given ==
  [log |-> log, s71 |-> Script_Format(stValue.s71), s72 |-> Script_Format(stValue.s72)]

\* The second cryptogram; the data of a kernel that fails are those it had.
Second(k) == {k} \cup {[k EXCEPT !.cid = c] : c \in IF k.cid = Absent THEN {} ELSE {"TC", "AAC"}}

\* endTransaction54, and C54 is sent: the card in the slot may be gone, and the
\* answer has no token then.  The sale is closed and the map cleared.
EndSale(req, present) ==
  LET here == chTechnology = "CHIP" /\ present
  IN /\ phase = "Open" /\ phase' = "Idle"
     /\ IF here \/ chTechnology = "TAP" THEN kernel' \in Second(kernel) ELSE UNCHANGED kernel
     /\ given' = IF here THEN Given ELSE NothingGiven
     /\ UNCHANGED <<res, count_fallback, attempt, sale, count>>
     /\ sent' = Answer("C54", chTechnology, IF chTechnology = "CHIP" /\ ~present THEN {} ELSE req)
     /\ chTechnology' = "None" /\ stValue' = NoFields /\ log' = <<>>

\* 72: the sale is given up.
Cancel ==
  /\ phase \in {"Idle", "Open"} /\ phase' = "Idle"
  /\ stValue' = NoFields /\ log' = <<>>
  /\ UNCHANGED <<chTechnology, count_fallback, attempt, reading, sale, count, sent, given>>

Next ==
  \/ \E a \in Amounts : StartSale(a)
  \/ \E s \in Schemes, d \in Data : ChipFails(s, d)
  \/ \E s \in Schemes, d \in Data, req \in Requests : ReadChip(s, d, req)
  \/ \E s \in Schemes, d \in Data, req \in Requests, kind \in {None, "CHIP", "MSR"} :
       ReadTap(s, d, kind, req)
  \/ \E t \in {"None", "MSR", "KBD"} : ReadOther(t)
  \/ Abandon
  \/ \E m \in Messages : inDoC25BBVA(m)
  \/ \E req \in Requests, present \in BOOLEAN : EndSale(req, present)
  \/ Cancel

Spec == Init /\ [][Next]_vars

-----------------------------------------------------------------------------
(* Properties *)

\* What C53 tells of a card is of the card that was read, though the results of
\* the reader are shared by all cards: the AID of E1 is that card's, or, when the
\* kernel has 4F empty, that of an earlier card of the same sale; a CVM result
\* for a card in the slot is its kernel's; and the account number loses its last
\* digit only for an Amex card, with the same exception.
OwnData ==
  LET k == sent.kernel
      Own(c) == \/ c = k.card
                \/ k.aid = Empty /\ c.sale = sent.sale /\ c.try < k.card.try
  IN sent.cmd = "C53" /\ sent.chip =>
       /\ sent.e1.aid # NoCard => Own(sent.e1.aid)
       /\ sent.tech = "CHIP" => sent.e1.cvm \in {None, k.cvm}
       /\ sent.cut => IsScheme(k.card, "Amex") \/ k.aid = Empty

\* The three places that tell the host how the cardholder was verified agree: 9F34
\* in E1 and in E2, and in the C54 of the same card.  One case apart: a tapped
\* Visa card whose kernel has no 9F34 gets a method from the amount, and the
\* amount is gone by C54.
CvmAgrees ==
  [][LET asked == "9F34" \in DOMAIN sent'.e2
         gone  == IsScheme(sent'.kernel.card, "Visa") /\ sent'.tech = "TAP"
                  /\ ~Has(sent'.kernel.cvm) /\ sent'.kernel.ctq = "Other"
     IN /\ sent'.cmd = "C53" /\ asked => sent'.e2["9F34"] = sent'.e1.cvm
        /\ sent.cmd = "C53" /\ sent'.cmd = "C54" /\ sent'.sale = sent.sale /\ asked /\ ~gone
             => sent'.e2["9F34"] = sent.e1.cvm]_sent

\* The script of type t they make up: the last one that is complete.
Meant(ms, t) ==
  LET ends == {i \in 1 .. Len(ms) : ms[i].type = t /\ ms[i].num \in {"01", "91"}}
  IN IF ends = {} THEN <<>>
     ELSE LET i == Max(ends)
          IN IF ms[i].num = "01" THEN ms[i].body ELSE ms[i - 1].body \o ms[i].body

\* When the ECR sends its scripts in order, and none is longer than the buffers
\* (a last part of type 72 has two bytes more), the card gets with the host's
\* answer the commands of the last complete script of each type, all of them, in
\* order, and of no script of a sale before; at most the two zero bytes stand in
\* front of those of type 72.
ScriptsWhole ==
  given.log # None =>
    LET s71 == Meant(given.log, "71")
        s72 == Meant(given.log, "72")
    IN /\ Len(s71) < ScriptLimit => FlattenSeq(given.s71) = s71
       /\ Len(s72) < ScriptLimit => FlattenSeq(given.s72) \in {s72, <<"Pad">> \o s72}

-----------------------------------------------------------------------------
(* The invariant of the proofs *)

Fields == [amount : Amounts \cup {0}, script : Scripts, aux : Scripts, s71 : Scripts,
           s72 : Scripts]
Cvms == {Cvm(0, 0)} \cup (CvmData \ {Absent, Empty})
ResultData == [ct : Cards \cup {NoCard}, ctls : Cards \cup {NoCard},
               info : {None, "CHIP", "MSR"}, cvm : Cvms]

Shapes == res \in ResultData /\ stValue \in Fields /\ sent.sale \in 0 .. sale

\* While cards are read: every chip so far has failed and was one of this sale,
\* and nothing has been tapped.
WhileReading ==
  phase = "Reading" =>
    /\ attempt = count_fallback /\ sale > 0 /\ sent.sale < sale
    /\ res.ctls = NoCard /\ res.info = None
    /\ res.ct # NoCard => res.ct.sale = sale /\ res.ct.try =< attempt

\* After C53 the kernel and the results are those it told of.
AsSent ==
  phase = "Open" /\ sent.cmd = "C53" /\ sent.sale = sale =>
    /\ sent.tech = chTechnology /\ sent.kernel = kernel /\ sent.info = res.info
    /\ sent.chip <=> chTechnology = "CHIP" \/ (chTechnology = "TAP" /\ res.info = "CHIP")
    /\ sent.chip =>
         /\ sent.e1.cvm \in {E1Cvm(kernel, res, a) : a \in Amounts \cup {0}}
         /\ chTechnology = "CHIP" => res.info = None
         /\ chTechnology = "TAP" => /\ res.ctls = kernel.card
                                    /\ Has(kernel.cvm) => res.cvm = kernel.cvm

\* What the scripts kept have to do with the messages taken.
AsLogged ==
  log # None =>
    /\ log \in Seq(Messages) /\ Orderly(log)
    /\ Meant(log, "71") \in Scripts /\ Meant(log, "72") \in Scripts
    /\ stValue.s71 = Meant(log, "71")
    /\ stValue.s72 \in {Meant(log, "72"), <<"Pad">> \o Meant(log, "72")}
    /\ log # <<>> /\ Last(log).num = "81" => stValue.aux = Last(log).body

IInv ==
  /\ TypeOK /\ Shapes
  /\ WhileReading /\ AsSent /\ AsLogged
  /\ OwnData /\ ScriptsWhole
=============================================================================
