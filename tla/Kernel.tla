------------------------------- MODULE Kernel -------------------------------
(***************************************************************************)
(* What the terminal tells the vendor's EMV kernels and what it answers    *)
(* when they ask (VosEMVProcess.cpp): the start of the frameworks, the     *)
(* data of a sale, the sequence number of a chip sale, and emvCallback,    *)
(* which a kernel calls in the middle of a sale.                           *)
(*                                                                         *)
(* Pure operators; the sale that uses them is module ChipSale, the start   *)
(* of the program Link.  What they compute is checked in MCKernel.  The    *)
(* kernels, the dialogs and the BTLV library are external.                 *)
(***************************************************************************)
EXTENDS Integers, SequencesExt

OK == "EMV_ADK_OK"

-----------------------------------------------------------------------------
(* The frameworks.  The tables of terminal, applications and keys are read *)
(* from XML by the kernel itself (the library is built with XMLFILES).     *)

Init_EMV(framework) == IF framework = OK THEN OK ELSE "EMV_INIT_ERR_INIT_KERNEL"

\* The strip of the contactless lights: what is left of it on other screens is empty.
NoStrip == [x |-> 0, y |-> 0, w |-> 0, h |-> 0]
Strip(w, h) ==
  CASE h = 480 /\ w >= 800 -> [x |-> w, y |-> 52, w |-> w, h |-> 25]
    [] h = 480 /\ w < 800  -> [x |-> 0, y |-> 86, w |-> w, h |-> 25]
    [] h = 320             -> [x |-> 0, y |-> 40, w |-> 240, h |-> 20]
    [] OTHER               -> NoStrip

\* The lights are set up, or the framework is left; their own result is ignored.
Init_EMV_CTLS(framework, w, h) ==
  [result |-> framework, exited |-> framework # OK,
   strip |-> IF framework = OK THEN Strip(w, h) ELSE NoStrip]

\* Any error becomes 1.
ApplyCTLSConfiguration(erg) == IF erg = OK THEN OK ELSE "1"

-----------------------------------------------------------------------------
(* The data of a sale *)

\* A word of four bytes, a byte having B values.
Word(B) == B * B * B * B

\* The bytes of AMOUNT or CASHBACK, the first ones shifted out by a fifth.
WordOf(bytes, B) == FoldLeft(LAMBDA w, b : (w * B + b) % Word(B), 0, bytes)

\* "%4d" prints the word as a signed number.
Printed(v, B) == IF 2 * v < Word(B) THEN v ELSE v - Word(B)

\* The two are added, printed, and read back by atol into an unsigned long.
SaleAmount(amount, cashback, B) ==
  Printed((WordOf(amount, B) + WordOf(cashback, B)) % Word(B), B) % Word(B)

\* Two digits a byte, from the last byte on; left is what had no room.
bcdfromulong(value, size) ==
  FoldLeft(LAMBDA r, i : [bcd  |-> <<16 * ((r.left \div 10) % 10) + (r.left % 10)>> \o r.bcd,
                          left |-> r.left \div 100],
           [bcd |-> <<>>, left |-> value], [i \in 1 .. size |-> i])

Bcd1(n) == bcdfromulong(n, 1).bcd

vdGetTime(t) == Bcd1(t.hour) \o Bcd1(t.min) \o Bcd1(t.sec)
vdGetDate(t) == Bcd1(t.year % 100) \o Bcd1(t.mon + 1) \o Bcd1(t.mday)

SelectOptions ==
  {"CBCK_APPLI_SEL", "AMOUNT_CONF", "MULTIPLE_RANDOM_NUMBERS", "PIN_BYPASS_NO_SUBSEQUENT",
   "LOCAL_CHCK_CALLBACK", "CARDHINFO_CALLBACK", "NO_FALLBACK_AFTER_CVM",
   "APPLI_SELECTION_PERFORMED"}

\* The start of a chip sale; info is the set of data the kernel is told are there.
\* Cashback is announced when there is some.
Set_CT_TransactionData(amount, cashback, txntype, t) ==
  [TransType |-> txntype, BuildList |-> "BUILD_NEW", Fallback |-> "CHIP_APP",
   Force |-> {}, CardholderConfirmation |-> TRUE, TxnOptions |-> SelectOptions,
   Amount |-> bcdfromulong(amount, 6).bcd,
   Cashback_Amount |-> bcdfromulong(cashback, 6).bcd,
   Date |-> vdGetDate(t), Time |-> vdGetTime(t),
   info |-> {"BUILDLIST", "TTYPE", "NO_PSE", "CARDCONF", "AMOUNT", "FORCE_ONLINE",
             "FORCE_ACCEPT", "ONLINE_SWITCH", "TXN_OPTIONS", "FALLBACK_MSR", "DATE", "TIME"}
            \cup (IF cashback > 0 THEN {"CB_AMOUNT"} ELSE {})]

\* What the kernel is told once an application is selected: the amount is not said
\* again, the options are those of the start and two callbacks more.
EMV_Setup_TXN_CT_Data(cashback, start) ==
  [TxnOptions |-> start.TxnOptions
                    \cup {"PIN_BYPASS_NO_SUBSEQUENT", "DCC_CALLBACK_ALWAYS", "DCC_CALLBACK"},
   Cashback_Amount |-> bcdfromulong(cashback, 6).bcd,
   AccountType |-> 0, Language |-> "NO_LANG", AmountConfirmation |-> "BEFORE_CVM",
   Result_Tags |-> {"9F33", "8F"},
   info |-> {"LANGUAGE", "AMOUNT_CONF", "ADD_TAGS", "TXN_OPTIONS"}
            \cup (IF cashback > 0 THEN {"CB_AMOUNT"} ELSE {})]

\* The start of a contactless sale is changed in place: what it holds else stays.
vdSetCTLSTransactionData(start, amount, t) ==
  [start EXCEPT !.TransType = "GOODS_SERVICE", !.Amount = bcdfromulong(amount, 6).bcd,
                !.TxnOptions = {"L1_ERROR_CALLBACK"}, !.Passthrough = FALSE,
                !.Date = vdGetDate(t), !.Time = vdGetTime(t),
                !.info = @ \cup {"TTYPE", "AMOUNT", "ONLINE_SWITCH", "TXN_OPTIONS",
                                 "DATE", "TIME", "PASSTHROUGH"}]

\* vdIncraseTSNCts: the number of this sale (tag 9F41) and what is kept for the next.
\* With no file (0) the number is 1, and 1 is kept.
TSN(file, top) ==
  [sent |-> IF file = 0 THEN 1 ELSE file, file |-> IF file = top THEN 1 ELSE file + 1]

-----------------------------------------------------------------------------
(* The choice of an application *)

\* Of the first aids labels, what fits a buffer of size characters.
Offered(labels, aids, size) ==
  LET Cut(s, n) == SubSeq(s, 1, IF Len(s) < n THEN Len(s) ELSE n)
  IN [i \in DOMAIN Cut(labels, aids) |-> Cut(labels[i], size)]

\* The menu has the labels with their places, from 0.  pick is the entry that was
\* chosen or a negative error; what the menu gives is kept.
UI_ShowSelection(st, shown, pick) ==
  LET menu == [i \in DOMAIN shown |-> [text |-> shown[i], value |-> i - 1]]
      r    == IF pick < 0 THEN pick ELSE menu[pick].value
  IN [st |-> [st EXCEPT !.uiSelectionTimeout = r], key |-> r]

\* The kernel counts from 1.
SelectEmvApplication(r) == IF r < 0 THEN r ELSE r + 1

IsSelectionTimeout(st) == st.uiSelectionTimeout = -3

-----------------------------------------------------------------------------
(* emvCallback.  A question q is the tag of the callback and the data in it *)
(* that have the size the code wants; what[...] are the answers of dialogs *)
(* and of the slot.  Each handler gives the terminal's variables, and the  *)
(* data under F0 or, when ok is FALSE, nothing.                            *)

Start == [gucAmountConfirmed |-> FALSE, cbk_Error_Id |-> 0, fRemovedCard |-> FALSE,
          uiSelectionTimeout |-> 0, gszCurrecyCode |-> ""]

Has(q, tag) == tag \in DOMAIN q.data
\* A buffer that was not filled.
Get(q, tag) == IF Has(q, tag) THEN q.data[tag] ELSE "Garbage"

Silent(st) == [st |-> st, ok |-> FALSE, out |-> <<>>]
Echo(st, q) == [st |-> st, ok |-> TRUE, out |-> q.data]
Says(st, out) == [st |-> st, ok |-> TRUE, out |-> out]

\* A dialog is shown again as long as the screen is taken.
ConfirmDialog(answers) == SelectSeq(answers, LAMBDA a : a # "UI_ERR_PERMISSION")[1]

Looked(st, present) == [st EXCEPT !.fRemovedCard = @ \/ ~present]

\* UIEnterPin: the result is a byte, and the slot is looked at.
UIEnterPin(st, result, present) == [code |-> result % 256, st |-> Looked(st, present)]

\* The merchant's data are given back as they came.
MerchInfo(st, q) == IF Has(q, "DF70") THEN Echo(st, q) ELSE Silent(st)

AmountConf(st, q, answers) ==
  IF Has(q, "9F02")
  THEN LET yes == ConfirmDialog(answers) = "OK" \/ st.gucAmountConfirmed
       IN Says([st EXCEPT !.gucAmountConfirmed = yes], [DF71 |-> yes])
  ELSE Silent(st)

\* vdFormatCurrencyCode
Currency(code) ==
  CASE code = "0124" -> "CA$" [] code = "0937" -> "Bs." [] code = "0840" -> "$"
    [] OTHER         -> "US$"

\* The floor limit is raised by one and lowered again.
LocalChecks(st, q) ==
  IF Has(q, "5A")
  THEN Says([st EXCEPT !.gszCurrecyCode = Currency(Get(q, "9F42"))],
            [t \in {"9F1B", "9F02", "9F42"} |-> Get(q, t)])
  ELSE Silent(st)

Dcc(st, q) == IF Has(q, "5A") THEN Says(st, [DF7D |-> "NO_TRX_CONTINUE"]) ELSE Silent(st)

\* pin is what ENTER_PIN did: its code, and the card's two bytes.
Pin(st, q, pin) ==
  IF Has(q, "DF79") /\ Has(q, "DF41")
  THEN Says(st, IF pin.code = "OKAY" /\ q.data["DF79"] \in {"ENCIPHERED", "PLAIN"}
                THEN [DF79 |-> pin.code, DF6F |-> pin.sw] ELSE [DF79 |-> pin.code])
  ELSE Silent(st)

\* Lights and texts: the kernel gets no data.  The text is shown by Detect_input.
TextDisplay(st, q) == Silent([st EXCEPT !.cbk_Error_Id = Get(q, "DF8F12")])

\* The number of the application is one byte.
ReduceCand(st, choice) ==
  LET s == UI_ShowSelection(st, choice.shown, choice.pick)
  IN Says(s.st, [DF75 |-> SelectEmvApplication(s.key) % 256])

\* An empty slot is noted, and the question given back.
CardholderInfo(st, q, present) == Echo(Looked(st, present), q)

emvCallback(st, q, what) ==
  CASE q.cbk = "CBK_MERCHINFO"      -> MerchInfo(st, q)
    [] q.cbk = "CBK_AMOUNTCONF"     -> AmountConf(st, q, what.answers)
    [] q.cbk = "CBK_LOCAL_CHECKS"   -> LocalChecks(st, q)
    [] q.cbk = "CBK_DCC"            -> Dcc(st, q)
    [] q.cbk = "CBK_PIN"            -> Pin(st, q, what.pin)
    [] q.cbk = "CBK_TEXT_DISPLAY"   -> TextDisplay(st, q)
    [] q.cbk = "CBK_REDUCE_CAND"    -> ReduceCand(st, what.choice)
    [] q.cbk = "CBK_CARDHOLDERINFO" -> CardholderInfo(st, q, what.present)
    [] OTHER                        -> Silent(st)

\* The empty template F0 00, if there is room for it.
CallbackInit_OutTLV(room) == IF room >= 2 THEN [out |-> "F000", size |-> 2]
                                          ELSE [out |-> "Untouched", size |-> room]

\* The export: n bytes, or -1 when they do not fit; the size is an unsigned short, so
\* the test for an error sees 65535.
Exported(r, n, room) ==
  IF ~r.ok THEN CallbackInit_OutTLV(room)
  ELSE LET size == (IF n <= room THEN n ELSE -1) % 65536
       IN IF size = 0 THEN CallbackInit_OutTLV(0)
          ELSE [out |-> IF n <= room THEN r.out ELSE "Untouched", size |-> size]
=============================================================================
