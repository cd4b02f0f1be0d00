------------------------------ MODULE MCKernel ------------------------------
(* What the operators of Kernel compute.  Words are of four bytes of two or *)
(* three values, in place of 256.                                           *)
EXTENDS Kernel, FiniteSets

Bytes4(B) == [1 .. 4 -> 0 .. B - 1]

\* EMV_Transaction and Set_CT_TransactionData: printed as a signed number and read
\* back as an unsigned one, the amount of a sale is the sum of AMOUNT and CASHBACK,
\* unless the sum has no room in a word.
ASSUME AmountOfTheSale ==
  \A B \in {2, 3} : \A a, c \in Bytes4(B) :
    LET sum == WordOf(a, B) + WordOf(c, B)
    IN SaleAmount(a, c, B) = IF sum < Word(B) THEN sum ELSE sum - Word(B)

\* A fifth byte in front is lost: the amount is that of the last four.
ASSUME FifthByte ==
  \A a \in Bytes4(3), b \in 0 .. 2 : SaleAmount(<<b>> \o a, <<>>, 3) = WordOf(a, 3)

\* bcdfromulong: the digits are those of the number, and what has no room is told.
BcdValue(bcd) == FoldLeft(LAMBDA v, b : 100 * v + 10 * (b \div 16) + (b % 16), 0, bcd)
ASSUME BcdDigits ==
  \A size \in 1 .. 3, v \in {100 * i + 7 * j : i \in 0 .. 150, j \in 0 .. 14} :
    LET r == bcdfromulong(v, size)
    IN /\ BcdValue(r.bcd) = v % (100 ^ size) /\ (r.left # 0) = (v >= 100 ^ size)
       /\ Len(r.bcd) = size /\ \A i \in 1 .. size : r.bcd[i] % 16 < 10

\* vdIncraseTSNCts: in a row of sales from a terminal without a file, the first two
\* have the same number, and no other two in a row.
Numbers(n, top) ==
  FoldLeft(LAMBDA r, i : LET t == TSN(r.file, top)
                         IN [sent |-> r.sent \o <<t.sent>>, file |-> t.file],
           [sent |-> <<>>, file |-> 0], [i \in 1 .. n |-> i]).sent
ASSUME FirstNumberTwice ==
  \A top \in 2 .. 6 : LET s == Numbers(3 * top, top)
                      IN \A i \in 1 .. 3 * top - 1 : (s[i] = s[i + 1]) = (i = 1)

\* emvCallback, over the questions of a few sales: the kernel is told the amount is
\* confirmed when the customer confirmed this one or any before, since the flag is
\* never taken back.
AnswersTold(dialogs) ==
  FoldLeft(LAMBDA r, d :
             LET a == emvCallback(r.st, [cbk |-> "CBK_AMOUNTCONF", data |-> [t \in {"9F02"} |-> 1]],
                                  [answers |-> <<"UI_ERR_PERMISSION", d>>])
             IN [st |-> a.st, told |-> r.told \o <<a.out.DF71>>],
           [st |-> Start, told |-> <<>>], dialogs).told
ASSUME ConfirmedForGood ==
  \A n \in 1 .. 4 : \A dialogs \in [1 .. n -> {"OK", "Cancel"}] :
    \A i \in 1 .. n :
      AnswersTold(dialogs)[i] = (\E j \in 1 .. i : dialogs[j] = "OK")

\* Whatever data come with them, the callbacks on local checks and on currency never
\* change the amount, the floor limit or the currency of the sale.
Tags == {"5A", "9F1B", "9F02", "9F42", "5F24"}
ASSUME SaleUnaltered ==
  \A have \in SUBSET Tags, cbk \in {"CBK_LOCAL_CHECKS", "CBK_DCC"} :
    LET q == [cbk |-> cbk, data |-> [t \in have |-> t]]
        a == emvCallback(Start, q, <<>>)
    IN /\ a.ok = ("5A" \in have)
       /\ \A t \in DOMAIN a.out \cap have : a.out[t] = t

\* The number of the application is that of a label that was shown; a dialog that
\* failed or timed out gives a number above every list, and the time-out is known.
ASSUME ChosenApplication ==
  \A n \in 1 .. 12, pick \in (-3 .. 10) \ {0} :
    LET shown == Offered([i \in 1 .. n |-> [j \in 1 .. 20 |-> i]], 10, 16)
        a     == emvCallback(Start, [cbk |-> "CBK_REDUCE_CAND", data |-> <<>>], [choice |-> [shown |-> shown, pick |-> pick]])
        app   == a.out.DF75
    IN pick <= Len(shown) =>
         /\ IF pick < 0 THEN app > 127 ELSE app \in DOMAIN shown /\ shown[app] = shown[pick]
         /\ IsSelectionTimeout(a.st) = (pick = -3)
         /\ \A i \in DOMAIN shown : Len(shown[i]) = 16

\* The card's answer goes to the kernel for an offline PIN that went through only.
ASSUME PinAnswer ==
  \A type \in {"ENCIPHERED", "PLAIN", "ONLINE"}, code \in {"OKAY", "BYPASS", "ABORT", "COMM_ERR"} :
    LET q == [cbk |-> "CBK_PIN", data |-> [t \in {"DF79", "DF41"} |-> IF t = "DF79" THEN type ELSE 0]]
        a == emvCallback(Start, q, [pin |-> [code |-> code, sw |-> "9000"]])
    IN ("DF6F" \in DOMAIN a.out) = (code = "OKAY" /\ type # "ONLINE")

\* An answer fits the room the kernel has for it, except one that could not be
\* exported: its error is told as a size of 65535.
ASSUME AnswerFits ==
  \A ok \in BOOLEAN, n \in 2 .. 6, room \in 0 .. 6 :
    LET e == Exported([st |-> Start, ok |-> ok, out |-> "Data"], n, room)
    IN e.size <= room \/ (ok /\ n > room /\ e.size = 65535)

\* A contactless start keeps no option of the sale before.
ASSUME TapStartsAfresh ==
  \A info \in SUBSET {"AMOUNT", "CB_AMOUNT"}, options \in SUBSET {"L1_ERROR_CALLBACK", "Old"} :
    LET t == [year |-> 2018, mon |-> 1, mday |-> 27, hour |-> 14, min |-> 19, sec |-> 46]
        s == vdSetCTLSTransactionData(
               [TransType |-> "Old", Amount |-> <<>>, TxnOptions |-> options, Passthrough |-> TRUE,
                Date |-> <<>>, Time |-> <<>>, info |-> info], 12345, t)
    IN /\ s.TxnOptions = {"L1_ERROR_CALLBACK"} /\ "AMOUNT" \in s.info
       /\ BcdValue(SubSeq(s.Amount, 4, 6)) = 12345
       /\ BcdValue(s.Date) = 180227 /\ BcdValue(s.Time) = 141946

\* What a chip sale is told twice agrees: options once asked for are kept, and
\* cashback is announced both times or never.
ASSUME StartAndContinue ==
  \A cashback \in {0, 1, 250} :
    LET t == [year |-> 2018, mon |-> 1, mday |-> 27, hour |-> 14, min |-> 19, sec |-> 46]
        s == Set_CT_TransactionData(100, cashback, "GOODS_SERVICE", t)
        c == EMV_Setup_TXN_CT_Data(cashback, s)
    IN /\ s.TxnOptions \subseteq c.TxnOptions
       /\ ("CB_AMOUNT" \in s.info) = ("CB_AMOUNT" \in c.info)
       /\ s.Cashback_Amount = c.Cashback_Amount

\* The framework is left exactly when it did not start, and the strip of lights is on
\* the screen, except where it begins at its right edge.
ASSUME LightsOnScreen ==
  \A w \in {240, 320, 480, 800, 1024}, h \in {240, 320, 480}, f \in {OK, "Error"} :
    LET r == Init_EMV_CTLS(f, w, h)
    IN r.exited = (r.result # OK)
       /\ (r.strip.x + r.strip.w > w) = (f = OK /\ h = 480 /\ w >= 800)
=============================================================================
