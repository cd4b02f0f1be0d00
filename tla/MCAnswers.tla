----------------------------- MODULE MCAnswers -----------------------------
(* What the operators of Answers compute. *)
EXTENDS Answers, FiniteSets

Codes == -110 .. 0
Fields == [STATUS |-> "Old", CODRESP |-> "Old", LENGH |-> "Old"]

\* No command of CMD_PP.xml has a field CODRESP.  An error that show_error has no status
\* for leaves the status of an earlier reply, if there was one: those are the errors of
\* the AES protocol and every error it does not know.
Told == {UI_ERR_TIMEOUT, EMV_IDL_TIME_OUT, EMV_IDL_CANCEL, FALLA_CHIP, TARJ_BLOQUEADA, EMV_ABORT,
         CARD_REMOVED, FAILURE_CVV, CPX_ERC_IPK, FAILURE_LOAD_KEY, FALLA_CARGA_LLAVE_UNI,
         FAILURE_LUHN}
ASSUME OldStatus ==
  \A in_val \in Codes :
    LET f == show_error(Fields, in_val)
    IN (f.STATUS = "Old") = (in_val \notin Told) /\ (f = Fields) = (in_val = SUCCESS)

\* A refusal by the host is told apart from every other, and from a success.  Two of
\* them have the number of an error show_error has another text for: the library's
\* errors may not be given to it.
ASSUME HostRefusals ==
  LET hosts == {"00", "01", "02", "03", "04", "05", "99"}
      Known(h) == h \notin {"05", "99"}
  IN /\ \A h, i \in hosts :
          (inKtkRspShwXlt(h) = inKtkRspShwXlt(i)) = (h = i \/ ~(Known(h) \/ Known(i)))
     /\ \A h \in hosts : inKtkRspShwXlt(h) < SUCCESS
     /\ {h \in hosts : show_error(Fields, inKtkRspShwXlt(h)).STATUS # "Old"} = {"02", "04"}

\* in_cpx_ipk_sav: success means that every step succeeded, and an error is that of the
\* first that did not; but a token of no bytes, whose size is -1, passes for one that
\* was taken apart, even when inDsmQx failed.
Returns == {SUCCESS, FAILURE, -40, -50, -80}
ASSUME FirstError ==
  \A vld, dsm, sav \in Returns, size \in -1 .. 2, taken \in -1 .. 2 :
    LET r == in_cpx_ipk_sav(vld, taken, size, dsm, sav)
        steps == <<vld, IF taken < size THEN CPX_ERC_QXD ELSE SUCCESS, dsm, sav>>
        failed == {i \in 1 .. 4 : steps[i] # SUCCESS}
    IN /\ r = IF failed = {} THEN SUCCESS
              ELSE steps[CHOOSE i \in failed : \A j \in failed : i <= j]
       /\ taken = -1 => (r = CPX_ERC_QXD) = (vld = SUCCESS /\ size # -1)

\* in_cpx_crd_exc: a table is announced as written only when all three steps went well.
ASSUME TableWritten ==
  \A qt, dsm, sav \in Returns :
    (in_cpx_crd_exc(qt, dsm, sav) = SUCCESS) = (qt = SUCCESS /\ dsm = SUCCESS /\ sav = SUCCESS)

\* in_cpx_vld: whatever later checks would say, the first one counts.
ASSUME CheckedOnce ==
  \A first \in Returns, later \in [1 .. 2 -> Returns] :
    LET v == in_cpx_vld([bo_vld |-> FALSE, in_erc |-> SUCCESS], first)
    IN \A i \in 1 .. 2 : in_cpx_vld(v.st, later[i]).val = first

\* Of the codes that come between two looks of the loop the customer sees the last, and
\* no code is shown twice.
ASSUME LastTextOnce ==
  \A n \in 0 .. 3 : \A codes \in [1 .. n -> {"RETAP_SAME", "REMOVE_CARD", "SEE_PHONE"}] :
    LET last == ShowText(IF n = 0 THEN "None" ELSE codes[n])
    IN /\ last.shown = IF n = 0 THEN <<>> ELSE <<emvADKTextDisplayCallback(codes[n])>>
       /\ ShowText(last.code).shown = <<>>

\* A text that has both words is shown as an approval.
ASSUME ApprovedFirst ==
  \A words \in SUBSET {"APROBAD", "DECLINAD", "GRACIAS"} :
    (in_Tx_Result(words) = "EXTDECLINE") = (words \cap {"APROBAD", "DECLINAD"} = {"DECLINAD"})

\* updateDate: the clock is set by any DATE and TIME that are six bytes together, not
\* only by three and three, and by a TIME of seven alone, without the century.
Bytes(n, d) == [i \in 1 .. n |-> <<d, d>>]
ASSUME ClockSet ==
  \A d \in 0 .. 6, t \in 0 .. 7 :
    LET clock == updateDate(<<>>, Bytes(d, 1), Bytes(t, 2))
    IN /\ (clock # <<>>) = (IF d = 0 THEN t = 7 ELSE d + t = 6)
       /\ clock # <<>> => /\ Len(clock) = 14
                          /\ (SubSeq(clock, 1, 2) = <<2, 0>>) = (d > 0)
                          /\ (SubSeq(clock, 9, 14) = Text(Bytes(3, 2))) = (d <= 3)

\* GetTransactionTimeout: never under 30 and what was asked for from there on; digits
\* beyond 9 cut the number short.
ASSUME TimeoutFloor ==
  /\ GetTransactionTimeout(<<>>) = 30
  /\ \A h, l \in 0 .. 15 :
       LET n == GetTransactionTimeout(<<<<h, l>>>>)
       IN n >= 30 /\ n <= 99 /\ (n > 30 <=> h <= 9 /\ l <= 9 /\ 10 * h + l > 30)
=============================================================================
