------------------------------ MODULE Answers ------------------------------
(***************************************************************************)
(* What errors and dates turn into: the field an error sets (show_error of *)
(* FlowPinPad.cpp), the error a refusal of the host stands for and the     *)
(* order in which the key library looks for errors (inKtkRspShwXlt of      *)
(* dkprsa.cpp, in_cpx_ipk_sav and in_cpx_crd_exc of usrcmds.cpp), the text *)
(* for a code of the EMV kernels (emvADKTextDisplayCallback of             *)
(* MainApp.cpp), the picture for a text of the ECR (in_Tx_Result), and the *)
(* clock and time-out a command sets (updateDate, GetTransactionTimeout).  *)
(* Pure operators, checked in MCAnswers.                                   *)
(***************************************************************************)
EXTENDS Integers, SequencesExt

SUCCESS == 0
FAILURE == -1

-----------------------------------------------------------------------------
(* Errors.  Numbers are compared, and one number has several names. *)

EMV_IDL_CANCEL == -1
VS_ERROR_AES == -2
UI_ERR_TIMEOUT == -3
EMV_IDL_TIME_OUT == -6
FALLA_CHIP == -10
CARD_REMOVED == -23
FALLA_CARGA_LLAVE_UNI == -30
CPX_ERC_IPK == -41
CPX_ERC_QXD == -48
CPX_ERC_QTD == -49
CX_SRLND_ERR == -50
CX_DECKR_ERR == -55
CX_CRC32_ERR == -60
CX_KSAVE_ERR == -65
CPX_ERC_DEC == -79
CPX_ERC_SCS == -80
CPX_ERC_TKC == -81
CPX_ERC_AVD == -82
FAILURE_LOAD_KEY == -82
CPX_ERC_SAC == -83
CPX_ERC_HSM == -84
FAILURE_CVV == -84
FAILURE_LUHN == -85
TARJ_BLOQUEADA == -101
EMV_ABORT == -102

\* The field of the reply an error sets.
ShownIn(in_val) ==
  CASE in_val \in {UI_ERR_TIMEOUT, EMV_IDL_TIME_OUT} -> [STATUS |-> "06"]
    [] in_val = EMV_IDL_CANCEL                       -> [STATUS |-> "08"]
    [] in_val = FALLA_CHIP                           -> [STATUS |-> "10"]
    [] in_val \in {TARJ_BLOQUEADA, EMV_ABORT}        -> [STATUS |-> "24"]
    [] in_val = CARD_REMOVED                         -> [STATUS |-> "23"]
    [] in_val \in {CX_SRLND_ERR, CX_KSAVE_ERR}       -> [CODRESP |-> "79"]
    [] in_val = CX_DECKR_ERR                         -> [CODRESP |-> "80"]
    [] in_val = CX_CRC32_ERR                         -> [CODRESP |-> "81"]
    [] in_val = FAILURE_CVV                          -> [STATUS |-> "84"]
    [] in_val \in {CPX_ERC_IPK, FAILURE_LOAD_KEY, FALLA_CARGA_LLAVE_UNI} ->
         [STATUS |-> "85", LENGH |-> "0000"]
    [] in_val = FAILURE_LUHN                         -> [STATUS |-> "99"]
    [] in_val = SUCCESS                              -> <<>>
    [] OTHER                                         -> [CODRESP |-> "99"]

show_error(fields, in_val) ==
  [f \in DOMAIN fields |-> IF f \in DOMAIN ShownIn(in_val) THEN ShownIn(in_val)[f] ELSE fields[f]]

\* A host's two digits; "00" is told apart before this is called.
inKtkRspShwXlt(code) ==
  CASE code = "00" -> CPX_ERC_SCS [] code = "01" -> CPX_ERC_TKC [] code = "02" -> CPX_ERC_AVD
    [] code = "03" -> CPX_ERC_SAC [] code = "04" -> CPX_ERC_HSM [] OTHER -> CPX_ERC_DEC

\* The terminal's certificate is checked once and the result kept.
in_cpx_vld(st, in_crt_vld) ==
  IF st.bo_vld THEN [st |-> st, val |-> st.in_erc]
  ELSE [st |-> [bo_vld |-> TRUE, in_erc |-> in_crt_vld], val |-> in_crt_vld]

\* The first step that fails ends the rest.  taken is what inDsmQx used of the size
\* bytes of the token.
in_cpx_ipk_sav(vld, taken, size, dsm, sav) ==
  CASE vld <= FAILURE                 -> vld
    [] vld > FAILURE /\ taken < size  -> CPX_ERC_QXD
    [] vld > FAILURE /\ taken >= size /\ dsm < SUCCESS -> dsm
    [] vld > FAILURE /\ taken >= size /\ dsm >= SUCCESS /\ sav < SUCCESS -> sav
    [] OTHER                          -> vld

\* A token taken apart, a table made of it, the table written: the last two pass on
\* what they return, be it an error or not.
in_cpx_crd_exc(qt, dsm, sav) ==
  IF qt < SUCCESS THEN CPX_ERC_QTD ELSE IF dsm <= FAILURE THEN dsm ELSE sav

-----------------------------------------------------------------------------
(* Texts *)

\* A code of a kernel; the rest have no text.
emvADKTextDisplayCallback(error) ==
  CASE error \in {"APPROVED", "AUTH_APPROVED"}    -> "APROBADA"
    [] error \in {"DECLINED", "AUTH_DECLINED"}    -> "DECLINADA"
    [] error = "NOT_ACCEPTED"                     -> "NO ACEPTADA"
    [] error \in {"CARD_ERROR", "PROCESSING_ERROR", "TXN_CTLS_L1_ERR"} -> "ERROR EN TARJETA"
    [] error = "CARD_READ_OK"                     -> "LECTURA EXITOSA"
    [] error = "AUTHORIZING"                      -> "AUTORIZANDO"
    [] error = "REMOVE_CARD"                      -> "RETIRE TARJETA"
    [] error \in {"USE_CHIP_READER", "FALLBACK_CHIP_ONLY"} -> "USE LECTOR DE CHIP"
    [] error = "USE_MAG_STRIPE"                   -> "USE LECTOR DE BANDA"
    [] error = "SEE_PHONE"                        -> "VEA TELEFONO"
    [] error \in {"RETAP_SAME", "RETAP_SAME_L1"}  -> "APROXIME DE NUEVO"
    [] error \in {"2_CARDS_IN_FIELD", "2_CTLS_CARDS"} -> "APROXIME SOLO UNA TARJETA"
    [] error \in {"CTLS_EMPTY_LIST", "CTLS_EMV_USE_OTHER_CARD"} -> "USE CHIP O BANDA"
    [] error = "CTLS_DOMESTIC_ONLY_NOT_READABLE"  -> "NO SOPORTADA"
    [] OTHER                                      -> ""

\* The loop of Detect_input shows the text of the last code there was, once.
ShowText(code) ==
  [shown |-> IF code = "None" THEN <<>> ELSE <<emvADKTextDisplayCallback(code)>>, code |-> "None"]

\* A text of the ECR is the set of the words it has, in capitals; approved is looked
\* for first.  Without either word the text is shown without a picture.
in_Tx_Result(words) ==
  CASE "APROBAD" \in words                            -> "EXTAPROVED"
    [] "DECLINAD" \in words /\ "APROBAD" \notin words -> "EXTDECLINE"
    [] OTHER                                          -> "None"

-----------------------------------------------------------------------------
(* The clock.  A field is a sequence of bytes, a byte <<h, l>> two digits; *)
(* an absent one is <<>>, and is known by a length of -1.                  *)

Text(bytes) == FlattenSeq(bytes)
Length(field) == IF field = <<>> THEN -1 ELSE Len(field)

\* Century, DATE and TIME are put one behind the other, and the clock is set to what
\* has 14 digits.  The century counts as one byte of DATE.
updateDate(clock, date, time) ==
  LET century == IF Length(date) + 1 > 0 THEN <<2, 0>> ELSE <<>>
      sysDate == century \o Text(date) \o Text(time)
  IN IF Len(sysDate) = 14 THEN sysDate ELSE clock

\* atoi of two hexadecimal digits.
Decimal(h, l) == IF h > 9 THEN 0 ELSE IF l > 9 THEN h ELSE 10 * h + l

GetTransactionTimeout(field) ==
  LET asked == IF field = <<>> THEN 0 ELSE Decimal(field[1][1], field[1][2])
  IN IF asked <= 30 THEN 30 ELSE asked
=============================================================================
