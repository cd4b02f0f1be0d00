---------------------------- MODULE CmdFlowProofs ---------------------------
(***************************************************************************)
(* Proofs about the command session.  The invariants FallbackEarned,       *)
(* CompletionTechnology and SaleAnswered speak of what has been sent or of *)
(* the moment the main loop is reached; what makes them inductive is the   *)
(* state in the middle of a sale: how the failure count relates to the     *)
(* readers still on (CountInv), where an attempt can report a chip         *)
(* (AttemptInv), what the reply fields hold (FieldInv), which reader a     *)
(* success belongs to (SaleInv) and where the stripe reader is on          *)
(* (ReaderInv).  IInv is their conjunction, and every action keeps it.     *)
(*                                                                         *)
(* One lemma per action, in the order of CmdFlow.  Where one leaf does not *)
(* carry the whole conjunction, the type invariant (records, sets) is a    *)
(* lemma of its own and each other conjunct a step.                        *)
(***************************************************************************)
EXTENDS CmdFlow, TLAPS

USE DEF link, sess, trn, hist, Looping

Fields == [pan : Cards \cup {NoCard}, pos : EntryModes]

-----------------------------------------------------------------------------
(* Initial states *)

\* Every initial state satisfies the inductive invariant: after boot nothing is
\* sent, no count is raised and no reader is on.
LEMMA InitInvariant == Init => IInv
<1> SUFFICES ASSUME Init PROVE IInv
  OBVIOUS
<1> USE DEF Init, NoReply, NoFields
<1>1. TypeOK
  <2>1. sent \in Replies
    BY DEF Replies, EntryModes, Techs, Readers
  <2>2. field \in Fields /\ frame \in [cmd : Commands, good : BOOLEAN]
    BY DEF Fields, EntryModes, Commands
  <2>3. Dev_type \in SUBSET Readers /\ chTechnology \in Techs
    BY DEF Techs, Readers
  <2>4. count_fallback \in 0 .. 2 /\ fails \in 0 .. 2
    OBVIOUS
  <2> QED BY <2>1, <2>2, <2>3, <2>4 DEF TypeOK, Fields
<1>2. CountInv /\ AttemptInv /\ SaleInv /\ ReaderInv
  BY DEF CountInv, AttemptInv, SaleInv, ReaderInv
<1>3. FieldInv /\ FallbackEarned /\ CompletionTechnology /\ SaleAnswered
  BY DEF FieldInv, FallbackEarned, CompletionTechnology, SaleAnswered
<1> QED BY <1>1, <1>2, <1>3 DEF IInv

\* A reply packed from the fields of a well typed state is a reply.
LEMMA ReplyType ==
  ASSUME TypeOK, NEW k \in {"C53", "C54"}, NEW ok \in BOOLEAN
  PROVE  Reply(k, ok) \in Replies
BY DEF TypeOK, Reply, Replies, EntryModes, Techs, Readers

\* While a chip is in hand at most one chip has failed, so the count cannot
\* pass two (FlowPinPad.cpp:2265).
LEMMA ChipOnCount ==
  ASSUME TypeOK, CountInv, AttemptInv, Chip
  PROVE  count_fallback \in 0 .. 1 /\ "CHIP" \in Dev_type
BY DEF TypeOK, CountInv, AttemptInv, Chip

-----------------------------------------------------------------------------
(* Type correctness of the actions that build records *)

\* The C53 without a key is a reply.
LEMMA SaleWithoutKeyType ==
  ASSUME TypeOK, SaleWithoutKey
  PROVE  TypeOK'
<1> USE DEF SaleWithoutKey, StartSale
<1>1. frame' \in [cmd : Commands, good : BOOLEAN]
  BY DEF TypeOK
<1>2. field' \in Fields
  BY DEF TypeOK, Fields, EntryModes
<1>3. sent' \in Replies
  <2>1. sent' = [Reply("C53", FALSE) EXCEPT !.tech = chTechnology', !.card = hand',
                                            !.sale = "Unknown"]
    OBVIOUS
  <2>2. chTechnology' \in Techs /\ hand' \in Cards \cup {NoCard}
    BY DEF TypeOK, Techs
  <2>3. Reply("C53", FALSE) \in Replies
    BY ReplyType
  <2> QED BY <2>1, <2>2, <2>3 DEF Replies
<1>4. keylod' \in BOOLEAN /\ flagZ4' \in BOOLEAN
  BY DEF TypeOK
<1>5. boCtlsON' \in BOOLEAN /\ flagC51' \in BOOLEAN /\ inTransInProgress' \in BOOLEAN
  BY DEF TypeOK
<1>6. count_fallback' \in 0 .. 2 /\ fails' \in 0 .. 2
  BY DEF TypeOK
<1>7. /\ chTechnology' \in Techs /\ sale' \in Techs \cup {"Unknown"}
      /\ Dev_type' \in SUBSET Readers
  BY DEF TypeOK, Techs, Readers
<1>8. /\ pc' \in {"Wait", "Do", "Try", "Handle", "Again", "Close"}
      /\ inVal' \in {"OK", "LRC", "Fail"} /\ ack' \in {"None", "ACK", "NAK", "Format"}
      /\ in_val' \in {"OK", "Again", "NoChip", "Abort", "Stop"} /\ msr' \in {"On", "Off"}
  BY DEF TypeOK
<1>9. Datas' \in Cards \cup {NoCard} /\ hand' \in Cards \cup {NoCard}
  BY DEF TypeOK
<1> QED BY <1>1, <1>2, <1>3, <1>4, <1>5, <1>6, <1>7, <1>8, <1>9 DEF TypeOK, Fields

\* The fields of a keyed sale are reply fields.
LEMMA SaleByKeyboardType ==
  ASSUME TypeOK, SaleByKeyboard
  PROVE  TypeOK'
<1> USE DEF SaleByKeyboard, KBD_Transaction_banorte, UseKey, Served
<1>1. frame' \in [cmd : Commands, good : BOOLEAN]
  BY DEF TypeOK
<1>2. field' \in Fields
  <2>1. field' = field \/ field' = [pan |-> NoCard, pos |-> "01"]
    OBVIOUS
  <2>2. field \in Fields
    BY DEF TypeOK, Fields
  <2>3. [pan |-> NoCard, pos |-> "01"] \in Fields
    BY DEF Fields, EntryModes
  <2> QED BY <2>1, <2>2, <2>3
<1>3. sent' \in Replies
  BY DEF TypeOK, Replies, EntryModes, Techs, Readers
<1>4. keylod' \in BOOLEAN /\ flagZ4' \in BOOLEAN
  BY DEF TypeOK
<1>5. boCtlsON' \in BOOLEAN /\ flagC51' \in BOOLEAN /\ inTransInProgress' \in BOOLEAN
  BY DEF TypeOK
<1>6. count_fallback' \in 0 .. 2 /\ fails' \in 0 .. 2
  BY DEF TypeOK
<1>7. /\ chTechnology' \in Techs /\ sale' \in Techs \cup {"Unknown"}
      /\ Dev_type' \in SUBSET Readers
  BY DEF TypeOK, Techs, Readers
<1>8. /\ pc' \in {"Wait", "Do", "Try", "Handle", "Again", "Close"}
      /\ inVal' \in {"OK", "LRC", "Fail"} /\ ack' \in {"None", "ACK", "NAK", "Format"}
      /\ in_val' \in {"OK", "Again", "NoChip", "Abort", "Stop"} /\ msr' \in {"On", "Off"}
  BY DEF TypeOK
<1>9. Datas' \in Cards \cup {NoCard} /\ hand' \in Cards \cup {NoCard}
  BY DEF TypeOK
<1> QED BY <1>1, <1>2, <1>3, <1>4, <1>5, <1>6, <1>7, <1>8, <1>9 DEF TypeOK, Fields

\* Taking up the card of the Z4 keeps the types.
LEMMA TrySavedType ==
  ASSUME TypeOK, TrySaved
  PROVE  TypeOK'
<1> USE DEF TrySaved, Saved
<1>1. frame' \in [cmd : Commands, good : BOOLEAN]
  BY DEF TypeOK
<1>2. field' \in Fields
  BY DEF TypeOK, Fields, EntryModes
<1>3. sent' \in Replies
  BY DEF TypeOK, Replies, EntryModes, Techs, Readers
<1>4. keylod' \in BOOLEAN /\ flagZ4' \in BOOLEAN
  BY DEF TypeOK
<1>5. boCtlsON' \in BOOLEAN /\ flagC51' \in BOOLEAN /\ inTransInProgress' \in BOOLEAN
  BY DEF TypeOK
<1>6. count_fallback' \in 0 .. 2 /\ fails' \in 0 .. 2
  BY DEF TypeOK
<1>7. /\ chTechnology' \in Techs /\ sale' \in Techs \cup {"Unknown"}
      /\ Dev_type' \in SUBSET Readers
  BY DEF TypeOK, Techs, Readers
<1>8. /\ pc' \in {"Wait", "Do", "Try", "Handle", "Again", "Close"}
      /\ inVal' \in {"OK", "LRC", "Fail"} /\ ack' \in {"None", "ACK", "NAK", "Format"}
      /\ in_val' \in {"OK", "Again", "NoChip", "Abort", "Stop"} /\ msr' \in {"On", "Off"}
  BY DEF TypeOK
<1>9. Datas' \in Cards \cup {NoCard} /\ hand' \in Cards \cup {NoCard}
  BY DEF TypeOK
<1> QED BY <1>1, <1>2, <1>3, <1>4, <1>5, <1>6, <1>7, <1>8, <1>9 DEF TypeOK, Fields

\* A stripe, decoded or not, keeps the types.
LEMMA StripeType ==
  ASSUME TypeOK, Stripe
  PROVE  TypeOK'
<1> USE DEF Stripe, ReadStripe, UseKey, Served
<1>1. frame' \in [cmd : Commands, good : BOOLEAN]
  BY DEF TypeOK
<1>2. field' \in Fields
  <2>1. PICK d \in Cards \cup {NoCard} :
           IF d # NoCard THEN StripeData(d) ELSE StripeNoData
    OBVIOUS
  <2>2. \/ field' = field
        \/ field' = [field EXCEPT !.pan = d]
        \/ \E e \in {"80", "90"} : field' = [pan |-> d, pos |-> e]
    BY <2>1 DEF StripeData, StripeNoData
  <2>3. field \in Fields
    BY DEF TypeOK, Fields
  <2> QED BY <2>2, <2>3 DEF Fields, EntryModes
<1>3. sent' \in Replies
  BY DEF TypeOK, Replies, EntryModes, Techs, Readers
<1>4. keylod' \in BOOLEAN /\ flagZ4' \in BOOLEAN
  BY DEF TypeOK, StripeData, StripeNoData
<1>5. boCtlsON' \in BOOLEAN /\ flagC51' \in BOOLEAN /\ inTransInProgress' \in BOOLEAN
  BY DEF TypeOK
<1>6. count_fallback' \in 0 .. 2 /\ fails' \in 0 .. 2
  <2>1. count_fallback' \in {count_fallback, 0} /\ fails' = fails
    BY DEF StripeData, StripeNoData
  <2> QED BY <2>1 DEF TypeOK
<1>7. /\ chTechnology' \in Techs /\ sale' \in Techs \cup {"Unknown"}
      /\ Dev_type' \in SUBSET Readers
  BY DEF TypeOK, Techs, Readers
<1>8. /\ pc' \in {"Wait", "Do", "Try", "Handle", "Again", "Close"}
      /\ inVal' \in {"OK", "LRC", "Fail"} /\ ack' \in {"None", "ACK", "NAK", "Format"}
      /\ in_val' \in {"OK", "Again", "NoChip", "Abort", "Stop"} /\ msr' \in {"On", "Off"}
  BY DEF TypeOK, StripeData, StripeNoData
<1>9. Datas' \in Cards \cup {NoCard} /\ hand' \in Cards \cup {NoCard}
  BY DEF TypeOK
<1> QED BY <1>1, <1>2, <1>3, <1>4, <1>5, <1>6, <1>7, <1>8, <1>9 DEF TypeOK, Fields

\* A chip, fallen back or run, keeps the types: the count stays in 0 .. 2.
LEMMA ChipType ==
  ASSUME TypeOK, CountInv, AttemptInv, Chip
  PROVE  TypeOK'
<1> USE DEF Chip, ChipFailed, EMV_Transaction, UseKey, Served
<1>1. frame' \in [cmd : Commands, good : BOOLEAN]
  BY DEF TypeOK
<1>2. field' \in Fields
  <2>1. field' = field \/ \E p \in {hand, NoCard} : field' = [pan |-> p, pos |-> "05"]
    BY DEF Reply53
  <2>2. field \in Fields /\ hand \in Cards \cup {NoCard}
    BY DEF TypeOK, Fields
  <2> QED BY <2>1, <2>2 DEF Fields, EntryModes
<1>3. sent' \in Replies
  BY DEF TypeOK, Replies, EntryModes, Techs, Readers
<1>4. keylod' \in BOOLEAN /\ flagZ4' \in BOOLEAN
  BY DEF TypeOK
<1>5. boCtlsON' \in BOOLEAN /\ flagC51' \in BOOLEAN /\ inTransInProgress' \in BOOLEAN
  BY DEF TypeOK
<1>6. count_fallback' \in 0 .. 2 /\ fails' \in 0 .. 2
  <2>1. count_fallback' \in {count_fallback, count_fallback + 1}
    OBVIOUS
  <2>2. fails' = fails \/ (fails < 2 /\ fails' = fails + 1)
    OBVIOUS
  <2>3. count_fallback \in 0 .. 1
    BY ChipOnCount
  <2>4. fails \in 0 .. 2
    BY DEF TypeOK
  <2>5. count_fallback' \in 0 .. 2
    BY <2>1, <2>3
  <2>6. fails' \in 0 .. 2
    BY <2>2, <2>4
  <2> QED BY <2>5, <2>6
<1>7. /\ chTechnology' \in Techs /\ sale' \in Techs \cup {"Unknown"}
      /\ Dev_type' \in SUBSET Readers
  BY DEF TypeOK, Techs, Readers
<1>8. /\ pc' \in {"Wait", "Do", "Try", "Handle", "Again", "Close"}
      /\ inVal' \in {"OK", "LRC", "Fail"} /\ ack' \in {"None", "ACK", "NAK", "Format"}
      /\ in_val' \in {"OK", "Again", "NoChip", "Abort", "Stop"} /\ msr' \in {"On", "Off"}
  BY DEF TypeOK
<1>9. Datas' \in Cards \cup {NoCard} /\ hand' \in Cards \cup {NoCard}
  BY DEF TypeOK
<1> QED BY <1>1, <1>2, <1>3, <1>4, <1>5, <1>6, <1>7, <1>8, <1>9 DEF TypeOK, Fields

\* A tap keeps the types.
LEMMA TapType ==
  ASSUME TypeOK, Tap
  PROVE  TypeOK'
<1> USE DEF Tap, CTLS_Transaction, Reply53, UseKey, Served
<1>1. frame' \in [cmd : Commands, good : BOOLEAN]
  BY DEF TypeOK
<1>2. field' \in Fields
  BY DEF TypeOK, Fields, EntryModes
<1>3. sent' \in Replies
  BY DEF TypeOK, Replies, EntryModes, Techs, Readers
<1>4. keylod' \in BOOLEAN /\ flagZ4' \in BOOLEAN
  BY DEF TypeOK
<1>5. boCtlsON' \in BOOLEAN /\ flagC51' \in BOOLEAN /\ inTransInProgress' \in BOOLEAN
  BY DEF TypeOK
<1>6. count_fallback' \in 0 .. 2 /\ fails' \in 0 .. 2
  BY DEF TypeOK
<1>7. /\ chTechnology' \in Techs /\ sale' \in Techs \cup {"Unknown"}
      /\ Dev_type' \in SUBSET Readers
  BY DEF TypeOK, Techs, Readers
<1>8. /\ pc' \in {"Wait", "Do", "Try", "Handle", "Again", "Close"}
      /\ inVal' \in {"OK", "LRC", "Fail"} /\ ack' \in {"None", "ACK", "NAK", "Format"}
      /\ in_val' \in {"OK", "Again", "NoChip", "Abort", "Stop"} /\ msr' \in {"On", "Off"}
  BY DEF TypeOK
<1>9. Datas' \in Cards \cup {NoCard} /\ hand' \in Cards \cup {NoCard}
  BY DEF TypeOK
<1> QED BY <1>1, <1>2, <1>3, <1>4, <1>5, <1>6, <1>7, <1>8, <1>9 DEF TypeOK, Fields

\* Reading ahead keeps the types.
LEMMA DoZ4Type ==
  ASSUME TypeOK, NEW t \in Techs, NEW c \in Cards \cup {NoCard}, DoZ4(t, c)
  PROVE  TypeOK'
<1> USE DEF DoZ4, ReadAhead, read_PAN_MSR, read_PAN_EMV, read_PAN_CTLS
<1>1. frame' \in [cmd : Commands, good : BOOLEAN]
  BY DEF TypeOK
<1>2. field' \in Fields
  BY DEF TypeOK, Fields, EntryModes
<1>3. sent' \in Replies
  BY DEF TypeOK, Replies, EntryModes, Techs, Readers
<1>4. keylod' \in BOOLEAN /\ flagZ4' \in BOOLEAN
  BY DEF TypeOK
<1>5. boCtlsON' \in BOOLEAN /\ flagC51' \in BOOLEAN /\ inTransInProgress' \in BOOLEAN
  BY DEF TypeOK
<1>6. count_fallback' \in 0 .. 2 /\ fails' \in 0 .. 2
  BY DEF TypeOK
<1>7. /\ chTechnology' \in Techs /\ sale' \in Techs \cup {"Unknown"}
      /\ Dev_type' \in SUBSET Readers
  BY DEF TypeOK, Techs, Readers
<1>8. /\ pc' \in {"Wait", "Do", "Try", "Handle", "Again", "Close"}
      /\ inVal' \in {"OK", "LRC", "Fail"} /\ ack' \in {"None", "ACK", "NAK", "Format"}
      /\ in_val' \in {"OK", "Again", "NoChip", "Abort", "Stop"} /\ msr' \in {"On", "Off"}
  BY DEF TypeOK
<1>9. Datas' \in Cards \cup {NoCard} /\ hand' \in Cards \cup {NoCard}
  BY DEF TypeOK
<1> QED BY <1>1, <1>2, <1>3, <1>4, <1>5, <1>6, <1>7, <1>8, <1>9 DEF TypeOK, Fields

\* The reply to C54 is a reply.
LEMMA DoC54Type ==
  ASSUME TypeOK, DoC54
  PROVE  TypeOK'
<1> USE DEF DoC54, Reply, NoFields
<1>1. frame' \in [cmd : Commands, good : BOOLEAN]
  BY DEF TypeOK
<1>2. field' \in Fields
  BY DEF TypeOK, Fields, EntryModes
<1>3. sent' \in Replies
  BY DEF TypeOK, Replies, EntryModes, Techs, Readers
<1>4. keylod' \in BOOLEAN /\ flagZ4' \in BOOLEAN
  BY DEF TypeOK
<1>5. boCtlsON' \in BOOLEAN /\ flagC51' \in BOOLEAN /\ inTransInProgress' \in BOOLEAN
  BY DEF TypeOK
<1>6. count_fallback' \in 0 .. 2 /\ fails' \in 0 .. 2
  BY DEF TypeOK
<1>7. /\ chTechnology' \in Techs /\ sale' \in Techs \cup {"Unknown"}
      /\ Dev_type' \in SUBSET Readers
  BY DEF TypeOK, Techs, Readers
<1>8. /\ pc' \in {"Wait", "Do", "Try", "Handle", "Again", "Close"}
      /\ inVal' \in {"OK", "LRC", "Fail"} /\ ack' \in {"None", "ACK", "NAK", "Format"}
      /\ in_val' \in {"OK", "Again", "NoChip", "Abort", "Stop"} /\ msr' \in {"On", "Off"}
  BY DEF TypeOK
<1>9. Datas' \in Cards \cup {NoCard} /\ hand' \in Cards \cup {NoCard}
  BY DEF TypeOK
<1> QED BY <1>1, <1>2, <1>3, <1>4, <1>5, <1>6, <1>7, <1>8, <1>9 DEF TypeOK, Fields

\* A cancel command keeps the types.
LEMMA Do72Type ==
  ASSUME TypeOK, Do72
  PROVE  TypeOK'
<1> USE DEF Do72, NoFields
<1>1. frame' \in [cmd : Commands, good : BOOLEAN]
  BY DEF TypeOK
<1>2. field' \in Fields
  BY DEF TypeOK, Fields, EntryModes
<1>3. sent' \in Replies
  BY DEF TypeOK, Replies, EntryModes, Techs, Readers
<1>4. keylod' \in BOOLEAN /\ flagZ4' \in BOOLEAN
  BY DEF TypeOK
<1>5. boCtlsON' \in BOOLEAN /\ flagC51' \in BOOLEAN /\ inTransInProgress' \in BOOLEAN
  BY DEF TypeOK
<1>6. count_fallback' \in 0 .. 2 /\ fails' \in 0 .. 2
  BY DEF TypeOK
<1>7. /\ chTechnology' \in Techs /\ sale' \in Techs \cup {"Unknown"}
      /\ Dev_type' \in SUBSET Readers
  BY DEF TypeOK, Techs, Readers
<1>8. /\ pc' \in {"Wait", "Do", "Try", "Handle", "Again", "Close"}
      /\ inVal' \in {"OK", "LRC", "Fail"} /\ ack' \in {"None", "ACK", "NAK", "Format"}
      /\ in_val' \in {"OK", "Again", "NoChip", "Abort", "Stop"} /\ msr' \in {"On", "Off"}
  BY DEF TypeOK
<1>9. Datas' \in Cards \cup {NoCard} /\ hand' \in Cards \cup {NoCard}
  BY DEF TypeOK
<1> QED BY <1>1, <1>2, <1>3, <1>4, <1>5, <1>6, <1>7, <1>8, <1>9 DEF TypeOK, Fields

\* The key commands keep the types.
LEMMA DoKeysType ==
  ASSUME TypeOK, DoKeys
  PROVE  TypeOK'
<1> USE DEF DoKeys, UseKey
<1>1. frame' \in [cmd : Commands, good : BOOLEAN]
  BY DEF TypeOK
<1>2. field' \in Fields
  BY DEF TypeOK, Fields, EntryModes
<1>3. sent' \in Replies
  BY DEF TypeOK, Replies, EntryModes, Techs, Readers
<1>4. keylod' \in BOOLEAN /\ flagZ4' \in BOOLEAN
  BY DEF TypeOK
<1>5. boCtlsON' \in BOOLEAN /\ flagC51' \in BOOLEAN /\ inTransInProgress' \in BOOLEAN
  BY DEF TypeOK
<1>6. count_fallback' \in 0 .. 2 /\ fails' \in 0 .. 2
  BY DEF TypeOK
<1>7. /\ chTechnology' \in Techs /\ sale' \in Techs \cup {"Unknown"}
      /\ Dev_type' \in SUBSET Readers
  BY DEF TypeOK, Techs, Readers
<1>8. /\ pc' \in {"Wait", "Do", "Try", "Handle", "Again", "Close"}
      /\ inVal' \in {"OK", "LRC", "Fail"} /\ ack' \in {"None", "ACK", "NAK", "Format"}
      /\ in_val' \in {"OK", "Again", "NoChip", "Abort", "Stop"} /\ msr' \in {"On", "Off"}
  BY DEF TypeOK
<1>9. Datas' \in Cards \cup {NoCard} /\ hand' \in Cards \cup {NoCard}
  BY DEF TypeOK
<1> QED BY <1>1, <1>2, <1>3, <1>4, <1>5, <1>6, <1>7, <1>8, <1>9 DEF TypeOK, Fields

-----------------------------------------------------------------------------
(* Every action keeps the invariant *)

\* The frame and the verdict change, and the last reply is forgotten.
LEMMA ReceiveStep ==
  ASSUME IInv, NEW c \in Commands, NEW g \in BOOLEAN, Receive(c, g)
  PROVE  IInv'
<1> USE DEF IInv, Receive
<1>1. /\ pc' \in {"Do", "Wait"} /\ inVal' \in {"OK", "LRC", "Fail"}
      /\ ack' \in {"ACK", "NAK", "Format"} /\ (ack' = "ACK" => pc' = "Do")
  BY DEF Answer
<1>2. TypeOK'
  <2>1. frame' \in [cmd : Commands, good : BOOLEAN]
    BY DEF Commands
  <2>2. sent' \in Replies
    BY DEF NoReply, Replies, EntryModes, Techs, Readers
  <2> QED BY <1>1, <2>1, <2>2 DEF TypeOK
<1>3. CountInv' /\ AttemptInv' /\ FieldInv' /\ SaleInv' /\ ReaderInv'
  BY <1>1 DEF CountInv, AttemptInv, FieldInv, SaleInv, ReaderInv
<1>4. FallbackEarned' /\ CompletionTechnology' /\ SaleAnswered'
  BY <1>1 DEF FallbackEarned, CompletionTechnology, SaleAnswered, NoReply, ReaderInv
<1> QED BY <1>2, <1>3, <1>4

\* Without a key C53 is a failure, and no reader is switched on.
LEMMA SaleWithoutKeyStep ==
  ASSUME IInv, SaleWithoutKey
  PROVE  IInv'
<1> USE DEF IInv, SaleWithoutKey, StartSale
<1>1. TypeOK'
  BY SaleWithoutKeyType
<1>2. CountInv' /\ AttemptInv'
  BY DEF CountInv, AttemptInv, TypeOK
<1>3. FieldInv'
  BY DEF FieldInv, TypeOK
<1>4. SaleInv' /\ ReaderInv'
  BY DEF SaleInv, ReaderInv, AttemptInv, TypeOK
<1>5. FallbackEarned' /\ CompletionTechnology' /\ SaleAnswered'
  BY DEF FallbackEarned, CompletionTechnology, SaleAnswered, FieldInv, SaleInv, ReaderInv,
         Reply
<1> QED BY <1>1, <1>2, <1>3, <1>4, <1>5

\* A keyed sale touches no reader and no failure count.
LEMMA SaleByKeyboardStep ==
  ASSUME IInv, SaleByKeyboard
  PROVE  IInv'
<1> USE DEF IInv, SaleByKeyboard, KBD_Transaction_banorte, UseKey, Served
<1>1. TypeOK'
  BY SaleByKeyboardType
<1>2. CountInv' /\ AttemptInv'
  BY DEF CountInv, AttemptInv, TypeOK
<1>3. FieldInv'
  <2>1. field' = field \/ field' = [pan |-> NoCard, pos |-> "01"]
    BY DEF KBD_Transaction_banorte
  <2>2. field.pos = "None" /\ pc' = "Close"
    BY DEF FieldInv
  <2> QED BY CardsAssumption, <2>1, <2>2 DEF FieldInv
<1>4. SaleInv' /\ ReaderInv'
  BY DEF SaleInv, ReaderInv, AttemptInv, TypeOK
<1>5. FallbackEarned' /\ CompletionTechnology' /\ SaleAnswered'
  BY DEF FallbackEarned, CompletionTechnology, SaleAnswered, FieldInv, SaleInv, ReaderInv
<1> QED BY <1>1, <1>2, <1>3, <1>4, <1>5

\* The sale starts with all readers on, and a count of at most one.
LEMMA SaleByCardStep ==
  ASSUME IInv, SaleByCard
  PROVE  IInv'
BY DEF SaleByCard, StartSale, Techs, Readers,
   IInv, TypeOK, CountInv, AttemptInv, FieldInv, SaleInv, ReaderInv, FallbackEarned,
   CompletionTechnology, SaleAnswered

\* The card of the Z4 is taken up: only flags change.
LEMMA TrySavedStep ==
  ASSUME IInv, TrySaved
  PROVE  IInv'
<1> USE DEF IInv, TrySaved, Saved
<1>1. TypeOK'
  BY TrySavedType
<1>2. CountInv' /\ AttemptInv'
  BY DEF CountInv, AttemptInv, TypeOK
<1>3. FieldInv'
  BY DEF FieldInv, TypeOK
<1>4. SaleInv' /\ ReaderInv'
  BY DEF SaleInv, ReaderInv, AttemptInv, TypeOK
<1>5. FallbackEarned' /\ CompletionTechnology' /\ SaleAnswered'
  BY DEF FallbackEarned, CompletionTechnology, SaleAnswered, FieldInv, SaleInv, ReaderInv
<1> QED BY <1>1, <1>2, <1>3, <1>4, <1>5

\* The sale is left from the loop: the count is at most one there, since only
\* the stripe is left to a second failure, and the contactless reader was on.
LEMMA AbandonStep ==
  ASSUME IInv, Abandon
  PROVE  IInv'
BY DEF Abandon, Return, Saved,
   IInv, TypeOK, CountInv, AttemptInv, FieldInv, SaleInv, ReaderInv, FallbackEarned,
   CompletionTechnology, SaleAnswered

\* A card seen by a reader that is on.
LEMMA PresentStep ==
  ASSUME IInv, NEW t \in Techs, NEW c \in Cards, Present(t, c)
  PROVE  IInv'
BY DEF Present, Detected, Saved, Techs, Readers,
   IInv, TypeOK, CountInv, AttemptInv, FieldInv, SaleInv, ReaderInv, FallbackEarned,
   CompletionTechnology, SaleAnswered

\* A mute card needs the chip reader, so the count is at most one.
LEMMA PresentMuteStep ==
  ASSUME IInv, NEW t \in Techs, NEW c \in Cards, PresentMute(t, c)
  PROVE  IInv'
BY DEF PresentMute, Detected, Saved, Techs, Readers,
   IInv, TypeOK, CountInv, AttemptInv, FieldInv, SaleInv, ReaderInv, FallbackEarned,
   CompletionTechnology, SaleAnswered

\* Nothing presented: no success, and no chip.
LEMMA PresentNothingStep ==
  ASSUME IInv, NEW t \in Techs, PresentNothing(t)
  PROVE  IInv'
BY DEF PresentNothing, Detected, Saved, Techs, Readers,
   IInv, TypeOK, CountInv, AttemptInv, FieldInv, SaleInv, ReaderInv, FallbackEarned,
   CompletionTechnology, SaleAnswered

\* A first failure leaves the readers, a second one leaves only the stripe.
LEMMA FallbackStep ==
  ASSUME IInv, Fallback
  PROVE  IInv'
BY DEF Fallback, ChipFailed, Readers,
   IInv, TypeOK, CountInv, AttemptInv, FieldInv, SaleInv, ReaderInv, FallbackEarned,
   CompletionTechnology, SaleAnswered

\* An attempt without a card ends.
LEMMA NoInputStep ==
  ASSUME IInv, NoInput
  PROVE  IInv'
BY DEF NoInput,
   IInv, TypeOK, CountInv, AttemptInv, FieldInv, SaleInv, ReaderInv, FallbackEarned,
   CompletionTechnology, SaleAnswered

\* A chip card's stripe is taken only at a count of two, hence after two failures.
LEMMA StripeStep ==
  ASSUME IInv, Stripe
  PROVE  IInv'
<1> USE DEF IInv, Stripe
<1>1. TypeOK'
  BY StripeType
<1>2. PICK d \in Cards \cup {NoCard} : IF d # NoCard THEN StripeData(d) ELSE StripeNoData
  OBVIOUS
<1>3. field.pos = "None" /\ field \in Fields
  BY DEF FieldInv, TypeOK, Fields
<1>4. count_fallback =< fails /\ count_fallback \in 0 .. 2 /\ fails \in 0 .. 2
  BY DEF CountInv, TypeOK
<1>5. CountInv'
  <2>1. count_fallback' \in {count_fallback, 0}
    BY <1>2 DEF StripeData, StripeNoData
  <2> QED BY <2>1, <1>4 DEF CountInv
<1>6. FieldInv'
  <2>1. CASE field' = field \/ field' = [field EXCEPT !.pan = d]
    BY <1>3, <2>1 DEF FieldInv, Fields
  <2>2. CASE field' # field /\ field' # [field EXCEPT !.pan = d]
    <3>1. /\ in_val' # "Again" /\ field'.pan = d
          /\ d \in ChipCards => count_fallback >= 2
      BY <1>2, <2>2 DEF StripeData, StripeNoData, ServiceCodeAllows
    <3> QED BY <3>1, <1>4 DEF FieldInv
  <2> QED BY <2>1, <2>2
<1>7. AttemptInv' /\ ReaderInv'
  BY DEF AttemptInv, ReaderInv
<1>8. SaleInv'
  BY <1>2 DEF SaleInv, Served, StripeData, StripeNoData
<1>9. FallbackEarned' /\ CompletionTechnology' /\ SaleAnswered'
  BY DEF FallbackEarned, CompletionTechnology, SaleAnswered
<1> QED BY <1>1, <1>5, <1>6, <1>7, <1>8, <1>9

\* The chip reader being on, the count is at most one, and rises to two at most.
LEMMA ChipStep ==
  ASSUME IInv, Chip
  PROVE  IInv'
<1> USE DEF IInv, Chip
<1>1. TypeOK'
  BY ChipType
<1>2. count_fallback \in 0 .. 1 /\ count_fallback =< fails /\ fails \in 0 .. 2
  BY ChipOnCount DEF CountInv, TypeOK
<1>3. field.pos = "None"
  BY DEF FieldInv
<1>4. CountInv' /\ FieldInv'
  <2>1. CASE ChipFailed /\ UNCHANGED <<field, keylod>>
    BY <1>2, <1>3, <2>1 DEF ChipFailed, CountInv, FieldInv
  <2>2. CASE EMV_Transaction /\ Reply53("05") /\ UNCHANGED <<count_fallback, Dev_type, fails>>
    <3>1. field'.pos = "05" /\ in_val' # "Again"
      BY <2>2 DEF EMV_Transaction, Reply53
    <3> QED BY <1>2, <2>2, <3>1 DEF CountInv, FieldInv
  <2> QED BY <2>1, <2>2
<1>5. AttemptInv' /\ ReaderInv'
  BY DEF AttemptInv, ReaderInv, ChipFailed
<1>6. SaleInv'
  BY DEF SaleInv, Served, ChipFailed, EMV_Transaction
<1>7. FallbackEarned' /\ CompletionTechnology' /\ SaleAnswered'
  BY DEF FallbackEarned, CompletionTechnology, SaleAnswered
<1> QED BY <1>1, <1>4, <1>5, <1>6, <1>7

\* A tap changes neither count nor readers.
LEMMA TapStep ==
  ASSUME IInv, Tap
  PROVE  IInv'
<1> USE DEF IInv, Tap, CTLS_Transaction, Reply53, UseKey, Served
<1>1. TypeOK'
  BY TapType
<1>2. CountInv' /\ AttemptInv'
  BY DEF CountInv, AttemptInv, TypeOK
<1>3. FieldInv'
  BY DEF FieldInv, TypeOK
<1>4. SaleInv' /\ ReaderInv'
  BY DEF SaleInv, ReaderInv, AttemptInv, TypeOK
<1>5. FallbackEarned' /\ CompletionTechnology' /\ SaleAnswered'
  BY DEF FallbackEarned, CompletionTechnology, SaleAnswered, FieldInv, SaleInv, ReaderInv
<1> QED BY <1>1, <1>2, <1>3, <1>4, <1>5

\* No reader: the success has no technology.
LEMMA NoReaderStep ==
  ASSUME IInv, NoReader
  PROVE  IInv'
BY DEF NoReader,
   IInv, TypeOK, CountInv, AttemptInv, FieldInv, SaleInv, ReaderInv, FallbackEarned,
   CompletionTechnology, SaleAnswered

\* The loop goes round or ends.
LEMMA AgainStep ==
  ASSUME IInv, Again
  PROVE  IInv'
BY DEF Again,
   IInv, TypeOK, CountInv, AttemptInv, FieldInv, SaleInv, ReaderInv, FallbackEarned,
   CompletionTechnology, SaleAnswered

\* C53 carries what FieldInv and SaleInv say; everything is cleared after it.
LEMMA CloseStep ==
  ASSUME IInv, Close
  PROVE  IInv'
BY DEF Close, Return, Reply, NoFields, Replies, EntryModes, Techs, Readers,
   IInv, TypeOK, CountInv, AttemptInv, FieldInv, SaleInv, ReaderInv, FallbackEarned,
   CompletionTechnology, SaleAnswered

\* Reading ahead changes the technology and forgets the last sale.
LEMMA DoZ4Step ==
  ASSUME IInv, NEW t \in Techs, NEW c \in Cards \cup {NoCard}, DoZ4(t, c)
  PROVE  IInv'
<1> USE DEF IInv, DoZ4, ReadAhead, read_PAN_MSR, read_PAN_EMV, read_PAN_CTLS
<1>1. TypeOK'
  BY DoZ4Type
<1>2. CountInv' /\ AttemptInv'
  BY DEF CountInv, AttemptInv, TypeOK
<1>3. FieldInv'
  BY DEF FieldInv, TypeOK
<1>4. SaleInv' /\ ReaderInv'
  BY DEF SaleInv, ReaderInv, AttemptInv, TypeOK
<1>5. FallbackEarned' /\ CompletionTechnology' /\ SaleAnswered'
  BY DEF FallbackEarned, CompletionTechnology, SaleAnswered, FieldInv, SaleInv, ReaderInv
<1> QED BY <1>1, <1>2, <1>3, <1>4, <1>5

\* The answer of the host is processed under the technology of the sale.
LEMMA DoC54Step ==
  ASSUME IInv, DoC54
  PROVE  IInv'
<1> USE DEF IInv, DoC54, Reply, NoFields
<1>1. TypeOK'
  BY DoC54Type
<1>2. CountInv' /\ AttemptInv'
  BY DEF CountInv, AttemptInv, TypeOK
<1>3. FieldInv'
  BY DEF FieldInv, TypeOK
<1>4. SaleInv' /\ ReaderInv'
  BY DEF SaleInv, ReaderInv, AttemptInv, TypeOK
<1>5. FallbackEarned' /\ CompletionTechnology' /\ SaleAnswered'
  BY DEF FallbackEarned, CompletionTechnology, SaleAnswered, FieldInv, SaleInv, ReaderInv
<1> QED BY <1>1, <1>2, <1>3, <1>4, <1>5

\* A cancel command clears the flags.
LEMMA Do72Step ==
  ASSUME IInv, Do72
  PROVE  IInv'
<1> USE DEF IInv, Do72, NoFields
<1>1. TypeOK'
  BY Do72Type
<1>2. CountInv' /\ AttemptInv'
  BY DEF CountInv, AttemptInv, TypeOK
<1>3. FieldInv'
  BY DEF FieldInv, TypeOK
<1>4. SaleInv' /\ ReaderInv'
  BY DEF SaleInv, ReaderInv, AttemptInv, TypeOK
<1>5. FallbackEarned' /\ CompletionTechnology' /\ SaleAnswered'
  BY DEF FallbackEarned, CompletionTechnology, SaleAnswered, FieldInv, SaleInv, ReaderInv
<1> QED BY <1>1, <1>2, <1>3, <1>4, <1>5

\* Q8 clears the technology and forgets the last sale.
LEMMA DoQ8Step ==
  ASSUME IInv, DoQ8
  PROVE  IInv'
BY DEF DoQ8, Techs,
   IInv, TypeOK, CountInv, AttemptInv, FieldInv, SaleInv, ReaderInv, FallbackEarned,
   CompletionTechnology, SaleAnswered

\* A key is loaded, or used by a C14.
LEMMA DoKeysStep ==
  ASSUME IInv, DoKeys
  PROVE  IInv'
<1> USE DEF IInv, DoKeys, UseKey
<1>1. TypeOK'
  BY DoKeysType
<1>2. CountInv' /\ AttemptInv'
  BY DEF CountInv, AttemptInv, TypeOK
<1>3. FieldInv'
  BY DEF FieldInv, TypeOK
<1>4. SaleInv' /\ ReaderInv'
  BY DEF SaleInv, ReaderInv, AttemptInv, TypeOK
<1>5. FallbackEarned' /\ CompletionTechnology' /\ SaleAnswered'
  BY DEF FallbackEarned, CompletionTechnology, SaleAnswered, FieldInv, SaleInv, ReaderInv
<1> QED BY <1>1, <1>2, <1>3, <1>4, <1>5

\* The other commands touch nothing.
LEMMA DoOtherStep ==
  ASSUME IInv, DoOther
  PROVE  IInv'
BY DEF DoOther,
   IInv, TypeOK, CountInv, AttemptInv, FieldInv, SaleInv, ReaderInv, FallbackEarned,
   CompletionTechnology, SaleAnswered

-----------------------------------------------------------------------------
(* The theorems *)

\* Every step of the program keeps the inductive invariant.
LEMMA DeviceStep == ASSUME IInv, Device PROVE IInv'
<1>1. CASE SaleWithoutKey BY <1>1, SaleWithoutKeyStep
<1>2. CASE SaleByKeyboard BY <1>2, SaleByKeyboardStep
<1>3. CASE SaleByCard BY <1>3, SaleByCardStep
<1>4. CASE TrySaved BY <1>4, TrySavedStep
<1>5. CASE Fallback BY <1>5, FallbackStep
<1>6. CASE NoInput BY <1>6, NoInputStep
<1>7. CASE Stripe BY <1>7, StripeStep
<1>8. CASE Chip BY <1>8, ChipStep
<1>9. CASE Tap BY <1>9, TapStep
<1>10. CASE NoReader BY <1>10, NoReaderStep
<1>11. CASE Again BY <1>11, AgainStep
<1>12. CASE Close BY <1>12, CloseStep
<1>13. CASE \E t \in Techs, c \in Cards \cup {NoCard} : DoZ4(t, c) BY <1>13, DoZ4Step
<1>14. CASE DoC54 BY <1>14, DoC54Step
<1>15. CASE Do72 BY <1>15, Do72Step
<1>16. CASE DoQ8 BY <1>16, DoQ8Step
<1>17. CASE DoKeys BY <1>17, DoKeysStep
<1>18. CASE DoOther BY <1>18, DoOtherStep
<1> QED BY <1>1, <1>2, <1>3, <1>4, <1>5, <1>6, <1>7, <1>8, <1>9, <1>10,
           <1>11, <1>12, <1>13, <1>14, <1>15, <1>16, <1>17, <1>18
           DEF Device

\* So does every step of the cash register and the customer.
LEMMA EnvironmentStep == ASSUME IInv, Environment PROVE IInv'
<1>1. CASE \E c \in Commands, g \in BOOLEAN : Receive(c, g)
  BY <1>1, ReceiveStep
<1>2. CASE \E t \in Techs, c \in Cards : Present(t, c) \/ PresentMute(t, c)
  BY <1>2, PresentStep, PresentMuteStep
<1>3. CASE \E t \in Techs : PresentNothing(t)
  BY <1>3, PresentNothingStep
<1>4. CASE Abandon
  BY <1>4, AbandonStep
<1> QED BY <1>1, <1>2, <1>3, <1>4 DEF Environment

\* Nothing in IInv changes when no variable does.
LEMMA StutterStep == ASSUME IInv, UNCHANGED vars PROVE IInv'
BY DEF vars, IInv, TypeOK, CountInv, AttemptInv, FieldInv, SaleInv, ReaderInv,
   FallbackEarned, CompletionTechnology, SaleAnswered

\* The inductive invariant holds in every reachable state, whatever the cards,
\* the frames and the order in which the commands come.
THEOREM Invariant == Spec => []IInv
<1>1. IInv /\ [Next]_vars => IInv'
  BY DeviceStep, EnvironmentStep, StutterStep DEF Next
<1> QED BY InitInvariant, <1>1, PTL DEF Spec

\* The globals of the session keep their types (inTransInProgress, flagZ4 and
\* the others of FlowPinPad.cpp:40-61), and count_fallback stays in 0 .. 2.
THEOREM TypeCorrect == Spec => []TypeOK
<1>1. IInv => TypeOK
  BY DEF IInv
<1> QED BY Invariant, <1>1, PTL

\* A C53 with the stripe of a chip card is sent only when chips failed twice
\* since the last C53 of a finished sale, across abandoned sales and Z4.
THEOREM FallbackIsEarned == Spec => []FallbackEarned
<1>1. IInv => FallbackEarned
  BY DEF IInv
<1> QED BY Invariant, <1>1, PTL

\* The host's answer is processed under the reader that gave the sale its
\* success, unless a Z4 or Q8 came after the sale.
THEOREM CompletionFollowsSale == Spec => []CompletionTechnology
<1>1. IInv => CompletionTechnology
  BY DEF IInv
<1> QED BY Invariant, <1>1, PTL

\* Back in the main loop an acknowledged C51 has its C53 and the stripe reader
\* is off, but for the failed activation of the contactless reader.
THEOREM EverySaleAnswered == Spec => []SaleAnswered
<1>1. IInv => SaleAnswered
  BY DEF IInv
<1> QED BY Invariant, <1>1, PTL
=============================================================================
