--------------------------- MODULE ChipSaleProofs ---------------------------
(***************************************************************************)
(* Theorems about the chip sale, for any token sizes and any range of a    *)
(* byte: IInv is inductive; from it LatchStops, OnlineOnlyOnRequest,       *)
(* NoApprovalAgainstHost and LengthNeverOverstates.  One lemma per action. *)
(***************************************************************************)
EXTENDS ChipSale, TLAPS

USE SizesAssumption
USE DEF vars, card, emv, sess, reply, Stages, Flow, Selection, Completion, PinRequests,
        PinCodes, Cryptograms, Statuses, HostStatuses

Safety == LatchStops /\ OnlineOnlyOnRequest /\ NoApprovalAgainstHost /\ LengthNeverOverstates

Fields == [status : Statuses, tok : TokenSizes \cup {0, 1}, len : Nat]

\* Setting one member of the reply leaves the other members, and a reply.
LEMMA StatusType ==
  ASSUME NEW f \in Fields, NEW s \in Statuses
  PROVE  LET g == [f EXCEPT !.status = s]
         IN  g \in Fields /\ g.status = s /\ g.tok = f.tok /\ g.len = f.len
  BY DEF Fields

LEMMA FieldNat == TypeOK => field.tok \in Nat /\ field.len \in Nat
<1> SUFFICES ASSUME TypeOK PROVE field.tok \in Nat /\ field.len \in Nat  OBVIOUS
<1>1. field.tok \in TokenSizes \cup {0, 1} /\ field.len \in Nat
  BY DEF TypeOK
<1>2. TokenSizes \subseteq Nat /\ 0 \in Nat /\ 1 \in Nat
  OBVIOUS
<1> QED  BY <1>1, <1>2

\* The kernel asks to go online only where it then waits for the host, and no
\* call ends with the code of success.
LEMMA KernelStep ==
  ASSUME TypeOK, EMV_CT_ContinueOffline
  PROVE  /\ info' \in Infos /\ failedPin' \in BOOLEAN /\ told' = told
         /\ kernel' \in {"None", "Selected", "Read", "Auth", "Pin", "Cvm", "Risk", "Online", "Over"}
         /\ info' # "OK" /\ (info' = "ARQC" => kernel' = "Online")
<1>1. CASE session /\ ~told
  <2>1. PICK a \in Answers(kernel) :
          /\ info' = a[1] /\ kernel' = a[2]
          /\ failedPin' \in (IF kernel = "Over" THEN {failedPin, FALSE} ELSE Verdicts(info'))
    BY <1>1 DEF EMV_CT_ContinueOffline
  <2>2. failedPin' \in BOOLEAN
    BY <2>1 DEF TypeOK, Verdicts
  <2>3. /\ a[1] \in Infos \ {"OK"} /\ (a[1] = "ARQC" => a[2] = "Online")
        /\ a[2] \in {"Read", "Auth", "Pin", "Cvm", "Risk", "Online", "Over"}
    BY <2>1 DEF TypeOK, Answers, Infos
  <2> QED  BY <2>1, <2>2, <2>3 DEF EMV_CT_ContinueOffline
<1>2. CASE ~(session /\ ~told)
  BY <1>2 DEF TypeOK, EMV_CT_ContinueOffline, Infos
<1> QED  BY <1>1, <1>2

\* EMV_steps invents neither a request to go online nor a success.
LEMMA StepsDone ==
  ASSUME TypeOK, info # "OK", EMV_steps
  PROVE  /\ step' \in Infos \cup PinCodes /\ step' # "OK"
         /\ step' = "ARQC" => info = "ARQC"
         /\ told' \in BOOLEAN /\ fRemovedCard' \in BOOLEAN
         /\ UNCHANGED <<kernel, info, failedPin>>
<1>1. /\ step' \in Infos \cup PinCodes /\ step' # "OK" /\ told' \in BOOLEAN
      /\ step' = "ARQC" => info = "ARQC"
  <2>1. CASE info = "ONL_PIN"
    BY <2>1 DEF TypeOK, EMV_steps, StepResult, OnlinePin, Infos
  <2>2. CASE info = "OFL_PIN"
    BY <2>2 DEF TypeOK, EMV_steps, StepResult, EncipheredPin, ENTER_PIN, UIEnterPin, Infos
  <2>3. CASE info = "PLAIN_PIN"
    BY <2>3 DEF TypeOK, EMV_steps, StepResult, PlainPin, ENTER_PIN, UIEnterPin, Infos
  <2>4. CASE info \notin {"ONL_PIN", "OFL_PIN", "PLAIN_PIN"}
    BY <2>4 DEF TypeOK, EMV_steps, StepResult, NoPin, Infos
  <2> QED  BY <2>1, <2>2, <2>3, <2>4
<1>2. fRemovedCard' \in BOOLEAN /\ UNCHANGED <<kernel, info, failedPin>>
  BY DEF TypeOK, EMV_steps, Look
<1> QED  BY <1>1, <1>2

LEMMA InitIInv == Init => IInv
<1> SUFFICES ASSUME Init PROVE IInv  OBVIOUS
<1>1. TypeOK
  <2>1. session \in BOOLEAN /\ failedPin \in BOOLEAN /\ told \in BOOLEAN /\ fRemovedCard \in BOOLEAN
        /\ flagC51 \in BOOLEAN
    BY DEF Init
  <2>2. host \in Hosts /\ online \in Online /\ field \in Fields
    BY DEF Init, Hosts, Online, NotOnline, NoField, Fields
  <2>3. info \in Infos /\ step \in Infos
    BY DEF Init, Infos
  <2> QED  BY <2>1, <2>2, <2>3 DEF Init, TypeOK, Fields
<1>2. SlotInv /\ FlowInv /\ HostInv
  BY DEF Init, SlotInv, FlowInv, HostInv
<1>3. Safety
  BY DEF Init, Safety, LatchStops, OnlineOnlyOnRequest, NoApprovalAgainstHost, LengthNeverOverstates
<1> QED  BY <1>1, <1>2, <1>3 DEF IInv, Safety

LEMMA InsertIInv ==
  ASSUME IInv, Insert
  PROVE  IInv'
<1>0. TypeOK /\ SlotInv /\ FlowInv /\ HostInv /\ Safety
  BY DEF IInv, Safety
<1>1. TypeOK'
  BY <1>0 DEF TypeOK, FlowInv, Insert
<1>2. SlotInv'
  BY <1>0 DEF TypeOK, SlotInv, Insert
<1>3. FlowInv'
  BY <1>0 DEF TypeOK, FlowInv, Insert
<1>4. HostInv'
  BY <1>0 DEF TypeOK, HostInv, Insert, ByCard, Authorised, Approves
<1>5. Safety'
  BY <1>0 DEF TypeOK, SlotInv, FlowInv, HostInv, Safety, LatchStops, OnlineOnlyOnRequest, NoApprovalAgainstHost,
                 LengthNeverOverstates, Insert, ByCard, Authorised, Approves
<1> QED  BY <1>1, <1>2, <1>3, <1>4, <1>5 DEF IInv, Safety

LEMMA PullIInv ==
  ASSUME IInv, Pull
  PROVE  IInv'
<1>0. TypeOK /\ SlotInv /\ FlowInv /\ HostInv /\ Safety
  BY DEF IInv, Safety
<1>1. TypeOK'
  <2>1. session' \in BOOLEAN /\ failedPin' \in BOOLEAN /\ told' \in BOOLEAN
    BY <1>0 DEF TypeOK, Pull
  <2>2. fRemovedCard' \in BOOLEAN /\ flagC51' \in BOOLEAN
    BY <1>0 DEF TypeOK, Pull
  <2>3. pc' \in {"Idle", "Outcome", "Reply53"} \cup Selection \cup Flow \cup Completion /\ stage' \in Stages
    BY <1>0 DEF TypeOK, Pull
  <2>4. /\ slot' \in {"In", "Out"} /\ info' \in Infos /\ step' \in Infos \cup PinCodes \cup {"Removed"}
        /\ kernel' \in {"None", "Selected", "Read", "Auth", "Pin", "Cvm", "Risk", "Online", "Over"}
    BY <1>0 DEF TypeOK, Pull
  <2>5. /\ chTechnology' \in {"None", "CHIP", "TAP", "TAPMSR", "MSR", "KBD"}
        /\ count_fallback' \in 0 .. 2 /\ host' \in Hosts /\ online' \in Online
    BY <1>0 DEF TypeOK, Pull
  <2>6. field' \in Fields /\ screen' \in {"None", "Approved", "Declined", "Removed"}
    BY <1>0 DEF TypeOK, Fields, Pull
  <2> QED  BY <2>1, <2>2, <2>3, <2>4, <2>5, <2>6 DEF TypeOK, Fields
<1>2. SlotInv'
  BY <1>0 DEF TypeOK, SlotInv, Pull
<1>3. FlowInv'
  BY <1>0 DEF TypeOK, FlowInv, Pull
<1>4. HostInv'
  BY <1>0 DEF TypeOK, HostInv, Pull, ByCard, Authorised, Approves
<1>5. Safety'
  BY <1>0 DEF TypeOK, SlotInv, FlowInv, HostInv, Safety, LatchStops, OnlineOnlyOnRequest, NoApprovalAgainstHost,
                 LengthNeverOverstates, Pull, ByCard, Authorised, Approves
<1> QED  BY <1>1, <1>2, <1>3, <1>4, <1>5 DEF IInv, Safety

LEMMA StartSaleIInv ==
  ASSUME IInv, StartSale
  PROVE  IInv'
<1>0. TypeOK /\ SlotInv /\ FlowInv /\ HostInv /\ Safety
  BY DEF IInv, Safety
<1>1. TypeOK'
  <2>1. session' \in BOOLEAN /\ failedPin' \in BOOLEAN /\ told' \in BOOLEAN
    BY <1>0 DEF TypeOK, StartSale, NotOnline, NoField, Online
  <2>2. fRemovedCard' \in BOOLEAN /\ flagC51' \in BOOLEAN
    BY <1>0 DEF TypeOK, StartSale, NotOnline, NoField, Online
  <2>3. pc' \in {"Idle", "Outcome", "Reply53"} \cup Selection \cup Flow \cup Completion /\ stage' \in Stages
    BY <1>0 DEF TypeOK, StartSale, NotOnline, NoField, Online
  <2>4. /\ slot' \in {"In", "Out"} /\ info' \in Infos /\ step' \in Infos \cup PinCodes \cup {"Removed"}
        /\ kernel' \in {"None", "Selected", "Read", "Auth", "Pin", "Cvm", "Risk", "Online", "Over"}
    BY <1>0 DEF TypeOK, StartSale, NotOnline, NoField, Online, Infos
  <2>5. /\ chTechnology' \in {"None", "CHIP", "TAP", "TAPMSR", "MSR", "KBD"}
        /\ count_fallback' \in 0 .. 2 /\ host' \in Hosts /\ online' \in Online
    BY <1>0 DEF TypeOK, StartSale, NotOnline, NoField, Online
  <2>6. field' \in Fields /\ screen' \in {"None", "Approved", "Declined", "Removed"}
    BY <1>0 DEF TypeOK, Fields, StartSale, NotOnline, NoField, Online
  <2> QED  BY <2>1, <2>2, <2>3, <2>4, <2>5, <2>6 DEF TypeOK, Fields
<1>2. SlotInv'
  BY <1>0 DEF TypeOK, SlotInv, StartSale, NotOnline, NoField, Online
<1>3. FlowInv'
  BY <1>0 DEF TypeOK, FlowInv, StartSale, NotOnline, NoField, Online, Infos
<1>4. HostInv'
  BY <1>0 DEF TypeOK, HostInv, StartSale, NotOnline, NoField, Online, ByCard, Authorised, Approves
<1>5. Safety'
  BY <1>0 DEF TypeOK, SlotInv, FlowInv, HostInv, Safety, LatchStops, OnlineOnlyOnRequest, NoApprovalAgainstHost,
                 LengthNeverOverstates, StartSale, NotOnline, NoField, Online, ByCard, Authorised, Approves
<1> QED  BY <1>1, <1>2, <1>3, <1>4, <1>5 DEF IInv, Safety

LEMMA DetectChipIInv ==
  ASSUME IInv, DetectChip
  PROVE  IInv'
<1>0. TypeOK /\ SlotInv /\ FlowInv /\ HostInv /\ Safety
  BY DEF IInv, Safety
<1>1. TypeOK'
  <2>1. session' \in BOOLEAN /\ failedPin' \in BOOLEAN /\ told' \in BOOLEAN
    BY <1>0 DEF TypeOK, DetectChip
  <2>2. fRemovedCard' \in BOOLEAN /\ flagC51' \in BOOLEAN
    BY <1>0 DEF TypeOK, DetectChip
  <2>3. pc' \in {"Idle", "Outcome", "Reply53"} \cup Selection \cup Flow \cup Completion /\ stage' \in Stages
    BY <1>0 DEF TypeOK, DetectChip
  <2>4. /\ slot' \in {"In", "Out"} /\ info' \in Infos /\ step' \in Infos \cup PinCodes \cup {"Removed"}
        /\ kernel' \in {"None", "Selected", "Read", "Auth", "Pin", "Cvm", "Risk", "Online", "Over"}
    BY <1>0 DEF TypeOK, DetectChip
  <2>5. /\ chTechnology' \in {"None", "CHIP", "TAP", "TAPMSR", "MSR", "KBD"}
        /\ count_fallback' \in 0 .. 2 /\ host' \in Hosts /\ online' \in Online
    BY <1>0 DEF TypeOK, DetectChip
  <2>6. field' \in Fields /\ screen' \in {"None", "Approved", "Declined", "Removed"}
    BY <1>0 DEF TypeOK, Fields, DetectChip
  <2> QED  BY <2>1, <2>2, <2>3, <2>4, <2>5, <2>6 DEF TypeOK, Fields
<1>2. SlotInv'
  BY <1>0 DEF TypeOK, SlotInv, DetectChip
<1>3. FlowInv'
  BY <1>0 DEF TypeOK, FlowInv, DetectChip
<1>4. HostInv'
  BY <1>0 DEF TypeOK, HostInv, DetectChip, ByCard, Authorised, Approves
<1>5. Safety'
  BY <1>0 DEF TypeOK, SlotInv, FlowInv, HostInv, Safety, LatchStops, OnlineOnlyOnRequest, NoApprovalAgainstHost,
                 LengthNeverOverstates, DetectChip, ByCard, Authorised, Approves
<1> QED  BY <1>1, <1>2, <1>3, <1>4, <1>5 DEF IInv, Safety

LEMMA DetectMuteIInv ==
  ASSUME IInv, DetectMute
  PROVE  IInv'
<1>0. TypeOK /\ SlotInv /\ FlowInv /\ HostInv /\ Safety
  BY DEF IInv, Safety
<1>1. TypeOK'
  <2>1. session' \in BOOLEAN /\ failedPin' \in BOOLEAN /\ told' \in BOOLEAN
    BY <1>0 DEF TypeOK, DetectMute
  <2>2. fRemovedCard' \in BOOLEAN /\ flagC51' \in BOOLEAN
    BY <1>0 DEF TypeOK, DetectMute
  <2>3. pc' \in {"Idle", "Outcome", "Reply53"} \cup Selection \cup Flow \cup Completion /\ stage' \in Stages
    BY <1>0 DEF TypeOK, DetectMute
  <2>4. /\ slot' \in {"In", "Out"} /\ info' \in Infos /\ step' \in Infos \cup PinCodes \cup {"Removed"}
        /\ kernel' \in {"None", "Selected", "Read", "Auth", "Pin", "Cvm", "Risk", "Online", "Over"}
    BY <1>0 DEF TypeOK, DetectMute
  <2>5. /\ chTechnology' \in {"None", "CHIP", "TAP", "TAPMSR", "MSR", "KBD"}
        /\ count_fallback' \in 0 .. 2 /\ host' \in Hosts /\ online' \in Online
    BY <1>0 DEF TypeOK, DetectMute
  <2>6. field' \in Fields /\ screen' \in {"None", "Approved", "Declined", "Removed"}
    BY <1>0 DEF TypeOK, Fields, DetectMute
  <2> QED  BY <2>1, <2>2, <2>3, <2>4, <2>5, <2>6 DEF TypeOK, Fields
<1>2. SlotInv'
  BY <1>0 DEF TypeOK, SlotInv, DetectMute
<1>3. FlowInv'
  BY <1>0 DEF TypeOK, FlowInv, DetectMute
<1>4. HostInv'
  BY <1>0 DEF TypeOK, HostInv, DetectMute, ByCard, Authorised, Approves
<1>5. Safety'
  BY <1>0 DEF TypeOK, SlotInv, FlowInv, HostInv, Safety, LatchStops, OnlineOnlyOnRequest, NoApprovalAgainstHost,
                 LengthNeverOverstates, DetectMute, ByCard, Authorised, Approves
<1> QED  BY <1>1, <1>2, <1>3, <1>4, <1>5 DEF IInv, Safety

LEMMA DetectOtherIInv ==
  ASSUME NEW t \in {"None", "MSR", "TAP", "TAPMSR", "KBD"}, NEW s \in Statuses, IInv, DetectOther(t, s)
  PROVE  IInv'
<1>0. TypeOK /\ SlotInv /\ FlowInv /\ HostInv /\ Safety
  BY DEF IInv, Safety
<1>1. TypeOK'
  <2>1. session' \in BOOLEAN /\ failedPin' \in BOOLEAN /\ told' \in BOOLEAN
    BY <1>0 DEF TypeOK, DetectOther
  <2>2. fRemovedCard' \in BOOLEAN /\ flagC51' \in BOOLEAN
    BY <1>0 DEF TypeOK, DetectOther
  <2>3. pc' \in {"Idle", "Outcome", "Reply53"} \cup Selection \cup Flow \cup Completion /\ stage' \in Stages
    BY <1>0 DEF TypeOK, DetectOther
  <2>4. /\ slot' \in {"In", "Out"} /\ info' \in Infos /\ step' \in Infos \cup PinCodes \cup {"Removed"}
        /\ kernel' \in {"None", "Selected", "Read", "Auth", "Pin", "Cvm", "Risk", "Online", "Over"}
    BY <1>0 DEF TypeOK, DetectOther
  <2>5. /\ chTechnology' \in {"None", "CHIP", "TAP", "TAPMSR", "MSR", "KBD"}
        /\ count_fallback' \in 0 .. 2 /\ host' \in Hosts /\ online' \in Online
    BY <1>0 DEF TypeOK, DetectOther
  <2>6. field' \in Fields /\ screen' \in {"None", "Approved", "Declined", "Removed"}
    BY <1>0, StatusType DEF TypeOK, Fields, DetectOther
  <2> QED  BY <2>1, <2>2, <2>3, <2>4, <2>5, <2>6 DEF TypeOK, Fields
<1>2. SlotInv'
  BY <1>0 DEF TypeOK, SlotInv, DetectOther
<1>3. FlowInv'
  BY <1>0 DEF TypeOK, FlowInv, DetectOther
<1>4. HostInv'
  BY <1>0 DEF TypeOK, HostInv, DetectOther, ByCard, Authorised, Approves
<1>5. Safety'
  BY <1>0 DEF TypeOK, SlotInv, FlowInv, HostInv, Safety, LatchStops, OnlineOnlyOnRequest, NoApprovalAgainstHost,
                 LengthNeverOverstates, DetectOther, ByCard, Authorised, Approves
<1> QED  BY <1>1, <1>2, <1>3, <1>4, <1>5 DEF IInv, Safety

LEMMA EMV_AppSelectionIInv ==
  ASSUME IInv, EMV_AppSelection
  PROVE  IInv'
<1>0. TypeOK /\ SlotInv /\ FlowInv /\ HostInv /\ Safety
  BY DEF IInv, Safety
<1>1. TypeOK'
  <2>1. session' \in BOOLEAN /\ failedPin' \in BOOLEAN /\ told' \in BOOLEAN
    BY <1>0 DEF TypeOK, EMV_AppSelection, Look
  <2>2. fRemovedCard' \in BOOLEAN /\ flagC51' \in BOOLEAN
    BY <1>0 DEF TypeOK, EMV_AppSelection, Look
  <2>3. pc' \in {"Idle", "Outcome", "Reply53"} \cup Selection \cup Flow \cup Completion /\ stage' \in Stages
    BY <1>0 DEF TypeOK, EMV_AppSelection, Look
  <2>4. /\ slot' \in {"In", "Out"} /\ info' \in Infos /\ step' \in Infos \cup PinCodes \cup {"Removed"}
        /\ kernel' \in {"None", "Selected", "Read", "Auth", "Pin", "Cvm", "Risk", "Online", "Over"}
    BY <1>0 DEF TypeOK, EMV_AppSelection, Look, Infos
  <2>5. /\ chTechnology' \in {"None", "CHIP", "TAP", "TAPMSR", "MSR", "KBD"}
        /\ count_fallback' \in 0 .. 2 /\ host' \in Hosts /\ online' \in Online
    BY <1>0 DEF TypeOK, EMV_AppSelection, Look
  <2>6. field' \in Fields /\ screen' \in {"None", "Approved", "Declined", "Removed"}
    BY <1>0 DEF TypeOK, Fields, EMV_AppSelection, Look
  <2> QED  BY <2>1, <2>2, <2>3, <2>4, <2>5, <2>6 DEF TypeOK, Fields
<1>2. SlotInv'
  BY <1>0 DEF TypeOK, SlotInv, EMV_AppSelection, Look
<1>3. FlowInv'
  BY <1>0 DEF TypeOK, FlowInv, EMV_AppSelection, Look, Infos
<1>4. HostInv'
  BY <1>0 DEF TypeOK, HostInv, EMV_AppSelection, Look, ByCard, Authorised, Approves
<1>5. Safety'
  BY <1>0 DEF TypeOK, SlotInv, FlowInv, HostInv, Safety, LatchStops, OnlineOnlyOnRequest, NoApprovalAgainstHost,
                 LengthNeverOverstates, EMV_AppSelection, Look, ByCard, Authorised, Approves
<1> QED  BY <1>1, <1>2, <1>3, <1>4, <1>5 DEF IInv, Safety

LEMMA AfterSelectionIInv ==
  ASSUME IInv, AfterSelection
  PROVE  IInv'
<1>0. TypeOK /\ SlotInv /\ FlowInv /\ HostInv /\ Safety
  BY DEF IInv, Safety
<1>1. TypeOK'
  BY <1>0 DEF TypeOK, FlowInv, AfterSelection, Look, Infos
<1>2. SlotInv'
  BY <1>0 DEF TypeOK, SlotInv, AfterSelection, Look
<1>3. FlowInv'
  BY <1>0 DEF TypeOK, FlowInv, AfterSelection, Look, Infos
<1>4. HostInv'
  BY <1>0 DEF TypeOK, HostInv, AfterSelection, Look, ByCard, Authorised, Approves
<1>5. Safety'
  BY <1>0 DEF TypeOK, SlotInv, FlowInv, HostInv, Safety, LatchStops, OnlineOnlyOnRequest, NoApprovalAgainstHost,
                 LengthNeverOverstates, AfterSelection, Look, ByCard, Authorised, Approves
<1> QED  BY <1>1, <1>2, <1>3, <1>4, <1>5 DEF IInv, Safety

LEMMA AppSelectedIInv ==
  ASSUME IInv, AppSelected
  PROVE  IInv'
<1>0. TypeOK /\ SlotInv /\ FlowInv /\ HostInv /\ Safety
  BY DEF IInv, Safety
<1>1. TypeOK'
  BY <1>0 DEF TypeOK, FlowInv, AppSelected, Look, Infos
<1>2. SlotInv'
  BY <1>0 DEF TypeOK, SlotInv, AppSelected, Look
<1>3. FlowInv'
  BY <1>0 DEF TypeOK, FlowInv, AppSelected, Look, Infos
<1>4. HostInv'
  BY <1>0 DEF TypeOK, HostInv, AppSelected, Look, ByCard, Authorised, Approves
<1>5. Safety'
  BY <1>0 DEF TypeOK, SlotInv, FlowInv, HostInv, Safety, LatchStops, OnlineOnlyOnRequest, NoApprovalAgainstHost,
                 LengthNeverOverstates, AppSelected, Look, ByCard, Authorised, Approves
<1> QED  BY <1>1, <1>2, <1>3, <1>4, <1>5 DEF IInv, Safety

LEMMA CallIInv ==
  ASSUME IInv, Call
  PROVE  IInv'
<1>0. TypeOK /\ SlotInv /\ FlowInv /\ HostInv /\ Safety
  BY DEF IInv, Safety
<1>1. TypeOK'
  <2>1. session' \in BOOLEAN /\ failedPin' \in BOOLEAN /\ told' \in BOOLEAN
    BY <1>0, KernelStep DEF TypeOK, Call, Look, EMV_ReadRecords, EMV_DataAuthentication, EMV_CardHolderVerification, EMV_CardHoldVerificationProcess, EMV_RiskManagement, EMV_FirstGenerateAC
  <2>2. fRemovedCard' \in BOOLEAN /\ flagC51' \in BOOLEAN
    BY <1>0, KernelStep DEF TypeOK, Call, Look, EMV_ReadRecords, EMV_DataAuthentication, EMV_CardHolderVerification, EMV_CardHoldVerificationProcess, EMV_RiskManagement, EMV_FirstGenerateAC
  <2>3. pc' \in {"Idle", "Outcome", "Reply53"} \cup Selection \cup Flow \cup Completion /\ stage' \in Stages
    BY <1>0 DEF TypeOK, Call, Look, EMV_ReadRecords, EMV_DataAuthentication, EMV_CardHolderVerification, EMV_CardHoldVerificationProcess, EMV_RiskManagement, EMV_FirstGenerateAC
  <2>4. /\ slot' \in {"In", "Out"} /\ info' \in Infos /\ step' \in Infos \cup PinCodes \cup {"Removed"}
        /\ kernel' \in {"None", "Selected", "Read", "Auth", "Pin", "Cvm", "Risk", "Online", "Over"}
    BY <1>0, KernelStep DEF TypeOK, Call, Look, EMV_ReadRecords, EMV_DataAuthentication, EMV_CardHolderVerification, EMV_CardHoldVerificationProcess, EMV_RiskManagement, EMV_FirstGenerateAC
  <2>5. /\ chTechnology' \in {"None", "CHIP", "TAP", "TAPMSR", "MSR", "KBD"}
        /\ count_fallback' \in 0 .. 2 /\ host' \in Hosts /\ online' \in Online
    BY <1>0 DEF TypeOK, Call, Look, EMV_ReadRecords, EMV_DataAuthentication, EMV_CardHolderVerification, EMV_CardHoldVerificationProcess, EMV_RiskManagement, EMV_FirstGenerateAC
  <2>6. field' \in Fields /\ screen' \in {"None", "Approved", "Declined", "Removed"}
    BY <1>0 DEF TypeOK, Fields, Call, Look, EMV_ReadRecords, EMV_DataAuthentication, EMV_CardHolderVerification, EMV_CardHoldVerificationProcess, EMV_RiskManagement, EMV_FirstGenerateAC
  <2> QED  BY <2>1, <2>2, <2>3, <2>4, <2>5, <2>6 DEF TypeOK, Fields
<1>2. SlotInv'
  BY <1>0 DEF TypeOK, SlotInv, Call, Look, EMV_ReadRecords, EMV_DataAuthentication, EMV_CardHolderVerification, EMV_CardHoldVerificationProcess, EMV_RiskManagement, EMV_FirstGenerateAC
<1>3. FlowInv'
  BY <1>0, KernelStep DEF TypeOK, FlowInv, Call, Look, EMV_ReadRecords, EMV_DataAuthentication, EMV_CardHolderVerification, EMV_CardHoldVerificationProcess, EMV_RiskManagement, EMV_FirstGenerateAC
<1>4. HostInv'
  BY <1>0 DEF TypeOK, HostInv, Call, Look, EMV_ReadRecords, EMV_DataAuthentication, EMV_CardHolderVerification, EMV_CardHoldVerificationProcess, EMV_RiskManagement, EMV_FirstGenerateAC, ByCard, Authorised, Approves
<1>5. Safety'
  BY <1>0 DEF TypeOK, SlotInv, FlowInv, HostInv, Safety, LatchStops, OnlineOnlyOnRequest, NoApprovalAgainstHost,
                 LengthNeverOverstates, Call, Look, EMV_ReadRecords, EMV_DataAuthentication, EMV_CardHolderVerification, EMV_CardHoldVerificationProcess, EMV_RiskManagement, EMV_FirstGenerateAC, ByCard, Authorised, Approves
<1> QED  BY <1>1, <1>2, <1>3, <1>4, <1>5 DEF IInv, Safety

LEMMA StepsIInv ==
  ASSUME IInv, Steps
  PROVE  IInv'
<1>0. TypeOK /\ SlotInv /\ FlowInv /\ HostInv /\ Safety
  BY DEF IInv, Safety
<1>1. TypeOK'
  BY <1>0, StepsDone DEF TypeOK, FlowInv, Steps
<1>2. SlotInv'
  BY <1>0 DEF TypeOK, SlotInv, Steps
<1>3. FlowInv'
  BY <1>0, StepsDone DEF TypeOK, FlowInv, Steps
<1>4. HostInv'
  BY <1>0 DEF TypeOK, HostInv, Steps, ByCard, Authorised, Approves
<1>5. Safety'
  BY <1>0 DEF TypeOK, SlotInv, FlowInv, HostInv, Safety, LatchStops, OnlineOnlyOnRequest, NoApprovalAgainstHost,
                 LengthNeverOverstates, Steps, ByCard, Authorised, Approves
<1> QED  BY <1>1, <1>2, <1>3, <1>4, <1>5 DEF IInv, Safety

LEMMA LoopTopIInv ==
  ASSUME IInv, LoopTop
  PROVE  IInv'
<1>0. TypeOK /\ SlotInv /\ FlowInv /\ HostInv /\ Safety
  BY DEF IInv, Safety
<1>1. TypeOK'
  <2>1. session' \in BOOLEAN /\ failedPin' \in BOOLEAN /\ told' \in BOOLEAN
    BY <1>0, KernelStep DEF TypeOK, LoopTop, Look
  <2>2. fRemovedCard' \in BOOLEAN /\ flagC51' \in BOOLEAN
    BY <1>0, KernelStep DEF TypeOK, LoopTop, Look
  <2>3. pc' \in {"Idle", "Outcome", "Reply53"} \cup Selection \cup Flow \cup Completion /\ stage' \in Stages
    BY <1>0 DEF TypeOK, LoopTop, Look
  <2>4. /\ slot' \in {"In", "Out"} /\ info' \in Infos /\ step' \in Infos \cup PinCodes \cup {"Removed"}
        /\ kernel' \in {"None", "Selected", "Read", "Auth", "Pin", "Cvm", "Risk", "Online", "Over"}
    BY <1>0, KernelStep DEF TypeOK, LoopTop, Look
  <2>5. /\ chTechnology' \in {"None", "CHIP", "TAP", "TAPMSR", "MSR", "KBD"}
        /\ count_fallback' \in 0 .. 2 /\ host' \in Hosts /\ online' \in Online
    BY <1>0 DEF TypeOK, LoopTop, Look
  <2>6. field' \in Fields /\ screen' \in {"None", "Approved", "Declined", "Removed"}
    BY <1>0 DEF TypeOK, Fields, LoopTop, Look
  <2> QED  BY <2>1, <2>2, <2>3, <2>4, <2>5, <2>6 DEF TypeOK, Fields
<1>2. SlotInv'
  BY <1>0 DEF TypeOK, SlotInv, LoopTop, Look
<1>3. FlowInv'
  BY <1>0, KernelStep DEF TypeOK, FlowInv, LoopTop, Look
<1>4. HostInv'
  BY <1>0 DEF TypeOK, HostInv, LoopTop, Look, ByCard, Authorised, Approves
<1>5. Safety'
  BY <1>0 DEF TypeOK, SlotInv, FlowInv, HostInv, Safety, LatchStops, OnlineOnlyOnRequest, NoApprovalAgainstHost,
                 LengthNeverOverstates, LoopTop, Look, ByCard, Authorised, Approves
<1> QED  BY <1>1, <1>2, <1>3, <1>4, <1>5 DEF IInv, Safety

LEMMA LoopAgainIInv ==
  ASSUME IInv, LoopAgain
  PROVE  IInv'
<1>0. TypeOK /\ SlotInv /\ FlowInv /\ HostInv /\ Safety
  BY DEF IInv, Safety
<1>1. TypeOK'
  BY <1>0, StepsDone DEF TypeOK, FlowInv, LoopAgain
<1>2. SlotInv'
  BY <1>0 DEF TypeOK, SlotInv, LoopAgain
<1>3. FlowInv'
  BY <1>0, StepsDone DEF TypeOK, FlowInv, LoopAgain
<1>4. HostInv'
  BY <1>0 DEF TypeOK, HostInv, LoopAgain, ByCard, Authorised, Approves
<1>5. Safety'
  BY <1>0 DEF TypeOK, SlotInv, FlowInv, HostInv, Safety, LatchStops, OnlineOnlyOnRequest, NoApprovalAgainstHost,
                 LengthNeverOverstates, LoopAgain, ByCard, Authorised, Approves
<1> QED  BY <1>1, <1>2, <1>3, <1>4, <1>5 DEF IInv, Safety

LEMMA LoopTestIInv ==
  ASSUME IInv, LoopTest
  PROVE  IInv'
<1>0. TypeOK /\ SlotInv /\ FlowInv /\ HostInv /\ Safety
  BY DEF IInv, Safety
<1>1. TypeOK'
  BY <1>0 DEF TypeOK, FlowInv, LoopTest
<1>2. SlotInv'
  BY <1>0 DEF TypeOK, SlotInv, LoopTest
<1>3. FlowInv'
  BY <1>0 DEF TypeOK, FlowInv, LoopTest
<1>4. HostInv'
  BY <1>0 DEF TypeOK, HostInv, LoopTest, ByCard, Authorised, Approves
<1>5. Safety'
  BY <1>0 DEF TypeOK, SlotInv, FlowInv, HostInv, Safety, LatchStops, OnlineOnlyOnRequest, NoApprovalAgainstHost,
                 LengthNeverOverstates, LoopTest, ByCard, Authorised, Approves
<1> QED  BY <1>1, <1>2, <1>3, <1>4, <1>5 DEF IInv, Safety

LEMMA CheckIInv ==
  ASSUME IInv, Check
  PROVE  IInv'
<1>0. TypeOK /\ SlotInv /\ FlowInv /\ HostInv /\ Safety
  BY DEF IInv, Safety
<1>1. TypeOK'
  BY <1>0 DEF TypeOK, FlowInv, Check, Present, After
<1>2. SlotInv'
  BY <1>0 DEF TypeOK, SlotInv, Check, Present, After
<1>3. FlowInv'
  BY <1>0 DEF TypeOK, FlowInv, Check, Present, After
<1>4. HostInv'
  BY <1>0 DEF TypeOK, HostInv, Check, Present, After, ByCard, Authorised, Approves
<1>5. Safety'
  BY <1>0 DEF TypeOK, SlotInv, FlowInv, HostInv, Safety, LatchStops, OnlineOnlyOnRequest, NoApprovalAgainstHost,
                 LengthNeverOverstates, Check, Present, After, ByCard, Authorised, Approves
<1> QED  BY <1>1, <1>2, <1>3, <1>4, <1>5 DEF IInv, Safety

LEMMA FallbackIInv ==
  ASSUME IInv, Fallback
  PROVE  IInv'
<1>0. TypeOK /\ SlotInv /\ FlowInv /\ HostInv /\ Safety
  BY DEF IInv, Safety
<1>1. TypeOK'
  BY <1>0 DEF TypeOK, FlowInv, Fallback
<1>2. SlotInv'
  BY <1>0 DEF TypeOK, SlotInv, Fallback
<1>3. FlowInv'
  BY <1>0 DEF TypeOK, FlowInv, Fallback
<1>4. HostInv'
  BY <1>0 DEF TypeOK, HostInv, Fallback, ByCard, Authorised, Approves
<1>5. Safety'
  BY <1>0 DEF TypeOK, SlotInv, FlowInv, HostInv, Safety, LatchStops, OnlineOnlyOnRequest, NoApprovalAgainstHost,
                 LengthNeverOverstates, Fallback, ByCard, Authorised, Approves
<1> QED  BY <1>1, <1>2, <1>3, <1>4, <1>5 DEF IInv, Safety

LEMMA OutcomeIInv ==
  ASSUME IInv, Outcome
  PROVE  IInv'
<1>0. TypeOK /\ SlotInv /\ FlowInv /\ HostInv /\ Safety
  BY DEF IInv, Safety
<1>1. TypeOK'
  BY <1>0 DEF TypeOK, FlowInv, Outcome, EMV_Transaction, Encrypted, Status51, SwitchedOff
<1>2. SlotInv'
  BY <1>0 DEF TypeOK, SlotInv, Outcome, EMV_Transaction, Encrypted, Status51, SwitchedOff
<1>3. FlowInv'
  BY <1>0 DEF TypeOK, FlowInv, Outcome, EMV_Transaction, Encrypted, Status51, SwitchedOff
<1>4. HostInv'
  BY <1>0 DEF TypeOK, HostInv, Outcome, EMV_Transaction, Encrypted, Status51, SwitchedOff, ByCard, Authorised, Approves
<1>5. Safety'
  BY <1>0 DEF TypeOK, SlotInv, FlowInv, HostInv, Safety, LatchStops, OnlineOnlyOnRequest, NoApprovalAgainstHost,
                 LengthNeverOverstates, Outcome, EMV_Transaction, Encrypted, Status51, SwitchedOff, ByCard, Authorised, Approves
<1> QED  BY <1>1, <1>2, <1>3, <1>4, <1>5 DEF IInv, Safety

LEMMA RemoveFailedIInv ==
  ASSUME IInv, RemoveFailed
  PROVE  IInv'
<1>0. TypeOK /\ SlotInv /\ FlowInv /\ HostInv /\ Safety
  BY DEF IInv, Safety
<1>1. TypeOK'
  BY <1>0 DEF TypeOK, FlowInv, RemoveFailed
<1>2. SlotInv'
  BY <1>0 DEF TypeOK, SlotInv, RemoveFailed
<1>3. FlowInv'
  BY <1>0 DEF TypeOK, FlowInv, RemoveFailed
<1>4. HostInv'
  BY <1>0 DEF TypeOK, HostInv, RemoveFailed, ByCard, Authorised, Approves
<1>5. Safety'
  BY <1>0 DEF TypeOK, SlotInv, FlowInv, HostInv, Safety, LatchStops, OnlineOnlyOnRequest, NoApprovalAgainstHost,
                 LengthNeverOverstates, RemoveFailed, ByCard, Authorised, Approves
<1> QED  BY <1>1, <1>2, <1>3, <1>4, <1>5 DEF IInv, Safety

LEMMA RemoveErrorIInv ==
  ASSUME IInv, RemoveError
  PROVE  IInv'
<1>0. TypeOK /\ SlotInv /\ FlowInv /\ HostInv /\ Safety
  BY DEF IInv, Safety
<1>1. TypeOK'
  BY <1>0 DEF TypeOK, FlowInv, RemoveError
<1>2. SlotInv'
  BY <1>0 DEF TypeOK, SlotInv, RemoveError
<1>3. FlowInv'
  BY <1>0 DEF TypeOK, FlowInv, RemoveError
<1>4. HostInv'
  BY <1>0 DEF TypeOK, HostInv, RemoveError, ByCard, Authorised, Approves
<1>5. Safety'
  BY <1>0 DEF TypeOK, SlotInv, FlowInv, HostInv, Safety, LatchStops, OnlineOnlyOnRequest, NoApprovalAgainstHost,
                 LengthNeverOverstates, RemoveError, ByCard, Authorised, Approves
<1> QED  BY <1>1, <1>2, <1>3, <1>4, <1>5 DEF IInv, Safety

LEMMA Reply53IInv ==
  ASSUME IInv, Reply53
  PROVE  IInv'
<1>0. TypeOK /\ SlotInv /\ FlowInv /\ HostInv /\ Safety
  BY DEF IInv, Safety
<1>1. TypeOK'
  BY <1>0 DEF TypeOK, FlowInv, Reply53, NoField
<1>2. SlotInv'
  BY <1>0 DEF TypeOK, SlotInv, Reply53, NoField
<1>3. FlowInv'
  BY <1>0 DEF TypeOK, FlowInv, Reply53, NoField
<1>4. HostInv'
  BY <1>0 DEF TypeOK, HostInv, Reply53, NoField, ByCard, Authorised, Approves
<1>5. Safety'
  BY <1>0 DEF TypeOK, SlotInv, FlowInv, HostInv, Safety, LatchStops, OnlineOnlyOnRequest, NoApprovalAgainstHost,
                 LengthNeverOverstates, Reply53, NoField, ByCard, Authorised, Approves
<1> QED  BY <1>1, <1>2, <1>3, <1>4, <1>5 DEF IInv, Safety

LEMMA ReceiveC54IInv ==
  ASSUME NEW h \in Hosts, IInv, ReceiveC54(h)
  PROVE  IInv'
<1>0. TypeOK /\ SlotInv /\ FlowInv /\ HostInv /\ Safety
  BY DEF IInv, Safety
<1>1. TypeOK'
  BY <1>0 DEF TypeOK, FlowInv, ReceiveC54
<1>2. SlotInv'
  BY <1>0 DEF TypeOK, SlotInv, ReceiveC54
<1>3. FlowInv'
  BY <1>0 DEF TypeOK, FlowInv, ReceiveC54
<1>4. HostInv'
  BY <1>0 DEF TypeOK, HostInv, ReceiveC54, ByCard, Authorised, Approves
<1>5. Safety'
  BY <1>0 DEF TypeOK, SlotInv, FlowInv, HostInv, Safety, LatchStops, OnlineOnlyOnRequest, NoApprovalAgainstHost,
                 LengthNeverOverstates, ReceiveC54, ByCard, Authorised, Approves
<1> QED  BY <1>1, <1>2, <1>3, <1>4, <1>5 DEF IInv, Safety

LEMMA HostForStripeIInv ==
  ASSUME IInv, HostForStripe
  PROVE  IInv'
<1>0. TypeOK /\ SlotInv /\ FlowInv /\ HostInv /\ Safety
  BY DEF IInv, Safety
<1>1. TypeOK'
  BY <1>0 DEF TypeOK, FlowInv, HostForStripe, Authorised
<1>2. SlotInv'
  BY <1>0 DEF TypeOK, SlotInv, HostForStripe, Authorised
<1>3. FlowInv'
  BY <1>0 DEF TypeOK, FlowInv, HostForStripe, Authorised
<1>4. HostInv'
  BY <1>0 DEF TypeOK, HostInv, HostForStripe, Authorised, ByCard, Authorised, Approves
<1>5. Safety'
  BY <1>0 DEF TypeOK, SlotInv, FlowInv, HostInv, Safety, LatchStops, OnlineOnlyOnRequest, NoApprovalAgainstHost,
                 LengthNeverOverstates, HostForStripe, Authorised, ByCard, Authorised, Approves
<1> QED  BY <1>1, <1>2, <1>3, <1>4, <1>5 DEF IInv, Safety

LEMMA HostForNoneIInv ==
  ASSUME IInv, HostForNone
  PROVE  IInv'
<1>0. TypeOK /\ SlotInv /\ FlowInv /\ HostInv /\ Safety
  BY DEF IInv, Safety
<1>1. TypeOK'
  BY <1>0 DEF TypeOK, FlowInv, HostForNone
<1>2. SlotInv'
  BY <1>0 DEF TypeOK, SlotInv, HostForNone
<1>3. FlowInv'
  BY <1>0 DEF TypeOK, FlowInv, HostForNone
<1>4. HostInv'
  BY <1>0 DEF TypeOK, HostInv, HostForNone, ByCard, Authorised, Approves
<1>5. Safety'
  BY <1>0, FieldNat DEF TypeOK, SlotInv, FlowInv, HostInv, Safety, LatchStops, OnlineOnlyOnRequest, NoApprovalAgainstHost,
                 LengthNeverOverstates, HostForNone, ByCard, Authorised, Approves
<1> QED  BY <1>1, <1>2, <1>3, <1>4, <1>5 DEF IInv, Safety

LEMMA HostCardGoneIInv ==
  ASSUME IInv, HostCardGone
  PROVE  IInv'
<1>0. TypeOK /\ SlotInv /\ FlowInv /\ HostInv /\ Safety
  BY DEF IInv, Safety
<1>1. TypeOK'
  BY <1>0 DEF TypeOK, FlowInv, HostCardGone, Present
<1>2. SlotInv'
  BY <1>0 DEF TypeOK, SlotInv, HostCardGone, Present
<1>3. FlowInv'
  BY <1>0 DEF TypeOK, FlowInv, HostCardGone, Present
<1>4. HostInv'
  BY <1>0 DEF TypeOK, HostInv, HostCardGone, Present, ByCard, Authorised, Approves
<1>5. Safety'
  BY <1>0 DEF TypeOK, SlotInv, FlowInv, HostInv, Safety, LatchStops, OnlineOnlyOnRequest, NoApprovalAgainstHost,
                 LengthNeverOverstates, HostCardGone, Present, ByCard, Authorised, Approves
<1> QED  BY <1>1, <1>2, <1>3, <1>4, <1>5 DEF IInv, Safety

LEMMA HostForCardIInv ==
  ASSUME IInv, HostForCard
  PROVE  IInv'
<1>0. TypeOK /\ SlotInv /\ FlowInv /\ HostInv /\ Safety
  BY DEF IInv, Safety
<1>1. TypeOK'
  BY <1>0 DEF TypeOK, FlowInv, HostForCard, Present, Host_Response, AuthResp, Authorised, Approves, Online
<1>2. SlotInv'
  BY <1>0 DEF TypeOK, SlotInv, HostForCard, Present, Host_Response, AuthResp, Authorised, Approves, Online
<1>3. FlowInv'
  BY <1>0 DEF TypeOK, FlowInv, HostForCard, Present, Host_Response, AuthResp, Authorised, Approves, Online
<1>4. HostInv'
  BY <1>0 DEF TypeOK, HostInv, HostForCard, Present, Host_Response, AuthResp, Authorised, Approves, Online, ByCard, Authorised, Approves
<1>5. Safety'
  BY <1>0 DEF TypeOK, SlotInv, FlowInv, HostInv, Safety, LatchStops, OnlineOnlyOnRequest, NoApprovalAgainstHost,
                 LengthNeverOverstates, HostForCard, Present, Host_Response, AuthResp, Authorised, Approves, Online, ByCard, Authorised, Approves
<1> QED  BY <1>1, <1>2, <1>3, <1>4, <1>5 DEF IInv, Safety

LEMMA SecondForEMVIInv ==
  ASSUME IInv, SecondForEMV
  PROVE  IInv'
<1>0. TypeOK /\ SlotInv /\ FlowInv /\ HostInv /\ Safety
  BY DEF IInv, Safety
<1>1. TypeOK'
  BY <1>0 DEF TypeOK, FlowInv, SecondForEMV, SecondAnswers, Status54, Screen54, Look, Authorised, Approves, Online
<1>2. SlotInv'
  BY <1>0 DEF TypeOK, SlotInv, SecondForEMV, SecondAnswers, Status54, Screen54, Look, Authorised, Approves, Online
<1>3. FlowInv'
  BY <1>0 DEF TypeOK, FlowInv, SecondForEMV, SecondAnswers, Status54, Screen54, Look, Authorised, Approves, Online
<1>4. HostInv'
  BY <1>0 DEF TypeOK, HostInv, SecondForEMV, SecondAnswers, Status54, Screen54, Look, Authorised, Approves, Online, ByCard, Authorised, Approves
<1>5. Safety'
  BY <1>0 DEF TypeOK, SlotInv, FlowInv, HostInv, Safety, LatchStops, OnlineOnlyOnRequest, NoApprovalAgainstHost,
                 LengthNeverOverstates, SecondForEMV, SecondAnswers, Status54, Screen54, Look, Authorised, Approves, Online, ByCard, Authorised, Approves
<1> QED  BY <1>1, <1>2, <1>3, <1>4, <1>5 DEF IInv, Safety

LEMMA SecondForCTLSIInv ==
  ASSUME IInv, SecondForCTLS
  PROVE  IInv'
<1>0. TypeOK /\ SlotInv /\ FlowInv /\ HostInv /\ Safety
  BY DEF IInv, Safety
<1>1. TypeOK'
  BY <1>0 DEF TypeOK, FlowInv, SecondForCTLS, SecondAnswers, Screen54, Authorised, Approves, Online
<1>2. SlotInv'
  BY <1>0 DEF TypeOK, SlotInv, SecondForCTLS, SecondAnswers, Screen54, Authorised, Approves, Online
<1>3. FlowInv'
  BY <1>0 DEF TypeOK, FlowInv, SecondForCTLS, SecondAnswers, Screen54, Authorised, Approves, Online
<1>4. HostInv'
  BY <1>0 DEF TypeOK, HostInv, SecondForCTLS, SecondAnswers, Screen54, Authorised, Approves, Online, ByCard, Authorised, Approves
<1>5. Safety'
  BY <1>0, FieldNat DEF TypeOK, SlotInv, FlowInv, HostInv, Safety, LatchStops, OnlineOnlyOnRequest, NoApprovalAgainstHost,
                 LengthNeverOverstates, SecondForCTLS, SecondAnswers, Screen54, Authorised, Approves, Online, ByCard, Authorised, Approves
<1> QED  BY <1>1, <1>2, <1>3, <1>4, <1>5 DEF IInv, Safety

LEMMA TokenIInv ==
  ASSUME IInv, Token
  PROVE  IInv'
<1>0. TypeOK /\ SlotInv /\ FlowInv /\ HostInv /\ Safety
  BY DEF IInv, Safety
<1>1. TypeOK'
  BY <1>0 DEF TypeOK, FlowInv, Token, Present, assembleTokenE2
<1>2. SlotInv'
  BY <1>0 DEF TypeOK, SlotInv, Token, Present, assembleTokenE2
<1>3. FlowInv'
  BY <1>0 DEF TypeOK, FlowInv, Token, Present, assembleTokenE2
<1>4. HostInv'
  BY <1>0 DEF TypeOK, HostInv, Token, Present, assembleTokenE2, ByCard, Authorised, Approves
<1>5. Safety'
  BY <1>0 DEF TypeOK, SlotInv, FlowInv, HostInv, Safety, LatchStops, OnlineOnlyOnRequest, NoApprovalAgainstHost,
                 LengthNeverOverstates, Token, Present, assembleTokenE2, ByCard, Authorised, Approves
<1> QED  BY <1>1, <1>2, <1>3, <1>4, <1>5 DEF IInv, Safety

LEMMA LengthIInv ==
  ASSUME IInv, Length
  PROVE  IInv'
<1>0. TypeOK /\ SlotInv /\ FlowInv /\ HostInv /\ Safety
  BY DEF IInv, Safety
<1>1. TypeOK'
  BY <1>0 DEF TypeOK, FlowInv, Length, Present
<1>2. SlotInv'
  BY <1>0 DEF TypeOK, SlotInv, Length, Present
<1>3. FlowInv'
  BY <1>0 DEF TypeOK, FlowInv, Length, Present
<1>4. HostInv'
  BY <1>0 DEF TypeOK, HostInv, Length, Present, ByCard, Authorised, Approves
<1>5. Safety'
  BY <1>0 DEF TypeOK, SlotInv, FlowInv, HostInv, Safety, LatchStops, OnlineOnlyOnRequest, NoApprovalAgainstHost,
                 LengthNeverOverstates, Length, Present, ByCard, Authorised, Approves
<1> QED  BY <1>1, <1>2, <1>3, <1>4, <1>5 DEF IInv, Safety

LEMMA FinishIInv ==
  ASSUME IInv, Finish
  PROVE  IInv'
<1>0. TypeOK /\ SlotInv /\ FlowInv /\ HostInv /\ Safety
  BY DEF IInv, Safety
<1>1. TypeOK'
  BY <1>0 DEF TypeOK, FlowInv, Finish, Present
<1>2. SlotInv'
  BY <1>0 DEF TypeOK, SlotInv, Finish, Present
<1>3. FlowInv'
  BY <1>0 DEF TypeOK, FlowInv, Finish, Present
<1>4. HostInv'
  BY <1>0 DEF TypeOK, HostInv, Finish, Present, ByCard, Authorised, Approves
<1>5. Safety'
  BY <1>0 DEF TypeOK, SlotInv, FlowInv, HostInv, Safety, LatchStops, OnlineOnlyOnRequest, NoApprovalAgainstHost,
                 LengthNeverOverstates, Finish, Present, ByCard, Authorised, Approves
<1> QED  BY <1>1, <1>2, <1>3, <1>4, <1>5 DEF IInv, Safety

LEMMA Remove_CardIInv ==
  ASSUME IInv, Remove_Card
  PROVE  IInv'
<1>0. TypeOK /\ SlotInv /\ FlowInv /\ HostInv /\ Safety
  BY DEF IInv, Safety
<1>1. TypeOK'
  BY <1>0 DEF TypeOK, FlowInv, Remove_Card
<1>2. SlotInv'
  BY <1>0 DEF TypeOK, SlotInv, Remove_Card
<1>3. FlowInv'
  BY <1>0 DEF TypeOK, FlowInv, Remove_Card
<1>4. HostInv'
  BY <1>0 DEF TypeOK, HostInv, Remove_Card, ByCard, Authorised, Approves
<1>5. Safety'
  BY <1>0 DEF TypeOK, SlotInv, FlowInv, HostInv, Safety, LatchStops, OnlineOnlyOnRequest, NoApprovalAgainstHost,
                 LengthNeverOverstates, Remove_Card, ByCard, Authorised, Approves
<1> QED  BY <1>1, <1>2, <1>3, <1>4, <1>5 DEF IInv, Safety

LEMMA Reply54IInv ==
  ASSUME IInv, Reply54
  PROVE  IInv'
<1>0. TypeOK /\ SlotInv /\ FlowInv /\ HostInv /\ Safety
  BY DEF IInv, Safety
<1>1. TypeOK'
  <2>1. session' \in BOOLEAN /\ failedPin' \in BOOLEAN /\ told' \in BOOLEAN
    BY <1>0 DEF TypeOK, Reply54, NoField
  <2>2. fRemovedCard' \in BOOLEAN /\ flagC51' \in BOOLEAN
    BY <1>0 DEF TypeOK, Reply54, NoField
  <2>3. pc' \in {"Idle", "Outcome", "Reply53"} \cup Selection \cup Flow \cup Completion /\ stage' \in Stages
    BY <1>0 DEF TypeOK, Reply54, NoField
  <2>4. /\ slot' \in {"In", "Out"} /\ info' \in Infos /\ step' \in Infos \cup PinCodes \cup {"Removed"}
        /\ kernel' \in {"None", "Selected", "Read", "Auth", "Pin", "Cvm", "Risk", "Online", "Over"}
    BY <1>0 DEF TypeOK, Reply54, NoField
  <2>5. /\ chTechnology' \in {"None", "CHIP", "TAP", "TAPMSR", "MSR", "KBD"}
        /\ count_fallback' \in 0 .. 2 /\ host' \in Hosts /\ online' \in Online
    BY <1>0 DEF TypeOK, Reply54, NoField
  <2>6. field' \in Fields /\ screen' \in {"None", "Approved", "Declined", "Removed"}
    BY <1>0 DEF TypeOK, Fields, Reply54, NoField
  <2> QED  BY <2>1, <2>2, <2>3, <2>4, <2>5, <2>6 DEF TypeOK, Fields
<1>2. SlotInv'
  BY <1>0 DEF TypeOK, SlotInv, Reply54, NoField
<1>3. FlowInv'
  BY <1>0 DEF TypeOK, FlowInv, Reply54, NoField
<1>4. HostInv'
  BY <1>0 DEF TypeOK, HostInv, Reply54, NoField, ByCard, Authorised, Approves
<1>5. Safety'
  BY <1>0 DEF TypeOK, SlotInv, FlowInv, HostInv, Safety, LatchStops, OnlineOnlyOnRequest, NoApprovalAgainstHost,
                 LengthNeverOverstates, Reply54, NoField, ByCard, Authorised, Approves
<1> QED  BY <1>1, <1>2, <1>3, <1>4, <1>5 DEF IInv, Safety

\* The invariant holds in every reachable state.
THEOREM Invariant == Spec => []IInv
<1>1. IInv /\ [Next]_vars => IInv'
  <2> SUFFICES ASSUME IInv, [Next]_vars PROVE IInv'  OBVIOUS
  <2>1. CASE Insert  BY <2>1, InsertIInv
  <2>2. CASE Pull  BY <2>2, PullIInv
  <2>3. CASE RemoveError  BY <2>3, RemoveErrorIInv
  <2>4. CASE Command
    <3>1. CASE StartSale  BY <3>1, StartSaleIInv
    <3>2. CASE \E h \in Hosts : ReceiveC54(h)  BY <3>2, ReceiveC54IInv
    <3> QED  BY <2>4, <3>1, <3>2 DEF Command
  <2>5. CASE SaleStep
    <3>1. CASE \E t \in {"None", "MSR", "TAP", "TAPMSR", "KBD"}, s \in Statuses : DetectOther(t, s)
      BY <3>1, DetectOtherIInv
    <3>2. CASE DetectChip \/ DetectMute \/ EMV_AppSelection \/ AfterSelection \/ AppSelected
      BY <3>2, DetectChipIInv, DetectMuteIInv, EMV_AppSelectionIInv, AfterSelectionIInv,
         AppSelectedIInv
    <3>3. CASE Fallback \/ RemoveFailed \/ Outcome \/ Reply53
      BY <3>3, FallbackIInv, RemoveFailedIInv, OutcomeIInv, Reply53IInv
    <3> QED  BY <2>5, <3>1, <3>2, <3>3 DEF SaleStep
  <2>6. CASE FlowStep
    BY <2>6, CallIInv, StepsIInv, LoopTopIInv, LoopAgainIInv, LoopTestIInv, CheckIInv DEF FlowStep
  <2>7. CASE CompletionStep
    <3>1. CASE HostForStripe \/ HostForNone \/ HostCardGone \/ HostForCard
      BY <3>1, HostForStripeIInv, HostForNoneIInv, HostCardGoneIInv, HostForCardIInv
    <3>2. CASE SecondForEMV \/ SecondForCTLS \/ Token \/ Length
      BY <3>2, SecondForEMVIInv, SecondForCTLSIInv, TokenIInv, LengthIInv
    <3>3. CASE Finish \/ Remove_Card \/ Reply54
      BY <3>3, FinishIInv, Remove_CardIInv, Reply54IInv
    <3> QED  BY <2>7, <3>1, <3>2, <3>3 DEF CompletionStep
  <2>8. CASE UNCHANGED vars
    BY <2>8 DEF IInv, TypeOK, SlotInv, FlowInv, HostInv, LatchStops, OnlineOnlyOnRequest,
            NoApprovalAgainstHost, LengthNeverOverstates, ByCard, Authorised, Approves
  <2> QED  BY <2>1, <2>2, <2>3, <2>4, <2>5, <2>6, <2>7, <2>8 DEF Next
<1> QED  BY <1>1, InitIInv, PTL DEF Spec

\* Every variable keeps its type.
THEOREM TypeCorrect == Spec => []TypeOK
<1>1. IInv => TypeOK  BY DEF IInv
<1> QED  BY <1>1, Invariant, PTL

\* A card seen to have left its slot is reported neither for authorisation by
\* C53 nor as approved by C54.
THEOREM RemovalStops == Spec => []LatchStops
<1>1. IInv => LatchStops  BY DEF IInv
<1> QED  BY <1>1, Invariant, PTL

\* C53 asks the host only when the kernel did.
THEOREM OnlineOnRequest == Spec => []OnlineOnlyOnRequest
<1>1. IInv => OnlineOnlyOnRequest  BY DEF IInv
<1> QED  BY <1>1, Invariant, PTL

\* Nothing is shown as approved that the host refused.
THEOREM HostDecides == Spec => []NoApprovalAgainstHost
<1>1. IInv => NoApprovalAgainstHost  BY DEF IInv
<1> QED  BY <1>1, Invariant, PTL

\* LENGH is at most the size of TOKE2, for every range of a byte.
THEOREM LengthBound == Spec => []LengthNeverOverstates
<1>1. IInv => LengthNeverOverstates  BY DEF IInv
<1> QED  BY <1>1, Invariant, PTL

=============================================================================
