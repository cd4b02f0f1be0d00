------------------------------- MODULE Tokens -------------------------------
(***************************************************************************)
(* What the answers C53 and C54 tell the host about a chip or a tapped     *)
(* chip: the tokens E1, E2 and CZ (assembleTokenE1, assembleTokenE2 and    *)
(* tkn_cz of TRANS.cpp), the cut of the account number, and the screen     *)
(* that shows the card.                                                    *)
(*                                                                         *)
(* They come from three places: the kernel that read the card (tags, asked *)
(* for one by one), the result structures the kernels fill (pxTransRes,    *)
(* CTLSTransRes), which outlive a reading, and the terminal itself.  What  *)
(* one place lacks is taken from the next.                                 *)
(*                                                                         *)
(* A kernel K has the card it read, and for each tag a value, Empty (name  *)
(* and length only) or Absent (the fetch fails).  Tags that are treated    *)
(* alike are one: data stands for them.  The results R have an AID from    *)
(* either structure, the kind of tap, and the CVM result of the tap.       *)
(***************************************************************************)
EXTENDS Naturals, Sequences

CONSTANTS NoCard,          \* no card: an AID of length 0, or a kernel without a session
          None,            \* a tag that is not sent
          Absent, Empty    \* a tag the kernel does not have, or has without a value

Schemes == {"Visa", "MC", "Amex"}

\* What stands for nothing is no value.
ASSUME TokensAssumption ==
  /\ NoCard \notin [sale : Nat, try : Nat, scheme : Schemes]
  /\ Absent # Empty /\ None \notin {Absent, Empty}
  /\ \A v \in {None, Absent, Empty} :
       v \notin [method : Nat, result : Nat] \cup {"Value", "CHIP", "MSR"}
  /\ Absent \notin {"Zero", "OnDevice", "Signature", "Other"}

\* A CVM result (9F34): the method, and the result, byte 3; byte 2 plays no part.
Cvm(m, r) == [method |-> m, result |-> r]

\* getCT_EMV_TAG: what a fetch brings; an absent tag leaves the length at zero.
getCT_EMV_TAG == {Absent, Empty, "Value"}
Has(v) == v \notin {Absent, Empty}

CvmData == {Absent, Empty} \cup {Cvm(2, 2), Cvm(1, 1), Cvm(30, 0)}
CtqData == {Absent, "Zero", "OnDevice", "Signature", "Other"}
FormData == {Absent, Empty, "Card4", "Phone4", "Digits", "Letters"}
Cryptograms == {"ARQC", "TC", "AAC"}

KernelData(cards) ==
  [card : cards, aid : getCT_EMV_TAG, cvm : CvmData, ctq : CtqData, f6e : FormData,
   cid : {Absent} \cup Cryptograms, data : getCT_EMV_TAG, pin : getCT_EMV_TAG]

\* A kernel without a session: every fetch fails.
NoKernel == [card |-> NoCard, aid |-> Absent, cvm |-> Absent, ctq |-> Absent,
             f6e |-> Absent, cid |-> Absent, data |-> Absent, pin |-> Absent]

NoResults == [ct |-> NoCard, ctls |-> NoCard, info |-> None, cvm |-> Cvm(0, 0)]

\* Check_typ_CTLS: what CTLSTransRes says of the tap, and it says nothing
\* before one.
Check_typ_CTLS(R) == R.info

IsScheme(c, s) == c # NoCard /\ c.scheme = s

-----------------------------------------------------------------------------
(* The AID *)

\* Tag 4F; a kernel that has it empty refers to the results, the chip's first,
\* whichever kernel was asked.
Aid(K, R) ==
  CASE K.aid = Absent -> NoCard
    [] K.aid = "Value"  -> K.card
    [] K.aid = Empty    -> IF R.ct # NoCard THEN R.ct ELSE R.ctls

\* The same search tells an Amex card, whose account number loses its last digit,
\* the filler of 5A.
identify_AMEX_card(K, R) == IsScheme(Aid(K, R), "Amex")

-----------------------------------------------------------------------------
(* The CVM result *)

SignatureLimit == 25000
CtqLimit == 40000

\* inCTQvalue: the method from the card's qualifiers (9F6C), in this order, or
\* from the amount.
inCTQvalue(ctq, amount) ==
  CASE ctq \in {Absent, "Zero"} -> 31
    [] ctq = "OnDevice"  -> 65
    [] ctq = "Signature" -> 30
    [] ctq = "Other" /\ amount <= CtqLimit -> 31
    [] OTHER -> 0

\* inGet9F34Ctls writes a method for a Visa card whose kernel has 9F6E; where it
\* is called the buffer is zero.
inGet9F34Ctls(K, R, amount) ==
  IF ~IsScheme(R.ctls, "Visa") \/ ~Has(K.f6e) THEN 0
  ELSE IF amount <= SignatureLimit THEN 31
  ELSE IF K.f6e = "Card4" THEN 30 ELSE 34

\* Both tokens build a tapped chip's CVM result alike when the kernel has none.
TapCvm(K, R, amount) ==
  Cvm(IF IsScheme(R.ctls, "Visa") THEN inCTQvalue(K.ctq, amount)
      ELSE inGet9F34Ctls(K, R, amount), 0)

\* Tag 9F34 in E1.
E1Cvm(K, R, amount) ==
  CASE Has(K.cvm) -> K.cvm
    [] ~Has(K.cvm) /\ Check_typ_CTLS(R) = "CHIP" -> TapCvm(K, R, amount)
    [] OTHER -> None

\* C2 says whether a PIN was verified: methods 1 to 5, with success.
E1Flag(cvm) ==
  IF cvm # None /\ cvm.method % 64 \in 1 .. 5 /\ cvm.result = 2 THEN "00" ELSE "01"

-----------------------------------------------------------------------------
(* Other tags *)

\* AddTag9F6E: the form factor of a tapped card; empty for a card in the slot.
AddTag9F6E(K, tech, force) ==
  CASE K.f6e = Absent -> None
    [] tech = "TAP" /\ Has(K.f6e) -> K.f6e
    [] tech = "TAP" /\ ~Has(K.f6e) /\ ~force -> None
    [] OTHER -> Empty

\* The name of tag 9F12 or, when that is there but empty, of tag 50; the emblem
\* only when 4F is empty: otherwise nothing looks at the AID.
CardScreen(K, label, aidCt) ==
  [name |-> IF K.data = "Value" THEN "9F12" ELSE IF K.data = Empty THEN label ELSE None,
   emblem |-> IF K.aid = Empty /\ aidCt # NoCard THEN aidCt.scheme ELSE None]

\* getserialnumber: without the dashes; the length sent is always 8.
getserialnumber(serial) ==
  LET digits == SelectSeq(serial, LAMBDA c : c # "-")
  IN SubSeq(digits, 1, IF Len(digits) < 8 THEN Len(digits) ELSE 8)

\* A tag of E1 is copied when the kernel has it, empty or not.
Copied(v) == IF v = Absent THEN None ELSE v

\* PIN data are always sent empty, and a tap has an entry mode of its own.
assembleTokenE1(K, R, tech, amount) ==
  [aid   |-> Aid(K, R),
   data  |-> Copied(K.data),
   cvm   |-> E1Cvm(K, R, amount),
   flag  |-> E1Flag(E1Cvm(K, R, amount)),
   cid   |-> Copied(K.cid),
   entry |-> IF K.data = Absent THEN None ELSE IF tech = "TAP" THEN "07" ELSE "Kernel",
   pin   |-> IF K.pin = Absent THEN None ELSE Empty,
   f6e   |-> AddTag9F6E(K, tech, TRUE)]

-----------------------------------------------------------------------------
(* Token E2: the tags the ECR asked for, in RTOKE1 or in TOKE2 *)

E2Tags == {"9F53", "9F16", "9F1C", "9F1E", "9F39", "9F6E", "9F27", "9F34", "9F09", "9F03",
           "9C", "data"}

\* Built without asking the kernel; 9F16 is too short to be sent.
LocalTags == {"9F53", "9F16", "9F1C", "9F1E", "9F39"}

Local(t, tech) ==
  CASE t = "9F53" -> "52"
    [] t = "9F39" -> IF tech = "TAP" THEN "07" ELSE "05"
    [] t = "9F1E" -> IF tech = "TAP" THEN "Serial" ELSE "Last7"
    [] t = "9F1C" -> "Last7"
    [] OTHER -> None

\* Mutant: the CVM result is that of the tap, whatever the card.
Fetched_CvmOfTap(t, K, R, tech, cmd) ==
  CASE t = "9F27" -> IF K.cid = Absent THEN None ELSE K.cid
    [] t = "9F34" -> IF ~Has(K.cvm) THEN None ELSE R.cvm
    [] OTHER      -> IF Has(K.data) THEN "Value" ELSE None

\* Empty tags are left out, except for 9C; the cryptogram type of a tap is
\* overwritten in C54 (the environment has no variable STATUS).
Fetched(t, K, R, tech, cmd) ==
  CASE t = "9F6E" -> IF tech = "TAP" /\ Has(K.f6e) THEN K.f6e ELSE None
    [] t = "9F27" -> IF K.cid = Absent THEN None
                     ELSE IF tech = "TAP" /\ cmd = "C54" THEN "TC" ELSE K.cid
    [] t = "9F34" -> IF ~Has(K.cvm) THEN None ELSE IF tech = "TAP" THEN R.cvm ELSE K.cvm
    [] t = "9F09" -> IF ~Has(K.data) THEN None ELSE IF tech = "TAP" THEN "0001" ELSE "Value"
    [] t = "9C"   -> IF K.data = Absent THEN None ELSE K.data
    [] OTHER      -> IF Has(K.data) THEN "Value" ELSE None

\* What a tapped chip sends although the kernel has nothing.
Filled(t, K, R, amount) ==
  CASE Check_typ_CTLS(R) = "CHIP" /\ t = "9F34" -> TapCvm(K, R, amount)
    [] Check_typ_CTLS(R) = "CHIP" /\ t = "9F03" /\ K.data = Absent -> "Zeros"
    [] OTHER -> None

assembleTokenE2(req, K, R, tech, cmd, amount) ==
  [t \in req |->
     IF t \in LocalTags THEN Local(t, tech)
     ELSE LET v == Fetched(t, K, R, tech, cmd)
          IN IF v # None THEN v ELSE Filled(t, K, R, amount)]

-----------------------------------------------------------------------------
(* Token CZ *)

\* The AID is compared with the bytes of the tag, header included: a kernel that
\* has 4F gives no match, and the form factor is left blank.
CzAid(K, R) == IF K.aid = Empty THEN R.ctls ELSE NoCard

\* vdGetFFIMC: two digits at the fifth byte, or else "00"; four bytes end before.
vdGetFFIMC(form) == IF form = "Digits" THEN form ELSE "Default"

\* tkn_cz, the form factor.  Visa and Amex need exactly four bytes.
FormFactor(K, R, tech) ==
  LET form == AddTag9F6E(K, tech, FALSE) IN
  CASE tech = "TAP" /\ IsScheme(CzAid(K, R), "MC") ->
         IF form = None THEN "Blank" ELSE vdGetFFIMC(form)
    [] tech = "TAP" /\ CzAid(K, R) # NoCard /\ ~IsScheme(CzAid(K, R), "MC") ->
         IF form \in {"Card4", "Phone4"} THEN form ELSE "Blank"
    [] OTHER -> "Blank"

\* GetTag for the transaction counter (9F36): zeros when the fetch fails, and for
\* an empty tag whatever the buffer held.
GetTag(v) == CASE v = "Value" -> "Value" [] v = Absent -> "0000" [] OTHER -> "Any"

\* tkn_cz, the counter: blank for a keyed number and a stripe.
Counter(K, tech) == IF tech \in {"KBD", "MSR"} THEN "Blank" ELSE GetTag(K.data)
=============================================================================
