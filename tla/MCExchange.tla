----------------------------- MODULE MCExchange -----------------------------
(***************************************************************************)
(* A small instance of Exchange, and the builders of the tokens checked    *)
(* over everything a kernel may hold.                                      *)
(***************************************************************************)
EXTENDS Exchange

\* A kernel that has 4F empty, and one without a CVM result.
NoName == [card |-> NoCard, aid |-> Empty, cvm |-> Cvm(30, 0), ctq |-> Absent,
           f6e |-> "Card4", cid |-> "ARQC", data |-> "Value", pin |-> Absent]
NoCvm  == [NoName EXCEPT !.aid = "Value", !.cvm = Absent, !.ctq = "Other", !.cid = "TC"]
MCData == {NoName, NoCvm}

MCAmounts  == {50000}
MCRequests == {{"9F34", "9F27", "9F03"}}

Msg(type, num, flag, body) ==
  [type |-> type, num |-> num, flag |-> flag, body |-> body, sent |-> TRUE]
First == <<"9F18", "Command", "Command">>

\* Whole scripts and parts of both types, a last part of 72 that is too long
\* behind its first part, a message without a script and one of an unknown type.
MCMessages ==
  {Msg("71", "01", "1", <<"9F18", "Command">>), Msg("71", "81", "1", First),
   Msg("71", "91", "0", <<"9F18">>), Msg("72", "81", "1", First),
   Msg("72", "91", "1", <<"Command">>), Msg("72", "91", "1", <<"9F18", "Command">>),
   [Msg("71", "01", "1", <<>>) EXCEPT !.sent = FALSE],
   Msg("Other", "01", "1", <<"Command">>)}

-----------------------------------------------------------------------------
(* The builders, over their inputs *)

Visa1 == [sale |-> 1, try |-> 1, scheme |-> "Visa"]
Results == [ct : {NoCard, Visa1}, ctls : {NoCard, Visa1}, info : {None, "CHIP", "MSR"},
            cvm : {Cvm(0, 0)}]

\* PIN data never leave the terminal; a card in the slot never shows a form
\* factor, nor does any card whose kernel has 4F.
ASSUME BuildersAreDiscreet ==
  \A K \in KernelData({Visa1}), R \in Results, tech \in {"CHIP", "TAP"} :
    /\ assembleTokenE1(K, R, tech, 50000).pin \in {None, Empty}
    /\ FormFactor(K, R, tech) # "Blank" => tech = "TAP" /\ ~Has(K.aid)
    /\ Counter(K, tech) # "Blank" /\ Counter(K, "MSR") = "Blank"

\* The screen has an emblem only for a kernel with 4F empty, and a name only when
\* 9F12 is there.
ASSUME ScreenOfTheCard ==
  \A K \in KernelData({Visa1}), label \in {"50", None}, c \in {NoCard, Visa1} :
    LET screen == CardScreen(K, label, c)
    IN /\ screen.emblem # None => K.aid = Empty
       /\ screen.name # None => K.data # Absent

\* A method for a tapped card is made up for a Visa card only.
ASSUME MethodOnlyForVisa ==
  \A K \in KernelData({Visa1}), amount \in {1, 25000, 25001, 40000, 40001} :
    /\ TapCvm(K, NoResults, amount).method = 0
    /\ E1Flag(TapCvm(K, [NoResults EXCEPT !.ctls = Visa1], amount)) = "01"

\* The serial number is whole when it has 8 digits, wherever the dashes are.
ASSUME SerialNumbers ==
  /\ getserialnumber(<<"1", "2", "3", "-", "4", "5", "6", "-", "7", "8", "9">>)
       = <<"1", "2", "3", "4", "5", "6", "7", "8">>
  /\ Len(getserialnumber(<<"1", "-", "2">>)) = 2

\* Script_Format loses no command of a script that fits, and every block but the
\* first begins with an identifier.
ASSUME ScriptsKeepTheirCommands ==
  \A s \in BoundedSeq(Texts, ScriptLimit) :
    /\ FlattenSeq(Script_Format(s)) = s
    /\ \A i \in 2 .. Len(Script_Format(s)) : Head(Script_Format(s)[i]) = "9F18"
=============================================================================
