------------------------------- MODULE BinText -------------------------------
(***************************************************************************)
(* The records inCrpSavExc reads from a text of account-number ranges, and *)
(* the account numbers these except: digit strings compared from the left, *)
(* with as many digits as the end of the range has.                        *)
(***************************************************************************)
EXTENDS Naturals, Sequences

CONSTANTS
  CardLens, \* the lengths of account numbers
  ExcLen    \* CRDEXCMIN: account numbers of this length are all excepted

ASSUME BinTextAssumption == CardLens \subseteq Nat \ {0}

-----------------------------------------------------------------------------
Digits == 0 .. 9

\* The hexadecimal digits that are no digits are the marks of the text.
A == 10
B == 11
C == 12
F == 15

\* ExcCrd: the digits of the two ends.
ExcCrd == [min |-> <<>>, max |-> <<>>]

\* One character of the text in inCrpSavExc: end is where digits go, stop is set
\* by an F.
Character(st, ch) ==
  IF st.stop THEN st
  ELSE CASE ch = A -> [st EXCEPT !.cur = ExcCrd, !.end = "min"]
         [] ch = B -> [st EXCEPT !.end = "max"]
         [] ch = C -> [st EXCEPT !.out = Append(st.out, IF st.cur.max = <<>>
                                                          THEN [st.cur EXCEPT !.max = st.cur.min]
                                                          ELSE st.cur),
                                   !.cur = ExcCrd]
         [] ch = F -> [st EXCEPT !.stop = TRUE]
         [] OTHER  -> [st EXCEPT !.cur = [st.cur EXCEPT ![st.end] = Append(st.cur[st.end], ch)]]

\* The loop of inCrpSavExc over a text.
Read(st, text) ==
  LET after[i \in 0 .. Len(text)] == IF i = 0 THEN st ELSE Character(after[i - 1], text[i])
  IN  after[Len(text)]

\* The records inCrpSavExc writes for a text.
Start == [cur |-> ExcCrd, end |-> "min", out |-> <<>>, stop |-> FALSE]
Parse(text) == Read(Start, text).out

\* strncmp(s, t, Len(t)): the sign of the comparison of the first Len(t) digits;
\* the end of a string is below every digit.
At(s, i) == IF i =< Len(s) THEN s[i] + 1 ELSE 0
Differ(s, t) == {i \in 1 .. Len(t) : At(s, i) # At(t, i)}
First(S) == CHOOSE i \in S : \A j \in S : i =< j
Below(s, t) == Differ(s, t) # {} /\ At(s, First(Differ(s, t))) < At(t, First(Differ(s, t)))
Above(s, t) == Differ(s, t) # {} /\ At(s, First(Differ(s, t))) > At(t, First(Differ(s, t)))

\* Mutant: the whole account number is compared with the upper end.
inCrpCrdExc_WholeNumber(table, pan) ==
  \E i \in 1 .. Len(table) :
    ~Below(pan, table[i].min) /\ (pan = table[i].max \/ Below(pan, table[i].max))

\* inCrpCrdExc: the account number is in one of the ranges.
inCrpCrdExc(table, pan) ==
  \E i \in 1 .. Len(table) : ~Below(pan, table[i].min) /\ ~Above(pan, table[i].max)

\* inCrpExcCrd: ... or as long as CRDEXCMIN says.
inCrpExcCrd(table, pan) == Len(pan) = ExcLen \/ inCrpCrdExc(table, pan)

-----------------------------------------------------------------------------
\* The account numbers.
Pans == UNION {[1 .. n -> Digits] : n \in CardLens}
=============================================================================
