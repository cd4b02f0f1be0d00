------------------------------ MODULE MCTrack ------------------------------
(* What the operators of Track compute, on all stripes of a few shapes. *)
EXTENDS Track, FiniteSets

\* Account number, date and service code of a stripe; names are not looked at.
Card(n) == [i \in 1 .. n |-> "8"]
Dates == {<<"2", "7", "0", "4">>, <<"0", "1", "1", "2">>}
Swiped2(n, date) == Card(n) \o <<"=">> \o date \o <<"1", "0", "1">>
Swiped1(n) == <<"B">> \o Card(n) \o <<"^">> \o [i \in 1 .. n |-> "N"] \o <<"^">>

\* processMSRTransaction, cryp_msr and inCrdRawDsm together: whatever track 1 is like,
\* absent (the length 0 that inCrdDsm takes for 76 characters) or there, the record
\* has the account number, the date and the track 2 that were on the stripe.
ASSUME SwipedStripe ==
  \A n \in 12 .. 19, date \in Dates, one \in {0, 15, 16, 25} :
    LET t2  == Swiped2(n, date)
        out == inCrdRawDsm(cryp_msr(IF one = 0 THEN <<>> ELSE SubSeq(Swiped1(19), 1, one),
                                    Stripped(<<";">> \o t2 \o <<"?", "L">>)))
    IN out.ok /\ out.act = Card(n) /\ out.exp = date /\ out.tk2 = t2

\* A tapped stripe keeps its start sentinel in front of track 2 (cryp_msr no longer
\* leaves it off), so the account number of its record begins with it: for every
\* length it is not the one of the card.
ASSUME TappedStripe ==
  \A n \in 12 .. 19, date \in Dates :
    LET nibbles == Card(n) \o <<"D">> \o date \o <<"1", "0", "1">>
                     \o (IF n % 2 = 0 THEN <<>> ELSE <<"F">>)
        t2  == Tapped2(nibbles)
        t1  == Tapped1(nibbles, <<"N">>, <<>>)
        out == inCrdRawDsm(cryp_msr(t1, t2))
    IN /\ out.ok /\ out.exp = date
       /\ out.act = <<";">> \o Card(n)
       /\ SubSeq(out.tk1, 1, n + 1) = <<"B">> \o Card(n)

\* A stripe is refused for a track 2 of at most five characters, and only then.
ASSUME ShortStripe ==
  \A n \in 0 .. 8 : inCrdRawDsm(cryp_msr(<<>>, Card(n))).ok = (n > 5)

\* A keyed card: the date is swapped into the order of a stripe, and swapped back
\* for a card that goes in clear; without a date there are four zeros.
ASSUME KeyedCard ==
  \A n \in 1 .. 4, date \in Dates \cup {<<>>, <<"1", "2">>} :
    LET t == KeyedTrack(Card(n), date)
    IN /\ inCrdExpSwc(t, "01") = Card(n) \o <<"=">>
            \o (IF Len(date) = 4 THEN date ELSE <<"0", "0", "0", "0">>)
       /\ inCrdExpSwc(t, "90") = t
       /\ inCrdExpSwc(Card(n), "01") = Card(n)

\* checkLuhn accepts the numbers whose digits, every second one from the right
\* doubled with its digits added, sum to a multiple of ten; one wrong digit is always
\* noticed, and so are two neighbours changed over, but for 0 and 9.
Sum10(d) == FoldLeftDomain(LAMBDA s, i : s + (IF (Len(d) - i) % 2 = 0 THEN d[i]
                              ELSE ((2 * d[i]) \div 10) + ((2 * d[i]) % 10)), 0, d) % 10
ASSUME Luhn ==
  \A d \in [1 .. 4 -> 0 .. 9] :
    /\ checkLuhn(d) = (Sum10(d) = 0)
    /\ checkLuhn(d) =>
         /\ \A i \in 1 .. 4, x \in 0 .. 9 : x # d[i] => ~checkLuhn([d EXCEPT ![i] = x])
         /\ \A i \in 1 .. 3 : d[i] # d[i + 1] /\ {d[i], d[i + 1]} # {0, 9} =>
              ~checkLuhn([d EXCEPT ![i] = d[i + 1], ![i + 1] = d[i]])

\* The number of digits a sum in a byte can bear: the longest number keyed is 19.
ASSUME LuhnOfNines ==
  \A n \in 1 .. 19 : checkLuhn([i \in 1 .. n |-> 9]) = (Sum10([i \in 1 .. n |-> 9]) = 0)

\* The date a keyed card is asked for and the check of the other readers agree: a
\* date with a month is taken exactly when incheck_expdate finds it not expired.
Now == [year |-> 25, month |-> 6]
ASSUME SameExpiry ==
  \A y \in 23 .. 27, m \in 0 .. 13 :
    (screenExpDate(<<[key |-> 0, len |-> 4, year |-> y, month |-> m],
                     [key |-> 13, len |-> 3, year |-> y, month |-> m],
                     [key |-> 13, len |-> 4, year |-> y, month |-> m]>>, Now) = 0)
      = (m \in 1 .. 12 /\ incheck_expdate(y, m, Now) >= 0)

\* However often other keys are pressed, the code on the back is asked for again:
\* nothing counts them.
ASSUME CodeNeverGivenUp ==
  \A n \in 0 .. 8 : screenSec_Code([i \in 1 .. n |-> [key |-> 9, len |-> 3]]) = "Waits"

\* The account number is found whenever either track was decoded, from track 1 if it
\* was; a name needs track 1, and asking for the tracks first makes one of track 2.
ASSUME EitherTrack ==
  \A D \in Decoded :
    /\ (getMSR_data(D, "Pan") # 0) = (D.valid1 \/ D.valid2)
    /\ getMSR_data(D, "cardholder") # 0 => D.valid1
    /\ getMSR_data(AfterTrack1(D), "cardholder") # 0 => D.valid1 \/ D.read1

\* A serial number is good with nine characters besides its dashes; the certificate
\* of a terminal with a bad one counts as valid all the same.
ASSUME SerialAndCertificate ==
  \A n \in 0 .. 12 :
    LET s == [i \in 1 .. n |-> IF i \in {4, 8} THEN "-" ELSE "5"]
    IN /\ in_srl_hex(s) = (n >= 11)
       /\ in_crt_vld(s)
       /\ Len(pchGetSrlNmb("BBVA", s)) = 2 + Cardinality({i \in 1 .. n : s[i] # "-"})

\* ul_crc_32 is the CRC-32 of the tokens: its check value, byte by byte from the other
\* end, and no change of one bit passes it.
Bits(n) == {b \in 0 .. 7 : (n \div 2 ^ b) % 2 = 1}
CheckText == [i \in 1 .. 9 |-> Bits(48 + i)]
ASSUME CheckValue ==
  ul_crc_32(CheckText, Word) = {8 * k + b : k \in {0}, b \in Bits(203)}
    \cup {8 + b : b \in Bits(244)} \cup {16 + b : b \in Bits(57)} \cup {24 + b : b \in Bits(38)}
ASSUME OneBitNoticed ==
  \A i \in 1 .. 9, b \in 0 .. 7 :
    ul_crc_32([CheckText EXCEPT ![i] = Xor(@, {b})], Word) # ul_crc_32(CheckText, Word)
=============================================================================
