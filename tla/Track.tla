------------------------------- MODULE Track -------------------------------
(***************************************************************************)
(* The data of a stripe: what the reader's decoder gives (getMSR_data),    *)
(* the track image the DUKPT library wants and takes apart again (cryp_msr *)
(* and inCrdRawDsm of usrcmds.cpp), the same for a tapped stripe           *)
(* (tr2_ctls), the checks on a keyed number, and the checksum of tokens.   *)
(*                                                                         *)
(* A track is a sequence of characters, Nul standing for a zero byte: the  *)
(* buffers are cleared before they are filled.  Pure operators: what they  *)
(* compute is checked in MCTrack.                                          *)
(***************************************************************************)
EXTENDS Integers, SequencesExt

Nul == "Nul"

\* The place of c in s, 0 when it is not there.
Place(s, c) == SelectInSeq(s, LAMBDA x : x = c)

\* A C string: what is before the first Nul.
CString(s) == IF Place(s, Nul) = 0 THEN s ELSE SubSeq(s, 1, Place(s, Nul) - 1)

\* n characters of a buffer that is zero behind s, from the i-th on.
Bytes(s, i, n) == [k \in 1 .. n |-> IF i + k - 1 \in DOMAIN s THEN s[i + k - 1] ELSE Nul]

Upto(s, n) == SubSeq(s, 1, IF Len(s) < n THEN Len(s) ELSE n)

-----------------------------------------------------------------------------
(* The reader's decoder *)

\* read1 and read2: the track came through; valid1 and valid2: it was decoded.
Decoded == [read1 : BOOLEAN, valid1 : BOOLEAN, read2 : BOOLEAN, valid2 : BOOLEAN]
StripeFields == {"cardholder", "Pan", "ExpDate", "ServCode", "DiscData"}

\* getMSR_data, the tracks.  A track 1 that is read but not decoded is replaced by
\* one made of track 2, and its length is left at zero.
Track1(D) ==
  CASE D.read1 /\ D.valid1 -> "Valid"
    [] D.read1 /\ ~D.valid1 /\ D.valid2 -> "NotStandard"
    [] OTHER -> "Invalid"
Track2(D) == IF D.read2 /\ D.valid2 THEN "Valid" ELSE "Invalid"

\* What is decoded after track 1 was asked for, which every caller does first.
AfterTrack1(D) == [D EXCEPT !.valid1 = @ \/ Track1(D) = "NotStandard"]

\* getMSR_data, a field: the track it is taken from, 0 for none.  Only track 1 has
\* a name.
getMSR_data(D, field) ==
  CASE D.valid1 -> 1
    [] ~D.valid1 /\ D.valid2 /\ field # "cardholder" -> 2
    [] OTHER -> 0

\* processMSRTransaction drops the start sentinel, the end sentinel and the LRC,
\* before it looks at the status: a track of no bytes is not tested for.
Stripped(track) == SubSeq(track, 2, Len(track) - 2)

-----------------------------------------------------------------------------
(* The image of both tracks *)

S_TRTRK1 == 76
S_TRTRK2 == 37

\* copy_track: to the end sentinel, or max characters, zeros included.
copy_track(s, i, max) ==
  LET b == Bytes(s, i, max) IN IF Place(b, "?") = 0 THEN b ELSE SubSeq(b, 1, Place(b, "?") - 1)

\* A length byte goes through "%x" and back by two digits.
AscHex(n) == IF n < 16 THEN 16 * n ELSE n

\* For each track its length and two more, a zero, and the track; then a track 3
\* that is not there.  The length of a short track 1 comes out as zero.
cryp_msr(trk1, trk2) ==
  LET t1 == copy_track(trk1, 2, S_TRTRK1)
      t2 == copy_track(trk2, 1, S_TRTRK2)
  IN <<IF Len(CString(trk1)) < 16 THEN 0 ELSE AscHex(Len(t1) + 2), 0>> \o t1
       \o <<AscHex(Len(t2) + 2), 0>> \o t2 \o <<2, 1>>

\* inCrdDsm: where track k begins in the image.  A track 1 without length is 76
\* characters long.
Header(raw, k) ==
  IF k = 1 THEN 1
  ELSE 3 + (IF raw[1] - 2 > 0 THEN raw[1] - 2 ELSE 76)

NoTrack == [track |-> <<>>, acct |-> <<>>, exp |-> <<>>]

\* inCrdDsm: a track, the account number up to "=" and the date behind it.
inCrdDsm(raw, k) ==
  LET h     == Header(raw, k)
      track == SubSeq(raw, h + 2, h + 1 + (raw[h] - 2))
      eq    == Place(track, "=")
  IN IF raw[h + 1] # 0 \/ raw[h] - 2 =< 0 THEN NoTrack
     ELSE [track |-> CString(track),
           acct  |-> CString(Upto(IF eq = 0 THEN track ELSE SubSeq(track, 1, eq - 1), 20)),
           exp   |-> IF eq = 0 THEN <<>>
                     ELSE CString(Upto(SubSeq(track, eq + 1, Len(track)), 4))]

\* inCrdRawDsm: the card record; a track 2 of less than six characters is refused.
inCrdRawDsm(raw) ==
  LET one == inCrdDsm(raw, 1)
      two == inCrdDsm(raw, 2)
  IN [ok |-> Len(two.track) > 5, tk1 |-> one.track, tk2 |-> two.track,
      act |-> two.acct, exp |-> two.exp]

-----------------------------------------------------------------------------
(* A tapped stripe *)

\* tr2_ctls: track 2 as the kernel has it, in nibbles, with sentinels.
Tapped2(nibbles) ==
  <<";">> \o [i \in 1 .. Len(nibbles) |->
                CASE nibbles[i] = "D" -> "=" [] nibbles[i] = "F" -> "?" [] OTHER -> nibbles[i]]

\* tr2_ctls: track 1 from tag 56, or from track 2: number, name, five characters
\* of the discretionary data, and half of what is behind the separator.
Tapped1(nibbles, name, tag56) ==
  LET t2 == Tapped2(nibbles)
      eq == Place(t2, "=")
  IN IF tag56 # <<>> THEN <<"%">> \o tag56
     ELSE <<"%", "B">> \o SubSeq(t2, 2, eq - 1) \o <<"^">> \o name \o <<" ">>
            \o Bytes(t2, eq + 17, 5) \o <<"^">>
            \o Bytes(t2, eq + 1, (Len(nibbles) \div 2) - 6) \o <<"?">>

-----------------------------------------------------------------------------
(* A keyed card *)

\* in_cpx_crd_kbd: the number and the date, year and month swapped; without a
\* date, zeros.
KeyedTrack(act, exp) ==
  LET e == IF Len(exp) < 4 THEN <<"0", "0", "0", "0">> ELSE Upto(exp, 4)
  IN act \o <<"=">> \o SubSeq(e, 3, 4) \o SubSeq(e, 1, 2)

\* inCrdExpSwc: a keyed track that goes in clear has them swapped back.
inCrdExpSwc(track, mode) ==
  LET eq == Place(track, "=")
  IN IF mode # "01" \/ eq = 0 THEN track
     ELSE [i \in 1 .. Len(track) |->
             CASE i \in {eq + 1, eq + 2} -> track[i + 2]
               [] i \in {eq + 3, eq + 4} -> track[i - 2]
               [] OTHER -> track[i]]

\* checkLuhn: the check digit that the others ask for, every second one doubled
\* from the right; the sum is a byte.
Doubled(d) == IF 2 * d >= 10 THEN ((2 * d) % 10) + 1 ELSE 2 * d
checkLuhn(digits) ==
  LET n   == Len(digits)
      sum == FoldLeftDomain(LAMBDA s, i : IF i = n THEN s
                              ELSE (s + (IF (n - i) % 2 = 1 THEN Doubled(digits[i]) ELSE digits[i]))
                                     % 256, 0, digits)
  IN digits[n] = IF sum % 10 = 0 THEN 0 ELSE ((sum \div 10) + 1) * 10 - sum

\* incheck_expdate: negative for an expired card.  Years have two digits.
incheck_expdate(year, month, now) ==
  CASE now.year > year -> -1
    [] year > now.year -> 0
    [] year = now.year /\ month > now.month -> 1
    [] year = now.year /\ now.month > month -> -2
    [] OTHER -> 2

\* screenExpDate: the first press that ends the dialogue decides.  4 timed out, 1
\* cancelled, 2 no month, 3 expired.
screenExpDate(presses, now) ==
  LET i == SelectInSeq(presses, LAMBDA p : p.key \in {27, -3} \/ (p.key = 13 /\ p.len = 4))
      p == presses[i]
  IN CASE i = 0 -> "Waits"
       [] i > 0 /\ p.key = 27 -> 1
       [] i > 0 /\ p.key = -3 -> 4
       [] i > 0 /\ p.key = 13 /\ p.month \notin 1 .. 12 -> 2
       [] i > 0 /\ p.key = 13 /\ p.month \in 1 .. 12 ->
            IF \/ now.year > p.year
               \/ now.year = p.year /\ now.month > p.month
            THEN 3 ELSE 0

\* screenSec_Code: likewise; another key asks again without being counted.  A code
\* is cut at four digits.
screenSec_Code(presses) ==
  LET i == SelectInSeq(presses, LAMBDA p : p.key \in {-3, -1, 13})
      p == presses[i]
  IN CASE i = 0 -> "Waits"
       [] i > 0 /\ p.key = -3 -> -6
       [] i > 0 /\ p.key = -1 -> -1
       [] i > 0 /\ p.key = 13 -> IF p.len < 3 THEN -84 ELSE 0

\* bo_exd_vld: a date of four characters that is one; bo_mrc_crd: a swiped card of
\* a mercantile scheme, with the switch on, is one with something else there.
bo_exd_vld(exp, isDate) == Len(exp) > 3 /\ isDate
bo_mrc_crd(switch, mode, exp, isDate) ==
  switch /\ mode \in {"90", "80"} /\ ~bo_exd_vld(exp, isDate)

\* pchGetSrlNmb, and in_srl_hex: the serial number without dashes, behind what the
\* bank wants to see; nine digits at least.
Undashed(serial) == SelectSeq(serial, LAMBDA c : c # "-")
pchGetSrlNmb(bank, serial) ==
  (CASE bank = "BNMX" -> <<"V", "F", "V", "X", "V", "8", "2", "0">>
     [] bank = "BBVA" -> <<"V", "F">>
     [] OTHER -> <<>>) \o Undashed(serial)
in_srl_hex(serial) == Len(Undashed(serial)) >= 9

\* in_crt_vld: looks at the serial number and then overwrites what it found.
in_crt_vld(serial) == TRUE

-----------------------------------------------------------------------------
(* The checksum of the tokens *)

\* A word is the set of its bits; bit 0 is the lowest.
Word == 0 .. 31
Polynomial == {31, 30, 29, 27, 26, 24, 23, 21, 20, 19, 15, 9, 8, 5}
Xor(A, B) == (A \ B) \cup (B \ A)
Shift(A) == {b - 1 : b \in A \ {0}}

Byte(crc, byte) ==
  FoldLeft(LAMBDA c, j : IF 0 \in c THEN Xor(Shift(c), Polynomial) ELSE Shift(c),
           Xor(crc, byte), [j \in 1 .. 8 |-> j])

\* ul_crc_32: the complement, with its bytes in the order of the network.
ul_crc_32(bytes, seed) ==
  LET crc == Word \ FoldLeft(Byte, seed, bytes)
  IN {8 * (3 - (b \div 8)) + (b % 8) : b \in crc}
=============================================================================
