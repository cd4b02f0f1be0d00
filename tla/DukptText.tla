----------------------------- MODULE DukptText -----------------------------
(***************************************************************************)
(* The texts of the key library: the file with the RSA key of the bank     *)
(* (inCrpRsaLod), the tokens EW and EY (inAsmQw, inAsmQy), the padding of  *)
(* fields (pad), and the search for a register (inDkpChkSftBit of          *)
(* crpdkp.cpp).  Pure operators, checked in MCDukptText.                   *)
(***************************************************************************)
EXTENDS Integers, SequencesExt

Least(a, b) == IF a < b THEN a ELSE b

-----------------------------------------------------------------------------
(* The RSA key.  A file is the number of its characters and the lengths it *)
(* announces for its four sections.                                        *)

Sections == <<"Mod", "Exp", "Ver", "Pad">>
\* The digits a length is written with, and the characters a byte is written with.
Digits == <<3, 2, 2, 2>>
Width == <<2, 2, 1, 2>>

\* A section that is cut short is stored as far as it goes, before the error is told
\* and nothing more is read.
ReadSection(r, i, lens) ==
  LET from == r.pos + Digits[i]
      size == Width[i] * lens[i]
  IN IF ~r.ok THEN r
     ELSE IF r.file < from THEN [r EXCEPT !.ok = FALSE]
     ELSE [r EXCEPT !.ok = r.file >= from + size, !.pos = from + size,
                    !.stored = Append(@, [name |-> Sections[i],
                                          size |-> Least(size, r.file - from)])]

\* Result and stored sections; without a file nothing is touched.
inCrpRsaLod(there, file, lens) ==
  FoldLeft(LAMBDA r, i : ReadSection(r, i, lens),
           [ok |-> there, file |-> file, pos |-> 0, stored |-> <<>>], [i \in 1 .. 4 |-> i])

-----------------------------------------------------------------------------
(* Tokens.  A token is a sequence of parts [what, size]. *)

Part(what, size) == [what |-> what, size |-> size]
Size(parts) == FoldLeft(LAMBDA n, p : n + p.size, 0, parts)

Header(id, len) ==
  <<Part("!", 1), Part(" ", 1), Part(id, 2), Part(len, 5), Part(" ", 1)>>

\* The key as it goes to the host: nothing when the record cannot be read.
inAsmQw(loads) ==
  IF ~loads THEN <<>>
  ELSE Header("EW", 538)
         \o <<Part("chRsa", 512), Part("chChk", 6), Part("chVer", 10), Part("chPad", 2),
              Part("chCrc", 8)>>

\* Track 1: its length and the encrypted track, when there is one.
inAsmQy(loads, fTk1) ==
  IF ~loads THEN <<>>
  ELSE Header("EY", IF fTk1 THEN 172 ELSE 0)
         \o (IF fTk1 THEN <<Part("inTk1", 4), Part("chTk1", 160), Part("chCrc", 8)>> ELSE <<>>)

-----------------------------------------------------------------------------
(* Padding *)

\* A zero ends the string where it ended.
append_char(string, c) == IF c = "Nul" THEN string ELSE Append(string, c)

\* The source may be the destination.  In the middle, an odd character goes behind.
pad(src, c, size, align) ==
  LET num   == IF Len(src) < size THEN size - Len(src) ELSE 0
      left  == CASE align = "RIGHT_" -> num [] align = "CENTER_" -> num \div 2 [] OTHER -> 0
  IN FoldLeft(LAMBDA s, i : append_char(s, c), [i \in 1 .. left |-> c] \o src,
              [i \in 1 .. num - left |-> i])

-----------------------------------------------------------------------------

\* The register of the first one bit of a word, from bit 20 down; -1 when there is
\* none.
inDkpChkSftBit(ulSft) ==
  LET Ones == {b \in 1 .. 21 : (ulSft \div 2 ^ (21 - b)) % 2 = 1}
  IN IF Ones = {} THEN -1 ELSE CHOOSE b \in Ones : \A o \in Ones : b <= o
=============================================================================
