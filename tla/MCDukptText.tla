---------------------------- MODULE MCDukptText ----------------------------
(* What the operators of DukptText compute, over small files, strings and words. *)
EXTENDS DukptText

\* The characters of a whole file, and where each section ends.
Whole(lens) == 9 + 2 * lens[1] + 2 * lens[2] + lens[3] + 2 * lens[4]

\* inCrpRsaLod: a whole file is loaded with every section, whatever follows it; every
\* file that is shorter is refused, and then one section at most is not whole, the
\* last that was stored: a caller that ignored the error would use a short key.
ASSUME WholeKeyOrError ==
  \A lens \in [1 .. 4 -> 0 .. 2] : \A n \in 0 .. Whole(lens) + 1 :
    LET r == inCrpRsaLod(TRUE, n, lens)
        m == Len(r.stored)
    IN /\ r.ok = (n >= Whole(lens))
       /\ r.ok => m = 4
       /\ \A i \in 1 .. m : r.stored[i].size = Width[i] * lens[i] \/ (~r.ok /\ i = m)
ASSUME NoKeyFile ==
  \A lens \in [1 .. 4 -> 0 .. 1] : ~inCrpRsaLod(FALSE, 0, lens).ok

\* inAsmQw and inAsmQy: the length in the header is that of what follows it, and the
\* token fits the buffer the library clears for it.
HeaderTells(t, room) ==
  t # <<>> => /\ Size(t) = Size(SubSeq(t, 1, 5)) + t[4].what
              /\ Size(t) <= room
ASSUME LengthOfTokens ==
  \A loads, fTk1 \in BOOLEAN :
    /\ HeaderTells(inAsmQw(loads), 550) /\ HeaderTells(inAsmQy(loads, fTk1), 190)
    /\ (Size(inAsmQw(loads)) > 0) = loads

\* pad: the field has its size, or is left alone when it is longer already; the text
\* is in it once, at the side that was asked for, and padding again changes nothing.
ASSUME PaddedField ==
  \A n \in 0 .. 5, size \in -1 .. 7, align \in {"RIGHT_", "CENTER_", "LEFT_"} :
    LET s == SubSeq(<<"a", "b", "c", "d", "e">>, 1, n)
        p == pad(s, " ", size, align)
        before == SelectInSeq(p, LAMBDA c : c # " ") - 1
        behind == Len(p) - n - before
    IN /\ Len(p) = IF n < size THEN size ELSE n
       /\ SelectSeq(p, LAMBDA c : c # " ") = s
       /\ n > 0 => CASE align = "RIGHT_"  -> behind = 0
                     [] align = "LEFT_"   -> before = 0
                     [] align = "CENTER_" -> behind - before \in {0, 1}
       /\ pad(p, " ", size, align) = p

\* inDkpChkSftBit: a mask of one bit finds the register whose number it stands for,
\* from 1 for the highest; a word of more bits that of the highest, and bits above the
\* counter are not looked at.
ASSUME RegisterOfMask ==
  /\ \A b \in 1 .. 21 : inDkpChkSftBit(2 ^ (21 - b)) = b
  /\ \A b, c \in 1 .. 21 : b < c => inDkpChkSftBit(2 ^ (21 - b) + 2 ^ (21 - c)) = b
  /\ \A b \in 1 .. 21 : inDkpChkSftBit(2 ^ 21 + 2 ^ (21 - b)) = b
  /\ inDkpChkSftBit(0) = -1 /\ inDkpChkSftBit(2 ^ 21) = -1
=============================================================================
