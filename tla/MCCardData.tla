----------------------------- MODULE MCCardData -----------------------------
(* CardData with a card on no list and one in a range of the merchant's list; *)
(* the C14 table may hold either.  The checks on the data of a stripe are    *)
(* evaluated with it.                                                        *)
EXTENDS CardData, MCTrack

CONSTANTS plain, ranged

=============================================================================
