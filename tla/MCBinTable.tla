----------------------------- MODULE MCBinTable ------------------------------
(* BinTable for TLC.  The run also evaluates the checks of MCAnswers. *)
EXTENDS BinTable, MCAnswers
=============================================================================
