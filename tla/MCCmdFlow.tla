----------------------------- MODULE MCCmdFlow ------------------------------
(* CmdFlow with one chip card and one card that has a stripe only.  The    *)
(* runs also evaluate the checks of MCCmdTable.                            *)
EXTENDS CmdFlow, MCCmdTable

CONSTANTS chip, plain

=============================================================================
