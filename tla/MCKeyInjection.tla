--------------------------- MODULE MCKeyInjection ---------------------------
(* KeyInjection has no constants.  The run also evaluates the checks of     *)
(* MCKernel.                                                               *)
EXTENDS KeyInjection, MCKernel
=============================================================================
