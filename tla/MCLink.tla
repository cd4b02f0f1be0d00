------------------------------- MODULE MCLink -------------------------------
(* Link with the frames an ECR and a bad line can produce. *)
EXTENDS Link

F(c, n) == [cmd |-> c, n |-> n, bad |-> FALSE, lrc |-> TRUE]

\* Every command whole; a sale without its last field, without any, with a rest
\* that fits no field, and damaged on the line.
MCFrames ==
  {F("C51", 3), F("C51", 0), F("C54", 1), F("Z4", 1), F("72", 0), F("C23", 0),
   F("Q8", 0), [F("Z2", 0) EXCEPT !.lrc = FALSE], [F("C51", 2) EXCEPT !.bad = TRUE]}
=============================================================================
