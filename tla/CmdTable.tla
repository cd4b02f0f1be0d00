------------------------------ MODULE CmdTable ------------------------------
(***************************************************************************)
(* The table of commands (PP_Cmd.cpp): CMD_PP.xml says which fields each   *)
(* command has, and expat calls the three handlers below while it reads.   *)
(* They keep the names they are in between elements.                       *)
(*                                                                         *)
(* A document is a sequence of events [op, ...]: "Start" of an element,    *)
(* whose kind is what its name begins with, with its attributes in order;  *)
(* "End"; "Text", with the text and whether it has white space.  Pure      *)
(* operators, checked in MCCmdTable.                                       *)
(***************************************************************************)
EXTENDS Integers, SequencesExt

STAND_ALONE == "STAND_ALONE"
PP_DEF_VAR == "FIELDVAR"

\* The table maps a path of names to a text; kind is that of the last element begun.
Start == [table |-> <<>>, kind |-> "CMD", def |-> "", host |-> "", msj |-> "", cmd |-> "",
          field |-> ""]

Lookup(table, path) == IF path \in DOMAIN table THEN table[path] ELSE ""

Put(st, path, text) ==
  [st EXCEPT !.table = [p \in DOMAIN @ \cup {path} |-> IF p = path THEN text ELSE @[p]]]

Command(st) == <<st.def, st.host, st.msj, st.cmd>>

\* The rest of the names stays what it was.
Entered(st, e) ==
  CASE e.kind = "CMD"   -> [st EXCEPT !.kind = "CMD", !.def = e.name, !.host = STAND_ALONE]
    [] e.kind = "MSJ"   -> [st EXCEPT !.kind = "MSJ", !.msj = e.name]
    [] e.kind = "FIELD" -> [st EXCEPT !.kind = "FIELD", !.field = e.name]
    [] OTHER            -> [st EXCEPT !.kind = "NODEFINE"]

\* cmdName says which command the attributes behind it belong to.
Attribute(st, a) ==
  CASE st.kind = "CMD" /\ a.name = "AppName" -> [st EXCEPT !.host = a.text]
    [] st.kind = "MSJ" /\ a.name = "cmdName" -> [st EXCEPT !.cmd = a.text]
    [] st.kind = "MSJ" /\ a.name # "cmdName" -> Put(st, Command(st) \o <<a.name>>, a.text)
    [] st.kind = "FIELD" -> Put(st, Command(st) \o <<st.field, a.name>>, a.text)
    [] OTHER -> st

start_element_PP(st, e) == FoldLeft(Attribute, Entered(st, e), e.attrs)

\* The depth is counted down, which nothing reads: the element is not left.
end_element_PP(st) == st

\* Text with any white space in it is passed over.
element_value_PP(st, e) ==
  IF e.spaced \/ st.kind # "FIELD" THEN st
  ELSE Put(st, Command(st) \o <<st.field, PP_DEF_VAR>>, e.text)

Event(st, e) ==
  CASE e.op = "Start" -> start_element_PP(st, e)
    [] e.op = "End"   -> end_element_PP(st)
    [] e.op = "Text"  -> element_value_PP(st, e)

\* expat: at the end of the buffer every element has to be closed.
Closed(doc) ==
  LET Number(op) == Len(SelectSeq(doc, LAMBDA e : e.op = op))
  IN doc # <<>> /\ Number("Start") = Number("End")

\* What is read of the file is what Xmlbuff has room for.  The handlers were called
\* before an error is seen.
parser_xml_PP(file, room) ==
  LET doc == SubSeq(file.doc, 1, IF Len(file.doc) < room THEN Len(file.doc) ELSE room)
  IN IF ~file.there THEN [ret |-> 0, st |-> Start]
     ELSE [ret |-> IF Closed(doc) THEN 1 ELSE 0, st |-> FoldLeft(Event, Start, doc)]

inPARSE_XMLCMDInit(file, room) ==
  LET r == parser_xml_PP(file, room)
  IN [ret |-> IF r.ret = 0 THEN "XML_CMD_FAIL" ELSE "XML_CMD_OK", table |-> r.st.table]
=============================================================================
