----------------------------- MODULE MCCmdTable -----------------------------
(* What the operators of CmdTable compute, on all tables of two commands with *)
(* up to two fields each.                                                     *)
EXTENDS CmdTable

Att(name, text) == [name |-> name, text |-> text]
Begin(kind, name, attrs) == [op |-> "Start", kind |-> kind, name |-> name, attrs |-> attrs]
End == [op |-> "End"]
Text(text, spaced) == [op |-> "Text", text |-> text, spaced |-> spaced]

FieldName(i) == IF i = 0 THEN "FIELD0" ELSE "FIELD1"

\* A field i named text, and the line break behind it.
Field(i, text) ==
  <<Begin("FIELD", FieldName(i), <<Att("Flow", text)>>), Text(text, FALSE), End, Text("Break", TRUE)>>

\* A command: its attributes, and the names of its fields.
Message(c) ==
  <<Begin("MSJ", "MSJ", c.attrs), Text("Break", TRUE)>>
    \o FoldLeft(LAMBDA d, i : d \o Field(i - 1, c.fields[i]), <<>>, [i \in DOMAIN c.fields |-> i])
    \o <<End>>

Document(cmds) ==
  <<Begin("CMD", "CMD", <<>>)>> \o FoldLeft(LAMBDA d, c : d \o Message(c), <<>>, cmds) \o <<End>>

Read(doc, room) == inPARSE_XMLCMDInit([there |-> TRUE, doc |-> doc], room)

At(cmd) == <<"CMD", STAND_ALONE, "MSJ", cmd>>

Lists == UNION {[1 .. n -> {"STATUS", "TOKENS"}] : n \in 0 .. 2}
NameFirst(name, fields) ==
  [attrs |-> <<Att("cmdName", name), Att("numFields", Len(fields))>>, fields |-> fields]

\* PP_CMD_Pack and PP_CMD_unpack find exactly what the file declares: the number of
\* fields of each command and their names, and no name for a field that is not there.
ASSUME DeclaredIsFound ==
  \A f, g \in Lists :
    LET r == Read(Document(<<NameFirst("C51", f), NameFirst("C53", g)>>), 100)
        Found(cmd, fields) ==
          /\ Lookup(r.table, At(cmd) \o <<"numFields">>) = Len(fields)
          /\ \A i \in 0 .. 1 :
               Lookup(r.table, At(cmd) \o <<FieldName(i), PP_DEF_VAR>>)
                 = IF i < Len(fields) THEN fields[i + 1] ELSE ""
    IN r.ret = "XML_CMD_OK" /\ Found("C51", f) /\ Found("C53", g)

\* A command declared twice: the second number of fields counts, and the fields the
\* second does not name again are those of the first.
ASSUME DeclaredTwice ==
  \A f, g \in Lists :
    LET r == Read(Document(<<NameFirst("C51", f), NameFirst("C51", g)>>), 100)
    IN /\ Lookup(r.table, At("C51") \o <<"numFields">>) = Len(g)
       /\ \A i \in 0 .. 1 :
            Lookup(r.table, At("C51") \o <<FieldName(i), PP_DEF_VAR>>)
              = CASE i < Len(g) -> g[i + 1]
                  [] i >= Len(g) /\ i < Len(f) -> f[i + 1]
                  [] OTHER -> ""

\* An attribute in front of cmdName lands with the command before: that one's number
\* of fields is overwritten, and the new command has none.
ASSUME AttributeBeforeName ==
  \A f, g \in Lists :
    LET swapped == [NameFirst("C53", g) EXCEPT !.attrs = <<@[2], @[1]>>]
        r == Read(Document(<<NameFirst("C51", f), swapped>>), 100)
    IN /\ Lookup(r.table, At("C51") \o <<"numFields">>) = Len(g)
       /\ Lookup(r.table, At("C53") \o <<"numFields">>) = ""

\* An element ends without being left: a word behind a field becomes the field's name.
ASSUME WordBehindField ==
  LET doc == Document(<<NameFirst("C51", <<"STATUS">>)>>)
      at  == Len(doc) - 2
  IN \A spaced \in BOOLEAN :
       Lookup(Read([doc EXCEPT ![at] = Text("Word", spaced)], 100).table,
              At("C51") \o <<"FIELD0", PP_DEF_VAR>>) = IF spaced THEN "STATUS" ELSE "Word"

\* A file that is cut short, that has no room or that is not there is refused; the
\* commands before the cut are in the table nevertheless.
ASSUME CutFile ==
  LET doc == Document(<<NameFirst("C51", <<"STATUS">>), NameFirst("C53", <<"TOKENS">>)>>)
  IN \A n \in 0 .. Len(doc) :
       LET cut == Read(SubSeq(doc, 1, n), 100)
       IN /\ (cut.ret = "XML_CMD_OK") = (n = Len(doc))
          /\ Read(doc, n) = cut
          /\ (Lookup(cut.table, At("C51") \o <<"FIELD0", PP_DEF_VAR>>) = "STATUS") = (n >= 5)
ASSUME NoFile ==
  LET r == inPARSE_XMLCMDInit([there |-> FALSE, doc |-> <<>>], 100)
  IN r.ret = "XML_CMD_FAIL" /\ r.table = <<>>
=============================================================================
