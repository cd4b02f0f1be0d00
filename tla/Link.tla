-------------------------------- MODULE Link --------------------------------
(***************************************************************************)
(* The line to the cash register (ECR): start-up (main, inInitComAdk,      *)
(* inComConnectAdk, inUSB_LINK), the receive loop of vdCmdFlow over        *)
(* inRcvAdk, the way from bytes to a command and its fields (inGetCmdBBVA, *)
(* PP_CMD_unpack, ParsePP_CMD), the answer (inSendAdk, inWaitAck), and     *)
(* what the field map stValue keeps from one command to the next.          *)
(*                                                                         *)
(* A frame crosses the line in two halves with any gap between them; the   *)
(* end of a frame is a pause of 50 ms, nothing else.  A field of the map   *)
(* is the number of the frame that set it, 0 when it is absent: what is    *)
(* asked is whose value a command finds.  What a command does besides is   *)
(* the business of CmdFlow, KeyInjection, BinTable and ChipSale; here it   *)
(* is the set of fields it leaves and whether it clears the map.           *)
(***************************************************************************)
EXTENDS Naturals, Sequences

CONSTANTS Frames,    \* what the ECR may send: [cmd, n fields, bad rest, lrc right]
          MaxFrames, \* bound: frames sent in a behaviour
          MaxWire,   \* bound: items on the line
          MaxBuf     \* sizeof(chRcvbuff), in items

Commands == {"C51", "C54", "Z4", "72", "C23", "Q8", "Z2"}

\* The fields ParsePP_CMD looks for, in the order of CMD_PP.xml (those that
\* matter here); Z2 is not taken apart by it.
Request(c) ==
  CASE c = "C51" -> <<"TIMEOUT", "AMOUNT", "CASHBACK">>
    [] c = "C54" -> <<"STATUS">>
    [] c = "Z4"  -> <<"TIMEOUT">>
    [] OTHER     -> <<>>

ASSUME LinkAssumption ==
  /\ \A f \in Frames : f.cmd \in Commands /\ f.n \in 0..Len(Request(f.cmd))
                       /\ f.bad \in BOOLEAN /\ f.lrc \in BOOLEAN
  /\ MaxFrames \in Nat /\ MaxWire \in Nat /\ MaxBuf \in Nat \ {0}

VARIABLES
  pc, tries,       \* where the program is; inTry or rc of the loop it is in
  boCtlsON,
  gadget,          \* COM_PROP_USB_GADGET_MODE is the one wanted
  inRes,           \* what the last inComConnectAdk returned (0: connected)
  peer, open,      \* the ECR is there; Handle is a live connection to it
  wire, half,      \* items on the line; the frame the ECR has half sent
  count,           \* frames sent so far
  buf,             \* chRcvbuff
  run,             \* the frame whose command is run, and its number
  inVal,           \* the verdict, not reset between frames
  flagC51, stValue,
  fate             \* what became of each frame's sale

boot  == <<boCtlsON, gadget, inRes>>
line  == <<peer, open, wire, half, count>>
map   == <<flagC51, stValue, fate>>
vars  == <<pc, tries, boot, line, buf, run, inVal, map>>

-----------------------------------------------------------------------------
Ids == 1..MaxFrames

\* Outside inWaitAck ENQ and EOT are treated as NAK is.
Controls == {"ACK", "NAK"}
Names == {"TIMEOUT", "AMOUNT", "CASHBACK", "STATUS", "PAN", "TEXT"}

NoFields == [f \in Names |-> 0]
NoFrame == [cmd |-> "None", n |-> 0, bad |-> FALSE, lrc |-> FALSE]

\* An item is a control character, one half of a frame (the first names the
\* command) or bytes of no meaning.
Item(k, i, f) == [kind |-> k, id |-> i, frame |-> f]
Junk == Item("Junk", 0, NoFrame)
Items == [kind : Controls \cup {"First", "Last", "Junk"}, id : 0..MaxFrames,
          frame : Frames \cup {NoFrame}]

NoRun == [id |-> 0, frame |-> NoFrame]
Runs == [id : 0..MaxFrames, frame : Frames \cup {NoFrame}]

Fates == {"Open", "Abandoned", "Ended"}
Pcs == {"Boot", "InitCom", "ConnUsb", "Usb", "ConnCom", "End",
        "Recv", "Reconn", "Got", "Do", "WaitAck"}

TypeOK ==
  /\ pc \in Pcs /\ tries \in 0..5
  /\ boCtlsON \in BOOLEAN /\ gadget \in BOOLEAN /\ inRes \in {0, 1}
  /\ peer \in BOOLEAN /\ open \in BOOLEAN
  /\ wire \in Seq(Items) /\ half \in 0..MaxFrames
  /\ count \in 0..MaxFrames
  /\ buf \in Seq(Items) /\ run \in Runs
  /\ inVal \in {"OK", "LRC", "Fail"}
  /\ flagC51 \in BOOLEAN /\ stValue \in [Names -> 0..MaxFrames]
  /\ fate \in [Ids -> Fates]

Init ==
  /\ pc = "Boot" /\ tries = 0
  /\ boCtlsON = FALSE /\ gadget \in BOOLEAN /\ inRes = 0
  /\ peer \in BOOLEAN /\ open = FALSE /\ wire = <<>> /\ half = 0
  /\ count = 0
  /\ buf = <<>> /\ run = NoRun /\ inVal = "OK"
  /\ flagC51 = FALSE /\ stValue = NoFields /\ fate = [i \in Ids |-> "Open"]

-----------------------------------------------------------------------------
(* Start-up *)

\* main: the EMV kernel, the contactless one when it is configured, and the
\* command definitions must come up, or the program ends.
Boot ==
  /\ pc = "Boot"
  /\ \/ pc' = "End" /\ UNCHANGED boCtlsON
     \/ pc' = "InitCom" /\ boCtlsON' \in BOOLEAN
  /\ tries' = 0
  /\ UNCHANGED <<gadget, inRes, line, buf, run, inVal, map>>

\* inInitComAdk: only an inactive daemon is waited for, five times.
InitComOk ==
  /\ pc = "InitCom" /\ pc' = "ConnUsb" /\ tries' = 3
  /\ UNCHANGED <<boot, line, buf, run, inVal, map>>

InitComFails ==
  /\ pc = "InitCom"
  /\ \/ tries <= 4 /\ tries' = tries + 1 /\ UNCHANGED pc
     \/ pc' = "End" /\ UNCHANGED tries
  /\ UNCHANGED <<boot, line, buf, run, inVal, map>>

\* inComConnectAdk with a time-out: so many attempts.  Afterwards a profile that
\* is the last one decides between the receive loop and the end.
After(res) == IF pc = "ConnUsb" THEN "Usb" ELSE IF res = 0 THEN "Recv" ELSE "End"

ConnectOk ==
  /\ pc \in {"ConnUsb", "ConnCom"} /\ peer
  /\ inRes' = 0 /\ open' = TRUE /\ wire' = <<>> /\ half' = 0 /\ pc' = After(0)
  /\ tries' = 0
  /\ UNCHANGED <<boCtlsON, gadget, peer, count, buf, run, inVal, map>>

ConnectFails ==
  /\ pc \in {"ConnUsb", "ConnCom"}
  /\ tries' = tries - 1 /\ open' = FALSE
  /\ IF tries' = 0 THEN inRes' = 1 /\ pc' = After(1) ELSE UNCHANGED <<inRes, pc>>
  /\ UNCHANGED <<boCtlsON, gadget, peer, wire, half, count, buf, run, inVal, map>>

\* inUSB_LINK: the wrong gadget mode is set and the terminal started again; no
\* link (0) means the serial profile, anything else keeps what is connected.
UsbLink ==
  /\ pc = "Usb" /\ gadget
  /\ \/ pc' = "ConnCom" /\ tries' = 3
     \/ pc' = (IF inRes = 0 THEN "Recv" ELSE "End") /\ UNCHANGED tries
  /\ UNCHANGED <<boot, line, buf, run, inVal, map>>

UsbRestart ==
  /\ pc = "Usb" /\ ~gadget
  /\ gadget' = TRUE /\ pc' = "Boot" /\ tries' = 0 /\ inRes' = 0 /\ open' = FALSE
  /\ boCtlsON' = FALSE
  /\ UNCHANGED <<peer, wire, half, count, buf, run, inVal, map>>

\* The mode cannot be read or set: an error is not 0 either.
UsbFails ==
  /\ pc = "Usb" /\ pc' = (IF inRes = 0 THEN "Recv" ELSE "End")
  /\ UNCHANGED <<tries, boot, line, buf, run, inVal, map>>

-----------------------------------------------------------------------------
(* Receiving: inRcvAdk and the loop around it *)

\* waitForData: something to read, or an end of the connection to be told of.
Readable == wire # <<>> \/ ~open

RcvData ==
  /\ pc = "Recv" /\ wire # <<>> /\ Len(buf) < MaxBuf
  /\ buf' = Append(buf, Head(wire)) /\ wire' = Tail(wire)
  /\ UNCHANGED <<pc, tries, boot, peer, open, half, count, run, inVal, map>>

\* A pause, a read error or a full buffer ends what is taken for a frame.
RcvEnd ==
  /\ pc = "Recv" /\ buf # <<>>
  /\ ~Readable \/ Len(buf) = MaxBuf
  /\ pc' = "Got"
  /\ UNCHANGED <<tries, boot, line, buf, run, inVal, map>>

RcvError ==
  /\ pc = "Recv" /\ buf # <<>> /\ wire # <<>> /\ pc' = "Got"
  /\ UNCHANGED <<tries, boot, line, buf, run, inVal, map>>

\* As RcvLost, if the end of the connection were taken for a pause.
RcvLostAsPause ==
  /\ pc = "Recv" /\ ~open /\ wire = <<>> /\ buf # <<>> /\ pc' = "Got"
  /\ UNCHANGED <<tries, boot, line, buf, run, inVal, map>>

\* com_Receive reads 0: the result is -15, and what was received is lost.
RcvLost ==
  /\ pc = "Recv" /\ ~open /\ wire = <<>> /\ Len(buf) < MaxBuf
  /\ buf' = <<>> /\ pc' = "Reconn"
  /\ UNCHANGED <<tries, boot, line, run, inVal, map>>

\* inComConnectAdk(0, 3): attempts that fail are not counted; its 0 keeps the
\* receive loop going.
Reconnect ==
  /\ pc = "Reconn" /\ peer
  /\ open' = TRUE /\ wire' = <<>> /\ half' = 0 /\ inRes' = 0 /\ pc' = "Recv"
  /\ UNCHANGED <<tries, boCtlsON, gadget, peer, count, buf, run, inVal, map>>

\* inSendAdk: it stops when the line takes no more, and fails with it (-15).
SendResults == {"All", "Some", "None", "Error"}

-----------------------------------------------------------------------------
(* From bytes to a command: inGetCmdBBVA, PP_CMD_unpack, ParsePP_CMD *)

\* An ACK in front of a frame is left out.
Stripped(b) == IF Len(b) > 1 /\ Head(b).kind = "ACK" THEN Tail(b) ELSE b

\* The name of the command is in the first half; nothing else names one.
Named(b) == b # <<>> /\ Head(b).kind = "First"

Whole(b) ==
  /\ Len(b) = 2 /\ Named(b)
  /\ b[2] = Item("Last", b[1].id, NoFrame) /\ b[1].frame.lrc

\* Parsed apart, and never checked.
ParsedApart == {"Z2"}

\* Bytes that are no whole frame fail the LRC.  A frame without data is accepted
\* (NO_CMD_DATA, treated as XML_CMD_OK is); one with a rest that fits no field is
\* refused, after the fields that do fit were stored.
Verdict(b) ==
  LET f == b[1].frame IN
  IF f.cmd \in ParsedApart THEN inVal
  ELSE IF ~Whole(b) THEN "LRC"
  ELSE IF f.bad /\ Request(f.cmd) # <<>> THEN "Fail" ELSE "OK"

\* As Stored, with vdSetStringValuePP: a value that is there stays.
StoredByInsert(b) ==
  LET f == b[1].frame
      new == IF f.cmd \in ParsedApart THEN {"TEXT"}
             ELSE IF Verdict(b) \in {"OK", "Fail"} THEN {Request(f.cmd)[i] : i \in 1..f.n}
             ELSE {}
  IN [x \in Names |-> IF x \in new /\ stValue[x] = 0 THEN b[1].id ELSE stValue[x]]

\* vdSetByteValuePP replaces the value; fields the frame does not reach keep the
\* one they have.
Stored(b) ==
  LET f == b[1].frame
      new == IF f.cmd \in ParsedApart THEN {"TEXT"}
             ELSE IF Verdict(b) \in {"OK", "Fail"} THEN {Request(f.cmd)[i] : i \in 1..f.n}
             ELSE {}
  IN [x \in Names |-> IF x \in new THEN b[1].id ELSE stValue[x]]

\* No command in it: nothing is done, nor answered.
GotNoise ==
  /\ pc = "Got" /\ ~Named(Stripped(buf))
  /\ ~(Len(buf) = 1 /\ buf[1].kind \in Controls)
  /\ buf' = <<>> /\ pc' = "Recv"
  /\ UNCHANGED <<tries, boot, line, run, inVal, map>>

\* A control character is acknowledged like a command; the 0x06 inDoCmdBBVA
\* writes for it is not sent.
GotControl ==
  /\ pc = "Got" /\ Len(buf) = 1 /\ buf[1].kind \in Controls
  /\ inVal' = "OK" /\ buf' = <<>> /\ pc' = "Recv"
  /\ UNCHANGED <<tries, boot, line, run, map>>

GotAccepted ==
  /\ pc = "Got" /\ Named(Stripped(buf))
  /\ LET b == Stripped(buf) IN
       /\ Verdict(b) = "OK"
       /\ inVal' = "OK" /\ stValue' = Stored(b)
       /\ run' = [id |-> b[1].id, frame |-> b[1].frame]
  /\ buf' = <<>> /\ pc' = "Do"
  /\ UNCHANGED <<tries, boot, line, flagC51, fate>>

\* NAK after a wrong LRC; else the command with status 02, and inVal becomes the
\* number of bytes sent of it: none reads as a success.
GotRefused ==
  /\ pc = "Got" /\ Named(Stripped(buf))
  /\ LET b == Stripped(buf) IN
       /\ Verdict(b) # "OK"
       /\ \E r \in SendResults :
            inVal' = IF Verdict(b) = "LRC" THEN "LRC" ELSE IF r = "None" THEN "OK" ELSE "Fail"
       /\ stValue' = Stored(b)
  /\ buf' = <<>> /\ pc' = "Recv"
  /\ UNCHANGED <<tries, boot, line, run, flagC51, fate>>

-----------------------------------------------------------------------------
(* The commands, as far as the field map goes *)

Command == run.frame.cmd

\* The command is over; vdCmdFlow clears chCmdRcv.
Finish == pc' = "Recv" /\ run' = NoRun /\ UNCHANGED <<tries, boot, line, buf, inVal>>

\* The map with the fields the command adds for its answer.
Added(m, fs) == [x \in Names |-> IF x \in fs THEN run.id ELSE m[x]]

\* The frames whose sale is over with this command.
Over(ids) == [i \in Ids |-> IF i \in ids THEN "Ended" ELSE fate[i]]
AbandonedIds == {i \in Ids : fate[i] = "Abandoned"}

\* As SaleAnswered, without clear_parse.
SaleAnsweredKept ==
  /\ pc = "Do" /\ Command = "C51"
  /\ flagC51' = TRUE /\ fate' = Over({run.id}) /\ UNCHANGED stValue
  /\ Finish

\* initTransaction51, common way out: C53 with what the reader set, then the map
\* is cleared.
SaleAnswered ==
  /\ pc = "Do" /\ Command = "C51"
  /\ flagC51' = TRUE /\ stValue' = NoFields /\ fate' = Over({run.id})
  /\ Finish

\* No key (answered, FlowPinPad.cpp:2084) or no contactless reader (not answered,
\* 2233): the map stays as it is.
SaleAbandoned ==
  /\ pc = "Do" /\ Command = "C51"
  /\ \/ stValue' = Added(stValue, {"STATUS"})
     \/ boCtlsON /\ \E fs \in SUBSET {"PAN"} : stValue' = Added(stValue, fs)
  /\ flagC51' = TRUE /\ fate' = [fate EXCEPT ![run.id] = "Abandoned"]
  /\ Finish

\* endTransaction54 clears the map and ends the sale; without one the command
\* is left alone.
Complete ==
  /\ pc = "Do" /\ Command = "C54" /\ Finish
  /\ IF flagC51
       THEN /\ flagC51' = FALSE /\ stValue' = NoFields
            /\ fate' = Over({run.id} \cup AbandonedIds)
       ELSE UNCHANGED map

\* 72 and C23 cancel; C23 then sets its own status.
Cancel ==
  /\ pc = "Do" /\ Command \in {"72", "C23"} /\ Finish
  /\ flagC51' = FALSE
  /\ stValue' = Added(NoFields, IF Command = "C23" THEN {"STATUS"} ELSE {})
  /\ fate' = Over(AbandonedIds)

\* Z4 sets PAN when a reader was used, and STATUS, and clears nothing.  When all
\* of its answer is sent it waits for the ECR to acknowledge it.
CardNumber ==
  /\ pc = "Do" /\ Command = "Z4"
  /\ \E fs \in {{"STATUS"}, {"STATUS", "PAN"}} : stValue' = Added(stValue, fs)
  /\ \E r \in SendResults : pc' = IF r = "All" THEN "WaitAck" ELSE "Recv"
  /\ tries' = 0 /\ run' = NoRun
  /\ UNCHANGED <<boot, line, buf, inVal, flagC51, fate>>

\* Q8, like I02, C12, C25, C14, Z10 and Z11: a status, and nothing is cleared.
Status ==
  /\ pc = "Do" /\ Command = "Q8" /\ Finish
  /\ stValue' = Added(stValue, {"STATUS"})
  /\ UNCHANGED <<flagC51, fate>>

\* Z2 shows its text; the map is only read.
ShowText ==
  /\ pc = "Do" /\ Command = "Z2" /\ Finish
  /\ UNCHANGED map

-----------------------------------------------------------------------------
(* inWaitAck: one byte at a time, until an ACK or the third NAK *)

MaxTry == 3

\* The byte may be any of a half: what follows it has no beginning.
Rest(w, whole) == IF whole THEN Tail(w) ELSE <<Junk>> \o Tail(w)
Reads(c, w) == w # <<>> /\ Head(w).kind \in {c, "First", "Last", "Junk"}

AckRead ==
  /\ pc = "WaitAck" /\ Reads("ACK", wire)
  /\ \E whole \in BOOLEAN :
       wire' = Rest(wire, whole \/ Head(wire).kind = "ACK")
  /\ pc' = "Recv"
  /\ UNCHANGED <<tries, boot, peer, open, half, count, buf, run, inVal, map>>

\* The answer is sent again, or given up with EOT.
NakRead ==
  /\ pc = "WaitAck" /\ Reads("NAK", wire)
  /\ \E whole \in BOOLEAN :
       wire' = Rest(wire, whole \/ Head(wire).kind = "NAK")
  /\ tries' = tries + 1
  /\ pc' = IF tries' >= MaxTry THEN "Recv" ELSE "WaitAck"
  /\ UNCHANGED <<boot, peer, open, half, count, buf, run, inVal, map>>

\* Anything else is dropped; silence, and a connection that is gone (-15), too.
OtherRead ==
  /\ pc = "WaitAck" /\ wire # <<>> /\ Head(wire).kind \notin {"ACK", "NAK"}
  /\ wire' = Tail(wire)
  /\ UNCHANGED <<pc, tries, boot, peer, open, half, count, buf, run, inVal, map>>

-----------------------------------------------------------------------------
(* The ECR and the line *)

Room == open /\ Len(wire) < MaxWire

EcrFirst(f) ==
  /\ Room /\ half = 0 /\ count < MaxFrames
  /\ count' = count + 1 /\ half' = count'
  /\ wire' = Append(wire, Item("First", count', f))
  /\ UNCHANGED <<pc, tries, boot, peer, open, buf, run, inVal, map>>

EcrLast ==
  /\ Room /\ half # 0
  /\ wire' = Append(wire, Item("Last", half, NoFrame)) /\ half' = 0
  /\ UNCHANGED <<pc, tries, boot, peer, open, count, buf, run, inVal, map>>

EcrControl(c) ==
  /\ Room /\ half = 0 /\ wire' = Append(wire, Item(c, 0, NoFrame))
  /\ UNCHANGED <<pc, tries, boot, peer, open, half, count, buf, run, inVal, map>>

\* What has arrived can still be read; the handle never comes back to life.
PeerDown ==
  /\ peer /\ peer' = FALSE /\ open' = FALSE /\ half' = 0
  /\ UNCHANGED <<pc, tries, boot, wire, count, buf, run, inVal, map>>

PeerUp ==
  /\ ~peer /\ peer' = TRUE
  /\ UNCHANGED <<pc, tries, boot, open, wire, half, count, buf, run, inVal, map>>

-----------------------------------------------------------------------------
Start == Boot \/ InitComOk \/ InitComFails \/ ConnectOk \/ ConnectFails
         \/ UsbLink \/ UsbRestart \/ UsbFails

Receive == RcvData \/ RcvEnd \/ RcvError \/ RcvLost \/ Reconnect

Dispatch == GotNoise \/ GotControl \/ GotAccepted \/ GotRefused

Handle == SaleAnswered \/ SaleAbandoned \/ Complete \/ Cancel \/ CardNumber
          \/ Status \/ ShowText

WaitAck == AckRead \/ NakRead \/ OtherRead

Program == Start \/ Receive \/ Dispatch \/ Handle \/ WaitAck

Ecr ==
  \/ \E f \in Frames : EcrFirst(f)
  \/ EcrLast
  \/ \E c \in Controls : EcrControl(c)
  \/ PeerDown \/ PeerUp

Next == Program \/ Ecr

Spec == Init /\ [][Next]_vars

\* The one thread of the program runs; nothing is promised of the ECR.
FairSpec == Spec /\ WF_vars(Program)

-----------------------------------------------------------------------------
(* Properties *)

\* Nothing of a sale that ended (C53 sent on the common way, C54 answered, 72 or
\* C23) is found in the field map by a later command, whatever frames were
\* refused, cut or coalesced in between.  A sale left without key or reader, a
\* refused frame and a Z4 do leave their fields (FlowPinPad.cpp:2084, 2233).
NothingOfEndedSale == \A f \in Names : stValue[f] # 0 => fate[stValue[f]] # "Ended"

\* The bound of inWaitAck on what it sends again.
ResendBound == pc = "WaitAck" => tries < MaxTry

\* A command that is taken apart runs only for a frame that came whole and
\* undamaged in one piece, and finds there every field of that frame, in place of
\* an older value; fields it did not send are the ones of another frame or absent.
RunsWholeFrame ==
  (pc = "Do" /\ Command \notin ParsedApart) =>
    /\ run.frame.lrc
    /\ Request(Command) # <<>> => ~run.frame.bad
    /\ \A f \in Names : (stValue[f] = run.id)
         <=> \E i \in 1..run.frame.n : Request(Command)[i] = f

\* Once the ECR stays connected the program comes back to the receive loop with a
\* live connection time and again: after any number of losses, with half a frame
\* received, with attempts used up.  The one place it can be held for good is
\* inWaitAck, which neither counts silence nor connects again; else it has ended.
HeldOnlyByAck ==
  <>[]peer => []<>(pc = "Recv" /\ open) \/ <>[](pc \in {"WaitAck", "End"})

-----------------------------------------------------------------------------
(* The inductive invariant *)

\* What the program has received and not looked at, and the frames it knows of.
pending == buf \o wire
IsFirst(x) == x.kind = "First"
Used == {stValue[f] : f \in Names} \cup {run.id} \cup {i \in Ids : fate[i] # "Open"}

\* The frames still to come are in order, and later than all that are known.
PendingInv ==
  /\ \A i, j \in 1..Len(pending) :
       i < j /\ IsFirst(pending[i]) /\ IsFirst(pending[j]) => pending[i].id < pending[j].id
  /\ \A i \in 1..Len(pending) : IsFirst(pending[i]) =>
       /\ pending[i].id \in 1..count
       /\ \A n \in Used : n < pending[i].id

\* Where the program is, what it has in hand.
StepInv ==
  /\ pc \in {"ConnUsb", "ConnCom"} => tries > 0
  /\ pc \notin {"Recv", "Got"} => buf = <<>>
  /\ IF pc = "Do" THEN run.id \in Ids /\ fate[run.id] = "Open" ELSE run = NoRun
  /\ \A n \in Used : n =< count

IInv ==
  TypeOK /\ PendingInv /\ StepInv /\ NothingOfEndedSale /\ ResendBound /\ RunsWholeFrame
=============================================================================
