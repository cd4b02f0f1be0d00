# A verification model of the Calimax PIN-pad application

Calimax is the payment application of a Verifone PIN pad.  It serves an
electronic cash register (ECR, "caja") over a serial or USB line: the ECR sends
framed commands, the PIN pad reads a card by chip, stripe, contactless or
keyboard, encrypts the card data under a DUKPT key, and answers.  One main
loop takes one command at a time; libraries (EMV, contactless, stripe,
communication) call back into it or block until they have a result.

The repository has no tests and one line of documentation, so the code (with
its comments) is the only reference.  Paths below are relative to the
repository root.

## 1. Inventory

| Part | Source | State it keeps | Operations |
|---|---|---|---|
| Boot | `src/MainApp.cpp` | `boCtlsON`, `acqmul` | start EMV and contactless, parse the command XML, enter the main loop |
| Command session | `src/FlowPinPad.cpp` 75-475, 1989-2647, 5296-5575 | `flagZ4`, `flagC51`, `chTechnology`, `count_fallback`, `inTransInProgress`, `inVal` | receive, acknowledge and run C51, Z4, C54, 72, Q8, Z2, Z3, Z10, Z11, C12, C14, C25 |
| Completion | `src/FlowPinPad.cpp` 2925-3606 (`endTransaction54`) | the reply fields, the open EMV transaction | host response, scripts, second generate AC |
| Card reading | `src/TRANS.cpp` (`processMSRTransaction`, `EMV_Transaction`, `CTLS_Transaction`, `KBD_Transaction_banorte`, `read_PAN_*`) | `Datas`, EMV tag store | build the C53/C54 fields, ask for encryption |
| EMV library glue | `LIBS_VOS/EMVLIB/src/VosEMVProcess.cpp` | reader handles, callbacks' selections | detect a card, application selection, PIN, stripe reader on and off |
| Card-data crypto | `LIBS_VOS/ADK_CAPX/src/usrcmds.cpp`, `dkprsa.cpp` | `CRPCRD_DAT`, the token buffers, `DKPERR` | open a card record, add the data, encrypt it, build tokens ES/EZ/EY/EX |
| DUKPT engine | `LIBS_VOS/ADK_CAPX/src/crpdkp.cpp` | `DKPENV_DAT` (KSN, 21 future-key registers, transaction number), `DKPKEYLOD`, `DKPMAXCRP` | load an initial key, encrypt the card record, hand out a key |
| Key injection | `dkprsa.cpp`, `FlowPinPad.cpp` 1073-1226 (Z10, Z11) | `CRPKTK_DAT`, `DKPKEYLOD` | send a transport key under RSA, receive the host's answer, load the key of the environment |
| Exception BINs | `dkprsa.cpp` 1849-2220, `FlowPinPad.cpp` 1228-1324 (C14) | `CRPCRDEXC`, `BINPNP`, `BINVER` | verify a token, store a table of cards sent in clear and name it by the token's version |
| Command fields | `LIBS_VOS/CMDPP/src/PP_Cmd.cpp` | `stValue`, the XML of the commands | unpack a frame into fields, pack a reply, LRC |
| Link | `LIBS_VOS/COMRDC/src/ComRdc.cpp`, `FlowPinPad.cpp` 3608-3649 | the handle | connect, send, receive, wait for ACK |
| Scripts | `FlowPinPad.cpp` 672-911 (C25), `TRANS.cpp` 6111-6213, `Convertion.cpp` 169-209 | `SCRIPT_aux`, `SCRIPT71`, `SCRIPT72` | collect the issuer's scripts, hand them to the kernel |
| Algorithms | `TRANS.cpp`, `usrcmds.cpp`, `dukpt_defs.cpp`, `Convertion.cpp` | none | Luhn, expiry, CRC, padding, formatting |
| Not the program's own logic | `LIBS_VOS/AES_ENCRYP`, `rsa.cpp`, `bignum.*`, `resources/`, `project/`, logs | | vendored arithmetic, screens, build files |

How they interact: everything runs on one thread in the main loop; parts
call each other and share globals and the field map `stValue`.  What
makes the program hard is therefore not threads but

- **order of commands**: the ECR may send any command at any time, and each
  handler sets and resets the globals in its own way;
- **retry loops**: the sale asks for a card until something works, with a
  fallback from chip to stripe after two failures;
- **files rewritten in place**: power can be lost between any two steps, and a
  result is handed out before its key is gone from the file;
- **results that are ignored**: saves, sends and reads whose failure is not
  seen by the caller.

What makes each part correct:

- *DUKPT engine*: every result is under the key the host derives for its serial
  number; no serial number twice; a stored register never rebuilds a key
  already used; the engine knows the end of the counter.
- *Session*: a frame is answered for itself; a sale is answered once, with the
  data of the card presented for it; a fallback is earned; C54 runs under the
  technology of its sale; the loop terminates.
- *Completion*: the host's decision and the card's agree with the status sent.
- *Card-data crypto*: a record is encrypted once, cleared after use, and clear
  data leave only for exception BINs.
- *Key injection*: a key is switched on only by a good answer, the status tells the
  host which key is on, and what failed before is no obstacle.
- *Exception BINs*: version and table change together; what a C14 leaves is what its
  status says.
- *Tokens and scripts*: the host is told of the card that was read, and the card gets
  whole scripts of this sale.
- *Fields and link*: a reply holds only fields of its own command; a frame is
  delivered once or reported.

Which program.  The sources have two variants of key injection and exception table,
and `HRD_COD_RSP` chooses between them.  The macro is defined without condition in
`LIBS_VOS/ADK_CAPX/inc/dkprsa.h:232`, and once more by the make files
(`ADK_CAPX/project/AdkCapx.smk:55`, `MakefileEVO_1_CAPX.mk:32`); so there is one program,
and the modules follow its branch:

| Where (`dkprsa.cpp`) | As built | The branch compiled out |
|---|---|---|
| 451-463 | the transport key is a constant | drawn with `rand` after `srand` of the clock |
| 312-318 | the CRC of an answer is that of a constant | of the key in the answer |
| 354-365 | the key loaded is `CRPDUKKEY` of the environment | the one the answer opens to |
| 1556-1564 | its serial number is `CRPDUKKSN` | the one of the answer |
| 1894-1933 | the token's serial number is replaced by the terminal's, its text by `A3C` | both are the host's |

What follows from it is told with `KeyInjection` and `BinTable` below: nothing of the
host's key, serial number or ranges reaches the device, and its answers and tokens
are only tested.

## 2. The modules

| Module | What it is |
|---|---|
| `KsnCounter` | the counter of the KSN as a set of bits, with the code's mask operations |
| `Dukpt`, `DukptInv` | the engine, one action per label of `inDkpLclLbl`, over a file; its inductive invariant |
| `KeySource` | what the engine promises the host, without labels, registers or files |
| `DukptProofs`, `MCDukpt` | the theorems about the counter and the engine; its instances for TLC, and set operators against machine arithmetic |
| `CmdFlow`, `CmdFlowProofs`, `MCCmdFlow` | the command session |
| `CardData`, `CardDataProofs`, `MCCardData` | the card record from the reader to C53 |
| `KeyInjection`, `KeyInjectionProofs`, `MCKeyInjection` | Z10 and Z11 |
| `BinText` | the records read from a text, and the search |
| `BinTable`, `BinTableProofs`, `MCBinTable` | C14: the token, the table on file, its version, and what it excepts |
| `ChipSale`, `ChipSaleProofs` | the chip's way through the kernel's steps, C53, and C54 by every reader |
| `Link`, `LinkProofs`, `MCLink` | start-up, frames, the field map, the wait for an acknowledgement |
| `Tokens` | operators: what the tokens E1, E2 and CZ tell of a card, from kernel, result structures and terminal |
| `Exchange`, `ExchangeProofs`, `MCExchange` | the data of a sale over C51, C25 and C54: whose card the tokens speak of, and the issuer's scripts |
| `Track`, `MCTrack` | operators: a stripe from the decoder to the card record; keyed numbers, expiry, check values |
| `Kernel`, `MCKernel` | operators: what the terminal tells the EMV kernels, and what its callback answers |
| `CmdTable`, `MCCmdTable` | operators: the table of commands that the XML parser's handlers build |
| `DukptText`, `MCDukptText` | operators: the texts of the key library, and its search for a register |
| `Answers`, `MCAnswers` | operators: what errors, refusals, dates and time-outs turn into |

The last five pairs, and `Tokens`, are about sequential code without state of its own,
so they have operators and no actions.  What they compute is compared with
a reference over bounded inputs by ASSUMEs in the MC modules, which the runs of
section 3 extend and TLC therefore evaluates.

The components are cut where the program's globals allow it, so that each can
be checked at a size where its own cases happen.  `CmdFlow` is the frame: it
knows which command runs under which reader, and treats a card as its number.
`CardData` looks into one sale of it for what becomes of the data; `ChipSale`
for what becomes of the card; both begin at C51 and end in the main loop, as
`CmdFlow` does; `Exchange` looks over several sales, for what one leaves to the
next.  `Link` lies below: it decides which frame a command runs for and
which fields it finds.  `Dukpt` is the engine under `CardData` (a result is its
number there), `KeyInjection` (a key loaded) and `BinTable` (which needs a key to be on):
what these rely on, that no serial number of a load comes twice and that the key goes
on only after a complete load, is `KsnIncreasing` and `KeySwitchedOn` there.

### Dukpt

`pc` is the label `inDkpLclLbl` (crpdkp.cpp:25-301) is at; the gotos are the
transitions.  `env` is the working copy `psrDkpEnv`: `ksn`, `fut` (the
registers with the fact whether their LRC is right), `cnt`, `inKey`, `sft`.
`disk` is `DKPENV_DAT`, `keylod` and `maxcrp` the two environment variables.
`used`, `loaded` and `lost` are history.

A counter is the set of its one bits, bit 1 the most significant and bit W the
lowest; the code's W is 21 and its `MaxOnes` is 10.  A key is the initial key
plus the set of values that went through the one-way function, so two keys are
equal exactly when they were derived the same way: collisions and the arithmetic
of DES are left out.  The data, PIN and MAC variants are not distinguished.

What the code does and a reader may not expect:

- After a load the counter is 1 but register W was erased, so the first usable
  counter is 2; the search at `RqtDta1` skips 1.
- `ulDkpAddCrpAndShf` returns the sum before it is cut to W bits, so the test
  for zero at crpdkp.cpp:230 cannot see a wrap.  `SearchNeverWraps` shows that it
  never has to.
- `DKPMAXCRP` is only ever set to 1.
- `End` ignores the result of `inCrpSav`.  A save that cannot open the file
  leaves the old record, and the next request repeats a serial number: `lost`
  counts these.  Order and secrecy hold while it is zero; agreement with the host
  holds whatever was lost, and each loss pays for one reuse of a number.
- A load whose last save is lost leaves a zeroed record switched on: results under
  no key at all.
- `inCrpSav` truncates and then writes.  A power loss in between leaves an
  unreadable record; the next request finds it so and sets `DKPKEYLOD` to 0.

`Crash` is a power loss, or a caller that gives the result up.  An element of `Ipks`
is one load of an initial key, and each is taken for a key of its own: what the
properties say of the numbers of a key, they say of the numbers since a load.  As built every
Z11 loads the environment's one key and starts at its first counter again, so across loads
numbers and keys do come back.  When that happens is the subject of `NoRewind` in
`KeyInjection`.

`ImplementsKeySource` maps `issued` to `used` and `broken` to `lost # 0`: each step
of the engine either issues one fresh result or changes nothing the host sees.

### CmdFlow

One action per step of the session.  `Receive` is
`vdCmdFlow`; `SaleWithoutKey` to `Close` are `initTransaction51`, with the
body of its do loop cut at the points where a card is awaited (`pc = "Try"`), a
result is handled (`"Handle"`), the loop condition is tested (`"Again"`) and
the reply is sent (`"Close"`); `DoZ4` to `DoOther` run the other commands in one
step each.  The globals carry the names of the source.  `hand`, `fails`, `sale`
and `ack` are history, and so are the fields `card`, `fails` and `sale` that a
reply carries for the properties.

Abstracted: amounts, tokens, screens; `XML_CMD_OK` and `NO_CMD_DATA` are both
`"OK"`; the multi-acquirer flag `acqmul`; frames that no handler recognises (they
are dropped before a verdict); the way of a frame to the command and the wait
for the ECR's ACK (`Link`).  A card stands for its account number; a card is a
chip card (service code 2xx, 6xx) or not.  C23, whose name is compared with two
characters like every other, cancels as 72 does; I02 only reports.

What the code does and a reader may not expect:

- `inVal` is not assigned for Z2 and C14 (finding 1 below).
- `inTransInProgress` is never reset (finding 2).
- A Z4 of a tapped card keeps `flagZ4`, because the saved path is not taken for
  contactless; the flag then waits for a later sale, and can be taken up in the
  middle of its loop.
- A reader error on the stripe ends as a success without account number
  (TRANS.cpp:580-662, 864-872).
- A failed `ActivateTransactionCTLS` returns from the handler at once: no C53, the
  stripe reader on, the failure count kept (`Abandon`).
- After a format error `inVal` is the number of bytes sent, and 0 is the value
  of `XML_CMD_OK`.

### CardData

One sale: the reader's handler (`Read...`), the saves of `in_cpx_crd_mag`, `_chp`
and `_kbd` (`Save...`, `SaveCvv`), `inCrpDkpRun` in its three parts (`AsmBgn`,
`Engine`, `AsmEnd`), the tokens (`BuildTokens`), the reply and its sending; then
the host's answer, which counts key errors.  `file` is `CRPCRD_DAT`: it outlives
the sale, its writes may be lost or cut short, and most of their results are
dropped, which is why the properties compare the card *in the record* with the
card *in the reader*.  Track data, code and name are the card they were read
from.  Left out: the layout of the tokens, the retry of a C53.

What the code does and a reader may not expect:

- A chip in the C14 table gets neither its tracks in clear nor a token: the chip
  branch of `buildInitTransactionReply53` asks the merchant's lists only.
- The tapped chip drops the result of its encryption (TRANS.cpp:1692).
- An engine that has drawn a key whose record cannot be saved goes on with an
  error, and the key is used up.
- The count of key errors is written in hexadecimal and read in decimal: the
  tenth becomes 0 (dkprsa.cpp:3082).

### KeyInjection

`Ask`, `BuildTokens`, `Reply10` are Z10; `Inject` to `Reply11` are Z11, one step
per pass through `CRPKTK_DAT` (`inDsmQx`, `inCrpKtkDsm`, `Load`, `LoadEngine`).  Transport
key and CRC are constants, so of a host's answer only its worth is left: the code a Z11 gives
it, and whether the token fits its fields.  A key is `"Env"`, the one of the environment
with its serial number; `"Zero"`, the same with zeros in one of the two places; or none.  The
field map is a variable: what one command left in it the next may send.

What the code does and a reader may not expect:

- An answer that is good is good after any Z10, and every good one starts the same key
  at its first counter, spent or not.
- The reads of `CRPDUKKEY` and `CRPDUKKSN` are not checked: after a failed one the engine
  has zeros for key or serial number, and the Z11 is answered 00.
- A Z10 that fails sets no status.  It is answered with what the map holds, which may be
  the 00 and the token of the Z10 before.
- The save in `inDsmQx` is not checked either: the Z11 is then judged by the answer before.
- A Z11 without data is judged by the token the last one left in the map.

### BinTable and BinText

`Receive`, `inDsmQt`, `inCrpExcDsm` (CRC, draw a key, the constant text), `ClearVersion`,
`Open`, `Write` (one record at a time), `NameVersion`, `Return`.  Of a token its version and
whether its CRC holds are left.  `BinText` has the reading of a text character by
character (`Character`, `Read`) and the search, which compares strings.

What the code does and a reader may not expect:

- The text is always `A3C`: one range from 3 to 3.  An end is compared over its own
  digits, so it excepts all that begin with 3, and the length `CRDEXCMIN` is excepted anyway.
- The serial number compared at line 1942 is the terminal's with itself.  A token sent again
  opens again, and uses up one more number of the engine.
- The result of writing the text to the environment becomes that of `inCrpExcDsm`.  A
  positive one is no error to `in_cpx_crd_exc`, but the text is not replaced, so the table
  is empty and gets the token's version (`skipped`).  What `inDsmQt` left in the field is zeros,
  which are read as no records; a field that is not terminated is not modelled.
- The writes of single records are not checked (`torn`).

### ChipSale

`EMVFLOW` calls the wrappers one after the other; each is a step of `Call`
(what the wrapper does before the kernel), `Steps` (`EMV_steps`, with the PIN
pad), the do loop of `EMV_CardHolderVerification` (`LoopTop`, `LoopAgain`,
`LoopTest`) and `Check` (the look at the slot between two wrappers).  `Outcome`
turns the last result into the status of C53.  `ReceiveC54` to `Reply54` are
`endTransaction54` by every reader.  `Insert` and `Pull` are the customer, at any
step.  The kernel is external and answers with what it may answer at the stage
it has reached; it loses its session when the card leaves.  `fRemovedCard` holds a
card for gone once a wrapper has seen the slot empty.

### Link

`Boot` to `UsbFails` are `main`, `inInitComAdk`, `inComConnectAdk` and
`inUSB_LINK`; `RcvData` to `Reconnect` the receive loop; `Got...` the verdict on
what was received and the fields `ParsePP_CMD` stores; `SaleAnswered` to
`ShowText` what each command does to the field map; `AckRead` to `OtherRead`
`inWaitAck`.  A frame crosses the line in two halves, which may be cut, merged with
other frames or lost; a frame that is cut or merged fails the LRC (that a damaged
frame passes it by luck is left out).  A field is the number of the frame that set
it.  Q8 stands for I02, C12, C25, C14, Z10 and Z11: a status, nothing cleared.

What the code does and a reader may not expect:

- A C51 without data (`NO_CMD_DATA`), or shorter than one that was abandoned or
  refused before it, runs with the other's fields: the exits at FlowPinPad.cpp:2084
  (no key) and 2233 (no contactless reader) do not clear the map.
- Z4 leaves `PAN` and `STATUS` behind.
- `inWaitAck` has one live call (Z4), counts only negative acknowledgements and
  never connects again: silence holds it for ever.
- A lost connection drops the bytes received so far (-15).
- With time-out 0 attempts to connect are not counted.
- ENQ and EOT are treated as NAK outside `inWaitAck`, and every control character
  is acknowledged like a command.

### Tokens and Exchange

A kernel is a record: the card it read, and for each tag a value, Empty or Absent;
tags that are treated alike are one.  The results (`pxTransRes`, `CTLSTransRes`) hold
the card their AID came from.  `assembleTokenE1`, `assembleTokenE2` and `FormFactor`
look for each item in the order the code does.  `StartSale` clears the results;
`ChipFails`, `ReadChip`, `ReadTap` and `ReadOther` are the attempts of one sale,
`Close53` the reply, `inDoC25BBVA` the scripts by type, number and flag, `EndSale`
C54 with `Host_Response` (`Given`) and `Script_Format`.  How a reading comes out is the
business of `ChipSale` and `CmdFlow`, and is a choice here.

What the code does and a reader may not expect:

- When the kernel has 4F empty, the AID of E1, and with it the form factor of CZ and
  the test for Amex, come from the results of an earlier attempt of the sale.
- CZ has a blank form factor whenever the kernel has a 4F with a value.
- `FLAG_FILE` 0 asks to append and overwrites; a C25 with an unknown `FLAG_FILE` or
  `NUM_SCRIPT` stores nothing and is answered 00.
- A script of type 72 in two parts has two zero bytes in front; a script of more than
  500 bytes is dropped, with nothing told.
- `AMOUNT` is gone after C53: the method `inGet9F34Ctls` makes up from it for a
  tapped Visa card may be another one in C54.

### Track

`getMSR_data`, the cut of sentinels and LRC in `processMSRTransaction` (`Stripped`),
`cryp_msr` and `inCrdRawDsm` for a swipe; `Tapped1`, `Tapped2` for a tapped stripe;
`KeyedTrack` for the keyboard.  A track is a sequence of characters and Nul.

- The account number of a tapped stripe begins with its start sentinel in the record,
  so no prefix or range of the C14 table ever matches it.
- `processMSRTransaction` strips the tracks before it looks whether they were read.
- The limit of five attempts in `screenSec_Code` is never reached.
- `in_crt_vld` succeeds whatever it finds (usrcmds.cpp:2325).

### Kernel

`Init_EMV`, `Init_EMV_CTLS`, the transaction data of both kernels, `TSN`
(`vdIncraseTSNCts`), and `emvCallback` case by case: which TLVs come in, which go out,
and what the customer is asked.

- `gucAmountConfirmed` is never reset: once a customer confirmed an amount, later
  sales are not asked.
- The first two sales of a terminal without a counter file have the same 9F41.
- The amount is printed as a signed number and read back as an unsigned one, which
  comes out right; the code for a peso prints as US$; currency conversion is refused.

### CmdTable, DukptText and Answers

`CmdTable` runs the three expat handlers over a document as a sequence of events;
`DukptText` reads the RSA key file section by section, sizes the tokens EW and EY, and
searches registers on the bits of their bytes; `Answers` maps errors to fields.

- Attributes in front of `cmdName` land with the command before; a word behind
  a field becomes its name; a command declared twice has the later fields.
- A key file that is cut short is refused, but the part of its last section is stored.
- No command of `CMD_PP.xml` has a field `CODRESP`: the errors `show_error` puts there
  are never told, and `STATUS` keeps what an earlier command left.
- The host's refusals 02 and 04 have the numbers of two other errors.
- A token of no bytes passes the length test of `in_cpx_ipk_sav`.
- A `DATE` of two bytes with a `TIME` of four sets the clock.

## 3. The runs

| Run | What it asks | Bounds | Distinct states |
|---|---|---|---|
| `dukpt` | two loads of an initial key after each other, each for its whole life, with power losses, short writes and failed card saves at every label, and one save lost | W=3, MaxOnes=2, two loads, MaxLost=1 | 568,895 |
| `cmd_session` | every order of commands, good and damaged, with a chip card and a stripe card | two cards, failure history capped at 2 | 174,825 |
| `card_data` | sales by every reader, with lost and short writes, a failing or empty engine, power losses, key errors | two cards (one on no list, one in a range), any C14 table, MaxIssue=2, Digits=2 | 435,588 |
| `key_injection` | Z10, Z11 and sales in any order, with answers good, garbled, refused, too long and missing, failing files and reads, power losses | none | 394,414 |
| `bin_table` | C14 with tokens good, bad and repeated, with and without a key, failing files, lost records, power losses | two versions; account numbers of 2 and 3 digits, ExcLen=3 | 2,750 |
| `chip_sale` | the chip through the kernel and back from the host, the card leaving and returning anywhere | TokenSizes {2,3,5}, ByteRange=4 | 726,761 |
| `link` | start-up, lost and regained connections, cut, merged and damaged frames, acknowledgements | nine kinds of frame, MaxFrames=2, MaxWire=2, MaxBuf=3 | 1,320,663 |
| `exchange` | C51, C25 and C54 with every mix of schemes, readers and kernel data, failed attempts, scripts in one and two parts | two sets of kernel data, MaxSales=2, MaxMessages=3, MaxEvents=5, ScriptLimit=5 | 1,100,488 |
| `cmd_ack`, `cmd_stripe`, `cmd_reader`, `chip_sale_spin` | four sentences of comments that the code does not keep | the same | counterexamples |

The runs also evaluate the bounded checks of the operator modules: `card_data` those of
`MCTrack`, `key_injection` `MCKernel`, `dukpt` `MCDukptText` and the agreement of set
operators with machine arithmetic, `bin_table` `MCAnswers`, the `cmd_` runs
`MCCmdTable`, `exchange` its own on `Tokens`.

Why the bounds are enough.  *Dukpt*: with W=3 and MaxOnes=2 there are counters
with fewer, exactly and more than MaxOnes ones, a counter that is skipped, and
the wrap at the end of the counter, so each branch of `NewKey`, `NewKey2` and
`RqtDta1` is taken; a second key shows what the first one leaves; the theorems
hold for every W and MaxOnes.  *CmdFlow*: the
properties compare the card in hand with the card before, so two cards, one of
each kind, show every difference; `fails` is compared with 2 and capped there;
there is no bound on the number of commands.  *CardData*: a stale record needs one
earlier sale and one other card; two results of the engine make a repeated one
visible; `Digits` is 2 instead of 10 so that the count reaches it.
*KeyInjection*: no bound: files, map and worths of an answer are finite.  *BinTable*: the
version before and the version after; an account number with one digit more than
the range and one with two, one of the length that is excepted and one not; all ten digits.
*ChipSale*: no bound on the number of wrappers
called; a token smaller and larger than a byte counts.  *Link*: two frames are
enough for one to be cut by, merged with or stored under the other, and a full
buffer needs two halves and a control character.  *Exchange*: what outlives a sale can
come from the sale before, so two sales; a script is at most two messages, and the
third is the stale one; of the two sets of kernel data one has 4F empty and one no
CVM result, the two tags that are looked for elsewhere.  *Operators*: every stripe of
12 to 19 digits, every document of two commands with up to two fields, every error
code, words of four bytes of two or three values; each ASSUME names its own.

`CHECK_DEADLOCK FALSE` stands in `Dukpt.cfg` because the device
really stops once every load is used up.  No other run has it.

What the properties say (each is stated in words above its definition):

- *Engine*: `HostAgreement`, `KsnIncreasing`, `ForwardSecrecy`,
  `SearchNeverWraps`, `ReuseOnlyAfterLostSave`, `KeySwitchedOn`,
  `ImplementsKeySource`, `CallReturns`.
- *Session*: `FallbackEarned`, the stripe of a chip card goes into a C53 only when
  chips failed twice since the last sale that ran to its C53;
  `CompletionTechnology`, C54 runs under the technology that gave the sale its
  success, unless a Z4 or Q8 came between; `SaleAnswered`, back in the main loop an
  acknowledged C51 has its C53 and the stripe reader is off, but for the failed
  activation of the contactless reader; `NeverSpins`.
- *Card data*: `TokenOfItsCard`, no other card's data, unless a save was lost;
  `SerialOnce`, a result of the engine goes out once; `ClearOnlyIfExcepted`;
  `Deliverable`, a success gives the host the data one way or the other, with the
  code's four ways out named; `KeyErrorsReported`.
- *Key injection*: `NoRewind`, a spent key starts anew only by a Z11 with a good answer,
  or by a lost save after one; `AnswerTellsKey`, the status tells which key is on, unless a
  save was lost or a read failed unnoticed; `Recovers`, a good answer is loaded whatever
  came before.
- *Exception table*: `TableOfVersion`, a version is never told of half a table;
  `RefusedKeepsTable`; `AcceptedNamesToken`, 00 means that the version is this token's;
  `GoodTokenLoads`, a good token is taken whatever an earlier one left; `ExceptsThrees`,
  which account numbers a table with a version excepts.
- *Chip sale*: `LatchStops`, a card seen gone does not succeed;
  `OnlineOnlyOnRequest`; `NoApprovalAgainstHost`; `LengthNeverOverstates`;
  `Completed`, every C54 is answered; `FlowEnds`.
- *Link*: `RunsWholeFrame`, a command runs for one whole frame and finds its
  fields; `HeldOnlyByAck`, only the wait for an acknowledgement can hold the
  program for good.
- *Exchange*: `OwnData`, C53 speaks of the card that was read, with the exception
  above; `CvmAgrees`, the places that tell the verification method agree within C53
  and with C54; `ScriptsWhole`, scripts sent in order reach the card whole, the last
  one of each type, and none of an earlier sale.
- `IInv` of a module is its type invariant together with the inductive invariant of
  section 4; the runs `cmd_session`, `chip_sale` and `link` check it, and the others
  check what it was made for.

Fairness.  `WF_vars(Step)` in Dukpt: the engine's labels follow each other without
waiting for anyone; calls and power losses are not promised.  `WF_vars(Device)` in
CmdFlow: once a frame or a card is there the program runs on, PIN entry and screens
have time-outs; frames, cards and the abandoned activation are the environment's
and not fair.  `Remove_Card` waits until the customer pulls the card, which is
counted as a step of the device there; in ChipSale, where the card is modelled,
nothing is assumed of it: the wrappers' steps, the completion and the outcome are
weakly fair, the customer and the ECR are not, and `Completed` names the card left
in the slot.  `WF_vars(Program)` in Link: the one thread runs; nothing is promised
of the ECR.  CardData, KeyInjection, BinTable and Exchange state safety only.

Findings (each a run that TLC refutes):

1. `cmd_ack`: a good Z2 or C14 that follows a damaged frame is answered with
   that frame's NAK or format error (FlowPinPad.cpp:175, comment at 188).
2. `cmd_stripe`: Z4 by swipe of card A, Z4 by chip of card B, C51: the chip
   falls back, the swipe is not read again, and C53 carries A's account number
   (FlowPinPad.cpp:2192, TRANS.cpp:571, comment at 675).
3. `cmd_reader`: Z4, Q8, C51: the saved path is taken with no technology, no
   case of the switch matches, and C53 reports success without a card.  The
   ordinary sequence Z4 by tap, C51, C54, C51 does the same
   (FlowPinPad.cpp:2187, comment at 41).
4. `chip_sale_spin`: after a wrong offline PIN the do loop of
   `EMV_CardHolderVerification` is left only by another PIN result or `CVM_END`;
   a withdrawn card, or an online PIN as the next method, and it turns for ever
   (VosEMVProcess.cpp:1068, comment at 1021).

## 4. The theorems

Assumptions: those named in the modules (`W` and `MaxOnes` positive naturals, the
sentinels distinct from records and versions, chip cards a subset of the cards, lengths of
account numbers positive, the fields of a frame no more than its command has), and nothing about how many keys, cards, frames, scripts or
steps there are.  In each module the temporal theorems follow from three facts about
`IInv`: it holds initially, every step keeps it (one lemma per action), and it
implies the property.  Every invariant and every action property of section 3 has
its theorem.

*Dukpt* (`DukptProofs`): `TypeCorrect`, `Invariant`, and from it `HostAgrees`,
`KsnRises`, `NumberRises`, `OnesBounded`, `NoWrapInSearch`, `KeysForgotten` and
`Implementation` (every initial state and every step of the engine maps to one of
`KeySource`), `ReuseIsPaidFor` and `SwitchedOnByLoad`.  The invariant is needed
because agreement with the host is about keys handed out, while a step only sees
registers.  It has three parts.  `Keyed` holds whatever saves were lost, for records
of an injected key: per label, which registers are valid and for which later counter
each waits (`FutureCounter`): between calls exactly the zero bits above the lowest one
bit and that bit; inside a request the lower registers up to the shift mask as well;
inside a load the registers from the top down.  `Budget` says that at every point from
which counters can go out again each has been out at most `lost` times.  `Good`, while
nothing was lost, orders the three copies of the counter: handed out < saved =<
working.  The heart are `CarrySound` (adding the lowest one bit leaves exactly the
registers of the new counter) and `EvenSound`, which rest on the set arithmetic of
the counter at the beginning of the module.

*CmdFlow* (`CmdFlowProofs`): `Invariant`, and from it `TypeCorrect`,
`FallbackIsEarned`, `CompletionFollowsSale` and `EverySaleAnswered`, for any set of
cards.  The parts of `IInv`: `CountInv` (the count never exceeds the failures, and
a second failure has left only the stripe), `AttemptInv` (a chip can only be
reported while the chip reader is on), `FieldInv` (POSENTRY is set only on the
way to C53), `SaleInv` (a success belongs to the current technology) and
`ReaderInv`.

*CardData* (`CardDataProofs`): `Invariant`, `TypeCorrect`, `TokenIsOfItsCard`,
`ClearIsExcepted`, `SerialGoesOnce`, `DataAreDelivered`, `ErrorsAreReported`.
`RecordInv` is the strengthening: from its
save on a record that loads is this sale's (or the save was lost), and from the
engine on it holds the engine's last result, which is not yet with the host;
`TokenInv` carries that over into the field map.  On top of it `AnswerInv` is inductive:
`DeliverInv` follows the reasons for which a success may have no data through the
steps, `ErrorInv` the count from the file through the record into the token.

*KeyInjection* (`KeyInjectionProofs`): `Invariant`, `TypeCorrect`,
`KeyNotRewound`, `StatusTellsKey`, `InjectionRecovers`.  `RecordInv`: an answer worth a key
on file was brought by a Z11 after the record's Z10, and a token sent has its record.
`CommandInv` and `StatusInv` follow the answer through the steps of a Z11, from the map into
the file, the engine and the status; `RecoverInv` says what holds as long as nothing has failed.

*BinTable* (`BinTableProofs`): `Invariant`, `TypeCorrect`, `VersionIsOfTable`,
`RefusalKeepsTable`, `AcceptedIsNamed`, `GoodTokenIsLoaded`, `ThreesAreExcepted`, for any
versions and lengths of account numbers.  `TokenInv`: from `inCrpExcDsm` on the file has the
token of this C14; `WriteInv`: while the table is rewritten there is no version and what is
written is the beginning of the new table.  `ThreesAreExcepted` joins `TableOfVersion` with two
facts about `BinText`: the records of `A3C`, found by unrolling `Read` over its three
characters, and what the comparison with a one-digit end comes to.

*ChipSale* (`ChipSaleProofs`): `Invariant`, `TypeCorrect`, `RemovalStops`,
`OnlineOnRequest`, `HostDecides`, `LengthBound`.  `FlowInv`: the result a wrapper
hands on as "online" is still the kernel's state; `HostInv`: the refusal of the
host is in `online` until the card has it.

*Link* (`LinkProofs`): `Invariant`, `TypeCorrect`, `EndedSaleIsGone`,
`ResendsBounded`, `WholeFrameRuns`.  `PendingInv` is what makes stale fields
impossible: the frames still on the line or in the buffer are in order, and later
than every frame whose value is in the map, whose command runs or whose sale is
not open; `StepInv` bounds those numbers by the frames begun.  Steps that only drop
or move items keep it by two lemmas ("quiet" and "shifted" steps).

*Exchange* (`ExchangeProofs`): `Invariant`, `TypeCorrect`, `ToldOfOwnCard`,
`ScriptsArriveWhole`, `VerificationAgrees`, for any kernels, amounts, messages and
script lengths.  `WhileReading`: every chip tried so far failed and was of this sale;
`AsSent`: after C53 the kernel and the results are still those it told of; `AsLogged`:
the fields of the scripts are what the messages taken mean (`Meant`).  `ScriptKept`
then says that `Script_Format`, which cuts a script into blocks, loses and reorders
nothing: induction over the commands, with what `FlattenSeq` does to one block more.

Induction over data.  The library's induction theorems have an operator as a
parameter, and the provers cannot instantiate them.  `SetInduction` in
`ExchangeProofs` is about a set of numbers instead, and follows from the
well-foundedness of < on the naturals; `Recursion` gives the function that a recursive
definition describes.  That reaches recursive functions (`Script_Format`,
`FlattenSeq`), and not recursive operators, nor folds, whose
definitions have an operator as an argument.

Model-checked only: the liveness properties (`CallReturns`, `NeverSpins`,
`Completed`, `FlowEnds`, `HeldOnlyByAck`), which are out of the prover's reach;
everything the operator modules say (`Track`, `Kernel`, `CmdTable`, `DukptText`,
`Answers`, the tokens in `Tokens` beyond what `ToldOfOwnCard` and
`VerificationAgrees` use, and the agreement of the set operators with machine
arithmetic in `MCDukpt`), over bounded inputs: most of it is about folds.

## 5. The plan, and what came of it

| # | Planned | Became |
|---|---|---|
| 1 | `Dukpt`, `KeySource` | as planned |
| 2 | `CmdFlow` | as planned |
| 3 | `CardCrypto` | `CardData`, with the readers' and the reply's part in it |
| 4 | `KeyInjection` | as planned; its refinement became `AnswerTellsKey` and `NoRewind`, which say the same of each Z11 |
| 5 | `BinTable` | `BinTable` and `BinText` |
| 6 | `Completion` | `ChipSale`, from C51 on, because what C54 may do depends on how the kernel got there |
| 7 | `Link` | as planned, with start-up |
| 8 | `Fields` | part of `Link`: who owns a field depends on the frames around it |
| 9 | `Algorithms` | `Track`, `Kernel`, `DukptText` and `Answers`, beside the code that uses them |
| 10 | | `Tokens` and `Exchange`: what is told of a card, and the scripts |
| 11 | | `CmdTable`: the names of the fields, under `Link` |

## 6. What is not modelled and why

- The branches that `HRD_COD_RSP` compiles out (section 1).  Nothing here says anything of
  a program built without the macro: there the host's key, number and ranges do
  reach the device.
- Screens, languages, LEDs, layout, the status bar and logs: no property is about them.
  `show_error` is in `Answers` for the fields it sets, not for its wording.
- DES, AES, RSA and big numbers: vendored arithmetic without state; an algebra of
  keys stands for it.  The AES key protocol is dead code: its two commands are
  commented out (FlowPinPad.cpp:455, 462).
- The EMV kernels, BTLV and the operating system: external; their answers are choices.
- `EMV_SetTermData`, `EMV_SetAppData` and `EMV_SetCAPKeys`: the library is built with
  `XMLFILES`, which leaves them out.
- `Info_TRX_CT_EMV` and `Info_TRX_CTLS_EMV`, which fetch tags and log them; the data of a
  WLAN profile in `connection_callback`.
- Functions nobody calls: `inDoC51BBVA`, `inDoC54BBVA`, `inDoC14BBVA`, the C54 variants
  of C34/C30/C31, Y10, Y11, `KBD_Transaction`, the branches of `build_C53_C54Offline`
  for chip and tap with `asm_tke1` and `asmtknE2` (it is called for keyed cards only),
  `inAskBinTbl`, the `_UNI` variants, the IP, WLAN, Bluetooth and GPRS parts of
  `ComRdc.cpp`.
- `CalcLRC` and the conversions between hexadecimal, BCD and text: what they decide is
  a choice, or in the data, where it matters.
- The helpers of `ISO.cpp`, which keep no state.
- The chip card saved by Z4 in `ChipSale`, whose sales begin with the detection of a card;
  which card such a sale is about is in `CmdFlow`.
