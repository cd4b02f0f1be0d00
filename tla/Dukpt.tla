------------------------------- MODULE Dukpt --------------------------------
(***************************************************************************)
(* The DUKPT engine of crpdkp.cpp: loading an initial key (inDkpIpkLod),   *)
(* encrypting the card record (inDkpRqtDta) and handing out a key          *)
(* (inDkpRqtKey), one action per label of inDkpLclLbl, over a file that    *)
(* is rewritten at the end of each call.                                   *)
(*                                                                         *)
(* A key is named by the initial key it descends from and the set of       *)
(* values that went through the one-way function (inDkpNonRvrKeyGenPrc).   *)
(* Each value extends the previous one, so the set determines the order.   *)
(* The data, PIN and MAC variants of a key are not distinguished.          *)
(*                                                                         *)
(* The device can lose power between any two steps.  inCrpSav truncates    *)
(* the file before it writes it, and the engine ignores its result at End. *)
(***************************************************************************)
EXTENDS KsnCounter, Sequences

CONSTANTS MaxOnes,   \* the code's 10: no counter with more ones is used
          Ipks,      \* the loads of an initial key, each taken for a key of its own
          NoIpk,     \* the root of an all-zero register
          Unreadable,\* a DKPENV_DAT that is missing or too short
          Nothing,   \* a call has produced no result yet
          MaxLost    \* bound on the saves of DKPENV_DAT that fail to open it

ASSUME MaxOnesAssumption == MaxOnes \in Nat /\ MaxOnes >= 1
ASSUME NoIpkAssumption == NoIpk \notin Ipks
ASSUME MaxLostAssumption == MaxLost \in Nat

VARIABLES pc,      \* the label inDkpLclLbl is at
          call,    \* the function that entered it
          env,     \* psrDkpEnv, the working copy
          out,     \* what the call produces: CRPCRD_DAT's cipher, or the key asked for
          disk,    \* DKPENV_DAT
          keylod,  \* environment variable DKPKEYLOD
          maxcrp,  \* environment variable DKPMAXCRP
          used,    \* history: what the calls that succeeded handed to the caller
          loaded,  \* history: the initial keys injected so far
          lost     \* history: how many saves could not open DKPENV_DAT

vars == <<pc, call, env, out, disk, keylod, maxcrp, used, loaded, lost>>

-----------------------------------------------------------------------------
Key == [root : Ipks \cup {NoIpk}, path : SUBSET Counters]

ZeroKey == [root |-> NoIpk, path |-> {}]

Ipek(r) == [root |-> r, path |-> {}]

\* A future-key register: ok says that the LRC stored with the key matches it.
FutKey == [key : Key, ok : BOOLEAN]

Registers == 0 .. W

DkpEnv == [root : Ipks \cup {NoIpk}, ksn : Counters, fut : [Registers -> FutKey],
           cnt : Nat, inKey : Registers, sft : Masks]

\* memset(&srDkpEnv, 0): the LRC of a zero key is zero, so it matches.
ZeroEnv == [root |-> NoIpk, ksn |-> {}, fut |-> [b \in Registers |-> [key |-> ZeroKey, ok |-> TRUE]],
            cnt |-> 0, inKey |-> 0, sft |-> NoMask]

NonRvrKey(k, c) == [k EXCEPT !.path = @ \cup {c}]

\* What the host derives for counter c: one one-way step per one bit of c,
\* most significant first.
HostKey(r, c) == [root |-> r, path |-> {{i \in c : i =< b} : b \in c}]

Produced == [root : Ipks \cup {NoIpk}, ksn : Counters, key : Key, nmb : Nat]

\* TLC checks these on every run: the two sentinels are no records.
ASSUME SentinelAssumption == Unreadable \notin DkpEnv /\ Nothing \notin Produced

-----------------------------------------------------------------------------
Init ==
  /\ pc = "Idle" /\ call = "Ipk"
  /\ env = ZeroEnv /\ out = Nothing
  /\ disk = Unreadable
  /\ keylod = 0 /\ maxcrp = 0
  /\ used = <<>> /\ loaded = {} /\ lost = 0

\* memset of the working copy, and back to the caller.
ReturnToCaller ==
  /\ pc' = "Idle" /\ env' = ZeroEnv /\ out' = Nothing

\* in_ipk_sav: the key loaded so far is switched off before the new one is
\* installed.  Each element of Ipks is loaded once: it stands for one load.
CallIpkLod(r) ==
  /\ pc = "Idle" /\ r \notin loaded
  /\ pc' = "IpkLod" /\ call' = "Ipk"
  /\ env' = [ZeroEnv EXCEPT !.root = r]
  /\ loaded' = loaded \cup {r}
  /\ keylod' = 0
  /\ UNCHANGED <<out, disk, maxcrp, used, lost>>

\* Mutant: a failed first save is taken for a completed load.
IpkLod_ErrorIgnored ==
  /\ pc = "IpkLod"
  /\ disk' \in {disk, Unreadable}
  /\ pc' = "Return"
  /\ UNCHANGED <<call, env, out, keylod, maxcrp, used, loaded, lost>>

\* The zeroed record is saved first; if that fails nothing is loaded.
IpkLod ==
  /\ pc = "IpkLod"
  /\ \/ /\ disk' = ZeroEnv
        /\ pc' = "NewKey3"
        /\ env' = [env EXCEPT !.fut[W] = [key |-> Ipek(env.root), ok |-> TRUE],
                              !.inKey = W, !.sft = 1]
        /\ UNCHANGED out
     \/ /\ disk' \in {disk, Unreadable}
        /\ ReturnToCaller
  /\ UNCHANGED <<call, keylod, maxcrp, used, loaded, lost>>

\* inDkpRqtDta and inDkpRqtKey; their callers test DKPKEYLOD first.
CallRqt(c) ==
  /\ pc = "Idle" /\ keylod = 1
  /\ call' = c
  /\ \/ /\ disk # Unreadable
        /\ env' = disk /\ pc' = "RqtDta1"
        /\ UNCHANGED <<out, keylod>>
     \/ /\ keylod' = 0
        /\ ReturnToCaller
  /\ UNCHANGED <<disk, maxcrp, used, loaded, lost>>

Exhausted ==
  /\ maxcrp' = 1 /\ keylod' = 0
  /\ ReturnToCaller

\* Find the register of the lowest one bit; skip it when its LRC is wrong.
\* ulDkpAddCrpAndShf returns the sum before it is cut to W bits.
RqtDta1 ==
  /\ pc = "RqtDta1"
  /\ LET b == SetBit(env.ksn)
         m == SetMask(env.ksn)
     IN  \/ /\ env.fut[b].ok
            /\ env' = [env EXCEPT !.inKey = b, !.sft = m]
            /\ pc' = "RqtDta2"
            /\ UNCHANGED <<out, keylod, maxcrp>>
         \/ /\ ~env.fut[b].ok /\ env.ksn # {}
            /\ env' = [env EXCEPT !.inKey = b, !.sft = m, !.ksn = AddMask(@, m)]
            /\ UNCHANGED <<pc, out, keylod, maxcrp>>
         \/ /\ ~env.fut[b].ok /\ env.ksn = {}
            /\ Exhausted
  /\ UNCHANGED <<call, disk, used, loaded, lost>>

\* Mutant: the transaction number is read but not counted up.
RqtDta2_NoCount ==
  /\ pc = "RqtDta2"
  /\ out' = [root |-> env.root, ksn |-> env.ksn,
             key |-> env.fut[env.inKey].key, nmb |-> env.cnt]
  /\ pc' = "NewKey"
  /\ UNCHANGED <<call, env, disk, keylod, maxcrp, used, loaded, lost>>

\* The card record is encrypted and saved (inTrpDeaEncDta), or the key copied
\* out.  Reading or writing CRPCRD_DAT can fail: the call ends without a save.
RqtDta2 ==
  /\ pc = "RqtDta2"
  /\ \/ /\ env' = [env EXCEPT !.cnt = @ + 1]
        /\ out' = [root |-> env.root, ksn |-> env.ksn,
                   key |-> env.fut[env.inKey].key, nmb |-> env.cnt + 1]
        /\ pc' = "NewKey"
     \/ /\ call = "Dta"
        /\ ReturnToCaller
  /\ UNCHANGED <<call, disk, keylod, maxcrp, used, loaded, lost>>

\* Mutant: the register keeps its key after use.
Erase_Keep(E) == E

Erase(E) == [E EXCEPT !.fut[E.inKey] = [key |-> ZeroKey, ok |-> FALSE]]

NewKey ==
  /\ pc = "NewKey"
  /\ \/ /\ HowMnyOne(env.ksn) < MaxOnes
        /\ pc' = "NewKey1"
        /\ UNCHANGED env
     \/ /\ HowMnyOne(env.ksn) >= MaxOnes
        /\ env' = [Erase(env) EXCEPT !.ksn = AddMask(@, env.sft)]
        /\ pc' = "NewKey2"
  /\ UNCHANGED <<call, out, disk, keylod, maxcrp, used, loaded, lost>>

\* Mutant: the shift register stays.
NewKey1_NoShift ==
  /\ pc = "NewKey1"
  /\ pc' = IF ShiftRight(env.sft) = NoMask THEN "NewKey4" ELSE "NewKey3"
  /\ UNCHANGED <<call, env, out, disk, keylod, maxcrp, used, loaded, lost>>

NewKey1 ==
  /\ pc = "NewKey1"
  /\ env' = [env EXCEPT !.sft = ShiftRight(@)]
  /\ pc' = IF ShiftRight(env.sft) = NoMask THEN "NewKey4" ELSE "NewKey3"
  /\ UNCHANGED <<call, out, disk, keylod, maxcrp, used, loaded, lost>>

\* Mutant: the derivation takes the shift register without the counter.
NewKey3_MaskOnly ==
  /\ pc = "NewKey3"
  /\ LET k == NonRvrKey(env.fut[env.inKey].key, OrMask({}, env.sft))
     IN  env' = [env EXCEPT !.fut[env.sft] = [key |-> k, ok |-> TRUE]]
  /\ pc' = "NewKey1"
  /\ UNCHANGED <<call, out, disk, keylod, maxcrp, used, loaded, lost>>

\* The register that mask sft names (inDkpChkSftBit) takes the key of the
\* counter with that bit added.
NewKey3 ==
  /\ pc = "NewKey3"
  /\ LET k == NonRvrKey(env.fut[env.inKey].key, OrMask(env.ksn, env.sft))
     IN  env' = [env EXCEPT !.fut[env.sft] = [key |-> k, ok |-> TRUE]]
  /\ pc' = "NewKey1"
  /\ UNCHANGED <<call, out, disk, keylod, maxcrp, used, loaded, lost>>

NewKey4 ==
  /\ pc = "NewKey4"
  /\ env' = [Erase(env) EXCEPT !.ksn = PlusOne(@)]
  /\ pc' = "NewKey2"
  /\ UNCHANGED <<call, out, disk, keylod, maxcrp, used, loaded, lost>>

\* Mutant: the wrap is not noticed.
NewKey2_NoTest ==
  /\ pc = "NewKey2" /\ pc' = "End"
  /\ UNCHANGED <<call, env, out, disk, keylod, maxcrp, used, loaded, lost>>

\* A counter that wrapped to zero ends the life of the initial key; the
\* registers are not saved.
NewKey2 ==
  /\ pc = "NewKey2"
  /\ \/ /\ env.ksn = {}
        /\ Exhausted
     \/ /\ env.ksn # {}
        /\ pc' = "End"
        /\ UNCHANGED <<env, out, keylod, maxcrp>>
  /\ UNCHANGED <<call, disk, used, loaded, lost>>

\* Mutant: the call returns without saving the registers.
End_NoSave ==
  /\ pc = "End" /\ pc' = "Return"
  /\ UNCHANGED <<call, env, out, disk, keylod, maxcrp, used, loaded, lost>>

\* inCrpSav opens with O_TRUNC.  If it cannot open, the old record stays and
\* the call still succeeds.
End ==
  /\ pc = "End"
  /\ \/ /\ disk' = Unreadable /\ pc' = "EndWrite"
        /\ UNCHANGED lost
     \/ /\ lost < MaxLost
        /\ lost' = lost + 1 /\ pc' = "Return"
        /\ UNCHANGED disk
  /\ UNCHANGED <<call, env, out, keylod, maxcrp, used, loaded>>

\* The write itself may be short; its result is ignored as well.
EndWrite ==
  /\ pc = "EndWrite"
  /\ disk' \in {env, Unreadable}
  /\ pc' = "Return"
  /\ UNCHANGED <<call, env, out, keylod, maxcrp, used, loaded, lost>>

\* VS_SUCCESS reaches the caller: in_ipk_sav switches the key on, the card
\* command hands the cipher to the host, the table load decrypts with the key.
Return ==
  /\ pc = "Return"
  /\ keylod' = IF call = "Ipk" THEN 1 ELSE keylod
  /\ used' = IF call = "Ipk" THEN used ELSE Append(used, out)
  /\ ReturnToCaller
  /\ UNCHANGED <<call, disk, maxcrp, loaded, lost>>

\* Power is lost, or the caller gives the result up (inCrpAsmEnd fails):
\* only the files and the environment variables remain.
Crash ==
  /\ pc # "Idle"
  /\ ReturnToCaller
  /\ UNCHANGED <<call, disk, keylod, maxcrp, used, loaded, lost>>

Step ==
  \/ IpkLod \/ RqtDta1 \/ RqtDta2 \/ NewKey \/ NewKey1 \/ NewKey2 \/ NewKey3
  \/ NewKey4 \/ End \/ EndWrite \/ Return

Next ==
  \/ \E r \in Ipks : CallIpkLod(r)
  \/ \E c \in {"Dta", "Key"} : CallRqt(c)
  \/ Step
  \/ Crash

\* The engine runs on once it is called; power losses and calls are not promised.
Spec == Init /\ [][Next]_vars /\ WF_vars(Step)

-----------------------------------------------------------------------------
Labels == {"Idle", "IpkLod", "RqtDta1", "RqtDta2", "NewKey", "NewKey1", "NewKey2",
           "NewKey3", "NewKey4", "End", "EndWrite", "Return"}

\* The labels behind RqtDta2, where a request has produced its result.
Answering == {"NewKey", "NewKey1", "NewKey2", "NewKey3", "NewKey4", "End", "EndWrite", "Return"}

\* The types of the variables; a request past RqtDta2 has a result (crpdkp.cpp:242-291).
TypeOK ==
  /\ pc \in Labels
  /\ call \in {"Ipk", "Dta", "Key"}
  /\ env \in DkpEnv
  /\ out \in Produced \cup {Nothing}
  /\ pc = "IpkLod" => call = "Ipk"
  /\ pc \in Answering /\ call # "Ipk" => out \in Produced
  /\ disk \in DkpEnv \cup {Unreadable}
  /\ keylod \in {0, 1} /\ maxcrp \in {0, 1}
  /\ used \in Seq(Produced)
  /\ loaded \in SUBSET Ipks
  /\ lost \in 0 .. MaxLost

\* Whatever call handed out under a serial number of an injected key is under the
\* key the host derives for that number: the register arithmetic, the skipped
\* counters, the restarts and the old record that a lost save leaves never give a
\* register another key (crpdkp.cpp:104-192, 242-291).  As long as every save could
\* open its file nothing else is handed out; the save lost at the end of a load
\* leaves the zeroed record switched on.
HostAgreement ==
  \A i \in 1 .. Len(used) :
    IF used[i].root \in Ipks THEN used[i].key = HostKey(used[i].root, used[i].ksn)
    ELSE lost # 0

\* Serial numbers of one initial key only go up, so none is handed out twice,
\* whatever power losses, short writes and failed calls come in between
\* (crpdkp.cpp:242-300).
KsnIncreasing ==
  lost = 0 => \A i, j \in 1 .. Len(used) :
                i < j /\ used[i].root = used[j].root
                  => Less(used[i].ksn, used[j].ksn)

\* The transaction number sent beside the serial number goes up with it
\* (lnNmb = ++ulCnt, crpdkp.cpp:736).
NumberIncreasing ==
  lost = 0 => \A i, j \in 1 .. Len(used) :
                i < j /\ used[i].root = used[j].root => used[i].nmb < used[j].nmb

\* Once a result was handed out, no register of the saved record is an
\* ancestor of its key: what is stored cannot rebuild a key already used
\* (inDkpRmvCurKey, crpdkp.cpp:942-960).
ForwardSecrecy ==
  lost = 0 /\ disk # Unreadable
    => \A i \in 1 .. Len(used), b \in Registers :
         ~ /\ disk.fut[b].ok
           /\ disk.fut[b].key.root = used[i].root
           /\ disk.fut[b].key.path \subseteq used[i].key.path

\* Even when saves are lost a serial number is handed out at most once more
\* than saves were lost: nothing but a failed open of DKPENV_DAT brings a
\* counter back (crpdkp.cpp:293-300).
ReuseOnlyAfterLostSave ==
  \A i \in 1 .. Len(used) :
    Cardinality({j \in 1 .. Len(used) : /\ used[j].root = used[i].root
                                       /\ used[j].ksn = used[i].ksn}) =< 1 + lost

\* No counter with more than MaxOnes ones is used, so the host never needs
\* more than MaxOnes one-way steps (crpdkp.cpp:62-70).
FewOnes ==
  \A i \in 1 .. Len(used) : used[i].root \in Ipks => HowMnyOne(used[i].ksn) =< MaxOnes

\* The search for a usable register never runs over the end of the counter.
\* It must not: the sum tested at crpdkp.cpp:230 is the one before it is cut to
\* W bits, so a wrap would be missed and register 0, all zero, taken as valid.
SearchNeverWraps ==
  pc = "RqtDta1" /\ env.root \in Ipks => env.ksn # {}

\* A step hands out a result only under a key that is switched on, and
\* DKPKEYLOD goes on only at the end of an injection that derived every register
\* from the injected key, with nothing older left on the file: a load that
\* failed half-way stays off (dkprsa.cpp:418-428).
KeySwitchedOn ==
  [][/\ used' # used => keylod = 1
     /\ keylod = 0 /\ keylod' = 1 /\ lost = 0
          => /\ call = "Ipk" /\ disk \in {env, Unreadable}
             /\ \A b \in Bits \ {W} :
                  env.fut[b] = [key |-> HostKey(env.root, {b}), ok |-> TRUE]]_vars

\* A call always comes back to the main loop: the label machine has no cycle
\* that does not end (crpdkp.cpp:25-301).
CallReturns == pc # "Idle" ~> pc = "Idle"

-----------------------------------------------------------------------------
Cheap(c) == c # {} /\ HowMnyOne(c) =< MaxOnes

\* What the engine promises the host, whatever happens to the device.
Source == INSTANCE KeySource WITH issued <- used, broken <- (lost # 0),
                                  Derived <- HostKey, Cheap <- Cheap, Before <- Less

\* The engine implements that promise (crpdkp.cpp:25-448).
ImplementsKeySource == Source!Spec
=============================================================================
