------------------------------ MODULE DukptInv ------------------------------
(***************************************************************************)
(* The inductive invariant of Dukpt: what the registers hold at each label, *)
(* and how the working copy, the saved record and the results already      *)
(* handed out relate.                                                      *)
(***************************************************************************)
EXTENDS Dukpt

\* The registers that wait for a later counter when C is the next one: the
\* zero bits above C's lowest one bit, and that bit itself.
Future(C, b) == b =< Max(C) /\ (b \in C => b = Max(C))

\* The counter register b waits for.
FutureCounter(C, b) == {i \in C : i < b} \cup {b}

\* Register b holds the key of the counter it waits for.
Waits(E, b) == E.fut[b].key = HostKey(E.root, FutureCounter(E.ksn, b))

\* A record that can be saved: exactly the future registers are valid, each with
\* the right key.  Right after the load the register of the first counter is
\* not: the last step of the load erases the register it started from.
SoundRec(E) ==
  /\ E.root \in Ipks
  /\ E.ksn # {} /\ HowMnyOne(E.ksn) =< MaxOnes
  /\ E.fut[0].key.root = NoIpk
  /\ \A b \in Bits : E.fut[b].ok <=> Future(E.ksn, b) /\ ~ (E.ksn = {W} /\ b = W)
  /\ \A b \in Bits : E.fut[b].ok => Waits(E, b)

\* Inside a request for counter C, the keys of C plus one lower bit are derived
\* up to register n.
Refilled(E, n) ==
  /\ E.root \in Ipks
  /\ E.ksn # {} /\ E.ksn # {W} /\ HowMnyOne(E.ksn) =< MaxOnes
  /\ E.inKey = Max(E.ksn)
  /\ E.fut[0].key.root = NoIpk
  /\ \A b \in Bits : E.fut[b].ok <=> Future(E.ksn, b) \/ (E.inKey < b /\ b =< n)
  /\ \A b \in Bits : E.fut[b].ok => Waits(E, b)

\* Inside a load, registers 1 to n are derived; register W holds the initial key
\* until its turn comes.
Filled(E, n) ==
  /\ E.root \in Ipks
  /\ E.ksn = {} /\ E.inKey = W
  /\ E.fut[0].key.root = NoIpk
  /\ \A b \in Bits : b =< n => E.fut[b].ok /\ Waits(E, b)
  /\ n < W => E.fut[W].key = Ipek(E.root)

\* Everything handed out under the root of E is below E's counters.
Above(E) ==
  \A i \in 1 .. Len(used) :
    used[i].root = E.root => Less(used[i].ksn, E.ksn) /\ used[i].nmb =< E.cnt

Unused(r) == \A i \in 1 .. Len(used) : used[i].root # r

\* The registers of the working copy at each label, under an injected key.
RegsAt ==
  /\ pc = "IpkLod" => env = [ZeroEnv EXCEPT !.root = env.root]
  /\ pc \in {"RqtDta1", "RqtDta2"} => SoundRec(env)
  /\ pc = "RqtDta2" => Refilled(env, env.inKey)
  /\ pc \in {"RqtDta2", "NewKey"} => env.sft = env.inKey
  /\ pc = "NewKey" => Refilled(env, env.inKey)
  /\ pc = "NewKey1" => IF call = "Ipk" THEN Filled(env, env.sft) /\ env.sft \in Bits
                       ELSE Refilled(env, env.sft) /\ env.sft \in env.inKey .. W
  /\ pc = "NewKey3" => IF call = "Ipk" THEN Filled(env, env.sft - 1) /\ env.sft \in Bits
                       ELSE Refilled(env, env.sft - 1) /\ env.sft \in env.inKey + 1 .. W
  /\ pc = "NewKey4" => IF call = "Ipk" THEN Filled(env, W) ELSE Refilled(env, W)
  /\ pc \in {"NewKey1", "NewKey3", "NewKey4"} /\ call # "Ipk"
       => HowMnyOne(env.ksn) < MaxOnes
  /\ pc = "NewKey2" => env.ksn = {} \/ SoundRec(env)
  /\ pc \in {"End", "EndWrite", "Return"} => SoundRec(env)
  /\ pc \in {"NewKey2", "End", "EndWrite", "Return"} /\ call = "Ipk" => env.ksn = {W}

\* A result under the key the host derives, of a counter with few ones.
RightKey(r) ==
  r.ksn # {} /\ HowMnyOne(r.ksn) =< MaxOnes /\ r.key = HostKey(r.root, r.ksn)

\* The result on its way to the caller.
KeyAt == pc \in Answering /\ call # "Ipk" => RightKey(out)

\* The counter on its way past the result, under any root.
CountAt ==
  /\ pc = "RqtDta2" => env.inKey = SetBit(env.ksn) /\ env.sft = SetMask(env.ksn)
  /\ pc \in Answering /\ call # "Ipk"
       => /\ out.root = env.root
          /\ pc \in {"NewKey", "NewKey1", "NewKey3", "NewKey4"}
               => env.ksn = out.ksn /\ env.inKey = SetBit(env.ksn)
          /\ pc = "NewKey" => env.sft = SetMask(env.ksn)
          /\ pc = "NewKey2" /\ env.ksn # {} => Less(out.ksn, env.ksn)
          /\ pc \in {"End", "EndWrite", "Return"} => Less(out.ksn, env.ksn)

\* A load runs switched off, on a key nobody has used; a request switched on.
CallAt ==
  /\ pc # "Idle" => env.root \in loaded \cup {NoIpk}
  /\ pc # "Idle" => IF call = "Ipk" THEN env.root # NoIpk /\ keylod = 0 /\ Unused(env.root)
                    ELSE keylod = 1
  /\ pc \in {"RqtDta1", "RqtDta2", "NewKey"} => call # "Ipk"
  /\ disk # Unreadable => disk.root \in loaded \cup {NoIpk}
  /\ \A i \in 1 .. Len(used) : used[i].root \in loaded \cup {NoIpk}

\* After a load whose save was lost the zeroed record is switched on.  The register
\* of counter zero is then the first it uses, and the one it never uses again.
BlankOK ==
  /\ pc # "Idle" /\ env.root = NoIpk /\ env.fut[0].ok =>
       env.ksn = {} /\ pc \notin {"NewKey2", "End", "EndWrite", "Return"}
  /\ disk # Unreadable /\ disk.root = NoIpk /\ disk.fut[0].ok => disk.ksn = {}

\* What holds of the registers and of the results whatever saves were lost, as long
\* as the record is of an injected key.
Keyed ==
  /\ CallAt /\ CountAt /\ BlankOK
  /\ pc # "Idle" /\ env.root # NoIpk => RegsAt /\ KeyAt
  /\ disk # Unreadable /\ disk.root # NoIpk => SoundRec(disk)
  /\ \A i \in 1 .. Len(used) : used[i].root # NoIpk => RightKey(used[i])

\* How often a serial number was handed out.
Times(r, c) == Cardinality({j \in 1 .. Len(used) : used[j].root = r /\ used[j].ksn = c})

\* From counter C on, every serial number of root r can go out once more.
Affordable(r, C) == \A c \in Counters : ~Less(c, C) => Times(r, c) =< lost

\* Every lost save pays for one reuse of each serial number.
Budget ==
  /\ \A r \in Ipks \cup {NoIpk}, c \in Counters : Times(r, c) =< 1 + lost
  /\ keylod = 1 /\ disk # Unreadable => Affordable(disk.root, disk.ksn)
  /\ pc = "RqtDta1" => \/ Affordable(env.root, env.ksn)
                       \/ env.ksn = {} /\ ~env.fut[0].ok
  /\ pc = "RqtDta2" => Affordable(env.root, env.ksn)
  /\ pc \in Answering /\ call # "Ipk" => Affordable(out.root, out.ksn)
  /\ pc = "EndWrite" => disk = Unreadable
  /\ pc = "Return" /\ disk # Unreadable =>
       IF call = "Ipk" THEN Affordable(disk.root, disk.ksn)
       ELSE disk.root = out.root /\ ~Less(out.ksn, disk.ksn)
              => Times(out.root, out.ksn) < lost

\* The numbers of the working copy, as long as no save was lost.
EnvOK ==
  /\ pc # "Idle" => env.root \in loaded
  /\ pc \in {"RqtDta1", "RqtDta2"} => Above(env)

\* The result is beyond everything handed out.
OutOK ==
  pc \in Answering /\ call # "Ipk"
    => /\ out.nmb = env.cnt
       /\ \A i \in 1 .. Len(used) :
            used[i].root = out.root => Less(used[i].ksn, out.ksn) /\ used[i].nmb < out.nmb

\* The saved record: still zeroed by an interrupted load, or fit to be used.
DiskOK ==
  /\ disk # Unreadable => \/ disk = ZeroEnv /\ keylod = 0
                          \/ disk.root \in loaded /\ Above(disk)
  /\ pc = "EndWrite" => disk = Unreadable
  /\ pc = "Return" => disk \in {env, Unreadable}

\* The results handed out.
UsedOK == \A i \in 1 .. Len(used) : used[i].root \in loaded

Ordered ==
  \A i, j \in 1 .. Len(used) :
    i < j /\ used[i].root = used[j].root
      => Less(used[i].ksn, used[j].ksn) /\ used[i].nmb < used[j].nmb

Good == EnvOK /\ OutOK /\ DiskOK /\ UsedOK /\ Ordered

\* The inductive invariant: Dukpt's safety properties follow from it
\* (crpdkp.cpp:25-448).
IInv == TypeOK /\ Keyed /\ Budget /\ (lost = 0 => Good)
=============================================================================
