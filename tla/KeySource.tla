----------------------------- MODULE KeySource ------------------------------
(***************************************************************************)
(* What a DUKPT device promises the host, without registers, files or      *)
(* labels: a stream of results, each under the key the host derives from   *)
(* the initial key and the serial number, the serial numbers and the       *)
(* transaction numbers of one initial key always rising, no number too     *)
(* dear to derive.  A device that lost the record of what it used          *)
(* (broken) promises nothing more.                                         *)
(***************************************************************************)
EXTENDS Integers, Sequences

CONSTANTS Ipks,           \* the initial keys, one for each load
          Derived(_, _),  \* the host's key for an initial key and a serial number
          Cheap(_),       \* the serial numbers the host is willing to derive for
          Before(_, _)    \* the order of the serial numbers

VARIABLES issued, broken

\* r may follow what was issued so far.
Fresh(r) ==
  /\ r.root \in Ipks
  /\ Cheap(r.ksn)
  /\ r.key = Derived(r.root, r.ksn)
  /\ \A i \in 1 .. Len(issued) :
       issued[i].root = r.root => Before(issued[i].ksn, r.ksn) /\ issued[i].nmb < r.nmb

Init == issued = <<>> /\ broken = FALSE

\* One more result, the last one of issued'.
Issue ==
  /\ issued' # issued
  /\ issued' = Append(issued, issued'[Len(issued')])
  /\ Fresh(issued'[Len(issued')])
  /\ UNCHANGED broken

Break == broken'

Next == Issue \/ Break

Spec == Init /\ [][Next]_<<issued, broken>>
=============================================================================
