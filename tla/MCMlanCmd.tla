------------------------------ MODULE MCMlanCmd ------------------------------
(* Instances of MlanCmd for TLC: who asks for what, on which interface, and *)
(* what the firmware and the card may do.                                  *)
EXTENDS MlanCmd, TLC

CONSTANTS i1, i2, i3

Symmetry == Permutations(Node)

Kinds3(a, b, c) == (i1 :> a) @@ (i2 :> b) @@ (i3 :> c)
OneBss          == [i \in Ioctl |-> 0]
Fair            == {"ok", "pre_asleep"}

\* A scan, a command that has to wait for it and its cancellation, with every
\* final answer of the firmware and failing downloads.
ScanCancelled ==
  [kind |-> Kinds3("scan", "conn", "cancel"), bss |-> OneBss, cmds |-> 1,
   results |-> AllResults \ {"pre_asleep"}, fails |-> TRUE]

\* A scan of the default type, its cancellation and a command.
DefaultScan ==
  [kind |-> Kinds3("dscan", "cmd", "cancel"), bss |-> OneBss, cmds |-> 2,
   results |-> Fair \cup {"error"}, fails |-> FALSE]

\* The removal of interface 0 amid a request of its own, of kind k, and a command
\* of interface 1.
Removal(k) ==
  [kind |-> Kinds3(k, "bssrm", "cmd"), bss |-> [OneBss EXCEPT ![i3] = 1],
   cmds |-> 1, results |-> {"ok", "error"}, fails |-> FALSE]

\* A scan and one more request, beside which it is left to finish or cancelled;
\* with three commands the scan alone may take all nodes.
Two(k, n, R) ==
  [kind |-> Kinds3("scan", k, "unused"), bss |-> OneBss, cmds |-> n,
   results |-> R, fails |-> FALSE]

All == {ScanCancelled, DefaultScan, Removal("scan"), Removal("noresp"),
        Two("conn", 2, Fair), Two("cancel", 3, {"ok"})}

ScanAndConn   == {Two("conn", 2, {"ok"})}
ScanAndCancel == {Two("cancel", 1, {"ok"})}
==============================================================================
