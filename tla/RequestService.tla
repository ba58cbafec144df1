---------------------------- MODULE RequestService ----------------------------
(***************************************************************************)
(* What mlan promises MOAL of an ioctl request, whatever the request asks  *)
(* for: it is answered once, either by what mlan_ioctl returns or, after   *)
(* MLAN_STATUS_PENDING, by one call of moal_ioctl_complete, and a command  *)
(* the firmware has not answered is not reported as a success.  MlanCmd is *)
(* shown to implement it, and MoalIoctl is built on it.                    *)
(***************************************************************************)
EXTENDS Naturals

CONSTANT Requests

VARIABLE service   \* Requests -> [st, answered, done, ok]

\* st, the call of mlan_ioctl: "new", "issued", or what it returned, "pending"
\* or "returned" (a final status); answered, the firmware has answered with
\* success; done, the calls of moal_ioctl_complete, and ok, their status.
New == [st |-> "new", answered |-> FALSE, done |-> 0, ok |-> FALSE]

ServiceInit == service = [i \in Requests |-> New]

Issue(s, t)  == s.st = "new" /\ t = [s EXCEPT !.st = "issued"]
Return(s, t) == s.st = "issued" /\ s.done = 0 /\ t = [s EXCEPT !.st = "returned"]

\* The completion of a request may come before mlan_ioctl has returned.
Accept(s, t) == s.st = "issued" /\ t = [s EXCEPT !.st = "pending"]
Answer(s, t) == s.st \in {"issued", "pending"} /\ t = [s EXCEPT !.answered = TRUE]

Complete(s, t) ==
  /\ s.st \in {"issued", "pending"} /\ s.done = 0
  /\ \E ok \in BOOLEAN : /\ ok => s.answered
                         /\ t = [s EXCEPT !.done = 1, !.ok = ok]

\* Requests do not wait for each other: one step may move several of them, as
\* when everything is cancelled.
Moves(s, t) ==
  \/ s = t
  \/ Issue(s, t) \/ Return(s, t) \/ Accept(s, t) \/ Answer(s, t) \/ Complete(s, t)

ServiceNext ==
  /\ DOMAIN service' = Requests
  /\ \A i \in Requests : Moves(service[i], service'[i])

Service == ServiceInit /\ [][ServiceNext]_service
================================================================================
