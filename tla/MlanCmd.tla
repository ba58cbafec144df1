------------------------------- MODULE MlanCmd -------------------------------
(***************************************************************************)
(* The firmware command engine of mlan (mlan_cmdevt.c): the nodes of the   *)
(* command pool travel from the free list through a pending, a scan or a   *)
(* deferred queue to curr_cmd and back, each carrying at most one ioctl    *)
(* request of MOAL, which mlan completes through moal_ioctl_complete.      *)
(*                                                                         *)
(* Four contexts meet here.  Ioctls run one at a time under MOAL's         *)
(* ioctl_lock (USER).  The main loop (MAIN) downloads commands and handles *)
(* responses and events; MlanMain shows that there is only one.  The       *)
(* command timer (TIMER) runs in softirq context without a lock, and       *)
(* the hang work (HANG) cancels everything without taking ioctl_lock.      *)
(* A step is one critical section of the command lock, or a run of code    *)
(* without the lock that reads or writes shared state once.  The transport *)
(* is SDIO's: responses are decoded by the main loop.                      *)
(***************************************************************************)
EXTENDS Integers, Sequences, FiniteSets, SequencesExt

CONSTANTS
  Node,        \* the command pool (cmd_ctrl_node)
  Ioctl,       \* the ioctl requests, each issued at most once
  Scenarios,   \* what an execution may consist of: records of
               \*   kind    Ioctl -> what the request asks for, or "unused"
               \*   bss     Ioctl -> the interface (bss_index) it is issued on
               \*   cmds    how many scan commands a scan request may need
               \*   results the results the firmware may put into a response
               \*   fails   may host_to_card fail?
  MaxScanCmds, \* bound of cmds
  SlowHang,    \* may the command timer expire while the hang work runs?
  None         \* no node, no ioctl, no command

\* A scan is of the enhanced type (EXT_SCAN_ENHANCE), ended by a status event,
\* or of the default type, ended by its last report event.
ScanKinds == {"scan", "dscan"}
Kinds     == ScanKinds \cup {"cmd", "conn", "noresp", "cancel", "bssrm", "unused"}
AllResults == {"ok", "error", "pre_asleep", "invalid", "other"}

ASSUME CmdAssumption ==
  /\ \A s \in Scenarios :
       /\ s.kind \in [Ioctl -> Kinds] /\ s.bss \in [Ioctl -> Nat]
       /\ s.cmds \in 1 .. MaxScanCmds
       /\ s.results \subseteq AllResults /\ s.fails \in BOOLEAN
  /\ IsFiniteSet(Node)
  /\ MaxScanCmds \in Nat \ {0} /\ SlowHang \in BOOLEAN
  /\ None \notin Node \cup Ioctl \cup AllResults \cup {"cancel", "timeout", "fail", "watch"}
  /\ "watch" \notin Node

VARIABLES
  cmd_free_q,        \* a set: free nodes are interchangeable
  cmd_pending_q, scan_pending_q, ext_cmd_pending_q,
  curr_cmd,
  node,              \* Node -> [cmd, ioctl, scan, canceled, resp]
  pscan_ioctl_req, scan_processing,
  ext_scan_enhance,  \* ext_scan_type = EXT_SCAN_ENHANCE
  cmd_sent, cmd_resp_received,
  timer, cmd_timer_is_set,   \* the kernel timer and the driver's flag
  tcb,               \* the running timer callback: the node it read, "watch"
                     \* (over a scan), or None
  main,              \* [pc, node, ioctl]: where the main loop is, its locals
  user,              \* [pc, ioctl, node, todo]: the holder of ioctl_lock
  hang, driver_status,
  fw,                \* the firmware: [cmd, rsp, scan], and of the scenario
                     \* [results, fails]
  req                \* Ioctl -> [st, code, done, ok, answered], and of the
                     \* scenario [kind, bss, cmds]

queueVars == <<cmd_free_q, cmd_pending_q, scan_pending_q, ext_cmd_pending_q>>
scanVars  == <<pscan_ioctl_req, scan_processing, ext_scan_enhance>>
timerVars == <<timer, cmd_timer_is_set, tcb>>
linkVars  == <<cmd_sent, cmd_resp_received, fw>>
vars == <<queueVars, curr_cmd, node, scanVars, timerVars, linkVars, main, user,
          hang, driver_status, req>>

Commands == ScanKinds \cup {"cmd", "conn", "noresp", "stop"}
Blank    == [cmd |-> None, ioctl |-> None, scan |-> FALSE, canceled |-> FALSE,
             resp |-> None]
MainIdle == [pc |-> "idle", node |-> None, ioctl |-> None]
UserIdle == [pc |-> "idle", ioctl |-> None, node |-> None, todo |-> 0]

Init ==
  /\ cmd_free_q = Node
  /\ cmd_pending_q = <<>> /\ scan_pending_q = <<>> /\ ext_cmd_pending_q = <<>>
  /\ curr_cmd = None
  /\ node = [n \in Node |-> Blank]
  /\ pscan_ioctl_req = None /\ scan_processing = FALSE
  /\ ext_scan_enhance = FALSE
  /\ cmd_sent = FALSE /\ cmd_resp_received = FALSE
  /\ timer = "off" /\ cmd_timer_is_set = FALSE /\ tcb = None
  /\ main = MainIdle /\ user = UserIdle
  /\ hang = "idle" /\ driver_status = FALSE
  /\ \E s \in Scenarios :
       /\ fw = [cmd |-> None, rsp |-> None, scan |-> "idle",
                results |-> s.results, fails |-> s.fails]
       /\ req = [i \in Ioctl |->
                   [kind |-> s.kind[i], bss |-> s.bss[i], cmds |-> s.cmds,
                    st |-> "new", code |-> None, done |-> 0, ok |-> FALSE,
                    answered |-> FALSE]]

Kind(i) == req[i].kind
Bss(i)  == req[i].bss

-----------------------------------------------------------------------------
(* Completing requests and freeing nodes.                                  *)

\* moal_ioctl_complete for every request of S (counted up to twice).
CompleteAll(r, S, ok) ==
  [i \in Ioctl |->
     IF i \in S
     THEN [r[i] EXCEPT !.done = IF @ < 2 THEN @ + 1 ELSE 2, !.ok = ok]
     ELSE r[i]]

SetCode(r, S, c) ==
  [i \in Ioctl |-> IF i \in S THEN [r[i] EXCEPT !.code = c] ELSE r[i]]

\* Every cancel path: mark the requests cancelled and complete them as failed.
CancelAll(r, S) == CompleteAll(SetCode(r, S, "cancel"), S, FALSE)

\* What wlan_insert_cmd_to_free_q does for a request still on the node: the
\* status code that others left in it decides between success and failure.
CompleteByCode(r, S) ==
  [i \in Ioctl |-> IF i \in S
                   THEN CompleteAll(r, {i}, r[i].code = None)[i] ELSE r[i]]

\* wlan_insert_cmd_to_free_q for a set of nodes: r and nd are the requests and
\* the nodes as the caller leaves them, requests it completed taken off.
Free(N, r, nd) ==
  /\ cmd_free_q' = cmd_free_q \cup N
  /\ node' = [n \in Node |-> IF n \in N THEN Blank ELSE nd[n]]
  /\ req' = CompleteByCode(r, {nd[n].ioctl : n \in N} \ {None})

Detach(nd, N) ==
  [n \in Node |-> IF n \in N THEN [nd[n] EXCEPT !.ioctl = None] ELSE nd[n]]

IoctlsOf(N) == {node[n].ioctl : n \in N} \ {None}

\* q with the nodes of N unlinked.
Without(q, N) ==
  LET kept[k \in 0 .. Len(q)] ==
        IF k = 0 THEN <<>>
        ELSE IF q[k] \in N THEN kept[k - 1] ELSE Append(kept[k - 1], q[k])
  IN kept[Len(q)]

Some(x) == {x} \ {None}

-----------------------------------------------------------------------------
(* Queues.                                                                 *)

\* wlan_is_cmd_allowed_during_scan: association, reset and the like wait.
AllowedDuringScan(c) == c \notin {"conn"}

\* Fault: whether a scan is still processed is not asked.
Defers_AnyTime(c) == ext_scan_enhance /\ ~AllowedDuringScan(c)

\* wlan_queue_cmd: a command that may not run during an enhanced scan is
\* deferred, any other goes to the tail of cmd_pending_q.
Defers(c) == scan_processing /\ ext_scan_enhance /\ ~AllowedDuringScan(c)

QueueCmd(n, c) ==
  /\ IF Defers(c)
     THEN /\ ext_cmd_pending_q' = Append(ext_cmd_pending_q, n)
          /\ UNCHANGED cmd_pending_q
     ELSE /\ cmd_pending_q' = Append(cmd_pending_q, n)
          /\ UNCHANGED ext_cmd_pending_q
  /\ UNCHANGED scan_pending_q

\* wlan_queue_scan_cmd also marks the node CMD_F_SCAN.
AsScan(c) == c \in ScanKinds \/ (c = "stop" /\ ~ext_scan_enhance)

\* The choice wlan_prepare_cmd makes under the lock: scan commands wait in
\* scan_pending_q, a command that stops an enhanced scan goes to the head.
Enqueue(n, c) ==
  /\ node' = [node EXCEPT ![n].scan = AsScan(c)]
  /\ IF AsScan(c)
     THEN /\ scan_pending_q' = Append(scan_pending_q, n)
          /\ UNCHANGED <<cmd_pending_q, ext_cmd_pending_q>>
     ELSE IF c = "stop"
     THEN /\ cmd_pending_q' = <<n>> \o cmd_pending_q
          /\ UNCHANGED <<scan_pending_q, ext_cmd_pending_q>>
     ELSE QueueCmd(n, c)

\* Fault: the scan is not declared over.
FlushScan_Processing(r) ==
  /\ Free(Range(scan_pending_q), r, node)
  /\ scan_pending_q' = <<>>
  /\ UNCHANGED scan_processing

\* wlan_flush_scan_queue.  A SCAN or SCAN_EXT node keeps its ioctl for
\* wlan_insert_cmd_to_free_q to complete, and only those are ever queued here.
FlushScan(r) ==
  /\ Free(Range(scan_pending_q), r, node)
  /\ scan_pending_q' = <<>>
  /\ scan_processing' = FALSE

-----------------------------------------------------------------------------
(* USER: mlan_ioctl, called with MOAL's ioctl_lock held.                   *)

Status(r, i, s) == [r EXCEPT ![i].st = s]

\* woal_request_ioctl refuses once driver_status is set.
Request(i) ==
  /\ req[i].st = "new" /\ Kind(i) # "unused" /\ ~driver_status
  /\ req' = Status(req, i, "admitted")
  /\ UNCHANGED <<queueVars, curr_cmd, node, scanVars, timerVars, linkVars,
                 main, user, hang, driver_status>>

UserAt(pc) == user.pc = pc
UserTo(pc) == user' = [user EXCEPT !.pc = pc]

\* The request takes ioctl_lock and reaches its handler.  wlan_scan_ioctl
\* turns a second scan away, and sets up the type of the scan, without the
\* command lock.
IsScan(i)   == Kind(i) \in ScanKinds
ScanBusy(i) == IsScan(i) /\ scan_processing

\* Fault: one command more than the channel list needs.
ScanCmds_OneMore(i) == req[i].cmds + 1

\* At most this many commands cover the channels of one scan.
ScanCmds(i) == req[i].cmds

Enter(i) ==
  /\ UserAt("idle") /\ req[i].st = "admitted"
  /\ IF ScanBusy(i)
     THEN req' = Status(req, i, "returned") /\ UNCHANGED <<user, ext_scan_enhance>>
     ELSE /\ user' = [pc |-> IF Kind(i) \in {"cancel", "bssrm"} THEN Kind(i) ELSE "get",
                      ioctl |-> i, node |-> None,
                      todo |-> IF IsScan(i) THEN ScanCmds(i) ELSE 0]
          /\ req' = Status(req, i, "running")
          /\ ext_scan_enhance' = IF IsScan(i) THEN Kind(i) = "scan" ELSE ext_scan_enhance
  /\ UNCHANGED <<queueVars, curr_cmd, node, pscan_ioctl_req, scan_processing,
                 timerVars, linkVars, main, hang, driver_status>>

\* Fault: a scan command carries the request as well.
Carried_ByScan(i) == IF Kind(i) = "bssrm" THEN None ELSE i

\* The command a request prepares, and the ioctl its node carries: the scan
\* commands carry none, the request waits in pscan_ioctl_req instead.
CmdOf(i) ==
  CASE Kind(i) \in {"cancel", "bssrm"} -> "stop"
    [] IsScan(i) -> IF ext_scan_enhance THEN "scan" ELSE "dscan"
    [] OTHER -> Kind(i)

Carried(i) == IF IsScan(i) \/ Kind(i) = "bssrm" THEN None ELSE i

UserReturn(r, s) == user' = UserIdle /\ req' = Status(r, user.ioctl, s)

\* wlan_get_cmd_node and wlan_init_cmd_node.
GetCmdNode ==
  /\ UserAt("get")
  /\ \E n \in cmd_free_q :
       /\ cmd_free_q' = cmd_free_q \ {n}
       /\ node' = [node EXCEPT ![n] = [Blank EXCEPT !.cmd = CmdOf(user.ioctl),
                                                    !.ioctl = Carried(user.ioctl)]]
       /\ user' = [user EXCEPT !.pc = "queue", !.node = n]
  /\ UNCHANGED <<cmd_pending_q, scan_pending_q, ext_cmd_pending_q, curr_cmd,
                 scanVars, timerVars, linkVars, main, hang, driver_status, req>>

\* No node is free: the request fails, but a cancellation still flushes.
NoCmdNode ==
  /\ UserAt("get") /\ cmd_free_q = {}
  /\ IF CmdOf(user.ioctl) = "stop"
     THEN UserTo("flush") /\ UNCHANGED req
     ELSE UserReturn(req, "returned")
  /\ UNCHANGED <<queueVars, curr_cmd, node, scanVars, timerVars, linkVars,
                 main, hang, driver_status>>

\* Fault: the ioctl is left on the node.
Unbuilt_Attached(n) == node

\* The command cannot be built: the ioctl is taken off the node, so that
\* freeing it does not complete a request that fails synchronously.
Unbuilt(n) == Detach(node, {n})

PrepareFails ==
  /\ UserAt("queue") /\ CmdOf(user.ioctl) # "stop"
  /\ Free({user.node}, Status(req, user.ioctl, "returned"), Unbuilt(user.node))
  /\ user' = UserIdle
  /\ UNCHANGED <<cmd_pending_q, scan_pending_q, ext_cmd_pending_q, curr_cmd,
                 scanVars, timerVars, linkVars, main, hang, driver_status>>

\* The second critical section of wlan_prepare_cmd, and what its caller does
\* with the result: a scan request prepares its next command or starts.
PrepareQueues ==
  /\ UserAt("queue")
  /\ Enqueue(user.node, node[user.node].cmd)
  /\ \/ /\ IsScan(user.ioctl)
        /\ \E t \in {0} \cup {user.todo - 1} :
              user' = [user EXCEPT !.pc = IF t = 0 THEN "start" ELSE "get",
                                   !.node = None, !.todo = t]
        /\ UNCHANGED req
     \/ /\ Kind(user.ioctl) \in {"cancel", "bssrm"}
        /\ user' = [user EXCEPT !.pc = "flush", !.node = None]
        /\ req' = IF Kind(user.ioctl) = "cancel"
                  THEN Status(req, user.ioctl, "pending") ELSE req
     \/ /\ Kind(user.ioctl) \notin ScanKinds \cup {"cancel", "bssrm"}
        /\ UserReturn(req, "pending")
  /\ UNCHANGED <<cmd_free_q, curr_cmd, scanVars, timerVars, linkVars, main,
                 hang, driver_status>>

\* The end of wlan_scan_networks: the first scan command moves on and the
\* request is remembered.  wlan_scan_ioctl then answers PENDING either way.
ScanStart ==
  /\ UserAt("start")
  /\ UserReturn(req, "pending")
  /\ IF scan_pending_q = <<>>
     THEN UNCHANGED <<queueVars, scanVars>>
     ELSE /\ pscan_ioctl_req' = user.ioctl
          /\ scan_processing' = TRUE
          /\ cmd_pending_q' = Append(cmd_pending_q, Head(scan_pending_q))
          /\ scan_pending_q' = Tail(scan_pending_q)
          /\ UNCHANGED <<cmd_free_q, ext_cmd_pending_q, ext_scan_enhance>>
  /\ UNCHANGED <<curr_cmd, node, timerVars, linkVars, main, hang, driver_status>>

(* Cancelling, by a request.                                               *)

IsScanReq(i) == IsScan(i) \/ Kind(i) = "cancel"   \* req_id MLAN_IOCTL_SCAN

\* The current command is only marked CMD_F_CANCELED: the firmware still owes
\* its response, which must not meet another command.
MarkCanceled(nd, C) ==
  [n \in Node |->
     IF n \in C THEN [nd[n] EXCEPT !.ioctl = None, !.canceled = TRUE] ELSE nd[n]]

\* The locked part of wlan_cancel_pending_scan_cmd.
CancelScan ==
  /\ UserAt("cancel")
  /\ LET C == {n \in Some(curr_cmd) : \E i \in Some(node[n].ioctl) : IsScanReq(i)}
         N == {n \in Range(cmd_pending_q) : node[n].scan}
     IN /\ Free(N, CancelAll(req, Some(pscan_ioctl_req) \cup IoctlsOf(C)),
                MarkCanceled(node, C))
        /\ cmd_pending_q' = Without(cmd_pending_q, N)
  /\ UserTo(IF pscan_ioctl_req # None THEN "stop" ELSE "flush")
  /\ pscan_ioctl_req' = None
  /\ UNCHANGED <<scan_pending_q, ext_cmd_pending_q, curr_cmd, scan_processing,
                 ext_scan_enhance, timerVars, linkVars, main, hang,
                 driver_status>>

\* The locked part of wlan_cancel_bss_pending_cmd.
CancelBss ==
  /\ UserAt("bssrm")
  /\ LET Mine(i) == Bss(i) = Bss(user.ioctl)
         P == {i \in Some(pscan_ioctl_req) : Mine(i)}
         C == {n \in Some(curr_cmd) : \E i \in Some(node[n].ioctl) : Mine(i)}
         N == {n \in Range(cmd_pending_q) : \E i \in Some(node[n].ioctl) : Mine(i)}
         R == IoctlsOf(C \cup N)
         flash_scan == P # {} \/ \E i \in R : IsScanReq(i)
         r == CancelAll(req, P \cup R)
     IN /\ Free(N, IF flash_scan THEN r ELSE Status(r, user.ioctl, "returned"),
                Detach(MarkCanceled(node, C), N))
        /\ cmd_pending_q' = Without(cmd_pending_q, N)
        /\ pscan_ioctl_req' = IF P # {} THEN None ELSE pscan_ioctl_req
        /\ IF flash_scan THEN UserTo(IF P # {} THEN "stop" ELSE "flush")
                         ELSE user' = UserIdle
  /\ UNCHANGED <<scan_pending_q, ext_cmd_pending_q, curr_cmd, scan_processing,
                 ext_scan_enhance, timerVars, linkVars, main, hang,
                 driver_status>>

\* Without the lock: is there an enhanced scan to stop?
StopDecide ==
  /\ UserAt("stop")
  /\ UserTo(IF scan_processing /\ ext_scan_enhance THEN "get" ELSE "flush")
  /\ UNCHANGED <<queueVars, curr_cmd, node, scanVars, timerVars, linkVars,
                 main, hang, driver_status, req>>

\* Both end by flushing scan_pending_q.
CancelFlush ==
  /\ UserAt("flush")
  /\ FlushScan(IF req[user.ioctl].st = "pending" THEN req
               ELSE Status(req, user.ioctl, "returned"))
  /\ user' = UserIdle
  /\ UNCHANGED <<cmd_pending_q, ext_cmd_pending_q, curr_cmd, pscan_ioctl_req,
                 ext_scan_enhance, timerVars, linkVars, main, hang,
                 driver_status>>

UserStep ==
  \/ GetCmdNode \/ NoCmdNode \/ PrepareFails \/ PrepareQueues \/ ScanStart
  \/ CancelScan \/ CancelBss \/ StopDecide \/ CancelFlush
  \/ \E i \in Ioctl : Enter(i)

-----------------------------------------------------------------------------
(* MAIN: downloading a command.                                            *)

MainAt(pc) == main.pc = pc
MainTo(pc) == main' = [main EXCEPT !.pc = pc]

\* Fault: the loop only waits for the download to end.
MayExec_DownloadDone == ~cmd_sent

\* The gate of the main loop and of wlan_exec_next_cmd.  A response that was
\* received is processed before the loop comes here.
MayExec == ~cmd_sent /\ curr_cmd = None

\* wlan_exec_next_cmd takes the head of cmd_pending_q.
ExecNextCmd ==
  /\ MainAt("idle") /\ ~cmd_resp_received /\ MayExec /\ cmd_pending_q # <<>>
  /\ main' = [MainIdle EXCEPT !.pc = "dnld", !.node = Head(cmd_pending_q)]
  /\ cmd_pending_q' = Tail(cmd_pending_q)
  /\ UNCHANGED <<cmd_free_q, scan_pending_q, ext_cmd_pending_q, curr_cmd, node,
                 scanVars, timerVars, linkVars, user, hang, driver_status, req>>

\* wlan_dnld_cmd_to_fw makes it the current command.
DnldCurrent ==
  /\ MainAt("dnld")
  /\ curr_cmd' = main.node
  /\ main' = [MainIdle EXCEPT !.pc = "send"]
  /\ UNCHANGED <<queueVars, node, scanVars, timerVars, linkVars, user, hang,
                 driver_status, req>>

\* host_to_card accepts it.
DnldSent ==
  /\ MainAt("send")
  /\ cmd_sent' = TRUE
  /\ LET c == node[curr_cmd].cmd
     IN /\ fw' = [fw EXCEPT !.cmd = IF c = "noresp" THEN None ELSE c]
        /\ MainTo(IF c = "noresp" THEN "noresp" ELSE "arm")
  /\ UNCHANGED <<queueVars, curr_cmd, node, scanVars, timerVars,
                 cmd_resp_received, user, hang, driver_status, req>>

\* Fault: the status code is not set.
DnldCode_Missing == None

\* host_to_card fails: the request is completed as failed.
DnldCode == "fail"

DnldFails ==
  /\ MainAt("send") /\ fw.fails
  /\ cmd_sent' = FALSE
  /\ Free({curr_cmd}, SetCode(req, IoctlsOf({curr_cmd}), DnldCode), node)
  /\ curr_cmd' = None
  /\ main' = MainIdle
  /\ UNCHANGED <<cmd_pending_q, scan_pending_q, ext_cmd_pending_q, scanVars,
                 timerVars, cmd_resp_received, fw, user, hang, driver_status>>

\* A command without a response is done at once -- if it still has its ioctl,
\* which is looked up without the lock.
NoRespDone ==
  /\ MainAt("noresp")
  /\ MainTo(IF node[curr_cmd].ioctl # None THEN "nrfree" ELSE "idle")
  /\ UNCHANGED <<queueVars, curr_cmd, node, scanVars, timerVars, linkVars, user,
                 hang, driver_status, req>>

NoRespFree ==
  /\ MainAt("nrfree")
  /\ Free({curr_cmd}, req, node)
  /\ curr_cmd' = None
  /\ main' = MainIdle
  /\ UNCHANGED <<cmd_pending_q, scan_pending_q, ext_cmd_pending_q, scanVars,
                 timerVars, linkVars, user, hang, driver_status>>

\* Any other is watched by the command timer.
DnldArm ==
  /\ MainAt("arm")
  /\ timer' = "armed" /\ cmd_timer_is_set' = TRUE
  /\ main' = MainIdle
  /\ UNCHANGED <<queueVars, curr_cmd, node, scanVars, tcb, linkVars, user,
                 hang, driver_status, req>>

DnldStep == ExecNextCmd \/ DnldCurrent \/ DnldSent \/ DnldFails \/ NoRespDone
            \/ NoRespFree \/ DnldArm

-----------------------------------------------------------------------------
(* The firmware, and the interrupts by which it is heard.                  *)

\* It answers the command it holds, perhaps never; a scan it acknowledged
\* runs on ("drun" when of the default type), and stopping it ends it.
FwRespond ==
  /\ fw.cmd # None /\ fw.rsp = None
  /\ \E r \in fw.results :
       /\ fw' = [fw EXCEPT !.rsp = r,
                           !.scan = CASE r = "ok" /\ fw.cmd = "scan" -> "run"
                                      [] r = "ok" /\ fw.cmd = "dscan" -> "drun"
                                      [] r = "ok" /\ fw.cmd = "stop" /\ @ = "run" -> "reported"
                                      [] r = "ok" /\ fw.cmd = "stop" /\ @ = "drun" -> "idle"
                                      [] OTHER -> @]
       /\ req' = IF r = "ok" /\ curr_cmd # None
                 THEN [i \in Ioctl |-> IF i = node[curr_cmd].ioctl
                                       THEN [req[i] EXCEPT !.answered = TRUE] ELSE req[i]]
                 ELSE req
  /\ UNCHANGED <<queueVars, curr_cmd, node, scanVars, timerVars, cmd_sent,
                 cmd_resp_received, main, user, hang, driver_status>>

\* The card has taken the command from its port.
DownloadDone ==
  /\ MainAt("idle") /\ cmd_sent
  /\ cmd_sent' = FALSE
  /\ UNCHANGED <<queueVars, curr_cmd, node, scanVars, timerVars,
                 cmd_resp_received, fw, main, user, hang, driver_status, req>>

\* The main loop reads a response and hangs it on curr_cmd, if there is one.
RxCmdResp ==
  /\ MainAt("idle") /\ ~cmd_resp_received /\ fw.rsp # None
  /\ cmd_sent' = FALSE
  /\ fw' = [fw EXCEPT !.cmd = None, !.rsp = None]
  /\ IF curr_cmd = None
     THEN UNCHANGED <<node, cmd_resp_received>>
     ELSE /\ node' = [node EXCEPT ![curr_cmd].resp = fw.rsp]
          /\ cmd_resp_received' = TRUE
  /\ UNCHANGED <<queueVars, curr_cmd, scanVars, timerVars, main, user, hang,
                 driver_status, req>>

-----------------------------------------------------------------------------
(* MAIN: wlan_process_cmdresp.                                             *)

\* moal_stop_timer from the main loop waits for a running callback.
StopTimer ==
  IF cmd_timer_is_set
  THEN tcb = None /\ timer' = "off" /\ cmd_timer_is_set' = FALSE
  ELSE UNCHANGED <<timer, cmd_timer_is_set>>

\* Fault: the timer is stopped for any response.
RespTaken_StopsFirst ==
  /\ MainAt("idle") /\ cmd_resp_received
  /\ cmd_resp_received' = FALSE
  /\ StopTimer /\ UNCHANGED tcb
  /\ main' = IF node[curr_cmd].resp = "other" THEN main
             ELSE [MainIdle EXCEPT !.pc = "resp", !.ioctl = node[curr_cmd].ioctl]
  /\ UNCHANGED <<queueVars, curr_cmd, node, scanVars, cmd_sent, fw, user, hang,
                 driver_status, req>>

\* The response is taken up and the ioctl of curr_cmd read; a response to
\* some other command number is dropped and leaves the timer running.
RespTaken ==
  /\ MainAt("idle") /\ cmd_resp_received
  /\ cmd_resp_received' = FALSE
  /\ IF node[curr_cmd].resp = "other"
     THEN UNCHANGED <<timerVars, main>>
     ELSE /\ StopTimer /\ UNCHANGED tcb
          /\ main' = [MainIdle EXCEPT !.pc = "resp", !.ioctl = node[curr_cmd].ioctl]
  /\ UNCHANGED <<queueVars, curr_cmd, node, scanVars, cmd_sent, fw, user, hang,
                 driver_status, req>>

\* CMD_F_CANCELED: the answer to a cancelled command only frees its node.
RespCanceled ==
  /\ MainAt("resp")
  /\ IF node[curr_cmd].canceled
     THEN /\ Free({curr_cmd}, SetCode(req, Some(main.ioctl), "cancel"), node)
          /\ curr_cmd' = None
          /\ main' = MainIdle
     ELSE /\ MainTo("handle")
          /\ UNCHANGED <<cmd_free_q, node, req, curr_cmd>>
  /\ UNCHANGED <<cmd_pending_q, scan_pending_q, ext_cmd_pending_q, scanVars,
                 timerVars, linkVars, user, hang, driver_status>>

Handling(r) == MainAt("handle") /\ node[curr_cmd].resp = r

\* A response without the response bit.
HandleInvalid ==
  /\ Handling("invalid")
  /\ Free({curr_cmd}, SetCode(req, Some(main.ioctl), "fail"), node)
  /\ curr_cmd' = None
  /\ main' = MainIdle
  /\ UNCHANGED <<cmd_pending_q, scan_pending_q, ext_cmd_pending_q, scanVars,
                 timerVars, linkVars, user, hang, driver_status>>

\* wlan_handle_cmd_error_in_pre_aleep: the firmware was about to sleep and
\* the command goes back to the head of cmd_pending_q.
Requeued(n) == <<n>> \o cmd_pending_q

HandlePreAsleep ==
  /\ Handling("pre_asleep")
  /\ node' = [node EXCEPT ![curr_cmd].resp = None]
  /\ cmd_pending_q' = Requeued(curr_cmd)
  /\ curr_cmd' = None
  /\ main' = MainIdle
  /\ UNCHANGED <<cmd_free_q, scan_pending_q, ext_cmd_pending_q, scanVars,
                 timerVars, linkVars, user, hang, driver_status, req>>

\* wlan_process_cmdresp_error: the request that was read earlier is marked
\* failed; a scan command that failed takes all queued scan commands along.
HandleError ==
  /\ Handling("error")
  /\ LET r == SetCode(req, Some(main.ioctl), "fail")
     IN IF node[curr_cmd].cmd \in ScanKinds \cup {"stop"}
        THEN FlushScan(r) /\ MainTo("errscan")
        ELSE /\ req' = r /\ MainTo("errfree")
             /\ UNCHANGED <<cmd_free_q, node, scan_pending_q, scan_processing>>
  /\ UNCHANGED <<cmd_pending_q, ext_cmd_pending_q, curr_cmd, pscan_ioctl_req,
                 ext_scan_enhance, timerVars, linkVars, user, hang, driver_status>>

\* The scan request ends; the code reports success.
ScanDone == CompleteAll(SetCode(req, Some(pscan_ioctl_req), None),
                        Some(pscan_ioctl_req), TRUE)

ErrorScanDone ==
  /\ MainAt("errscan")
  /\ scan_processing' = FALSE
  /\ req' = ScanDone
  /\ pscan_ioctl_req' = None
  /\ MainTo("errfree")
  /\ UNCHANGED <<queueVars, curr_cmd, node, ext_scan_enhance, timerVars,
                 linkVars, user, hang, driver_status>>

ErrorFree ==
  /\ MainAt("errfree")
  /\ Free({curr_cmd}, req, node)
  /\ curr_cmd' = None
  /\ main' = MainIdle
  /\ UNCHANGED <<cmd_pending_q, scan_pending_q, ext_cmd_pending_q, scanVars,
                 timerVars, linkVars, user, hang, driver_status>>

\* The handler of a good response.  An enhanced scan is now watched by the command
\* timer until its status event; a stopped scan ends here.
HandleOk ==
  /\ Handling("ok")
  /\ \/ /\ node[curr_cmd].cmd = "scan"
        /\ timer' = "armed" /\ cmd_timer_is_set' = TRUE
        /\ MainTo("tail") /\ UNCHANGED scanVars
     \/ /\ node[curr_cmd].cmd = "stop"
        /\ scan_processing' = FALSE /\ ext_scan_enhance' = FALSE
        /\ MainTo("stopped")
        /\ UNCHANGED <<timer, cmd_timer_is_set, pscan_ioctl_req>>
     \/ /\ node[curr_cmd].cmd \notin {"scan", "stop"}
        /\ MainTo("tail") /\ UNCHANGED <<timer, cmd_timer_is_set, scanVars>>
  /\ UNCHANGED <<queueVars, curr_cmd, node, tcb, linkVars, user, hang,
                 driver_status, req>>

\* wlan_ret_802_11_scan_ext completes the cancelling request itself.
StopCompletes ==
  /\ MainAt("stopped")
  /\ LET S == Some(main.ioctl)
     IN req' = CompleteAll(SetCode(req, S, None), S, TRUE)
  /\ MainTo("tail")
  /\ UNCHANGED <<queueVars, curr_cmd, node, scanVars, timerVars, linkVars,
                 user, hang, driver_status>>

\* The end of wlan_process_cmdresp: success is written, the node freed.
RespTail ==
  /\ MainAt("tail")
  /\ Free({curr_cmd}, SetCode(req, IoctlsOf({curr_cmd}), None), node)
  /\ curr_cmd' = None
  /\ main' = MainIdle
  /\ UNCHANGED <<cmd_pending_q, scan_pending_q, ext_cmd_pending_q, scanVars,
                 timerVars, linkVars, user, hang, driver_status>>

RespStep ==
  \/ RespTaken \/ RespCanceled \/ HandleInvalid \/ HandlePreAsleep
  \/ HandleError \/ ErrorScanDone \/ ErrorFree \/ HandleOk \/ StopCompletes
  \/ RespTail

-----------------------------------------------------------------------------
(* MAIN: the events of a scan.                                             *)

\* The next scan command of the request moves on.
NextScanCmd ==
  /\ cmd_pending_q' = Append(cmd_pending_q, Head(scan_pending_q))
  /\ scan_pending_q' = Tail(scan_pending_q)

EventAt(s) == MainAt("idle") /\ ~cmd_resp_received /\ fw.scan = s

\* EVENT_EXT_SCAN_REPORT with the last results; an enhanced scan waits for
\* the status event.
ScanReport ==
  /\ EventAt("run") \/ EventAt("drun")
  /\ fw' = [fw EXCEPT !.scan = IF @ = "run" THEN "reported" ELSE "idle"]
  /\ IF pscan_ioctl_req = None \/ ext_scan_enhance
     THEN UNCHANGED <<cmd_pending_q, scan_pending_q, main>>
     ELSE IF scan_pending_q # <<>>
     THEN NextScanCmd /\ UNCHANGED main
     ELSE MainTo("report") /\ UNCHANGED <<cmd_pending_q, scan_pending_q>>
  /\ UNCHANGED <<cmd_free_q, ext_cmd_pending_q, curr_cmd, node, scanVars,
                 timerVars, cmd_sent, cmd_resp_received, user, hang,
                 driver_status, req>>

\* EVENT_EXT_SCAN_STATUS_REPORT.
ScanStatus ==
  /\ EventAt("reported")
  /\ fw' = [fw EXCEPT !.scan = "idle"]
  /\ IF scan_pending_q # <<>>
     THEN NextScanCmd /\ UNCHANGED main
     ELSE MainTo("status") /\ UNCHANGED <<cmd_pending_q, scan_pending_q>>
  /\ UNCHANGED <<cmd_free_q, ext_cmd_pending_q, curr_cmd, node, scanVars,
                 timerVars, cmd_sent, cmd_resp_received, user, hang,
                 driver_status, req>>

\* The watch over the scan ends, unless the timer now belongs to a command.
StatusStopsTimer ==
  /\ MainAt("status")
  /\ IF curr_cmd = None THEN StopTimer ELSE UNCHANGED <<timer, cmd_timer_is_set>>
  /\ MainTo("complete")
  /\ UNCHANGED <<queueVars, curr_cmd, node, scanVars, tcb, linkVars, user,
                 hang, driver_status, req>>

ScanCompletes ==
  /\ MainAt("complete") \/ MainAt("report")
  /\ scan_processing' = FALSE
  /\ req' = ScanDone
  /\ pscan_ioctl_req' = None
  /\ MainTo(IF MainAt("complete") THEN "move" ELSE "idle")
  /\ UNCHANGED <<queueVars, curr_cmd, node, ext_scan_enhance, timerVars,
                 linkVars, user, hang, driver_status>>

\* wlan_move_cmd_to_cmd_pending_q: what was deferred may now be sent.
MoveDeferred ==
  /\ MainAt("move")
  /\ cmd_pending_q' = cmd_pending_q \o ext_cmd_pending_q
  /\ ext_cmd_pending_q' = <<>>
  /\ main' = MainIdle
  /\ UNCHANGED <<cmd_free_q, scan_pending_q, curr_cmd, node, scanVars,
                 timerVars, linkVars, user, hang, driver_status, req>>

EventStep == ScanReport \/ ScanStatus \/ StatusStopsTimer \/ ScanCompletes \/ MoveDeferred

MainStep == DnldStep \/ DownloadDone \/ RxCmdResp \/ RespStep \/ EventStep

-----------------------------------------------------------------------------
(* TIMER: wlan_cmd_timeout_func, without any lock.                         *)

\* With no current command it is the watch over a scan that has expired.
TimerExpires ==
  /\ timer = "armed" /\ tcb = None
  /\ SlowHang \/ hang \in {"idle", "queued"}
  /\ timer' = "off" /\ cmd_timer_is_set' = FALSE
  /\ tcb' = IF curr_cmd = None /\ scan_processing THEN "watch" ELSE curr_cmd
  /\ UNCHANGED <<queueVars, curr_cmd, node, scanVars, linkVars, main, user,
                 hang, driver_status, req>>

\* The node that was read is marked timed out, and MOAL is told, of it or of the
\* scan: it refuses further requests and queues the hang work, unless that is
\* under way.
TimerReports ==
  /\ tcb # None
  /\ req' = IF tcb \in Node THEN SetCode(req, Some(node[tcb].ioctl), "timeout") ELSE req
  /\ driver_status' = TRUE
  /\ hang' = IF hang = "idle" THEN "queued" ELSE hang
  /\ tcb' = None
  /\ UNCHANGED <<queueVars, curr_cmd, node, scanVars, timer, cmd_timer_is_set,
                 linkVars, main, user>>

TimerStep == TimerExpires \/ TimerReports

-----------------------------------------------------------------------------
(* HANG: mlan_ioctl(NULL), that is wlan_cancel_all_pending_cmd(FALSE).     *)

\* Fault: the current command is freed as well.
flag_True == TRUE

\* mlan_ioctl cancels with flag MFALSE: the current command loses its ioctl but
\* stays current.
flag == FALSE

\* The timer is stopped without waiting for a running callback.
HangCancel ==
  /\ hang = "queued" /\ hang' = "scan"
  /\ LET N == Range(cmd_pending_q)
         S == N \cup Some(curr_cmd)
     IN Free(IF flag THEN S ELSE N,
             CancelAll(req, Some(pscan_ioctl_req) \cup IoctlsOf(S)),
             Detach(node, S))
  /\ curr_cmd' = IF flag THEN None ELSE curr_cmd
  /\ pscan_ioctl_req' = None
  /\ cmd_pending_q' = <<>>
  /\ IF cmd_timer_is_set
     THEN timer' = "off" /\ cmd_timer_is_set' = FALSE
     ELSE UNCHANGED <<timer, cmd_timer_is_set>>
  /\ UNCHANGED <<scan_pending_q, ext_cmd_pending_q, scan_processing,
                 ext_scan_enhance, tcb, linkVars, main, user, driver_status>>

HangFlushScan ==
  /\ hang = "scan" /\ hang' = "ext"
  /\ FlushScan(req)
  /\ UNCHANGED <<cmd_pending_q, ext_cmd_pending_q, curr_cmd, pscan_ioctl_req,
                 ext_scan_enhance, timerVars, linkVars, main, user,
                 driver_status>>

\* wlan_flush_ext_cmd_pending_queue.
Deferred == Range(ext_cmd_pending_q)

HangFlushExt ==
  /\ hang = "ext" /\ hang' = "idle"
  /\ Free(Deferred, CancelAll(req, IoctlsOf(Deferred)), Detach(node, Deferred))
  /\ ext_cmd_pending_q' = <<>>
  /\ UNCHANGED <<cmd_pending_q, scan_pending_q, curr_cmd, scanVars, timerVars,
                 linkVars, main, user, driver_status>>

HangStep == HangCancel \/ HangFlushScan \/ HangFlushExt

-----------------------------------------------------------------------------
Next ==
  \/ \E i \in Ioctl : Request(i)
  \/ UserStep \/ MainStep \/ FwRespond \/ TimerStep \/ HangStep

Spec == Init /\ [][Next]_vars

\* Scheduled threads run, an armed timer expires, and a scan the firmware has
\* acknowledged is reported; the firmware need not answer commands.
Fairness ==
  /\ WF_vars(UserStep) /\ WF_vars(DnldStep) /\ WF_vars(DownloadDone)
  /\ WF_vars(RxCmdResp) /\ WF_vars(RespStep) /\ WF_vars(EventStep)
  /\ WF_vars(TimerStep) /\ WF_vars(HangStep)

LiveSpec == Spec /\ Fairness

-----------------------------------------------------------------------------
(* Properties.                                                             *)

Req == [kind : Kinds, bss : Nat, cmds : 1 .. MaxScanCmds,
        st : {"new", "admitted", "running", "pending", "returned"},
        code : {None, "cancel", "timeout", "fail"}, done : 0 .. 2,
        ok : BOOLEAN, answered : BOOLEAN]

\* The types of the variables (cmd_ctrl_node, mlan_adapter, mlan_ioctl_req).
TypeOK ==
  /\ cmd_free_q \subseteq Node
  /\ \A q \in {cmd_pending_q, scan_pending_q, ext_cmd_pending_q} :
       q \in Seq(Node) /\ Len(q) <= Cardinality(Node)
  /\ curr_cmd \in Node \cup {None} /\ tcb \in Node \cup {None, "watch"}
  /\ node \in [Node -> [cmd : Commands \cup {None}, ioctl : Ioctl \cup {None},
                        scan : BOOLEAN, canceled : BOOLEAN,
                        resp : AllResults \cup {None}]]
  /\ pscan_ioctl_req \in Ioctl \cup {None}
  /\ {scan_processing, ext_scan_enhance, cmd_sent, cmd_resp_received,
      cmd_timer_is_set, driver_status} \subseteq BOOLEAN
  /\ timer \in {"off", "armed"} /\ hang \in {"idle", "queued", "scan", "ext"}
  /\ main \in [pc : {"idle", "dnld", "send", "noresp", "nrfree", "arm", "resp", "handle",
                     "errscan", "errfree", "stopped", "tail", "report",
                     "status", "complete", "move"},
               node : Node \cup {None}, ioctl : Ioctl \cup {None}]
  /\ user \in [pc : {"idle", "get", "queue", "start", "cancel", "bssrm", "stop",
                     "flush"},
               ioctl : Ioctl \cup {None}, node : Node \cup {None},
               todo : 0 .. MaxScanCmds]
  /\ fw \in [cmd : Commands \cup {None}, rsp : AllResults \cup {None},
             scan : {"idle", "run", "drun", "reported"},
             results : SUBSET AllResults, fails : BOOLEAN]
  /\ req \in [Ioctl -> Req]

\* The holders of a node that are not lists.
Holding(x) == IF x = None THEN <<>> ELSE <<x>>
InUse == cmd_pending_q \o scan_pending_q \o ext_cmd_pending_q
         \o Holding(curr_cmd) \o Holding(main.node) \o Holding(user.node)

\* A command node is in exactly one place -- the free list, one of the three
\* queues, current, or in the hands of the context that moves it -- and a
\* free node is clean, whatever cancels, times out or fails in between.
OnePlace ==
  /\ IsInjective(InUse)
  /\ Range(InUse) = Node \ cmd_free_q
  /\ \A n \in cmd_free_q : node[n] = Blank

\* How often the engine refers to a request from where it would complete it.
Refs(i) == Cardinality({n \in Node : node[n].ioctl = i})
           + (IF pscan_ioctl_req = i THEN 1 ELSE 0)

\* The scan requests that wlan_scan_ioctl has let through or turned away.
Begun(i) == IsScan(i) /\ req[i].st \notin {"new", "admitted"}
Alone(i) == \A j \in Ioctl \ {i} : ~Begun(j)

\* A request answered PENDING and not yet completed is held exactly once, so
\* that somebody will complete it; one that was completed, or that failed or
\* succeeded synchronously, is held nowhere, so that nobody will again.  The
\* exception: wlan_scan_networks answers PENDING even when the scan commands it
\* queued have been flushed meanwhile, by the hang work or on behalf of another
\* scan; the only scan of a driver that is alive is never lost.  (For a
\* cancelling request see CancelCompletedOnce.)
OwnedOnce ==
  \A i \in Ioctl : Kind(i) # "cancel" =>
    /\ req[i].st = "pending" /\ req[i].done = 0 =>
         Refs(i) = 1 \/ (IsScan(i) /\ (driver_status \/ ~Alone(i)))
    /\ req[i].done > 0 \/ req[i].st = "returned" => Refs(i) = 0

\* The life of a request as MOAL sees it.  Only a command is answered by one
\* response of the firmware, so success is compared for commands only, and a
\* request that cancels a scan, which CancelCompletedOnce shows completed
\* twice, is here completed once.
LifeOf(i) ==
  LET command == Kind(i) \in {"cmd", "conn"}
  IN [st |-> IF req[i].st \in {"admitted", "running"} THEN "issued" ELSE req[i].st,
      answered |-> command /\ req[i].answered,
      done |-> IF Kind(i) = "cancel" /\ req[i].done > 1 THEN 1 ELSE req[i].done,
      ok |-> command /\ req[i].ok]

Abstract == INSTANCE RequestService
              WITH Requests <- Ioctl, service <- [i \in Ioctl |-> LifeOf(i)]

\* Refinement: whatever is cancelled, fails or times out in between, a request is
\* answered once, by the status mlan_ioctl returns or by one completion, and a
\* command is not completed with success unless the firmware answered it so.
ServesRequests == Abstract!Service

\* The same of a request that cancels a scan.
CancelCompletedOnce == \A i \in Ioctl : Kind(i) = "cancel" => req[i].done <= 1

\* The answer the firmware owes or has sent is to the current command: a
\* cancelled command stays current until it is answered, and nothing else is
\* sent meanwhile.
ResponseMatches ==
  fw.cmd # None => curr_cmd # None /\ node[curr_cmd].cmd = fw.cmd

\* While the main loop is elsewhere the current command has a way out even if
\* no answer ever comes: the timer, or its callback that is running.
\* Exceptions: after the hang work the driver is dead, and a command without a
\* response whose ioctl is cancelled during its download stays current for good.
CurrHasExit ==
  MainAt("idle") /\ curr_cmd # None =>
    \/ timer = "armed" \/ tcb # None \/ driver_status
    \/ node[curr_cmd].cmd = "noresp" /\ node[curr_cmd].canceled

\* Nobody cancels, and no command fails: with an error answer or a failed
\* download the code leaves scan_processing or the deferred commands behind.
NoFault ==
  /\ ~fw.fails /\ fw.results \cap {"error", "invalid", "other"} = {}
  /\ \A i \in Ioctl : Kind(i) \notin {"cancel", "bssrm"}

\* All scans are of one type.  A scan request that runs out of command nodes
\* leaves what it queued in scan_pending_q to the next scan, which may be of the
\* other type; the report of such a command ends nothing.
OneScanType ==
  \E t \in ScanKinds : \A i \in Ioctl : IsScan(i) => Kind(i) = t

\* As long as no scan is cancelled or fails, scan_processing stands for a scan
\* that is on its way, and a command is deferred only while it is set, or is
\* just being moved back or flushed: whatever a scan holds back is released.
ScanReleases ==
  NoFault /\ OneScanType =>
    /\ scan_processing =>
         \/ \E n \in Node \ Range(scan_pending_q) : node[n].cmd \in ScanKinds
         \/ fw.scan # "idle" \/ main.pc \in {"report", "status", "complete"}
         \/ hang = "scan"
    /\ ext_cmd_pending_q # <<>> =>
         scan_processing \/ MainAt("move") \/ hang = "ext"

\* When a scan ends between the two critical sections of HangCancel and
\* HangFlushExt, what it deferred moves into the queue that was already emptied:
\* the hang work is over, and a request waits behind a current command that
\* nothing watches any more.
LeftBehind(i) ==
  /\ driver_status /\ hang = "idle" /\ curr_cmd # None
  /\ i \in IoctlsOf(Range(cmd_pending_q))

\* Every request that was accepted before a hang is completed: by its answer,
\* or because the timer leads to the hang work, which cancels it.
AcceptedCompletes ==
  \A i \in Ioctl :
    (req[i].st = "pending" /\ ~driver_status) ~> (req[i].done > 0 \/ LeftBehind(i))
==============================================================================
