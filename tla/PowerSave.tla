------------------------------- MODULE PowerSave -------------------------------
(***************************************************************************)
(* Power save of a station on SDIO: the card asks to sleep, the driver     *)
(* confirms when nothing is outstanding, wakes the card when there is work *)
(* and learns from an interrupt that it is awake.  The main loop, the      *)
(* interrupt handler and the wake-up timer share ps_state and its flags    *)
(* without a lock; only the accesses to the card exclude each other, since *)
(* the SDIO core holds the host during the handler (irq # "idle").         *)
(* The main loop runs in one context: MlanMain.                            *)
(***************************************************************************)
EXTENDS Naturals

CONSTANTS MaxNaps,     \* sleep requests of the card
          MaxFaults    \* failing confirmations and lost or failing wake-ups

ASSUME PsBoundAssumption == MaxNaps \in Nat /\ MaxFaults \in Nat

VARIABLES
  ps_state, pm_wakeup_card_req, pm_wakeup_fw_try, pm_wakeup_flag, pm_wakeup_timeout,
  timer,          \* pwakeup_fw_timer is armed
  wakeup_fw_timer_is_set,
  link,           \* cmd_sent, curr_cmd and what was received: cmd_resp, event, data
  ireg,           \* what the interrupt handler latched
  todo,           \* what waits to be sent: "cmd", "pkt"
  work,           \* the main work item is queued, or more_task_flag is set
  pc, taken,      \* the main loop, and the sdio_ireg it took
  irq, tcb,       \* the interrupt handler and the timer callback
  driver_status,  \* the hang was reported
  card            \* the card

wakevars == <<pm_wakeup_card_req, pm_wakeup_fw_try, pm_wakeup_flag, pm_wakeup_timeout>>
timervars == <<timer, wakeup_fw_timer_is_set, tcb>>
psvars == <<ps_state, wakevars, timervars, link, ireg, todo, work, pc, taken, irq,
            driver_status, card>>

PsState == {"AWAKE", "PRE_SLEEP", "SLEEP_CFM", "SLEEP"}
Bits == {"UP_LD_CMD", "UP_LD", "DN_LD"}
Upload == {"none", "resp", "confirmed", "refused", "EVENT_PS_SLEEP", "EVENT_PS_AWAKE"}

PsInit ==
  /\ ps_state = "AWAKE" /\ pm_wakeup_card_req = FALSE /\ pm_wakeup_fw_try = FALSE
  /\ pm_wakeup_flag = FALSE /\ pm_wakeup_timeout = 0
  /\ timer = FALSE /\ wakeup_fw_timer_is_set = FALSE /\ tcb = "idle"
  /\ link = [cmd_sent |-> FALSE, curr_cmd |-> FALSE, cmd_resp |-> FALSE,
             event |-> "none", data |-> FALSE]
  /\ ireg = {} /\ taken = {} /\ todo = {} /\ work = FALSE
  /\ pc = "idle" /\ irq = "idle" /\ driver_status = FALSE
  \* power: a card that asked to sleep waits for the confirmation; regs: its
  \* interrupt register; up, its upload on the command port, and down, what it
  \* was sent there; ports: a packet waits in a data port; poked: HOST_POWER_UP.
  /\ card = [power |-> "awake", regs |-> {}, up |-> "none", down |-> "none",
             ports |-> FALSE, poked |-> FALSE, naps |-> 0, faults |-> 0]

Link == [cmd_sent : BOOLEAN, curr_cmd : BOOLEAN, cmd_resp : BOOLEAN, event : Upload,
         data : BOOLEAN]
Card == [power : {"awake", "asked", "asleep"}, regs : SUBSET Bits, up : Upload,
         down : {"none", "cmd", "cfm"}, ports : BOOLEAN, poked : BOOLEAN,
         naps : 0 .. MaxNaps, faults : 0 .. MaxFaults]

FlagTypeOK ==
  /\ pm_wakeup_card_req \in BOOLEAN /\ pm_wakeup_fw_try \in BOOLEAN
  /\ pm_wakeup_flag \in BOOLEAN /\ timer \in BOOLEAN
  /\ wakeup_fw_timer_is_set \in BOOLEAN /\ work \in BOOLEAN
  /\ driver_status \in BOOLEAN /\ pm_wakeup_timeout \in 0 .. 3
PlaceTypeOK ==
  /\ ps_state \in PsState
  /\ ireg \subseteq Bits /\ taken \subseteq Bits /\ todo \subseteq {"cmd", "pkt"}
  /\ pc \in {"idle", "int", "read", "flag", "need", "wake", "tried", "rcvd", "ask1",
             "cfm1", "gate", "resp", "ask2", "cfm2", "send"}
  /\ irq \in {"idle", "check", "try", "awake", "req", "done"}
  /\ tcb \in {"idle", "count", "clear"}
PsTypeOK == FlagTypeOK /\ PlaceTypeOK /\ link \in Link /\ card \in Card

Goto(where) == pc' = where
BusFree == irq = "idle"
CardRxRcvd == link.cmd_resp \/ link.event # "none" \/ link.data
Quiet == ~link.cmd_sent /\ ~link.curr_cmd
MayFail == card.faults < MaxFaults

--------------------------------------------------------------------------------
(* Requests: an ioctl or a packet is queued, and the main work with it.      *)
Ask(job) ==
  /\ ~driver_status /\ job \notin todo
  /\ todo' = todo \cup {job} /\ work' = TRUE
  /\ UNCHANGED <<ps_state, wakevars, timervars, link, ireg, pc, taken, irq,
                 driver_status, card>>

(* wlan_sdio_interrupt: the registers are read and cleared; then the stores  *)
(* of a driver that held the card for asleep, one by one.                    *)
ReadRegisters ==
  /\ irq = "idle" /\ card.regs # {}
  /\ ireg' = ireg \cup card.regs
  /\ card' = [card EXCEPT !.regs = {}]
  /\ pm_wakeup_timeout' = 0
  /\ irq' = "check"
  /\ UNCHANGED <<ps_state, pm_wakeup_card_req, pm_wakeup_fw_try, pm_wakeup_flag,
                 timervars, link, todo, work, pc, taken, driver_status>>

InterruptStores ==
  /\ \/ /\ irq = "check" /\ irq' = IF ps_state = "SLEEP" THEN "try" ELSE "done"
        /\ UNCHANGED <<ps_state, pm_wakeup_card_req, pm_wakeup_fw_try>>
     \/ /\ irq = "try" /\ irq' = "awake" /\ pm_wakeup_fw_try' = FALSE
        /\ UNCHANGED <<ps_state, pm_wakeup_card_req>>
     \/ /\ irq = "awake" /\ irq' = "req" /\ ps_state' = "AWAKE"
        /\ UNCHANGED <<pm_wakeup_fw_try, pm_wakeup_card_req>>
     \/ /\ irq = "req" /\ irq' = "done" /\ pm_wakeup_card_req' = FALSE
        /\ UNCHANGED <<ps_state, pm_wakeup_fw_try>>
  /\ UNCHANGED <<pm_wakeup_flag, pm_wakeup_timeout, timervars, link, ireg, todo, work,
                 pc, taken, driver_status, card>>

InterruptDone ==
  /\ irq = "done" /\ irq' = "idle" /\ work' = TRUE
  /\ UNCHANGED <<ps_state, wakevars, timervars, link, ireg, todo, pc, taken,
                 driver_status, card>>

(* wlan_wakeup_card_timeout_func *)
Expire ==
  /\ timer /\ tcb = "idle" /\ ~driver_status
  /\ timer' = FALSE /\ tcb' = IF ps_state = "AWAKE" THEN "clear" ELSE "count"
  /\ UNCHANGED <<ps_state, wakevars, wakeup_fw_timer_is_set, link, ireg, todo, work, pc,
                 taken, irq, driver_status, card>>

CountTimeout ==
  /\ tcb = "count" /\ tcb' = "clear"
  /\ pm_wakeup_timeout' = IF pm_wakeup_timeout = 3 THEN 3 ELSE pm_wakeup_timeout + 1
  /\ pm_wakeup_flag' = TRUE /\ work' = TRUE
  /\ UNCHANGED <<ps_state, pm_wakeup_card_req, pm_wakeup_fw_try, timer,
                 wakeup_fw_timer_is_set, link, ireg, todo, pc, taken, irq,
                 driver_status, card>>

ClearTimerFlag ==
  /\ tcb = "clear" /\ tcb' = "idle" /\ wakeup_fw_timer_is_set' = FALSE
  /\ UNCHANGED <<ps_state, wakevars, timer, link, ireg, todo, work, pc, taken, irq,
                 driver_status, card>>

--------------------------------------------------------------------------------
(* mlan_main_process                                                         *)
MainStart ==
  /\ pc = "idle" /\ work /\ work' = FALSE /\ Goto("int")
  /\ UNCHANGED <<ps_state, wakevars, timervars, link, ireg, todo, taken, irq,
                 driver_status, card>>

TakeIreg ==
  /\ pc = "int" /\ taken' = ireg /\ ireg' = {}
  /\ Goto(IF ireg = {} THEN "flag" ELSE "read")
  /\ UNCHANGED <<ps_state, wakevars, timervars, link, todo, work, irq, driver_status, card>>

\* What wlan_decode_rx_packet makes of an upload on the command port: an event,
\* or an answer, which without a current command is that of the confirmation.
Events == {"EVENT_PS_SLEEP", "EVENT_PS_AWAKE"}
UploadTaken == IF "UP_LD_CMD" \in taken THEN card.up ELSE "none"
SleepConfirmResp ==
  UploadTaken \in {"confirmed", "refused"} /\ ~link.curr_cmd /\ ps_state = "SLEEP_CFM"

DataReceived_Kept == link.data \/ ("UP_LD" \in taken /\ card.ports)

\* data_received: "We might receive data/sleep_cfm at the same time", and then
\* the packet must not pass for a sign that the card is awake.
DataReceived ==
  /\ link.data \/ ("UP_LD" \in taken /\ card.ports)
  /\ ~(SleepConfirmResp /\ UploadTaken = "confirmed")

\* wlan_process_sdio_int_status.  The card sleeps once its answer was read.
ProcessIntStatus ==
  /\ pc = "read" /\ BusFree
  /\ IF SleepConfirmResp
       THEN /\ ps_state' = IF UploadTaken = "confirmed" THEN "SLEEP" ELSE "AWAKE"
            /\ pm_wakeup_card_req' = (UploadTaken = "confirmed")
       ELSE UNCHANGED <<ps_state, pm_wakeup_card_req>>
  /\ link' = [link EXCEPT
       !.cmd_sent = @ /\ UploadTaken \in Events \cup {"none"},
       !.cmd_resp = @ \/ (UploadTaken \notin Events \cup {"none"} /\ link.curr_cmd),
       !.event = IF UploadTaken \in Events THEN UploadTaken ELSE @,
       !.data = DataReceived]
  /\ card' = [card EXCEPT !.up = IF "UP_LD_CMD" \in taken THEN "none" ELSE @,
                          !.ports = @ /\ "UP_LD" \notin taken,
                          !.power = CASE UploadTaken = "confirmed" -> "asleep"
                                      [] UploadTaken = "refused" -> "awake"
                                      [] OTHER -> @]
  /\ taken' = {} /\ Goto("flag")
  /\ UNCHANGED <<pm_wakeup_fw_try, pm_wakeup_flag, pm_wakeup_timeout, timervars, ireg,
                 todo, work, irq, driver_status>>

WakeupTimedOut_Once ==
  /\ pc = "flag" /\ pm_wakeup_flag' = FALSE /\ Goto("need")
  /\ driver_status' = (driver_status \/ (ps_state = "SLEEP" /\ pm_wakeup_timeout > 2))
  /\ UNCHANGED <<ps_state, pm_wakeup_card_req, pm_wakeup_fw_try, pm_wakeup_timeout,
                 timervars, link, ireg, todo, work, taken, irq, card>>

\* A wake-up that timed out is repeated, or reported as a hang.
WakeupTimedOut ==
  /\ pc = "flag"
  /\ IF ps_state = "SLEEP" /\ pm_wakeup_flag
       THEN /\ pm_wakeup_flag' = FALSE
            /\ driver_status' = (driver_status \/ pm_wakeup_timeout > 2)
            /\ Goto(IF pm_wakeup_timeout > 2 THEN "need" ELSE "wake")
       ELSE /\ UNCHANGED <<pm_wakeup_flag, driver_status>> /\ Goto("need")
  /\ UNCHANGED <<ps_state, pm_wakeup_card_req, pm_wakeup_fw_try, pm_wakeup_timeout,
                 timervars, link, ireg, todo, work, taken, irq, card>>

NeedWakeup ==
  /\ pc = "need"
  /\ Goto(IF /\ ps_state = "SLEEP" /\ pm_wakeup_card_req /\ ~pm_wakeup_fw_try
             /\ todo # {}
            THEN "wake" ELSE "rcvd")
  /\ UNCHANGED <<ps_state, wakevars, timervars, link, ireg, todo, work, taken, irq,
                 driver_status, card>>

\* wlan_pm_sdio_wakeup_card; the write may fail, or the card miss it.
WakeupCard ==
  /\ pc = "wake" /\ BusFree
  /\ timer' = TRUE /\ wakeup_fw_timer_is_set' = TRUE
  /\ \/ card' = [card EXCEPT !.poked = (card.power = "asleep")]
     \/ MayFail /\ card' = [card EXCEPT !.faults = @ + 1]
  /\ Goto("tried")
  /\ UNCHANGED <<ps_state, wakevars, tcb, link, ireg, todo, work, taken, irq, driver_status>>

WakeupTried ==
  /\ pc = "tried" /\ pm_wakeup_fw_try' = TRUE /\ Goto("int")
  /\ UNCHANGED <<ps_state, pm_wakeup_card_req, pm_wakeup_flag, pm_wakeup_timeout,
                 timervars, link, ireg, todo, work, taken, irq, driver_status, card>>

\* Something was received: the card is awake.  moal_stop_timer waits for the
\* callback.
Received ==
  /\ pc = "rcvd" /\ CardRxRcvd
  /\ wakeup_fw_timer_is_set => tcb = "idle"
  /\ link' = [link EXCEPT !.data = FALSE]
  /\ pm_wakeup_fw_try' = FALSE
  /\ ps_state' = IF ps_state = "SLEEP" THEN "AWAKE" ELSE ps_state
  /\ timer' = (timer /\ ~wakeup_fw_timer_is_set)
  /\ wakeup_fw_timer_is_set' = FALSE
  /\ Goto("resp")
  /\ UNCHANGED <<pm_wakeup_card_req, pm_wakeup_flag, pm_wakeup_timeout, tcb, ireg, todo,
                 work, taken, irq, driver_status, card>>
NothingReceived ==
  /\ pc = "rcvd" /\ ~CardRxRcvd
  /\ Goto(CASE pm_wakeup_fw_try -> "idle"
            [] ~pm_wakeup_fw_try /\ ps_state = "PRE_SLEEP" -> "ask1"
            [] OTHER -> "gate")
  /\ UNCHANGED <<ps_state, wakevars, timervars, link, ireg, todo, work, taken, irq,
                 driver_status, card>>

\* wlan_check_ps_cond, and wlan_dnld_sleep_confirm_cmd where it agrees, at two
\* places of the loop.
CheckPsCond ==
  /\ pc \in {"ask1", "ask2"}
  /\ IF ps_state = "PRE_SLEEP" /\ Quiet /\ ~CardRxRcvd
       THEN ps_state' = "SLEEP_CFM" /\ Goto(IF pc = "ask1" THEN "cfm1" ELSE "cfm2")
       ELSE UNCHANGED ps_state /\ Goto(IF pc = "ask1" THEN "gate" ELSE "send")
  /\ UNCHANGED <<wakevars, timervars, link, ireg, todo, work, taken, irq, driver_status, card>>

\* A download that fails leaves SLEEP_CFM behind.
SendConfirm ==
  /\ pc \in {"cfm1", "cfm2"} /\ BusFree
  /\ \/ /\ link' = [link EXCEPT !.cmd_sent = TRUE]
        /\ card' = [card EXCEPT !.down = "cfm"]
     \/ /\ MayFail /\ link' = [link EXCEPT !.cmd_sent = FALSE]
        /\ card' = [card EXCEPT !.faults = @ + 1]
  /\ Goto(IF pc = "cfm1" THEN "gate" ELSE "send")
  /\ UNCHANGED <<ps_state, wakevars, timervars, ireg, todo, work, taken, irq, driver_status>>

Gate ==
  /\ pc = "gate"
  /\ Goto(IF ps_state = "AWAKE" /\ ("pkt" \in todo \/ ("cmd" \in todo /\ Quiet))
            THEN "resp" ELSE "idle")
  /\ UNCHANGED <<ps_state, wakevars, timervars, link, ireg, todo, work, taken, irq,
                 driver_status, card>>

\* The response, then wlan_process_event.  The check of wlan_check_ps_cond in the handler of
\* EVENT_PS_SLEEP fails: event_cause is set until the event is complete.
HandleReceived ==
  /\ pc = "resp"
  /\ CASE link.event = "EVENT_PS_SLEEP" /\ ps_state # "SLEEP_CFM" ->
            ps_state' = "PRE_SLEEP" /\ UNCHANGED <<pm_wakeup_card_req, pm_wakeup_fw_try>>
       [] link.event = "EVENT_PS_AWAKE" /\ ps_state # "SLEEP_CFM" ->
            ps_state' = "AWAKE" /\ pm_wakeup_card_req' = FALSE /\ pm_wakeup_fw_try' = FALSE
       [] OTHER -> UNCHANGED <<ps_state, pm_wakeup_card_req, pm_wakeup_fw_try>>
  /\ link' = [link EXCEPT !.event = "none", !.cmd_resp = FALSE,
                          !.curr_cmd = @ /\ ~link.cmd_resp]
  /\ Goto("ask2")
  /\ UNCHANGED <<pm_wakeup_flag, pm_wakeup_timeout, timervars, ireg, todo, work, taken,
                 irq, driver_status, card>>

\* wlan_exec_next_cmd and the packets.
Send ==
  /\ pc = "send"
  /\ IF ps_state = "AWAKE" /\ todo # {}
       THEN /\ BusFree
            /\ LET cmd == "cmd" \in todo /\ Quiet IN
               /\ todo' = IF cmd THEN {} ELSE todo \ {"pkt"}
               /\ link' = IF cmd THEN [link EXCEPT !.cmd_sent = TRUE, !.curr_cmd = TRUE]
                                 ELSE link
               /\ card' = IF cmd THEN [card EXCEPT !.down = "cmd"] ELSE card
       ELSE UNCHANGED <<todo, link, card>>
  /\ Goto("int")
  /\ UNCHANGED <<ps_state, wakevars, timervars, ireg, work, taken, irq, driver_status>>

--------------------------------------------------------------------------------
(* The card, as far as the driver relies on it: it asks to sleep, sleeps     *)
(* only after it was allowed to and its answer was read, uploads nothing     *)
(* after that answer, and raises an interrupt when it wakes.                 *)
CardStep(c) ==
  /\ card' = c
  /\ UNCHANGED <<ps_state, wakevars, timervars, link, ireg, todo, work, pc, taken, irq,
                 driver_status>>

CardAnswer ==
  /\ card.down # "none" /\ card.up = "none"
  /\ \E up \in IF card.down = "cmd" THEN {"resp"} ELSE {"confirmed", "refused"} :
       CardStep([card EXCEPT !.regs = @ \cup {"UP_LD_CMD"}, !.up = up, !.down = "none"])
CardAsksToSleep ==
  /\ card.power = "awake" /\ card.up = "none" /\ card.naps < MaxNaps
  /\ CardStep([card EXCEPT !.regs = @ \cup {"UP_LD_CMD"}, !.up = "EVENT_PS_SLEEP",
                           !.power = "asked", !.naps = @ + 1])
CardPacket ==
  /\ card.power # "asleep" /\ card.up \notin {"confirmed", "refused"} /\ ~card.ports
  /\ CardStep([card EXCEPT !.regs = @ \cup {"UP_LD"}, !.ports = TRUE])
\* It wakes by itself or when the host says so, with or without an upload.
CardWakes ==
  /\ card.power = "asleep"
  /\ \E wake \in {[regs |-> {"DN_LD"}, up |-> "none", ports |-> FALSE],
                  [regs |-> {"UP_LD_CMD"}, up |-> "EVENT_PS_AWAKE", ports |-> FALSE],
                  [regs |-> {"UP_LD"}, up |-> "none", ports |-> TRUE]} :
       CardStep([card EXCEPT !.power = "awake", !.poked = FALSE, !.up = wake.up,
                             !.regs = @ \cup wake.regs, !.ports = wake.ports])

IrqStep == ReadRegisters \/ InterruptStores \/ InterruptDone
TimerStep == Expire \/ CountTimeout \/ ClearTimerFlag
MainStep ==
  \/ MainStart \/ TakeIreg \/ ProcessIntStatus \/ WakeupTimedOut \/ NeedWakeup
  \/ WakeupCard \/ WakeupTried \/ Received \/ NothingReceived \/ CheckPsCond
  \/ SendConfirm \/ Gate \/ HandleReceived \/ Send

PsNext ==
  \/ \E job \in {"cmd", "pkt"} : Ask(job)
  \/ IrqStep \/ TimerStep \/ MainStep
  \/ CardAnswer \/ CardAsksToSleep \/ CardPacket \/ CardWakes

PsSpec == PsInit /\ [][PsNext]_psvars

\* The kernel runs handlers, timers and work; the card answers and, once told to,
\* wakes.
PsFairSpec ==
  /\ PsSpec
  /\ WF_psvars(IrqStep) /\ WF_psvars(TimerStep) /\ WF_psvars(MainStep)
  /\ WF_psvars(CardAnswer) /\ WF_psvars(card.poked /\ CardWakes)

--------------------------------------------------------------------------------
\* The driver takes the card for awake only when it is, and for asleep only when
\* it is or is about to be told otherwise: nothing is sent to a sleeping card,
\* and an awake one is not left to the wake-up timer.
AgreeOnSleep ==
  /\ ps_state \in {"AWAKE", "PRE_SLEEP"} => card.power # "asleep"
  /\ ps_state = "SLEEP" => card.power = "asleep" \/ card.regs # {} \/ irq # "idle"

\* The exits that the code has not: a confirmation that could not be sent leaves
\* SLEEP_CFM (mlan_cmdevt.c:1560), and pm_wakeup_fw_try is set after the handler
\* of the wake-up has already cleared it (mlan_shim.c:1232).
ConfirmLost == ps_state = "SLEEP_CFM" /\ ~link.cmd_sent
WakeupOvertaken == ps_state = "AWAKE" /\ pm_wakeup_fw_try

\* What was queued is sent, whatever state of power save it meets, unless the
\* hang is reported or the driver is left in one of these states for good.
WorkIsSent ==
  todo # {} ~> (todo = {} \/ driver_status \/ [](ConfirmLost \/ WakeupOvertaken))
================================================================================
