---------------------------- MODULE PowerSave_proof ----------------------------
(***************************************************************************)
(* Driver and card agree on whether the card sleeps (AgreeOnSleep), for    *)
(* any number of naps and faults.                                          *)
(***************************************************************************)
EXTENDS PowerSave, TLAPS

Asleep == card.power = "asleep"

\* A confirmation was sent and its answer not yet read.
Confirming == card.down = "cfm" \/ card.up \in {"confirmed", "refused"}

\* The bit of the command port follows the upload it announces from the card's
\* register to the handler and to the main loop, and is in one place.
BitInv ==
  /\ pc = "read" <=> taken # {}
  /\ card.up = "none" => "UP_LD_CMD" \notin card.regs \cup ireg \cup taken
  /\ "UP_LD_CMD" \in card.regs => "UP_LD_CMD" \notin ireg \cup taken
  /\ "UP_LD_CMD" \in ireg => "UP_LD_CMD" \notin taken

\* While the card answers a confirmation it announces nothing else, and the
\* driver waits in SLEEP_CFM.
ConfirmInv ==
  /\ Confirming => ps_state = "SLEEP_CFM" /\ ~link.curr_cmd
  /\ card.up \in {"confirmed", "refused"} =>
       /\ card.down = "none"
       /\ "UP_LD_CMD" \in ireg => card.regs = {}
       /\ "UP_LD_CMD" \in taken => card.regs = {} /\ ireg = {}
  /\ pc \in {"cfm1", "cfm2"} =>
       ps_state = "SLEEP_CFM" /\ ~Confirming /\ ~link.curr_cmd

\* What was received is handled before the loop sends, asks or leaves, and
\* before the answer to a confirmation is read.
LoopInv ==
  /\ pc \in {"idle", "ask1", "cfm1", "gate", "ask2", "cfm2", "send"} => ~CardRxRcvd
  /\ pc \in {"int", "read"} /\ ps_state = "SLEEP_CFM" => ~CardRxRcvd
  /\ pc \in {"wake", "tried"} => ps_state \in {"SLEEP", "AWAKE"}
  /\ pc = "resp" => ~link.data

\* A card that sleeps has said all it had to say, and the driver knows.
CardInv ==
  Asleep => /\ ps_state = "SLEEP" /\ irq = "idle"
            /\ card.regs = {} /\ ireg = {} /\ taken = {}
            /\ card.up = "none" /\ card.down = "none"

\* A driver that takes the card for asleep has received nothing; only the
\* interrupt handler wakes it, and it does so before it lets the bus go.
SleepInv ==
  /\ ps_state = "SLEEP" => ~CardRxRcvd
  /\ ps_state = "SLEEP" /\ irq = "idle" =>
       ireg = {} /\ taken = {} /\ (Asleep \/ card.regs # {})
  /\ irq \in {"try", "awake"} => ps_state = "SLEEP"
  /\ irq \in {"req", "done"} => ps_state # "SLEEP"

\* The inductive invariant.
PsInv == PsTypeOK /\ BitInv /\ ConfirmInv /\ LoopInv /\ CardInv /\ SleepInv

\* The flags stay Boolean and the time-outs counted up to three.
LEMMA FlagsTyped ==
  ASSUME PsInv, [PsNext]_psvars PROVE FlagTypeOK'
<1> USE DEF PsInv, FlagTypeOK, PsTypeOK
<1>1. CASE \E job \in {"cmd", "pkt"} : Ask(job)
  BY <1>1 DEF Ask, wakevars, timervars
<1>2. CASE ReadRegisters
  BY <1>2 DEF ReadRegisters, wakevars, timervars
<1>3. CASE InterruptStores
  BY <1>3 DEF InterruptStores, wakevars, timervars
<1>4. CASE InterruptDone
  BY <1>4 DEF InterruptDone, wakevars, timervars
<1>5. CASE Expire
  BY <1>5 DEF Expire, wakevars, timervars
<1>6. CASE CountTimeout
  BY <1>6 DEF CountTimeout, wakevars, timervars
<1>7. CASE ClearTimerFlag
  BY <1>7 DEF ClearTimerFlag, wakevars, timervars
<1>8. CASE MainStart \/ TakeIreg
  BY <1>8 DEF MainStart, TakeIreg, Goto, wakevars, timervars
<1>9. CASE ProcessIntStatus
  BY <1>9 DEF ProcessIntStatus, UploadTaken, SleepConfirmResp, DataReceived, Events,
     BusFree, Goto, wakevars, timervars
<1>10. CASE WakeupTimedOut \/ NeedWakeup
  BY <1>10 DEF WakeupTimedOut, NeedWakeup, Goto, wakevars, timervars
<1>11. CASE WakeupCard \/ WakeupTried
  BY <1>11 DEF WakeupCard, WakeupTried, BusFree, MayFail, Goto, wakevars, timervars
<1>12. CASE Received \/ NothingReceived
  BY <1>12 DEF Received, NothingReceived, CardRxRcvd, Goto, wakevars, timervars
<1>13. CASE CheckPsCond \/ SendConfirm
  BY <1>13 DEF CheckPsCond, SendConfirm, CardRxRcvd, Quiet, BusFree, MayFail, Goto,
     wakevars, timervars
<1>14. CASE Gate \/ HandleReceived
  BY <1>14 DEF Gate, HandleReceived, Quiet, CardRxRcvd, Goto, wakevars, timervars
<1>15. CASE Send
  BY <1>15 DEF Send, Quiet, BusFree, Goto, wakevars, timervars
<1>16. CASE CardAnswer
  BY <1>16 DEF CardAnswer, CardStep, wakevars, timervars
<1>17. CASE CardAsksToSleep
  BY <1>17 DEF CardAsksToSleep, CardStep, wakevars, timervars
<1>18. CASE CardPacket
  BY <1>18 DEF CardPacket, CardStep, wakevars, timervars
<1>19. CASE CardWakes
  BY <1>19 DEF CardWakes, CardStep, wakevars, timervars
<1>20. CASE UNCHANGED psvars
  BY <1>20 DEF psvars, wakevars, timervars
<1> QED BY <1>1, <1>2, <1>3, <1>4, <1>5, <1>6, <1>7, <1>8, <1>9, <1>10, <1>11,
   <1>12, <1>13, <1>14, <1>15, <1>16, <1>17, <1>18, <1>19, <1>20
    DEF PsNext, MainStep, IrqStep, TimerStep

\* The contexts stay at places they have, the latched registers are registers.
LEMMA PlacesTyped ==
  ASSUME PsInv, [PsNext]_psvars PROVE PlaceTypeOK'
<1> USE DEF PsInv, PlaceTypeOK, PsTypeOK, PsState, Bits, Card
<1>1. CASE \E job \in {"cmd", "pkt"} : Ask(job)
  BY <1>1 DEF Ask, wakevars, timervars
<1>2. CASE ReadRegisters
  BY <1>2 DEF ReadRegisters, wakevars, timervars
<1>3. CASE InterruptStores
  BY <1>3 DEF InterruptStores, wakevars, timervars
<1>4. CASE InterruptDone
  BY <1>4 DEF InterruptDone, wakevars, timervars
<1>5. CASE TimerStep
  BY ZenonT(40), <1>5 DEF TimerStep, Expire, CountTimeout, ClearTimerFlag, wakevars, timervars
<1>6. CASE MainStart \/ TakeIreg
  BY <1>6 DEF MainStart, TakeIreg, Goto, wakevars, timervars
<1>7. CASE ProcessIntStatus
  BY <1>7 DEF ProcessIntStatus, UploadTaken, SleepConfirmResp, DataReceived, Events,
     BusFree, Goto, wakevars, timervars
<1>8. CASE WakeupTimedOut \/ NeedWakeup
  BY <1>8 DEF WakeupTimedOut, NeedWakeup, Goto, wakevars, timervars
<1>9. CASE WakeupCard \/ WakeupTried
  BY <1>9 DEF WakeupCard, WakeupTried, BusFree, MayFail, Goto, wakevars, timervars
<1>10. CASE Received \/ NothingReceived
  BY <1>10 DEF Received, NothingReceived, CardRxRcvd, Goto, wakevars, timervars
<1>11. CASE CheckPsCond \/ SendConfirm
  BY <1>11 DEF CheckPsCond, SendConfirm, CardRxRcvd, Quiet, BusFree, MayFail, Goto,
     wakevars, timervars
<1>12. CASE Gate \/ HandleReceived
  BY <1>12 DEF Gate, HandleReceived, Quiet, CardRxRcvd, Goto, wakevars, timervars
<1>13. CASE Send
  BY <1>13 DEF Send, Quiet, BusFree, Goto, wakevars, timervars
<1>14. CASE CardAnswer
  BY <1>14 DEF CardAnswer, CardStep, wakevars, timervars
<1>15. CASE CardAsksToSleep
  BY <1>15 DEF CardAsksToSleep, CardStep, wakevars, timervars
<1>16. CASE CardPacket
  BY <1>16 DEF CardPacket, CardStep, wakevars, timervars
<1>17. CASE CardWakes
  BY <1>17 DEF CardWakes, CardStep, wakevars, timervars
<1>18. CASE UNCHANGED psvars
  BY <1>18 DEF psvars, wakevars, timervars
<1> QED BY <1>1, <1>2, <1>3, <1>4, <1>5, <1>6, <1>7, <1>8, <1>9, <1>10, <1>11,
   <1>12, <1>13, <1>14, <1>15, <1>16, <1>17, <1>18
    DEF PsNext, MainStep, IrqStep

\* The driver receives what the card can upload.
LEMMA LinkTyped ==
  ASSUME PsInv, [PsNext]_psvars PROVE (link \in Link)'
<1> USE DEF PsInv, Link, PsTypeOK, PlaceTypeOK, Card, Upload
<1>1. CASE \E job \in {"cmd", "pkt"} : Ask(job)
  BY <1>1 DEF Ask, wakevars, timervars
<1>2. CASE IrqStep
  BY <1>2 DEF IrqStep, ReadRegisters, InterruptStores, InterruptDone, wakevars,
     timervars
<1>3. CASE TimerStep
  BY <1>3 DEF TimerStep, Expire, CountTimeout, ClearTimerFlag, wakevars, timervars
<1>4. CASE MainStart \/ TakeIreg
  BY <1>4 DEF MainStart, TakeIreg, Goto, wakevars, timervars
<1>5. CASE ProcessIntStatus
  <2>1. UploadTaken \in Upload
    BY DEF UploadTaken
  <2>2. DataReceived \in BOOLEAN
    BY DEF DataReceived, SleepConfirmResp
  <2> DEFINE sent == link.cmd_sent /\ UploadTaken \in Events \cup {"none"}
             resp == \/ link.cmd_resp
                     \/ UploadTaken \notin Events \cup {"none"} /\ link.curr_cmd
             event == IF UploadTaken \in Events THEN UploadTaken ELSE link.event
  <2>3. sent \in BOOLEAN /\ resp \in BOOLEAN /\ event \in Upload
    BY <2>1
  <2>4. link' = [link EXCEPT !.cmd_sent = sent, !.cmd_resp = resp, !.event = event,
                             !.data = DataReceived]
    BY <1>5 DEF ProcessIntStatus
  <2> HIDE DEF sent, resp, event
  <2> QED BY <2>2, <2>3, <2>4
<1>6. CASE WakeupTimedOut \/ NeedWakeup
  BY <1>6 DEF WakeupTimedOut, NeedWakeup, Goto, wakevars, timervars
<1>7. CASE WakeupCard \/ WakeupTried
  BY <1>7 DEF WakeupCard, WakeupTried, BusFree, MayFail, Goto, wakevars, timervars
<1>8. CASE Received \/ NothingReceived
  BY <1>8 DEF Received, NothingReceived, CardRxRcvd, Goto, wakevars, timervars
<1>9. CASE CheckPsCond \/ SendConfirm
  BY <1>9 DEF CheckPsCond, SendConfirm, CardRxRcvd, Quiet, BusFree, MayFail, Goto,
     wakevars, timervars
<1>10. CASE Gate \/ HandleReceived
  BY <1>10 DEF Gate, HandleReceived, Quiet, CardRxRcvd, Goto, wakevars, timervars
<1>11. CASE Send
  BY <1>11 DEF Send, Quiet, BusFree, Goto, wakevars, timervars
<1>12. CASE CardAnswer
  BY <1>12 DEF CardAnswer, CardStep, wakevars, timervars
<1>13. CASE CardAsksToSleep
  BY <1>13 DEF CardAsksToSleep, CardStep, wakevars, timervars
<1>14. CASE CardPacket
  BY <1>14 DEF CardPacket, CardStep, wakevars, timervars
<1>15. CASE CardWakes
  BY <1>15 DEF CardWakes, CardStep, wakevars, timervars
<1>16. CASE UNCHANGED psvars
  BY <1>16 DEF psvars, wakevars, timervars
<1> QED BY <1>1, <1>2, <1>3, <1>4, <1>5, <1>6, <1>7, <1>8, <1>9, <1>10, <1>11,
   <1>12, <1>13, <1>14, <1>15, <1>16
    DEF PsNext, MainStep

\* The card stays in states it has.
LEMMA CardTyped ==
  ASSUME PsInv, [PsNext]_psvars PROVE (card \in Card)'
<1> USE DEF PsInv, Card, PsTypeOK, PlaceTypeOK, Bits, Upload
<1>1. CASE \E job \in {"cmd", "pkt"} : Ask(job)
  BY <1>1 DEF Ask, wakevars, timervars
<1>2. CASE IrqStep
  BY <1>2 DEF IrqStep, ReadRegisters, InterruptStores, InterruptDone, wakevars,
     timervars
<1>3. CASE TimerStep
  BY <1>3 DEF TimerStep, Expire, CountTimeout, ClearTimerFlag, wakevars, timervars
<1>4. CASE MainStart \/ TakeIreg
  BY <1>4 DEF MainStart, TakeIreg, Goto, wakevars, timervars
<1>5. CASE ProcessIntStatus
  BY <1>5 DEF ProcessIntStatus, UploadTaken, SleepConfirmResp, DataReceived, Events,
     BusFree, Goto, wakevars, timervars
<1>6. CASE WakeupTimedOut \/ NeedWakeup
  BY <1>6 DEF WakeupTimedOut, NeedWakeup, Goto, wakevars, timervars
<1>7. CASE WakeupCard
  <2>1. MayFail => card.faults + 1 \in 0 .. MaxFaults
    BY PsBoundAssumption DEF MayFail
  <2>2. CASE card' = [card EXCEPT !.poked = (card.power = "asleep")]
    BY <2>2
  <2>3. CASE MayFail /\ card' = [card EXCEPT !.faults = @ + 1]
    BY <2>1, <2>3
  <2> QED BY <1>7, <2>2, <2>3 DEF WakeupCard
<1>8. CASE WakeupTried
  BY <1>8 DEF WakeupTried, BusFree, MayFail, Goto, wakevars, timervars
<1>9. CASE Received \/ NothingReceived
  BY <1>9 DEF Received, NothingReceived, CardRxRcvd, Goto, wakevars, timervars
<1>10. CASE CheckPsCond
  BY <1>10 DEF CheckPsCond, CardRxRcvd, Quiet, BusFree, MayFail, Goto, wakevars,
     timervars
<1>11. CASE SendConfirm
  BY <1>11, PsBoundAssumption DEF SendConfirm, CardRxRcvd, Quiet, BusFree, MayFail,
     Goto, wakevars, timervars
<1>12. CASE Gate \/ HandleReceived
  BY <1>12 DEF Gate, HandleReceived, Quiet, CardRxRcvd, Goto, wakevars, timervars
<1>13. CASE Send
  BY <1>13 DEF Send, Quiet, BusFree, Goto, wakevars, timervars
<1>14. CASE CardAnswer
  <2> PICK up \in Upload : card' = [card EXCEPT !.regs = @ \cup {"UP_LD_CMD"},
                                             !.up = up, !.down = "none"]
    BY <1>14 DEF CardAnswer, CardStep
  <2> QED OBVIOUS
<1>15. CASE CardAsksToSleep
  <2>1. card.naps + 1 \in 0 .. MaxNaps
    BY <1>15, PsBoundAssumption DEF CardAsksToSleep
  <2> QED BY <1>15, <2>1 DEF CardAsksToSleep, CardStep
<1>16. CASE CardPacket
  BY <1>16 DEF CardPacket, CardStep, wakevars, timervars
<1>17. CASE CardWakes
  <2> DEFINE Awake(wake) ==
         card' = [card EXCEPT !.power = "awake", !.poked = FALSE, !.up = wake.up,
                              !.regs = @ \cup wake.regs, !.ports = wake.ports]
  <2>1. \/ Awake([regs |-> {"DN_LD"}, up |-> "none", ports |-> FALSE])
        \/ Awake([regs |-> {"UP_LD_CMD"}, up |-> "EVENT_PS_AWAKE", ports |-> FALSE])
        \/ Awake([regs |-> {"UP_LD"}, up |-> "none", ports |-> TRUE])
    BY <1>17, Zenon DEF CardWakes, CardStep
  <2>2. CASE Awake([regs |-> {"DN_LD"}, up |-> "none", ports |-> FALSE])
    BY <2>2
  <2>3. CASE Awake([regs |-> {"UP_LD_CMD"}, up |-> "EVENT_PS_AWAKE", ports |-> FALSE])
    BY <2>3
  <2>4. CASE Awake([regs |-> {"UP_LD"}, up |-> "none", ports |-> TRUE])
    BY <2>4
  <2> QED BY <2>1, <2>2, <2>3, <2>4
<1>18. CASE UNCHANGED psvars
  BY <1>18 DEF psvars, wakevars, timervars
<1> QED BY <1>1, <1>2, <1>3, <1>4, <1>5, <1>6, <1>7, <1>8, <1>9, <1>10, <1>11,
   <1>12, <1>13, <1>14, <1>15, <1>16, <1>17, <1>18
    DEF PsNext, MainStep

\* No bit of the command port is read twice or lost on its way (ReadRegisters,
\* TakeIreg), and a new one comes only when the last upload was read.
LEMMA BitKept ==
  ASSUME PsInv, [PsNext]_psvars PROVE BitInv'
<1> USE DEF PsInv, PsTypeOK, PlaceTypeOK, PsState, Bits, Link, Card, Upload, BitInv,
   CardInv, Asleep
<1>1. CASE \E job \in {"cmd", "pkt"} : Ask(job)
  BY <1>1 DEF Ask, wakevars, timervars
<1>2. CASE IrqStep
  BY <1>2 DEF IrqStep, ReadRegisters, InterruptStores, InterruptDone, wakevars,
     timervars
<1>3. CASE TimerStep
  BY <1>3 DEF TimerStep, Expire, CountTimeout, ClearTimerFlag, wakevars, timervars
<1>4. CASE MainStart \/ TakeIreg
  BY <1>4 DEF MainStart, TakeIreg, Goto, wakevars, timervars
<1>5. CASE ProcessIntStatus
  BY <1>5 DEF ProcessIntStatus, UploadTaken, SleepConfirmResp, DataReceived, Events,
     BusFree, Goto, wakevars, timervars
<1>6. CASE WakeupTimedOut \/ NeedWakeup
  BY <1>6 DEF WakeupTimedOut, NeedWakeup, Goto, wakevars, timervars
<1>7. CASE WakeupCard \/ WakeupTried
  BY <1>7 DEF WakeupCard, WakeupTried, BusFree, MayFail, Goto, wakevars, timervars
<1>8. CASE Received \/ NothingReceived
  BY <1>8 DEF Received, NothingReceived, CardRxRcvd, Goto, wakevars, timervars
<1>9. CASE CheckPsCond \/ SendConfirm
  BY <1>9 DEF CheckPsCond, SendConfirm, CardRxRcvd, Quiet, BusFree, MayFail, Goto,
     wakevars, timervars
<1>10. CASE Gate \/ HandleReceived
  BY <1>10 DEF Gate, HandleReceived, Quiet, CardRxRcvd, Goto, wakevars, timervars
<1>11. CASE Send
  BY <1>11 DEF Send, Quiet, BusFree, Goto, wakevars, timervars
<1>12. CASE CardAnswer
  BY <1>12 DEF CardAnswer, CardStep, wakevars, timervars
<1>13. CASE CardAsksToSleep
  BY <1>13 DEF CardAsksToSleep, CardStep, wakevars, timervars
<1>14. CASE CardPacket
  BY <1>14 DEF CardPacket, CardStep, wakevars, timervars
<1>15. CASE CardWakes
  BY <1>15 DEF CardWakes, CardStep, wakevars, timervars
<1>16. CASE UNCHANGED psvars
  BY <1>16 DEF psvars, wakevars, timervars
<1> QED BY <1>1, <1>2, <1>3, <1>4, <1>5, <1>6, <1>7, <1>8, <1>9, <1>10, <1>11,
   <1>12, <1>13, <1>14, <1>15, <1>16
    DEF PsNext, MainStep

\* Only CheckPsCond leads to a confirmation, from PRE_SLEEP with nothing
\* outstanding, and only its answer leads out of SLEEP_CFM: no event does
\* (HandleReceived).
LEMMA ConfirmKept ==
  ASSUME PsInv, [PsNext]_psvars PROVE ConfirmInv'
<1> USE DEF PsInv, PsTypeOK, PlaceTypeOK, PsState, Bits, Link, Card, Upload, BitInv,
   ConfirmInv, Confirming, CardInv, SleepInv, LoopInv, CardRxRcvd, Asleep
<1>1. CASE \E job \in {"cmd", "pkt"} : Ask(job)
  BY <1>1 DEF Ask, wakevars, timervars
<1>2. CASE IrqStep
  BY <1>2 DEF IrqStep, ReadRegisters, InterruptStores, InterruptDone, wakevars,
     timervars
<1>3. CASE TimerStep
  BY ZenonT(40), <1>3 DEF TimerStep, Expire, CountTimeout, ClearTimerFlag, wakevars, timervars
<1>4. CASE MainStart \/ TakeIreg
  BY <1>4 DEF MainStart, TakeIreg, Goto, wakevars, timervars
<1>5. CASE ProcessIntStatus
  BY <1>5 DEF ProcessIntStatus, UploadTaken, SleepConfirmResp, DataReceived, Events,
     BusFree, Goto, wakevars, timervars
<1>6. CASE WakeupTimedOut \/ NeedWakeup
  BY <1>6 DEF WakeupTimedOut, NeedWakeup, Goto, wakevars, timervars
<1>7. CASE WakeupCard \/ WakeupTried
  BY <1>7 DEF WakeupCard, WakeupTried, BusFree, MayFail, Goto, wakevars, timervars
<1>8. CASE Received \/ NothingReceived
  BY <1>8 DEF Received, NothingReceived, Goto, wakevars, timervars
<1>9. CASE CheckPsCond \/ SendConfirm
  BY <1>9 DEF CheckPsCond, SendConfirm, Quiet, BusFree, MayFail, Goto, wakevars,
     timervars
<1>10. CASE Gate \/ HandleReceived
  BY <1>10 DEF Gate, HandleReceived, Quiet, Goto, wakevars, timervars
<1>11. CASE Send
  BY <1>11 DEF Send, Quiet, BusFree, Goto, wakevars, timervars
<1>12. CASE CardAnswer
  BY <1>12 DEF CardAnswer, CardStep, wakevars, timervars
<1>13. CASE CardAsksToSleep
  BY <1>13 DEF CardAsksToSleep, CardStep, wakevars, timervars
<1>14. CASE CardPacket
  BY <1>14 DEF CardPacket, CardStep, wakevars, timervars
<1>15. CASE CardWakes
  BY <1>15 DEF CardWakes, CardStep, wakevars, timervars
<1>16. CASE UNCHANGED psvars
  BY <1>16 DEF psvars, wakevars, timervars
<1> QED BY <1>1, <1>2, <1>3, <1>4, <1>5, <1>6, <1>7, <1>8, <1>9, <1>10, <1>11,
   <1>12, <1>13, <1>14, <1>15, <1>16
    DEF PsNext, MainStep

\* The loop leaves only by the ways on which nothing was received or all was
\* handled.
LEMMA LoopKept ==
  ASSUME PsInv, [PsNext]_psvars PROVE LoopInv'
<1> USE DEF PsInv, PsTypeOK, PlaceTypeOK, PsState, Bits, Link, Card, Upload,
   LoopInv, SleepInv, CardRxRcvd
<1>1. CASE \E job \in {"cmd", "pkt"} : Ask(job)
  BY <1>1 DEF Ask, wakevars, timervars
<1>2. CASE IrqStep
  BY <1>2 DEF IrqStep, ReadRegisters, InterruptStores, InterruptDone, wakevars,
     timervars
<1>3. CASE TimerStep
  BY <1>3 DEF TimerStep, Expire, CountTimeout, ClearTimerFlag, wakevars, timervars
<1>4. CASE MainStart \/ TakeIreg
  BY <1>4 DEF MainStart, TakeIreg, Goto, wakevars, timervars
<1>5. CASE ProcessIntStatus
  BY <1>5 DEF ProcessIntStatus, UploadTaken, SleepConfirmResp, DataReceived, Events,
     BusFree, Goto, wakevars, timervars
<1>6. CASE WakeupTimedOut \/ NeedWakeup
  BY <1>6 DEF WakeupTimedOut, NeedWakeup, Goto, wakevars, timervars
<1>7. CASE WakeupCard \/ WakeupTried
  BY <1>7 DEF WakeupCard, WakeupTried, BusFree, MayFail, Goto, wakevars, timervars
<1>8. CASE Received \/ NothingReceived
  BY <1>8 DEF Received, NothingReceived, Goto, wakevars, timervars
<1>9. CASE CheckPsCond \/ SendConfirm
  BY <1>9 DEF CheckPsCond, SendConfirm, Quiet, BusFree, MayFail, Goto, wakevars,
     timervars
<1>10. CASE Gate \/ HandleReceived
  BY <1>10 DEF Gate, HandleReceived, Quiet, Goto, wakevars, timervars
<1>11. CASE Send
  BY <1>11 DEF Send, Quiet, BusFree, Goto, wakevars, timervars
<1>12. CASE CardAnswer
  BY <1>12 DEF CardAnswer, CardStep, wakevars, timervars
<1>13. CASE CardAsksToSleep
  BY <1>13 DEF CardAsksToSleep, CardStep, wakevars, timervars
<1>14. CASE CardPacket
  BY <1>14 DEF CardPacket, CardStep, wakevars, timervars
<1>15. CASE CardWakes
  BY <1>15 DEF CardWakes, CardStep, wakevars, timervars
<1>16. CASE UNCHANGED psvars
  BY <1>16 DEF psvars, wakevars, timervars
<1> QED BY <1>1, <1>2, <1>3, <1>4, <1>5, <1>6, <1>7, <1>8, <1>9, <1>10, <1>11,
   <1>12, <1>13, <1>14, <1>15, <1>16
    DEF PsNext, MainStep

\* A card falls asleep when its answer is read (ProcessIntStatus), its last
\* upload.
LEMMA CardKept ==
  ASSUME PsInv, [PsNext]_psvars PROVE CardInv'
<1> USE DEF PsInv, PsTypeOK, PlaceTypeOK, PsState, Bits, Link, Card, Upload, BitInv,
   ConfirmInv, Confirming, CardInv, SleepInv, LoopInv, CardRxRcvd, Asleep
<1>1. CASE \E job \in {"cmd", "pkt"} : Ask(job)
  BY <1>1 DEF Ask, wakevars, timervars
<1>2. CASE IrqStep
  BY <1>2 DEF IrqStep, ReadRegisters, InterruptStores, InterruptDone, wakevars,
     timervars
<1>3. CASE TimerStep
  BY <1>3 DEF TimerStep, Expire, CountTimeout, ClearTimerFlag, wakevars, timervars
<1>4. CASE MainStart \/ TakeIreg
  BY <1>4 DEF MainStart, TakeIreg, Goto, wakevars, timervars
<1>5. CASE ProcessIntStatus
  BY <1>5 DEF ProcessIntStatus, UploadTaken, SleepConfirmResp, DataReceived, Events,
     BusFree, Goto, wakevars, timervars
<1>6. CASE WakeupTimedOut \/ NeedWakeup
  BY <1>6 DEF WakeupTimedOut, NeedWakeup, Goto, wakevars, timervars
<1>7. CASE WakeupCard \/ WakeupTried
  BY <1>7 DEF WakeupCard, WakeupTried, BusFree, MayFail, Goto, wakevars, timervars
<1>8. CASE Received \/ NothingReceived
  BY <1>8 DEF Received, NothingReceived, Goto, wakevars, timervars
<1>9. CASE CheckPsCond \/ SendConfirm
  BY <1>9 DEF CheckPsCond, SendConfirm, Quiet, BusFree, MayFail, Goto, wakevars,
     timervars
<1>10. CASE Gate \/ HandleReceived
  BY <1>10 DEF Gate, HandleReceived, Quiet, Goto, wakevars, timervars
<1>11. CASE Send
  BY <1>11 DEF Send, Quiet, BusFree, Goto, wakevars, timervars
<1>12. CASE CardAnswer
  BY <1>12 DEF CardAnswer, CardStep, wakevars, timervars
<1>13. CASE CardAsksToSleep
  BY <1>13 DEF CardAsksToSleep, CardStep, wakevars, timervars
<1>14. CASE CardPacket
  BY <1>14 DEF CardPacket, CardStep, wakevars, timervars
<1>15. CASE CardWakes
  BY <1>15 DEF CardWakes, CardStep, wakevars, timervars
<1>16. CASE UNCHANGED psvars
  BY <1>16 DEF psvars, wakevars, timervars
<1> QED BY <1>1, <1>2, <1>3, <1>4, <1>5, <1>6, <1>7, <1>8, <1>9, <1>10, <1>11,
   <1>12, <1>13, <1>14, <1>15, <1>16
    DEF PsNext, MainStep

\* A driver that waits for a sleeping card leaves SLEEP only by the interrupt
\* handler, and holds the bus from the registers to the last store.
LEMMA SleepKept ==
  ASSUME PsInv, [PsNext]_psvars PROVE SleepInv'
<1> USE DEF PsInv, PsTypeOK, PlaceTypeOK, PsState, Bits, Link, Card, Upload, BitInv,
   ConfirmInv, Confirming, CardInv, SleepInv, LoopInv, CardRxRcvd, Asleep
<1>1. CASE \E job \in {"cmd", "pkt"} : Ask(job)
  BY <1>1 DEF Ask, wakevars, timervars
<1>2. CASE IrqStep
  BY <1>2 DEF IrqStep, ReadRegisters, InterruptStores, InterruptDone, wakevars,
     timervars
<1>3. CASE TimerStep
  BY <1>3 DEF TimerStep, Expire, CountTimeout, ClearTimerFlag, wakevars, timervars
<1>4. CASE MainStart \/ TakeIreg
  BY <1>4 DEF MainStart, TakeIreg, Goto, wakevars, timervars
<1>5. CASE ProcessIntStatus
  BY <1>5 DEF ProcessIntStatus, UploadTaken, SleepConfirmResp, DataReceived, Events,
     BusFree, Goto, wakevars, timervars
<1>6. CASE WakeupTimedOut \/ NeedWakeup
  BY <1>6 DEF WakeupTimedOut, NeedWakeup, Goto, wakevars, timervars
<1>7. CASE WakeupCard \/ WakeupTried
  BY <1>7 DEF WakeupCard, WakeupTried, BusFree, MayFail, Goto, wakevars, timervars
<1>8. CASE Received \/ NothingReceived
  BY <1>8 DEF Received, NothingReceived, Goto, wakevars, timervars
<1>9. CASE CheckPsCond \/ SendConfirm
  BY <1>9 DEF CheckPsCond, SendConfirm, Quiet, BusFree, MayFail, Goto, wakevars,
     timervars
<1>10. CASE Gate \/ HandleReceived
  BY ZenonT(40), <1>10 DEF Gate, HandleReceived, Quiet, Goto, wakevars, timervars
<1>11. CASE Send
  BY <1>11 DEF Send, Quiet, BusFree, Goto, wakevars, timervars
<1>12. CASE CardAnswer
  BY <1>12 DEF CardAnswer, CardStep, wakevars, timervars
<1>13. CASE CardAsksToSleep
  BY <1>13 DEF CardAsksToSleep, CardStep, wakevars, timervars
<1>14. CASE CardPacket
  BY <1>14 DEF CardPacket, CardStep, wakevars, timervars
<1>15. CASE CardWakes
  BY <1>15 DEF CardWakes, CardStep, wakevars, timervars
<1>16. CASE UNCHANGED psvars
  BY <1>16 DEF psvars, wakevars, timervars
<1> QED BY <1>1, <1>2, <1>3, <1>4, <1>5, <1>6, <1>7, <1>8, <1>9, <1>10, <1>11,
   <1>12, <1>13, <1>14, <1>15, <1>16
    DEF PsNext, MainStep

\* The driver starts awake, with nothing sent or received.
LEMMA PsInitially == PsInit => PsInv
<1> SUFFICES ASSUME PsInit PROVE PsInv
  OBVIOUS
<1>1. PsTypeOK
  <2>1. 0 \in 0 .. MaxNaps /\ 0 \in 0 .. MaxFaults /\ 0 \in 0 .. 3
    BY PsBoundAssumption
  <2>2. link \in Link /\ card \in Card
    BY <2>1, Zenon DEF PsInit, Link, Card, Upload, Bits
  <2>3. FlagTypeOK /\ PlaceTypeOK
    BY <2>1 DEF PsInit, FlagTypeOK, PlaceTypeOK, PsState, Bits
  <2> QED BY <2>2, <2>3 DEF PsTypeOK
<1>2. BitInv /\ ConfirmInv /\ LoopInv /\ CardInv /\ SleepInv
  BY DEF PsInit, BitInv, ConfirmInv, Confirming, LoopInv, CardRxRcvd, CardInv, Asleep,
     SleepInv
<1> QED BY <1>1, <1>2 DEF PsInv

\* The inductive invariant, for any number of naps and faults.
THEOREM PsInvHolds == PsSpec => []PsInv
<1>1. PsInv /\ [PsNext]_psvars => PsInv'
  <2> SUFFICES ASSUME PsInv, [PsNext]_psvars PROVE PsInv'
    OBVIOUS
  <2>1. PsTypeOK'
    BY FlagsTyped, PlacesTyped, LinkTyped, CardTyped DEF PsTypeOK
  <2> QED BY <2>1, BitKept, ConfirmKept, LoopKept, CardKept, SleepKept DEF PsInv
<1> QED BY PsInitially, <1>1, PTL DEF PsSpec

\* Whatever the timer, the interrupt handler and the main loop interleave, the
\* driver takes the card for awake only when it is, and for asleep only when it is
\* or an interrupt that says otherwise is on its way.
THEOREM AgreeOnSleepHolds == PsSpec => []AgreeOnSleep
<1>1. PsInv => AgreeOnSleep
  BY DEF PsInv, CardInv, SleepInv, Asleep, AgreeOnSleep
<1> QED BY <1>1, PsInvHolds, PTL
================================================================================
