-------------------------------- MODULE MoalIoctl --------------------------------
(***************************************************************************)
(* How MOAL hands an ioctl request to mlan and gets it back                *)
(* (woal_request_ioctl, woal_wait_ioctl_complete, moal_ioctl_complete).    *)
(* The request and its wait queue are one allocation.  Who frees it is     *)
(* settled under driver_lock by reserved_1, the pointer to the wait queue: *)
(* the thread that waits, or, when nobody waits or the wait was given up,  *)
(* the context that completes the request.  mlan is RequestService.        *)
(***************************************************************************)
EXTENDS RequestService, FiniteSets

CONSTANT Nobody   \* no request

ASSUME RequestsAssumption == IsFiniteSet(Requests) /\ Nobody \notin Requests

VARIABLES
  wait_option,    \* of each request
  caller,         \* where the thread of each request is
  result,         \* what woal_request_ioctl returns to it
  comp,           \* where moal_ioctl_complete of each request is
  reserved_1,     \* the request points to its wait queue
  condition,      \* wait->condition
  freed,          \* how often the allocation was freed
  timed_out,      \* status_code is MLAN_ERROR_CMD_TIMEOUT
  signalled,      \* a signal is pending for the thread
  ioctl_pending,  \* handle->ioctl_pending
  driver_lock     \* the request whose completion holds it, or Nobody

moalvars == <<service, wait_option, caller, result, comp, reserved_1, condition,
              freed, timed_out, signalled, ioctl_pending, driver_lock>>

WaitOption == {"MOAL_NO_WAIT", "MOAL_IOCTL_WAIT", "MOAL_IOCTL_WAIT_TIMEOUT"}
Waits(i) == wait_option[i] # "MOAL_NO_WAIT"

MoalInit ==
  /\ ServiceInit
  /\ wait_option \in [Requests -> WaitOption]
  /\ caller = [i \in Requests |-> "start"]
  /\ result = [i \in Requests |-> "none"]
  /\ comp = [i \in Requests |-> "none"]
  /\ reserved_1 = [i \in Requests |-> TRUE]     \* woal_alloc_mlan_ioctl_req
  /\ condition = [i \in Requests |-> FALSE]
  /\ freed = [i \in Requests |-> 0]
  /\ timed_out = [i \in Requests |-> FALSE]
  /\ signalled = [i \in Requests |-> FALSE]
  /\ ioctl_pending = 0
  /\ driver_lock = Nobody

Goto(i, where) == caller' = [caller EXCEPT ![i] = where]
Serve(i, Move(_, _)) ==
  \E s \in [st : {"new", "issued", "pending", "returned"}, answered : BOOLEAN,
            done : 0 .. 1, ok : BOOLEAN] :
    Move(service[i], s) /\ service' = [service EXCEPT ![i] = s]

--------------------------------------------------------------------------------
(* woal_request_ioctl.  A removed or hung device refuses it.                *)
Refuse(i) ==
  /\ caller[i] = "start"
  /\ result' = [result EXCEPT ![i] = "failure"]
  /\ Goto(i, "over")
  /\ UNCHANGED <<service, wait_option, comp, reserved_1, condition, freed,
                 timed_out, signalled, ioctl_pending, driver_lock>>

FillWaitQueue(i) ==
  /\ caller[i] = "start"
  /\ reserved_1' = [reserved_1 EXCEPT ![i] = Waits(i)]
  /\ ioctl_pending' = ioctl_pending + 1
  /\ Goto(i, "call")
  /\ UNCHANGED <<service, wait_option, result, comp, condition, freed, timed_out,
                 signalled, driver_lock>>

\* The call of mlan_ioctl, under ioctl_lock.
CallMlan(i) ==
  /\ caller[i] = "call" /\ \A j \in Requests : caller[j] # "in"
  /\ Serve(i, Issue)
  /\ Goto(i, "in")
  /\ UNCHANGED <<wait_option, result, comp, reserved_1, condition, freed, timed_out,
                 signalled, ioctl_pending, driver_lock>>

Returned(i) ==
  /\ caller[i] = "in"
  /\ Serve(i, Return)
  /\ \E status \in {"success", "failure"} : result' = [result EXCEPT ![i] = status]
  /\ ioctl_pending' = ioctl_pending - 1
  /\ Goto(i, "over")
  /\ UNCHANGED <<wait_option, comp, reserved_1, condition, freed, timed_out, signalled,
                 driver_lock>>

Pending(i) ==
  /\ caller[i] = "in"
  /\ Serve(i, Accept)
  /\ result' = [result EXCEPT ![i] = "pending"]
  /\ Goto(i, IF Waits(i) THEN "wait" ELSE "over")
  /\ UNCHANGED <<wait_option, comp, reserved_1, condition, freed, timed_out, signalled,
                 ioctl_pending, driver_lock>>

(* woal_wait_ioctl_complete: the wait ends with the condition, with the      *)
(* timeout, or with a signal that outlasts the retries.                      *)
Look(i) ==
  /\ caller[i] = "wait"
  /\ Goto(i, IF condition[i] THEN "up" ELSE "asleep")
  /\ UNCHANGED <<service, wait_option, result, comp, reserved_1, condition, freed,
                 timed_out, signalled, ioctl_pending, driver_lock>>

GiveUp(i) ==
  /\ caller[i] = "asleep"
  /\ wait_option[i] = "MOAL_IOCTL_WAIT_TIMEOUT" \/ signalled[i]
  /\ Goto(i, "up")
  /\ UNCHANGED <<service, wait_option, result, comp, reserved_1, condition, freed,
                 timed_out, signalled, ioctl_pending, driver_lock>>

\* A signal for a thread that waits interruptibly.
Signal(i) ==
  /\ wait_option[i] = "MOAL_IOCTL_WAIT" /\ caller[i] \in {"wait", "asleep"}
  /\ ~signalled[i]
  /\ signalled' = [signalled EXCEPT ![i] = TRUE]
  /\ UNCHANGED <<service, wait_option, caller, result, comp, reserved_1, condition,
                 freed, timed_out, ioctl_pending, driver_lock>>

Settle_Unlocked(i) ==
  /\ caller[i] = "up"
  /\ IF condition[i]
       THEN /\ result' = [result EXCEPT ![i] = IF service[i].ok THEN "success" ELSE "failure"]
            /\ UNCHANGED reserved_1
       ELSE /\ reserved_1' = [reserved_1 EXCEPT ![i] = FALSE]
            /\ UNCHANGED result
  /\ Goto(i, "over")
  /\ UNCHANGED <<service, wait_option, comp, condition, freed, timed_out, signalled,
                 ioctl_pending, driver_lock>>

\* Under driver_lock: the status of the completion, or the request is left to it.
Settle(i) ==
  /\ caller[i] = "up" /\ driver_lock = Nobody
  /\ IF condition[i]
       THEN /\ result' = [result EXCEPT ![i] = IF service[i].ok THEN "success" ELSE "failure"]
            /\ UNCHANGED reserved_1
       ELSE /\ reserved_1' = [reserved_1 EXCEPT ![i] = FALSE]
            /\ UNCHANGED result
  /\ Goto(i, "over")
  /\ UNCHANGED <<service, wait_option, comp, condition, freed, timed_out, signalled,
                 ioctl_pending, driver_lock>>

\* The callers: kfree(req) unless the status is MLAN_STATUS_PENDING.
CallerFrees(i) ==
  /\ caller[i] = "over"
  /\ freed' = [freed EXCEPT ![i] = IF result[i] = "pending" THEN @ ELSE @ + 1]
  /\ Goto(i, "end")
  /\ UNCHANGED <<service, wait_option, result, comp, reserved_1, condition, timed_out,
                 signalled, ioctl_pending, driver_lock>>

--------------------------------------------------------------------------------
(* moal_ioctl_complete, in whatever context mlan completes the request; one  *)
(* that failed may have run into the command timer before.                   *)
Completion(i) ==
  /\ Serve(i, Complete)
  /\ \E t \in BOOLEAN :
       /\ t => ~service'[i].ok
       /\ timed_out' = [timed_out EXCEPT ![i] = t]
  /\ comp' = [comp EXCEPT ![i] = "count"]
  /\ UNCHANGED <<wait_option, caller, result, reserved_1, condition, freed, signalled,
                 ioctl_pending, driver_lock>>

CountDown(i) ==
  /\ comp[i] = "count"
  /\ ioctl_pending' = IF ioctl_pending = 0 THEN 0 ELSE ioctl_pending - 1
  /\ comp' = [comp EXCEPT ![i] = "lock"]
  /\ UNCHANGED <<service, wait_option, caller, result, reserved_1, condition, freed,
                 timed_out, signalled, driver_lock>>

TakeLock(i) ==
  /\ comp[i] = "lock" /\ driver_lock = Nobody
  /\ driver_lock' = i
  /\ comp' = [comp EXCEPT ![i] = IF reserved_1[i] THEN "set" ELSE "drop"]
  /\ UNCHANGED <<service, wait_option, caller, result, reserved_1, condition, freed,
                 timed_out, signalled, ioctl_pending>>

SetCondition(i) ==
  /\ comp[i] = "set"
  /\ condition' = [condition EXCEPT ![i] = TRUE]
  /\ comp' = [comp EXCEPT ![i] = "wake"]
  /\ UNCHANGED <<service, wait_option, caller, result, reserved_1, freed, timed_out,
                 signalled, ioctl_pending, driver_lock>>

Wakes_TimeoutOnly(i) == wait_option[i] = "MOAL_IOCTL_WAIT_TIMEOUT"

\* A request that ran into the command timer wakes only a wait with a timeout.
Wakes(i) == wait_option[i] = "MOAL_IOCTL_WAIT_TIMEOUT" \/ ~timed_out[i]
Wake(i) ==
  /\ comp[i] = "wake"
  /\ IF Wakes(i) /\ caller[i] = "asleep" THEN Goto(i, "wait") ELSE UNCHANGED caller
  /\ comp' = [comp EXCEPT ![i] = "unlock"]
  /\ UNCHANGED <<service, wait_option, result, reserved_1, condition, freed, timed_out,
                 signalled, ioctl_pending, driver_lock>>

Unlock(i) ==
  /\ comp[i] \in {"unlock", "drop"}
  /\ driver_lock' = Nobody
  /\ comp' = [comp EXCEPT ![i] = IF comp[i] = "drop" THEN "free" ELSE "done"]
  /\ UNCHANGED <<service, wait_option, caller, result, reserved_1, condition, freed,
                 timed_out, signalled, ioctl_pending>>

CompletionFrees(i) ==
  /\ comp[i] = "free"
  /\ freed' = [freed EXCEPT ![i] = @ + 1]
  /\ comp' = [comp EXCEPT ![i] = "done"]
  /\ UNCHANGED <<service, wait_option, caller, result, reserved_1, condition, timed_out,
                 signalled, ioctl_pending, driver_lock>>

\* The firmware answers the command of a request.
Answered(i) ==
  /\ ~service[i].answered
  /\ Serve(i, Answer)
  /\ UNCHANGED <<wait_option, caller, result, comp, reserved_1, condition, freed,
                 timed_out, signalled, ioctl_pending, driver_lock>>

CallerStep(i) ==
  \/ Refuse(i) \/ FillWaitQueue(i) \/ CallMlan(i) \/ Returned(i) \/ Pending(i)
  \/ Look(i) \/ GiveUp(i) \/ Settle(i) \/ CallerFrees(i)
CompletionStep(i) ==
  \/ CountDown(i) \/ TakeLock(i) \/ SetCondition(i) \/ Wake(i) \/ Unlock(i)
  \/ CompletionFrees(i)

MoalNext == \E i \in Requests :
  CallerStep(i) \/ CompletionStep(i) \/ Signal(i) \/ Completion(i) \/ Answered(i)

\* Threads run, and a wait with a timeout times out.  mlan need not complete
\* anything: that is what its own model shows.
MoalFairness ==
  \A i \in Requests : WF_moalvars(CallerStep(i)) /\ WF_moalvars(CompletionStep(i))

MoalSpec == MoalInit /\ [][MoalNext]_moalvars
MoalFairSpec == MoalSpec /\ MoalFairness

--------------------------------------------------------------------------------
\* The thread still reads or writes the allocation; one that does not wait does
\* not once it has called mlan_ioctl, unless it is to free it.
CallerUses(i) ==
  \/ caller[i] \in {"start", "call", "wait", "asleep", "up"}
  \/ caller[i] = "in" /\ Waits(i)
  \/ caller[i] = "over" /\ result[i] # "pending"
CompletionUses(i) ==
  comp[i] \in {"count", "lock", "set", "wake", "unlock", "drop", "free"}

FreedOnce == \A i \in Requests : freed[i] \in 0 .. 1
UnusedWhenFreed ==
  \A i \in Requests : CallerUses(i) \/ CompletionUses(i) => freed[i] = 0
\* When both have ended, one of them has freed it.
NotLeaked ==
  \A i \in Requests :
    caller[i] = "end" /\ (result[i] # "pending" \/ comp[i] = "done") => freed[i] = 1
\* A thread that waited is told success only of what mlan completed with success.
StatusTrue ==
  \A i \in Requests :
    result[i] = "success" /\ service[i].st = "pending" => service[i].done = 1 /\ service[i].ok
\* A request is counted from its submission to its completion.
Counted(i) ==
  /\ caller[i] = "call" \/ service[i].st \in {"issued", "pending"}
  /\ comp[i] \in {"none", "count"}
CountAgrees == ioctl_pending = Cardinality({i \in Requests : Counted(i)})

\* A request is owned by one of two contexts at a time, whenever the wait is
\* given up: it is freed once and not touched afterwards, none is leaked, the
\* status that a waiter gets is that of the completion, and ioctl_pending counts
\* what is under way.
RequestOwned ==
  FreedOnce /\ UnusedWhenFreed /\ NotLeaked /\ StatusTrue /\ CountAgrees

\* A wait that is interruptible and whose request failed after the command timer
\* had expired is not woken (moal_shim.c:1061): only a signal ends it.
NotWoken(i) ==
  wait_option[i] = "MOAL_IOCTL_WAIT" /\ timed_out[i] /\ caller[i] = "asleep"

\* A thread that waits returns when its request is completed, when it is
\* signalled, and, with a timeout, in any case.
CallersReturn ==
  \A i \in Requests :
    (caller[i] \in {"wait", "asleep"} /\
       (wait_option[i] = "MOAL_IOCTL_WAIT_TIMEOUT" \/ comp[i] # "none" \/ signalled[i]))
    ~> (caller[i] = "end" \/ NotWoken(i))
================================================================================
