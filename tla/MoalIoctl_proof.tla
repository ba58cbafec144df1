----------------------------- MODULE MoalIoctl_proof -----------------------------
(***************************************************************************)
(* RequestOwned for every finite set of requests: each allocation is freed *)
(* once and not used afterwards, whoever frees it.                         *)
(***************************************************************************)
EXTENDS MoalIoctl, FiniteSetTheorems, TLAPS

Promise == [st : {"new", "issued", "pending", "returned"}, answered : BOOLEAN,
            done : 0 .. 1, ok : BOOLEAN]
CallerPC == {"start", "call", "in", "wait", "asleep", "up", "over", "end"}
CompPC == {"none", "count", "lock", "set", "wake", "unlock", "drop", "free", "done"}

MoalTypeOK ==
  /\ service \in [Requests -> Promise]
  /\ wait_option \in [Requests -> WaitOption]
  /\ caller \in [Requests -> CallerPC]
  /\ result \in [Requests -> {"none", "pending", "success", "failure"}]
  /\ comp \in [Requests -> CompPC]
  /\ reserved_1 \in [Requests -> BOOLEAN]
  /\ condition \in [Requests -> BOOLEAN]
  /\ freed \in [Requests -> Nat]
  /\ timed_out \in [Requests -> BOOLEAN]
  /\ signalled \in [Requests -> BOOLEAN]
  /\ driver_lock \in Requests \cup {Nobody}

\* A thread outside mlan_ioctl knows what the call has returned.
CallKnown(i) ==
  /\ caller[i] \in {"start", "call"} => service[i].st = "new"
  /\ caller[i] = "in" => service[i].st = "issued"
  /\ caller[i] \in {"wait", "asleep", "up"} =>
       service[i].st = "pending" /\ Waits(i) /\ result[i] = "pending"
  /\ caller[i] \in {"start", "call", "in"} => result[i] = "none"
  /\ caller[i] \in {"over", "end"} => result[i] # "none" /\ service[i].st # "issued"
  /\ caller[i] \in {"over", "end"} /\ result[i] = "pending" => service[i].st = "pending"

\* moal_ioctl_complete runs for a request that mlan holds, once.
CompletionKnown(i) ==
  /\ comp[i] = "none" <=> service[i].done = 0
  /\ service[i].st \in {"new", "returned"} => service[i].done = 0

\* reserved_1 tells who waits.
WaiterKnown(i) ==
  /\ caller[i] \in {"call", "in", "wait", "asleep", "up"} => (reserved_1[i] <=> Waits(i))
  /\ caller[i] \in {"over", "end"} /\ result[i] = "pending" => ~reserved_1[i]

\* The completion holds the lock while it decides, and what it has decided does
\* not change: with a waiter it sets the condition, without it drops the request.
Decided(i) ==
  /\ comp[i] \in {"set", "wake", "unlock", "drop"} <=> driver_lock = i
  /\ comp[i] \in {"none", "count", "lock"} => ~condition[i]
  /\ comp[i] = "set" => reserved_1[i] /\ ~condition[i]
  /\ comp[i] \in {"wake", "unlock"} => reserved_1[i] /\ condition[i]
  /\ comp[i] \in {"drop", "free"} => ~reserved_1[i] /\ ~condition[i]
  /\ comp[i] = "done" => (reserved_1[i] <=> condition[i])

\* A thread that has taken the status of the completion came after it.
StatusTaken(i) ==
  caller[i] \in {"over", "end"} /\ result[i] # "pending" /\ service[i].st = "pending" =>
    /\ comp[i] = "done" /\ condition[i]
    /\ result[i] = "success" => service[i].ok

FreedBy(i) ==
  freed[i] = IF \/ caller[i] = "end" /\ result[i] # "pending"
                \/ comp[i] = "done" /\ ~reserved_1[i]
               THEN 1 ELSE 0

Owned(i) ==
  /\ CallKnown(i) /\ CompletionKnown(i) /\ WaiterKnown(i) /\ Decided(i)
  /\ StatusTaken(i) /\ FreedBy(i)

OwnerInv == MoalTypeOK /\ \A i \in Requests : Owned(i)

MoalInv == OwnerInv /\ CountAgrees
--------------------------------------------------------------------------------
(* The owner invariant: the initial states, then one lemma for each action.  *)

\* Nothing that Owned(j) reads of a request j differs.
Same(j) ==
  /\ service'[j] = service[j] /\ wait_option'[j] = wait_option[j]
  /\ caller'[j] = caller[j] /\ result'[j] = result[j] /\ comp'[j] = comp[j]
  /\ reserved_1'[j] = reserved_1[j] /\ condition'[j] = condition[j]
  /\ freed'[j] = freed[j]
  /\ driver_lock' = j <=> driver_lock = j

\* A request that a step does not touch stays owned as it was.
LEMMA OwnedSame ==
    ASSUME NEW j, Owned(j), Same(j)
    PROVE  Owned(j)'
  BY DEF Owned, Same, CallKnown, CompletionKnown, WaiterKnown, Decided, StatusTaken,
         FreedBy, Waits

\* A request that was just allocated is owned by its caller.
LEMMA MoalInitOwned == MoalInit => OwnerInv
  <1> SUFFICES ASSUME MoalInit PROVE OwnerInv
    OBVIOUS
  <1>1. MoalTypeOK
    BY DEF MoalInit, ServiceInit, New, MoalTypeOK, Promise, CallerPC, CompPC
  <1>2. ASSUME NEW i \in Requests PROVE Owned(i)
    BY RequestsAssumption
       DEF MoalInit, ServiceInit, New, Owned, CallKnown, CompletionKnown, WaiterKnown,
           Decided, StatusTaken, FreedBy
  <1> QED
    BY <1>1, <1>2 DEF OwnerInv

\* A refused request never reached mlan, and its caller frees it.
LEMMA RefuseOwned ==
    ASSUME OwnerInv, NEW i \in Requests, Refuse(i)
    PROVE  OwnerInv'
  <1>1. MoalTypeOK'
    BY DEF OwnerInv, MoalTypeOK, CallerPC, CompPC, Refuse, Goto
  <1>2. Owned(i)'
    BY RequestsAssumption
       DEF OwnerInv, MoalTypeOK, CallerPC, CompPC, Owned, CallKnown, CompletionKnown,
           WaiterKnown, Decided, StatusTaken, FreedBy, Waits, Refuse, Goto
  <1>3. ASSUME NEW j \in Requests, j # i PROVE Same(j)
    BY <1>3, RequestsAssumption DEF OwnerInv, MoalTypeOK, Same, Refuse, Goto
  <1> QED
    BY <1>1, <1>2, <1>3, OwnedSame DEF OwnerInv

\* woal_fill_wait_queue: reserved_1 says from here on whether anybody waits.
LEMMA FillWaitQueueOwned ==
    ASSUME OwnerInv, NEW i \in Requests, FillWaitQueue(i)
    PROVE  OwnerInv'
  <1>1. Waits(i) \in BOOLEAN
    BY DEF Waits
  <1>2. reserved_1' = [reserved_1 EXCEPT ![i] = Waits(i)]
    BY DEF FillWaitQueue
  <1>3. reserved_1' \in [Requests -> BOOLEAN] /\ (reserved_1'[i] <=> Waits(i))
    BY <1>1, <1>2 DEF OwnerInv, MoalTypeOK
  <1>4. MoalTypeOK'
    BY <1>3 DEF OwnerInv, MoalTypeOK, CallerPC, CompPC, FillWaitQueue, Goto
  <1>5. Owned(i)'
    BY <1>3, RequestsAssumption
       DEF OwnerInv, MoalTypeOK, CallerPC, CompPC, Owned, CallKnown, CompletionKnown,
           WaiterKnown, Decided, StatusTaken, FreedBy, Waits, FillWaitQueue, Goto
  <1>6. ASSUME NEW j \in Requests, j # i PROVE Same(j)
    BY <1>6, RequestsAssumption DEF OwnerInv, MoalTypeOK, Same, FillWaitQueue, Goto
  <1> QED
    BY <1>4, <1>5, <1>6, OwnedSame DEF OwnerInv

\* The request is handed to mlan.
LEMMA CallMlanOwned ==
    ASSUME OwnerInv, NEW i \in Requests, CallMlan(i)
    PROVE  OwnerInv'
  <1>1. MoalTypeOK'
    BY DEF OwnerInv, MoalTypeOK, CallerPC, CompPC, CallMlan, Goto, Serve, Issue, Promise
  <1>2. Owned(i)'
    BY RequestsAssumption
       DEF OwnerInv, MoalTypeOK, CallerPC, CompPC, Owned, CallKnown, CompletionKnown,
           WaiterKnown, Decided, StatusTaken, FreedBy, Waits, CallMlan, Goto, Serve, Issue, Promise
  <1>3. ASSUME NEW j \in Requests, j # i PROVE Same(j)
    BY <1>3, RequestsAssumption DEF OwnerInv, MoalTypeOK, Same, CallMlan, Goto, Serve, Issue, Promise
  <1> QED
    BY <1>1, <1>2, <1>3, OwnedSame DEF OwnerInv

\* mlan answered at once and will not complete the request.
LEMMA ReturnedOwned ==
    ASSUME OwnerInv, NEW i \in Requests, Returned(i)
    PROVE  OwnerInv'
  <1>1. MoalTypeOK'
    BY DEF OwnerInv, MoalTypeOK, CallerPC, CompPC, Returned, Goto, Serve, Return, Promise
  <1>2. Owned(i)'
    BY RequestsAssumption
       DEF OwnerInv, MoalTypeOK, CallerPC, CompPC, Owned, CallKnown, CompletionKnown,
           WaiterKnown, Decided, StatusTaken, FreedBy, Waits, Returned, Goto, Serve, Return, Promise
  <1>3. ASSUME NEW j \in Requests, j # i PROVE Same(j)
    BY <1>3, RequestsAssumption DEF OwnerInv, MoalTypeOK, Same, Returned, Goto, Serve, Return, Promise
  <1> QED
    BY <1>1, <1>2, <1>3, OwnedSame DEF OwnerInv

\* mlan keeps the request: the caller waits, or forgets it.
LEMMA PendingOwned ==
    ASSUME OwnerInv, NEW i \in Requests, Pending(i)
    PROVE  OwnerInv'
  <1>1. MoalTypeOK'
    BY DEF OwnerInv, MoalTypeOK, CallerPC, CompPC, Pending, Goto, Serve, Accept, Promise
  <1>2. Owned(i)'
    BY RequestsAssumption
       DEF OwnerInv, MoalTypeOK, CallerPC, CompPC, Owned, CallKnown, CompletionKnown,
           WaiterKnown, Decided, StatusTaken, FreedBy, Waits, Pending, Goto, Serve, Accept, Promise
  <1>3. ASSUME NEW j \in Requests, j # i PROVE Same(j)
    BY <1>3, RequestsAssumption DEF OwnerInv, MoalTypeOK, Same, Pending, Goto, Serve, Accept, Promise
  <1> QED
    BY <1>1, <1>2, <1>3, OwnedSame DEF OwnerInv

\* The waiter tests the condition.
LEMMA LookOwned ==
    ASSUME OwnerInv, NEW i \in Requests, Look(i)
    PROVE  OwnerInv'
  <1>1. MoalTypeOK'
    BY DEF OwnerInv, MoalTypeOK, CallerPC, CompPC, Look, Goto
  <1>2. Owned(i)'
    BY RequestsAssumption
       DEF OwnerInv, MoalTypeOK, CallerPC, CompPC, Owned, CallKnown, CompletionKnown,
           WaiterKnown, Decided, StatusTaken, FreedBy, Waits, Look, Goto
  <1>3. ASSUME NEW j \in Requests, j # i PROVE Same(j)
    BY <1>3, RequestsAssumption DEF OwnerInv, MoalTypeOK, Same, Look, Goto
  <1> QED
    BY <1>1, <1>2, <1>3, OwnedSame DEF OwnerInv

\* A timeout or a signal ends the sleep; the request is not settled yet.
LEMMA GiveUpOwned ==
    ASSUME OwnerInv, NEW i \in Requests, GiveUp(i)
    PROVE  OwnerInv'
  <1>1. MoalTypeOK'
    BY DEF OwnerInv, MoalTypeOK, CallerPC, CompPC, GiveUp, Goto
  <1>2. Owned(i)'
    BY RequestsAssumption
       DEF OwnerInv, MoalTypeOK, CallerPC, CompPC, Owned, CallKnown, CompletionKnown,
           WaiterKnown, Decided, StatusTaken, FreedBy, Waits, GiveUp, Goto
  <1>3. ASSUME NEW j \in Requests, j # i PROVE Same(j)
    BY <1>3, RequestsAssumption DEF OwnerInv, MoalTypeOK, Same, GiveUp, Goto
  <1> QED
    BY <1>1, <1>2, <1>3, OwnedSame DEF OwnerInv

\* Under driver_lock the waiter takes the status or leaves the request behind.
LEMMA SettleOwned ==
    ASSUME OwnerInv, NEW i \in Requests, Settle(i)
    PROVE  OwnerInv'
  <1>1. MoalTypeOK'
    BY DEF OwnerInv, MoalTypeOK, CallerPC, CompPC, Settle, Goto
  <1>2. Owned(i)'
    BY RequestsAssumption
       DEF OwnerInv, MoalTypeOK, CallerPC, CompPC, Owned, CallKnown, CompletionKnown,
           WaiterKnown, Decided, StatusTaken, FreedBy, Waits, Settle, Goto
  <1>3. ASSUME NEW j \in Requests, j # i PROVE Same(j)
    BY <1>3, RequestsAssumption DEF OwnerInv, MoalTypeOK, Same, Settle, Goto
  <1> QED
    BY <1>1, <1>2, <1>3, OwnedSame DEF OwnerInv

\* The caller frees a request that is not pending: its completion is over.
LEMMA CallerFreesOwned ==
    ASSUME OwnerInv, NEW i \in Requests, CallerFrees(i)
    PROVE  OwnerInv'
  <1>1. freed' \in [Requests -> Nat]
    BY DEF OwnerInv, MoalTypeOK, CallerFrees
  <1>2. MoalTypeOK'
    BY <1>1 DEF OwnerInv, MoalTypeOK, CallerPC, CompPC, CallerFrees, Goto
  <1>3. caller[i] = "over" /\ caller'[i] = "end"
    BY DEF OwnerInv, MoalTypeOK, CallerFrees, Goto
  <1>4. result[i] # "pending" => ~(comp[i] = "done" /\ ~reserved_1[i])
    BY <1>3
       DEF OwnerInv, MoalTypeOK, Promise, Owned, CallKnown, CompletionKnown, Decided,
           StatusTaken
  <1>5. FreedBy(i)'
    BY <1>3, <1>4 DEF OwnerInv, MoalTypeOK, Owned, FreedBy, CallerFrees
  <1>6. Owned(i)'
    BY <1>3, <1>5
       DEF OwnerInv, MoalTypeOK, Owned, CallKnown, CompletionKnown, WaiterKnown, Decided,
           StatusTaken, Waits, CallerFrees
  <1>7. ASSUME NEW j \in Requests, j # i PROVE Same(j)
    BY <1>7, RequestsAssumption DEF OwnerInv, MoalTypeOK, Same, CallerFrees, Goto
  <1> QED
    BY <1>2, <1>6, <1>7, OwnedSame DEF OwnerInv

\* The completion counts the request off.
LEMMA CountDownOwned ==
    ASSUME OwnerInv, NEW i \in Requests, CountDown(i)
    PROVE  OwnerInv'
  <1>1. MoalTypeOK'
    BY DEF OwnerInv, MoalTypeOK, CallerPC, CompPC, CountDown
  <1>2. Owned(i)'
    BY RequestsAssumption
       DEF OwnerInv, MoalTypeOK, CallerPC, CompPC, Owned, CallKnown, CompletionKnown,
           WaiterKnown, Decided, StatusTaken, FreedBy, Waits, CountDown
  <1>3. ASSUME NEW j \in Requests, j # i PROVE Same(j)
    BY <1>3, RequestsAssumption DEF OwnerInv, MoalTypeOK, Same, CountDown
  <1> QED
    BY <1>1, <1>2, <1>3, OwnedSame DEF OwnerInv

\* The completion learns under driver_lock whether anybody waits.
LEMMA TakeLockOwned ==
    ASSUME OwnerInv, NEW i \in Requests, TakeLock(i)
    PROVE  OwnerInv'
  <1>1. MoalTypeOK'
    BY DEF OwnerInv, MoalTypeOK, CallerPC, CompPC, TakeLock
  <1>2. Owned(i)'
    BY RequestsAssumption
       DEF OwnerInv, MoalTypeOK, CallerPC, CompPC, Owned, CallKnown, CompletionKnown,
           WaiterKnown, Decided, StatusTaken, FreedBy, Waits, TakeLock
  <1>3. ASSUME NEW j \in Requests, j # i PROVE Same(j)
    BY <1>3, RequestsAssumption DEF OwnerInv, MoalTypeOK, Same, TakeLock
  <1> QED
    BY <1>1, <1>2, <1>3, OwnedSame DEF OwnerInv

\* The completion sets the condition of a waiter that cannot leave meanwhile.
LEMMA SetConditionOwned ==
    ASSUME OwnerInv, NEW i \in Requests, SetCondition(i)
    PROVE  OwnerInv'
  <1>1. MoalTypeOK'
    BY DEF OwnerInv, MoalTypeOK, CallerPC, CompPC, SetCondition
  <1>2. Owned(i)'
    BY RequestsAssumption
       DEF OwnerInv, MoalTypeOK, CallerPC, CompPC, Owned, CallKnown, CompletionKnown,
           WaiterKnown, Decided, StatusTaken, FreedBy, Waits, SetCondition
  <1>3. ASSUME NEW j \in Requests, j # i PROVE Same(j)
    BY <1>3, RequestsAssumption DEF OwnerInv, MoalTypeOK, Same, SetCondition
  <1> QED
    BY <1>1, <1>2, <1>3, OwnedSame DEF OwnerInv

\* The completion wakes the waiter, which needs driver_lock to go on.
LEMMA WakeOwned ==
    ASSUME OwnerInv, NEW i \in Requests, Wake(i)
    PROVE  OwnerInv'
  <1>1. MoalTypeOK'
    BY DEF OwnerInv, MoalTypeOK, CallerPC, CompPC, Wake, Goto, Wakes
  <1>2. Owned(i)'
    BY RequestsAssumption
       DEF OwnerInv, MoalTypeOK, CallerPC, CompPC, Owned, CallKnown, CompletionKnown,
           WaiterKnown, Decided, StatusTaken, FreedBy, Waits, Wake, Goto, Wakes
  <1>3. ASSUME NEW j \in Requests, j # i PROVE Same(j)
    BY <1>3, RequestsAssumption DEF OwnerInv, MoalTypeOK, Same, Wake, Goto, Wakes
  <1> QED
    BY <1>1, <1>2, <1>3, OwnedSame DEF OwnerInv

\* The completion has decided and releases driver_lock.
LEMMA UnlockOwned ==
    ASSUME OwnerInv, NEW i \in Requests, Unlock(i)
    PROVE  OwnerInv'
  <1>1. MoalTypeOK'
    BY DEF OwnerInv, MoalTypeOK, CallerPC, CompPC, Unlock
  <1>2. /\ comp'[i] = IF comp[i] = "drop" THEN "free" ELSE "done"
        /\ driver_lock' # i /\ comp[i] \in {"unlock", "drop"}
    BY RequestsAssumption DEF OwnerInv, MoalTypeOK, Unlock
  <1>3. Decided(i)'
    BY <1>2 DEF OwnerInv, MoalTypeOK, Owned, Decided, Unlock
  <1>4. FreedBy(i)'
    BY DEF OwnerInv, MoalTypeOK, CompPC, Owned, Decided, FreedBy, Unlock
  <1>5. /\ CallKnown(i)' /\ CompletionKnown(i)' /\ WaiterKnown(i)' /\ StatusTaken(i)'
    BY DEF OwnerInv, MoalTypeOK, CompPC, Owned, CallKnown, CompletionKnown, WaiterKnown,
           StatusTaken, Waits, Unlock
  <1>6. Owned(i)'
    BY <1>3, <1>4, <1>5 DEF Owned
  <1>7. driver_lock = i
    BY DEF OwnerInv, Owned, Decided, Unlock
  <1>8. ASSUME NEW j \in Requests, j # i PROVE Same(j)
    BY <1>8, <1>7, RequestsAssumption DEF OwnerInv, MoalTypeOK, Same, Unlock
  <1> QED
    BY <1>1, <1>6, <1>8, OwnedSame DEF OwnerInv

\* The completion frees a request whose caller will not.
LEMMA CompletionFreesOwned ==
    ASSUME OwnerInv, NEW i \in Requests, CompletionFrees(i)
    PROVE  OwnerInv'
  <1>1. freed' \in [Requests -> Nat]
    BY DEF OwnerInv, MoalTypeOK, CompletionFrees
  <1>2. MoalTypeOK'
    BY <1>1 DEF OwnerInv, MoalTypeOK, CallerPC, CompPC, CompletionFrees
  <1>3. comp[i] = "free" /\ ~reserved_1[i]
    BY DEF OwnerInv, Owned, Decided, CompletionFrees
  <1>4. ~(caller[i] = "end" /\ result[i] # "pending")
    BY <1>3
       DEF OwnerInv, MoalTypeOK, Promise, Owned, CallKnown, CompletionKnown, StatusTaken
  <1>5. FreedBy(i)'
    BY <1>3, <1>4 DEF OwnerInv, MoalTypeOK, Owned, FreedBy, CompletionFrees
  <1>6. Owned(i)'
    BY <1>3, <1>5
       DEF OwnerInv, MoalTypeOK, CompPC, Owned, CallKnown, CompletionKnown,
           WaiterKnown, Decided, StatusTaken, Waits, CompletionFrees
  <1>7. ASSUME NEW j \in Requests, j # i PROVE Same(j)
    BY <1>7, RequestsAssumption DEF OwnerInv, MoalTypeOK, Same, CompletionFrees
  <1> QED
    BY <1>2, <1>6, <1>7, OwnedSame DEF OwnerInv

\* A signal changes nothing but the wait.
LEMMA SignalOwned ==
    ASSUME OwnerInv, NEW i \in Requests, Signal(i)
    PROVE  OwnerInv'
  <1>1. MoalTypeOK'
    BY DEF OwnerInv, MoalTypeOK, CallerPC, CompPC, Signal
  <1>2. Owned(i)'
    BY RequestsAssumption
       DEF OwnerInv, MoalTypeOK, CallerPC, CompPC, Owned, CallKnown, CompletionKnown,
           WaiterKnown, Decided, StatusTaken, FreedBy, Waits, Signal
  <1>3. ASSUME NEW j \in Requests, j # i PROVE Same(j)
    BY <1>3, RequestsAssumption DEF OwnerInv, MoalTypeOK, Same, Signal
  <1> QED
    BY <1>1, <1>2, <1>3, OwnedSame DEF OwnerInv

\* mlan completes a request it holds, for the first time.
LEMMA CompletionOwned ==
    ASSUME OwnerInv, NEW i \in Requests, Completion(i)
    PROVE  OwnerInv'
  <1>1. MoalTypeOK'
    BY DEF OwnerInv, MoalTypeOK, CallerPC, CompPC, Completion, Serve, Complete, Promise
  <1>2. Owned(i)'
    BY RequestsAssumption
       DEF OwnerInv, MoalTypeOK, CallerPC, CompPC, Owned, CallKnown, CompletionKnown,
           WaiterKnown, Decided, StatusTaken, FreedBy, Waits, Completion, Serve, Complete, Promise
  <1>3. ASSUME NEW j \in Requests, j # i PROVE Same(j)
    BY <1>3, RequestsAssumption DEF OwnerInv, MoalTypeOK, Same, Completion, Serve, Complete, Promise
  <1> QED
    BY <1>1, <1>2, <1>3, OwnedSame DEF OwnerInv

\* The firmware answers; nobody owns the request any differently.
LEMMA AnsweredOwned ==
    ASSUME OwnerInv, NEW i \in Requests, Answered(i)
    PROVE  OwnerInv'
  <1>1. MoalTypeOK'
    BY DEF OwnerInv, MoalTypeOK, CallerPC, CompPC, Answered, Serve, Answer, Promise
  <1>2. Owned(i)'
    BY RequestsAssumption
       DEF OwnerInv, MoalTypeOK, CallerPC, CompPC, Owned, CallKnown, CompletionKnown,
           WaiterKnown, Decided, StatusTaken, FreedBy, Waits, Answered, Serve, Answer, Promise
  <1>3. ASSUME NEW j \in Requests, j # i PROVE Same(j)
    BY <1>3, RequestsAssumption DEF OwnerInv, MoalTypeOK, Same, Answered, Serve, Answer, Promise
  <1> QED
    BY <1>1, <1>2, <1>3, OwnedSame DEF OwnerInv

--------------------------------------------------------------------------------
(* The counter: Underway are the requests it counts.                         *)
Underway == {i \in Requests : Counted(i)}

\* Only finitely many requests are counted.
LEMMA UnderwayFinite == IsFiniteSet(Underway) /\ Cardinality(Underway) \in Nat
  BY RequestsAssumption, FS_Subset, FS_CardinalityType DEF Underway

\* A step that leaves the counted requests and the counter alone.
LEMMA CountKept ==
    ASSUME CountAgrees, UNCHANGED ioctl_pending,
           \A j \in Requests : Counted(j)' <=> Counted(j)
    PROVE  CountAgrees'
  <1>1. Underway' = Underway
    BY DEF Underway
  <1> QED
    BY <1>1 DEF CountAgrees, Underway

\* One request more, and the counter one up.
LEMMA CountUp ==
    ASSUME CountAgrees, NEW i \in Requests, ~Counted(i), Counted(i)',
           \A j \in Requests \ {i} : Counted(j)' <=> Counted(j),
           ioctl_pending' = ioctl_pending + 1
    PROVE  CountAgrees'
  <1>1. Underway' = Underway \cup {i} /\ i \notin Underway
    BY DEF Underway
  <1>2. Cardinality(Underway \cup {i}) = Cardinality(Underway) + 1
    BY <1>1, UnderwayFinite, FS_AddElement
  <1> QED
    BY <1>1, <1>2 DEF CountAgrees, Underway

\* One request less, and the counter one down; it is not zero.
LEMMA CountLess ==
    ASSUME CountAgrees, NEW i \in Requests, Counted(i), ~Counted(i)',
           \A j \in Requests \ {i} : Counted(j)' <=> Counted(j),
           ioctl_pending # 0 => ioctl_pending' = ioctl_pending - 1
    PROVE  CountAgrees'
  <1>1. Underway' = Underway \ {i} /\ i \in Underway
    BY DEF Underway
  <1>2. Cardinality(Underway \ {i}) = Cardinality(Underway) - 1
    BY <1>1, UnderwayFinite, FS_RemoveElement
  <1>3. Cardinality(Underway) # 0
    BY <1>1, UnderwayFinite, FS_EmptySet
  <1>4. ioctl_pending = Cardinality(Underway)
    BY DEF CountAgrees, Underway
  <1>5. ioctl_pending' = Cardinality(Underway')
    BY <1>1, <1>2, <1>3, <1>4
  <1> QED
    BY <1>5 DEF CountAgrees, Underway

\* Every step of a request keeps the counter right.
LEMMA CountStep ==
    ASSUME MoalInv, NEW i \in Requests,
           CallerStep(i) \/ CompletionStep(i) \/ Signal(i) \/ Completion(i) \/ Answered(i)
    PROVE  CountAgrees'
  <1> USE DEF MoalInv, OwnerInv
  <1>1. CASE FillWaitQueue(i)
    <2>1. ~Counted(i) /\ Counted(i)'
      BY <1>1 DEF MoalTypeOK, Owned, CallKnown, CompletionKnown, Counted, FillWaitQueue, Goto
    <2>2. \A j \in Requests \ {i} : Counted(j)' <=> Counted(j)
      BY <1>1 DEF MoalTypeOK, Counted, FillWaitQueue, Goto
    <2> QED
      BY <1>1, <2>1, <2>2, CountUp DEF FillWaitQueue
  <1>2. CASE Returned(i)
    <2>1. Counted(i) /\ ~Counted(i)'
      BY <1>2
         DEF MoalTypeOK, Promise, Owned, CallKnown, CompletionKnown, Counted, Returned,
             Serve, Return, Goto
    <2>2. \A j \in Requests \ {i} : Counted(j)' <=> Counted(j)
      BY <1>2 DEF MoalTypeOK, Counted, Returned, Serve, Goto
    <2> QED
      BY <1>2, <2>1, <2>2, CountLess DEF Returned
  <1>3. CASE CountDown(i)
    <2>1. Counted(i) /\ ~Counted(i)'
      BY <1>3 DEF MoalTypeOK, Promise, Owned, CompletionKnown, Counted, CountDown
    <2>2. \A j \in Requests \ {i} : Counted(j)' <=> Counted(j)
      BY <1>3 DEF MoalTypeOK, Counted, CountDown
    <2> QED
      BY <1>3, <2>1, <2>2, CountLess DEF CountDown
  <1>4. CASE Refuse(i) \/ Look(i) \/ GiveUp(i) \/ Settle(i) \/ CallerFrees(i) \/ Wake(i)
    <2>1. \A j \in Requests : Counted(j)' <=> Counted(j)
      BY <1>4
         DEF MoalTypeOK, Owned, CallKnown, Counted, Refuse, Look, GiveUp, Settle,
             CallerFrees, Wake, Goto
    <2> QED
      BY <1>4, <2>1, CountKept DEF Refuse, Look, GiveUp, Settle, CallerFrees, Wake
  <1>5. CASE CallMlan(i)
    <2>1. \A j \in Requests : Counted(j)' <=> Counted(j)
      BY <1>5
         DEF MoalTypeOK, Promise, Owned, CallKnown, Counted, CallMlan, Serve, Issue, Goto
    <2> QED
      BY <1>5, <2>1, CountKept DEF CallMlan
  <1>6. CASE Pending(i)
    <2>1. \A j \in Requests : Counted(j)' <=> Counted(j)
      BY <1>6
         DEF MoalTypeOK, Promise, Owned, CallKnown, Counted, Pending, Serve, Accept, Goto
    <2> QED
      BY <1>6, <2>1, CountKept DEF Pending
  <1>7. CASE Answered(i)
    <2>1. \A j \in Requests : Counted(j)' <=> Counted(j)
      BY <1>7 DEF MoalTypeOK, Promise, Counted, Answered, Serve, Answer
    <2> QED
      BY <1>7, <2>1, CountKept DEF Answered
  <1>8. CASE Completion(i)
    <2>1. \A j \in Requests : Counted(j)' <=> Counted(j)
      BY <1>8
         DEF MoalTypeOK, Promise, Owned, CompletionKnown, Counted, Completion, Serve,
             Complete
    <2> QED
      BY <1>8, <2>1, CountKept DEF Completion
  <1>9. CASE TakeLock(i) \/ SetCondition(i) \/ Unlock(i) \/ CompletionFrees(i) \/ Signal(i)
    <2>1. \A j \in Requests : Counted(j)' <=> Counted(j)
      BY <1>9
         DEF MoalTypeOK, Counted, TakeLock, SetCondition, Unlock, CompletionFrees, Signal
    <2> QED
      BY <1>9, <2>1, CountKept
         DEF TakeLock, SetCondition, Unlock, CompletionFrees, Signal
  <1> QED
    BY <1>1, <1>2, <1>3, <1>4, <1>5, <1>8, <1>9, <1>6, <1>7 DEF CallerStep, CompletionStep

--------------------------------------------------------------------------------
\* Every step of a request keeps its owner known.
LEMMA OwnerStep ==
    ASSUME OwnerInv, NEW i \in Requests,
           CallerStep(i) \/ CompletionStep(i) \/ Signal(i) \/ Completion(i) \/ Answered(i)
    PROVE  OwnerInv'
  <1>1. CASE CallerStep(i)
    BY <1>1, RefuseOwned, FillWaitQueueOwned, CallMlanOwned, ReturnedOwned, PendingOwned,
       LookOwned, GiveUpOwned, SettleOwned, CallerFreesOwned DEF CallerStep
  <1>2. CASE CompletionStep(i)
    BY <1>2, CountDownOwned, TakeLockOwned, SetConditionOwned, WakeOwned, UnlockOwned,
       CompletionFreesOwned DEF CompletionStep
  <1> QED
    BY <1>1, <1>2, SignalOwned, CompletionOwned, AnsweredOwned

\* The invariant speaks of the variables of the specification only.
LEMMA StutterKeeps == MoalInv /\ UNCHANGED moalvars => MoalInv'
  <1> SUFFICES ASSUME MoalInv, UNCHANGED moalvars PROVE MoalInv'
    OBVIOUS
  <1>1. MoalTypeOK'
    BY DEF MoalInv, OwnerInv, MoalTypeOK, moalvars
  <1>2. ASSUME NEW j \in Requests PROVE Owned(j)'
    BY OwnedSame DEF MoalInv, OwnerInv, Same, moalvars
  <1>3. CountAgrees'
    BY CountKept DEF MoalInv, Counted, moalvars
  <1> QED
    BY <1>1, <1>2, <1>3 DEF MoalInv, OwnerInv

\* At first nothing is counted.
LEMMA InitCounted == MoalInit => CountAgrees
  <1> SUFFICES ASSUME MoalInit PROVE CountAgrees
    OBVIOUS
  <1>1. Underway = {}
    BY DEF MoalInit, ServiceInit, New, Underway, Counted
  <1> QED
    BY <1>1, FS_EmptySet DEF MoalInit, CountAgrees, Underway

\* Who owns a request is known at every step (MoalIoctl).
THEOREM MoalInvHolds == MoalSpec => []MoalInv
  <1>1. MoalInit => MoalInv
    BY MoalInitOwned, InitCounted DEF MoalInv
  <1>2. MoalInv /\ [MoalNext]_moalvars => MoalInv'
    <2> SUFFICES ASSUME MoalInv, [MoalNext]_moalvars PROVE MoalInv'
      OBVIOUS
    <2>1. CASE MoalNext
      BY <2>1, OwnerStep, CountStep DEF MoalNext, MoalInv
    <2> QED
      BY <2>1, StutterKeeps
  <1> QED
    BY <1>1, <1>2, PTL DEF MoalSpec

\* A request is freed once, by its caller or by its completion, not used
\* afterwards and not leaked; a waiter is told the status of its own request; and
\* ioctl_pending counts what is under way (moal_ioctl.c, moal_shim.c).
THEOREM RequestOwnedHolds == MoalSpec => []RequestOwned
  <1>1. MoalInv => RequestOwned
    <2> SUFFICES ASSUME MoalInv PROVE RequestOwned
      OBVIOUS
    <2> USE DEF MoalInv, OwnerInv
    <2>1. FreedOnce
      <3> SUFFICES ASSUME NEW i \in Requests PROVE freed[i] \in 0 .. 1
        BY DEF FreedOnce
      <3>1. freed[i] = 0 \/ freed[i] = 1
        BY Zenon DEF Owned, FreedBy
      <3> QED
        BY <3>1
    <2>2. ASSUME NEW i \in Requests, CallerUses(i) PROVE freed[i] = 0
      <3>1. ~(caller[i] = "end")
        BY <2>2 DEF CallerUses
      <3>2. ~(comp[i] = "done" /\ ~reserved_1[i])
        BY <2>2
           DEF CallerUses, MoalTypeOK, Promise, Owned, CallKnown, CompletionKnown,
               WaiterKnown, Decided, StatusTaken
      <3> QED
        BY <3>1, <3>2 DEF Owned, FreedBy
    <2>3. ASSUME NEW i \in Requests, CompletionUses(i) PROVE freed[i] = 0
      <3>1. comp[i] \notin {"none", "done"}
        BY <2>3 DEF CompletionUses
      <3>2. ~(caller[i] = "end" /\ result[i] # "pending")
        BY <3>1
           DEF MoalTypeOK, Promise, Owned, CallKnown, CompletionKnown, StatusTaken
      <3> QED
        BY <3>1, <3>2 DEF Owned, FreedBy
    <2>4. UnusedWhenFreed
      BY <2>2, <2>3 DEF UnusedWhenFreed
    <2>5. NotLeaked
      BY DEF NotLeaked, MoalTypeOK, Owned, WaiterKnown, FreedBy
    <2>6. StatusTrue
      <3> SUFFICES ASSUME NEW i \in Requests, result[i] = "success",
                          service[i].st = "pending"
                   PROVE  service[i].done = 1 /\ service[i].ok
        BY DEF StatusTrue
      <3>1. caller[i] \in {"over", "end"}
        BY DEF MoalTypeOK, CallerPC, Owned, CallKnown
      <3> QED
        BY <3>1 DEF MoalTypeOK, Promise, Owned, CompletionKnown, StatusTaken
    <2> QED
      BY <2>1, <2>4, <2>5, <2>6 DEF RequestOwned
  <1> QED
    BY <1>1, MoalInvHolds, PTL
================================================================================
