--------------------------- MODULE MlanMain_proof ---------------------------
(***************************************************************************)
(* Proofs about MlanMain for every set of interrupt contexts and every     *)
(* value of the limits and bounds.                                         *)
(***************************************************************************)
EXTENDS MlanMain, TLAPS

USE DEF placeVars

IrqStep(t) == IrqStart(t) \/ Interrupt(t)

\* Next, with the alternatives of its composite actions spelled out.
LEMMA NextCases ==
    ASSUME Next
    PROVE  \/ \E t \in Irqs : IrqStep(t)
           \/ PostJob \/ MainWorkStart \/ RxWorkStart \/ CloseStart
           \/ RxEnter \/ RxDequeue \/ RxRun \/ RxRunKick \/ RxHandle \/ RxTail
           \/ CloseMainEnded \/ CloseFlushMain \/ CloseFlushRx \/ CloseWoken
           \/ \E t \in MainThreads : MainStep(t)
           \/ \E t \in Threads : ShutdownStep(t)
  BY DEF Next, RxStep, CloseStep, IrqStep

-----------------------------------------------------------------------------
(* Type correctness, one lemma for each part of TypeOK. *)

\* A context that moves keeps the program counters well formed.
LEMMA GotoType ==
    ASSUME PcTypeOK, NEW t \in Threads, NEW l,
           t \in MainThreads => l \in MainPC,
           t = Closer => l \in CloserPC,
           Goto(t, l), rx_pc' \in RxPC
    PROVE  PcTypeOK'
  <1>1. l \in MainPC \cup CloserPC
    BY DEF Threads
  <1> QED
    BY <1>1, ThreadAssumption DEF PcTypeOK, Goto, Threads

\* The adapter starts well formed.
LEMMA TypeInit == Init => TypeOK
  <1> SUFFICES ASSUME Init PROVE TypeOK
    OBVIOUS
  <1>1. PcTypeOK
    BY ThreadAssumption DEF Init, PcTypeOK, Threads, MainPC, CloserPC, RxPC
  <1>2. StatusTypeOK
    BY DEF Init, StatusTypeOK
  <1>3. FlagTypeOK
    BY DEF Init, FlagTypeOK
  <1>4. CountTypeOK
    BY DEF Init, CountTypeOK
  <1> QED
    BY <1>1, <1>2, <1>3, <1>4 DEF TypeOK

\* The main loop leaves the variables of the shutdown alone.
LEMMA MainLeavesStatus ==
    ASSUME NEW t \in MainThreads, MainStep(t)
    PROVE  UNCHANGED closeVars
  BY
     DEF MainStep, MainEnter, MainLoop, MainRxLimit, MainPause,
         MainPauseKick, MainInt, MainIntKick, MainGate, MainBlock,
         MainFlushCall, MainFlushed, MainDeleteTbl, MainUnblock, MainTail,
         MainExit

\* hw_status and the other variables of the shutdown change in its steps only.
LEMMA CloseVarsUnchanged ==
    ASSUME Next
    PROVE  \/ CloseStart \/ UNCHANGED closeVars
           \/ \E t \in Threads : ShutdownStep(t)
  <1>1. ASSUME NEW t \in MainThreads, MainStep(t)
        PROVE  UNCHANGED closeVars
    BY <1>1, MainLeavesStatus
  <1>2. ASSUME RxStep \/ RxWorkStart
        PROVE  UNCHANGED closeVars
    BY <1>2
       DEF RxStep, RxWorkStart, RxEnter, RxDequeue, RxRun, RxRunKick,
           RxHandle, RxTail
  <1>3. ASSUME CloseStep
        PROVE  UNCHANGED closeVars
    BY <1>3 DEF CloseStep, CloseMainEnded, CloseFlushMain, CloseFlushRx, CloseWoken
  <1>4. ASSUME \/ PostJob \/ MainWorkStart
               \/ \E t \in Irqs : IrqStep(t)
        PROVE  UNCHANGED closeVars
    BY <1>4 DEF PostJob, QueueMainWork, MainWorkStart, IrqStep, IrqStart, Interrupt
  <1> QED
    BY <1>1, <1>2, <1>3, <1>4 DEF Next, IrqStep

\* Every step keeps the flags Boolean.
LEMMA FlagTypeStep ==
    ASSUME TypeOK, Next
    PROVE  FlagTypeOK'
  <1> USE DEF TypeOK, FlagTypeOK, mainVars, rxVars, blockVars, cardVars,
              closeVars, envVars
  <1>1. ASSUME NEW t \in Irqs, IrqStep(t)
        PROVE  FlagTypeOK'
    BY <1>1, BoundAssumption DEF IrqStep, IrqStart, Interrupt
  <1>2. CASE PostJob
    BY ZenonT(40), <1>2 DEF PostJob, QueueMainWork
  <1>3. CASE MainWorkStart
    BY ZenonT(40), <1>3 DEF MainWorkStart
  <1>4. CASE RxWorkStart
    BY ZenonT(40), <1>4 DEF RxWorkStart
  <1>5. CASE RxEnter
    <2>1. mlan_rx_processing' \in BOOLEAN /\ more_rx_task_flag' \in BOOLEAN
      BY <1>5 DEF RxEnter
    <2>2. UNCHANGED <<mlan_processing, more_task_flag, delay_task_flag,
                      rx_lock_flag, cardVars, closeVars, main_work, rx_work>>
      BY <1>5 DEF RxEnter
    <2> QED
      BY <2>1, <2>2
  <1>6. CASE RxDequeue
    BY <1>6 DEF RxDequeue
  <1>7. CASE RxRun
    <2>1. delay_task_flag' \in BOOLEAN
      BY <1>7 DEF RxRun
    <2>2. UNCHANGED <<mlan_processing, more_task_flag, mlan_rx_processing,
                      more_rx_task_flag, rx_lock_flag, cardVars, closeVars,
                      main_work, rx_work>>
      BY <1>7 DEF RxRun
    <2> QED
      BY <2>1, <2>2
  <1>8. CASE RxRunKick
    BY ZenonT(40), <1>8 DEF RxRunKick, QueueMainWork
  <1>9. CASE RxHandle
    BY <1>9 DEF RxHandle
  <1>10. CASE RxTail
    BY ZenonT(40), <1>10 DEF RxTail
  <1>11. CASE CloseStart
    BY <1>11 DEF CloseStart
  <1>12. CASE CloseMainEnded \/ CloseFlushMain
    BY <1>12 DEF CloseMainEnded, CloseFlushMain
  <1>13. CASE CloseFlushRx
    BY <1>13 DEF CloseFlushRx
  <1>14. CASE CloseWoken
    BY <1>14 DEF CloseWoken
  <1>15. ASSUME NEW t \in MainThreads, MainStep(t)
        PROVE  FlagTypeOK'
    <2>1. CASE MainEnter(t)
      BY ZenonT(40), <2>1 DEF MainEnter
    <2>2. CASE MainLoop(t)
      BY <2>2 DEF MainLoop
    <2>3. CASE MainRxLimit(t)
      BY <2>3 DEF MainRxLimit
    <2>4. CASE MainPause(t)
      BY <2>4 DEF MainPause
    <2>5. CASE MainPauseKick(t)
      BY ZenonT(40), <2>5 DEF MainPauseKick, QueueRxWork
    <2>6. CASE MainInt(t)
      BY <2>6 DEF MainInt
    <2>7. CASE MainIntKick(t)
      BY ZenonT(40), <2>7 DEF MainIntKick, QueueRxWork
    <2>8. CASE MainGate(t)
      BY <2>8 DEF MainGate
    <2>9. CASE MainBlock(t)
      BY <2>9 DEF MainBlock
    <2>10. CASE MainFlushCall(t)
      BY <2>10 DEF MainFlushCall
    <2>11. CASE MainFlushed(t)
      BY <2>11 DEF MainFlushed
    <2>12. CASE MainDeleteTbl(t)
      BY <2>12 DEF MainDeleteTbl
    <2>13. CASE MainUnblock(t)
      BY ZenonT(40), <2>13 DEF MainUnblock
    <2>14. CASE MainTail(t)
      BY <2>14 DEF MainTail
    <2>15. CASE MainExit(t)
      BY <2>15 DEF MainExit
    <2> QED
      BY <1>15, <2>1, <2>2, <2>3, <2>4, <2>5, <2>6, <2>7, <2>8, <2>9, <2>10,
         <2>11, <2>12, <2>13, <2>14, <2>15
         DEF MainStep
  <1>16. ASSUME NEW t \in Threads, ShutdownStep(t)
        PROVE  FlagTypeOK'
    <2>1. CASE ShutdownCheck(t)
      BY <2>1 DEF ShutdownCheck
    <2>2. CASE ShutdownSet(t)
      BY <2>2 DEF ShutdownSet
    <2>3. CASE ShutdownTest(t)
      BY <2>3 DEF ShutdownTest
    <2>4. CASE ShutdownDown(t)
      BY <2>4 DEF ShutdownDown
    <2> QED
      BY <1>16, <2>1, <2>2, <2>3, <2>4 DEF ShutdownStep
  <1> QED
    BY <1>1, <1>2, <1>3, <1>4, <1>5, <1>6, <1>7, <1>8, <1>9, <1>10, <1>11,
       <1>12, <1>13, <1>14, <1>15, <1>16, NextCases

\* Every step keeps the counters natural numbers: the receive worker takes a
\* packet off rx_data_queue only when there is one.
LEMMA CountTypeStep ==
    ASSUME TypeOK, Next
    PROVE  CountTypeOK'
  <1> USE DEF TypeOK, CountTypeOK, mainVars, rxVars, blockVars, cardVars,
              closeVars, envVars
  <1>1. ASSUME NEW t \in Irqs, IrqStep(t)
        PROVE  CountTypeOK'
    BY <1>1, BoundAssumption DEF IrqStep, IrqStart, Interrupt
  <1>2. CASE PostJob
    BY <1>2 DEF PostJob, QueueMainWork
  <1>3. CASE MainWorkStart
    BY <1>3 DEF MainWorkStart
  <1>4. CASE RxWorkStart
    BY <1>4 DEF RxWorkStart, RxDone
  <1>5. CASE RxEnter
    BY <1>5 DEF RxEnter, RxDone
  <1>6. CASE RxDequeue
    BY <1>6 DEF RxDequeue, RxEmpty
  <1>7. CASE RxRun
    BY <1>7 DEF RxRun
  <1>8. CASE RxRunKick
    BY <1>8 DEF RxRunKick, QueueMainWork
  <1>9. CASE RxHandle
    BY <1>9 DEF RxHandle
  <1>10. CASE RxTail
    BY <1>10 DEF RxTail, RxDone
  <1>11. CASE CloseStart
    BY <1>11 DEF CloseStart
  <1>12. CASE CloseMainEnded \/ CloseFlushMain
    BY <1>12 DEF CloseMainEnded, CloseFlushMain
  <1>13. CASE CloseFlushRx
    BY <1>13 DEF CloseFlushRx
  <1>14. CASE CloseWoken
    BY <1>14 DEF CloseWoken
  <1>15. ASSUME NEW t \in MainThreads, MainStep(t)
        PROVE  CountTypeOK'
    <2>1. CASE MainEnter(t)
      BY <2>1 DEF MainEnter
    <2>2. CASE MainLoop(t)
      BY <2>2 DEF MainLoop
    <2>3. CASE MainRxLimit(t)
      BY <2>3 DEF MainRxLimit
    <2>4. CASE MainPause(t)
      BY <2>4 DEF MainPause
    <2>5. CASE MainPauseKick(t)
      BY <2>5 DEF MainPauseKick, QueueRxWork
    <2>6. CASE MainInt(t)
      BY <2>6 DEF MainInt
    <2>7. CASE MainIntKick(t)
      BY <2>7 DEF MainIntKick, QueueRxWork
    <2>8. CASE MainGate(t)
      BY <2>8 DEF MainGate
    <2>9. CASE MainBlock(t)
      BY <2>9 DEF MainBlock
    <2>10. CASE MainFlushCall(t)
      BY <2>10 DEF MainFlushCall
    <2>11. CASE MainFlushed(t)
      BY <2>11 DEF MainFlushed
    <2>12. CASE MainDeleteTbl(t)
      BY <2>12 DEF MainDeleteTbl
    <2>13. CASE MainUnblock(t)
      BY <2>13 DEF MainUnblock
    <2>14. CASE MainTail(t)
      BY <2>14 DEF MainTail
    <2>15. CASE MainExit(t)
      BY <2>15 DEF MainExit
    <2> QED
      BY <1>15, <2>1, <2>2, <2>3, <2>4, <2>5, <2>6, <2>7, <2>8, <2>9, <2>10,
         <2>11, <2>12, <2>13, <2>14, <2>15
         DEF MainStep
  <1>16. ASSUME NEW t \in Threads, ShutdownStep(t)
        PROVE  CountTypeOK'
    <2>1. CASE ShutdownCheck(t)
      BY <2>1 DEF ShutdownCheck
    <2>2. CASE ShutdownSet(t)
      BY <2>2 DEF ShutdownSet
    <2>3. CASE ShutdownTest(t)
      <3>1. teardowns' \in {teardowns, teardowns + 1}
        BY <2>3, Zenon DEF ShutdownTest
      <3>2. UNCHANGED <<rx_pkts_queued, ireg, jobs, rx_flush, sent, posted, events>>
        BY <2>3, Zenon DEF ShutdownTest
      <3> QED
        BY <3>1, <3>2
    <2>4. CASE ShutdownDown(t)
      BY <2>4 DEF ShutdownDown
    <2> QED
      BY <1>16, <2>1, <2>2, <2>3, <2>4 DEF ShutdownStep
  <1> QED
    BY <1>1, <1>2, <1>3, <1>4, <1>5, <1>6, <1>7, <1>8, <1>9, <1>10, <1>11,
       <1>12, <1>13, <1>14, <1>15, <1>16, NextCases

\* main_state only ever gets one of the two values MOAL writes to it.
LEMMA MainStateStep ==
    ASSUME Next
    PROVE  main_state' \in {main_state, "busy", "end"}
  <1> DEFINE Kept == main_state' \in {main_state, "busy", "end"}
  <1>1. ASSUME NEW t \in MainThreads, MainStep(t)
        PROVE  Kept
    <2>1. \E l : Goto(t, l)
      BY <1>1, Zenon
         DEF MainStep, MainEnter, MainLoop, MainRxLimit, MainPause,
             MainPauseKick, MainInt, MainIntKick, MainGate, MainBlock,
             MainFlushCall, MainFlushed, MainDeleteTbl, MainUnblock, MainTail,
             MainExit
    <2> QED
      BY <2>1 DEF Goto
  <1>2. ASSUME NEW t \in Threads, ShutdownStep(t)
        PROVE  Kept
    BY <1>2 DEF ShutdownStep, ShutdownCheck, ShutdownSet, ShutdownTest,
                ShutdownDown, Goto
  <1>3. CASE CloseStart \/ CloseStep
    BY <1>3 DEF CloseStart, CloseStep, CloseMainEnded, CloseFlushMain,
                CloseFlushRx, CloseWoken, Goto
  <1>4. CASE RxWorkStart \/ RxStep \/ PostJob
    BY <1>4 DEF RxWorkStart, RxStep, RxEnter, RxDequeue, RxRun, RxRunKick,
                RxHandle, RxTail, PostJob
  <1>5. CASE MainWorkStart \/ \E t \in Irqs : IrqStep(t)
    BY <1>5 DEF MainWorkStart, IrqStep, IrqStart, Interrupt, Goto
  <1> QED
    BY <1>1, <1>2, <1>3, <1>4, <1>5 DEF Next, IrqStep

\* Every step keeps hw_status one of the three values it is compared with.
LEMMA StatusTypeStep ==
    ASSUME TypeOK, Next
    PROVE  StatusTypeOK'
  <1> USE DEF TypeOK, StatusTypeOK, closeVars
  <1>0. main_state' \in {"busy", "end"}
    BY MainStateStep
  <1>1. CASE CloseStart
    BY <1>0, <1>1, PathAssumption DEF CloseStart
  <1>2. ASSUME NEW t \in Threads, ShutdownStep(t)
        PROVE  StatusTypeOK'
    BY <1>0, <1>2 DEF ShutdownStep, ShutdownCheck, ShutdownSet, ShutdownTest, ShutdownDown
  <1>3. CASE UNCHANGED closeVars
    BY <1>0, <1>3
  <1> QED
    BY <1>1, <1>2, <1>3, CloseVarsUnchanged

\* Every step keeps each thread at a place of its own code.
LEMMA PcTypeStep ==
    ASSUME TypeOK, Next
    PROVE  PcTypeOK'
  <1> USE DEF TypeOK
  <1>0. /\ MainWork \in MainThreads /\ Closer \in Threads
        /\ MainThreads \subseteq Threads /\ Irqs \subseteq MainThreads
        /\ Closer \notin MainThreads
    BY ThreadAssumption DEF Threads, MainThreads
  <1>1. ASSUME NEW t \in Irqs, IrqStep(t)
        PROVE  PcTypeOK'
    BY <1>0, <1>1, GotoType DEF IrqStep, IrqStart, Interrupt, PcTypeOK, MainPC, rxVars
  <1>2. CASE PostJob
    BY <1>2 DEF PostJob, QueueMainWork, PcTypeOK, rxVars
  <1>3. CASE MainWorkStart
    BY <1>0, <1>3, GotoType DEF MainWorkStart, PcTypeOK, MainPC, rxVars
  <1>4. CASE RxWorkStart
    BY <1>4 DEF RxWorkStart, RxDone, PcTypeOK, RxPC
  <1>5. CASE RxEnter
    BY <1>5 DEF RxEnter, RxDone, PcTypeOK, RxPC
  <1>6. CASE RxDequeue
    BY <1>6 DEF RxDequeue, PcTypeOK, RxPC
  <1>7. CASE RxRun
    BY <1>7 DEF RxRun, PcTypeOK, RxPC
  <1>8. CASE RxRunKick
    BY <1>8 DEF RxRunKick, QueueMainWork, PcTypeOK, RxPC
  <1>9. CASE RxHandle
    BY <1>9 DEF RxHandle, PcTypeOK, RxPC
  <1>10. CASE RxTail
    BY <1>10 DEF RxTail, RxDone, PcTypeOK, RxPC
  <1>11. CASE CloseStart
    BY <1>0, <1>11, GotoType
       DEF CloseStart, PcTypeOK, CloserPC, ShutdownPC, rxVars
  <1>12. CASE CloseMainEnded \/ CloseFlushMain
    BY <1>0, <1>12, GotoType
       DEF CloseMainEnded, CloseFlushMain, PcTypeOK, CloserPC, ShutdownPC, rxVars
  <1>13. CASE CloseFlushRx
    BY <1>0, <1>13, GotoType
       DEF CloseFlushRx, PcTypeOK, CloserPC, ShutdownPC, rxVars
  <1>14. CASE CloseWoken
    BY <1>0, <1>14, GotoType
       DEF CloseWoken, PcTypeOK, CloserPC, ShutdownPC, rxVars
  <1>15. ASSUME NEW t \in MainThreads, MainStep(t)
        PROVE  PcTypeOK'
    <2>1. CASE MainEnter(t)
      BY <1>0, <2>1, GotoType
         DEF MainEnter, PcTypeOK, MainPC, LoopPC, ShutdownPC, rxVars
    <2>2. CASE MainLoop(t)
      BY <1>0, <2>2, GotoType
         DEF MainLoop, PcTypeOK, MainPC, LoopPC, ShutdownPC, rxVars
    <2>3. CASE MainRxLimit(t)
      BY <1>0, <2>3, GotoType
         DEF MainRxLimit, PcTypeOK, MainPC, LoopPC, ShutdownPC, rxVars
    <2>4. CASE MainPause(t)
      BY <1>0, <2>4, GotoType
         DEF MainPause, PcTypeOK, MainPC, LoopPC, ShutdownPC, rxVars
    <2>5. CASE MainPauseKick(t)
      BY <1>0, <2>5, GotoType
         DEF MainPauseKick, QueueRxWork, PcTypeOK, MainPC, LoopPC,
             ShutdownPC, rxVars
    <2>6. CASE MainInt(t)
      BY <1>0, <2>6, GotoType
         DEF MainInt, PcTypeOK, MainPC, LoopPC, ShutdownPC, rxVars
    <2>7. CASE MainIntKick(t)
      BY <1>0, <2>7, GotoType
         DEF MainIntKick, QueueRxWork, PcTypeOK, MainPC, LoopPC, ShutdownPC,
             rxVars
    <2>8. CASE MainGate(t)
      BY <1>0, <2>8, GotoType
         DEF MainGate, PcTypeOK, MainPC, LoopPC, ShutdownPC, rxVars
    <2>9. CASE MainBlock(t)
      BY <1>0, <2>9, GotoType
         DEF MainBlock, PcTypeOK, MainPC, LoopPC, ShutdownPC, rxVars
    <2>10. CASE MainFlushCall(t)
      BY <1>0, <2>10, GotoType
         DEF MainFlushCall, PcTypeOK, MainPC, LoopPC, ShutdownPC, rxVars
    <2>11. CASE MainFlushed(t)
      BY <1>0, <2>11, GotoType
         DEF MainFlushed, PcTypeOK, MainPC, LoopPC, ShutdownPC, rxVars
    <2>12. CASE MainDeleteTbl(t)
      BY <1>0, <2>12, GotoType
         DEF MainDeleteTbl, PcTypeOK, MainPC, LoopPC, ShutdownPC, rxVars
    <2>13. CASE MainUnblock(t)
      BY <1>0, <2>13, GotoType
         DEF MainUnblock, PcTypeOK, MainPC, LoopPC, ShutdownPC, rxVars
    <2>14. CASE MainTail(t)
      BY <1>0, <2>14, GotoType
         DEF MainTail, PcTypeOK, MainPC, LoopPC, ShutdownPC, rxVars
    <2>15. CASE MainExit(t)
      BY <1>0, <2>15, GotoType
         DEF MainExit, PcTypeOK, MainPC, LoopPC, ShutdownPC, rxVars
    <2> QED
      BY <1>15, <2>1, <2>2, <2>3, <2>4, <2>5, <2>6, <2>7, <2>8, <2>9, <2>10,
         <2>11, <2>12, <2>13, <2>14, <2>15
         DEF MainStep
  <1>16. ASSUME NEW t \in Threads, ShutdownStep(t)
        PROVE  PcTypeOK'
    <2>0. \A p \in BOOLEAN : /\ t \in MainThreads => After(t, p) \in MainPC
                             /\ t = Closer => After(t, p) \in CloserPC
      BY <1>0 DEF After, MainPC, CloserPC
    <2>1. CASE ShutdownCheck(t)
      BY <2>0, <2>1, GotoType
         DEF ShutdownCheck, PcTypeOK, MainPC, CloserPC, ShutdownPC, rxVars
    <2>2. CASE ShutdownSet(t)
      BY <2>0, <2>2, GotoType
         DEF ShutdownSet, PcTypeOK, MainPC, CloserPC, ShutdownPC, rxVars
    <2>3. CASE ShutdownTest(t)
      BY <2>0, <2>3, GotoType
         DEF ShutdownTest, PcTypeOK, MainPC, CloserPC, ShutdownPC, rxVars
    <2>4. CASE ShutdownDown(t)
      BY <2>0, <2>4, GotoType
         DEF ShutdownDown, PcTypeOK, MainPC, CloserPC, ShutdownPC, rxVars
    <2> QED
      BY <1>16, <2>1, <2>2, <2>3, <2>4 DEF ShutdownStep
  <1> QED
    BY <1>1, <1>2, <1>3, <1>4, <1>5, <1>6, <1>7, <1>8, <1>9, <1>10, <1>11,
       <1>12, <1>13, <1>14, <1>15, <1>16, NextCases

\* TypeOK is an invariant, for every set of interrupt contexts.
THEOREM TypeCorrect == Spec => []TypeOK
  <1>1. TypeOK /\ UNCHANGED vars => TypeOK'
    BY DEF TypeOK, PcTypeOK, StatusTypeOK, FlagTypeOK, CountTypeOK, vars,
           mainVars, rxVars, blockVars, cardVars, closeVars, envVars
  <1>2. TypeOK /\ [Next]_vars => TypeOK'
    BY <1>1, PcTypeStep, StatusTypeStep, FlagTypeStep, CountTypeStep DEF TypeOK
  <1> QED
    BY <1>2, TypeInit, PTL DEF Spec

-----------------------------------------------------------------------------
(* One context in the loop.  The inductive invariant adds to MainExclusive  *)
(* that a context in the loop holds mlan_processing: that is what turns     *)
(* away the next caller.                                                    *)

LoopHeld == \A t \in MainThreads : pc[t] \in LoopPC => mlan_processing

ExclusiveInv == LoopHeld /\ MainExclusive

\* A step of another kind moves no context into the loop and leaves
\* mlan_processing alone.
LEMMA OutsideLoop ==
    ASSUME TypeOK, Next
    PROVE  \/ \E t \in MainThreads : MainStep(t)
           \/ /\ UNCHANGED mlan_processing
              /\ \A u \in MainThreads :
                    pc'[u] \in LoopPC \cup {"enter", "exit"} =>
                       pc'[u] = pc[u] \/ (pc[u] \in {"idle", "irq"} /\ pc'[u] = "enter")
  <1> USE DEF TypeOK, mainVars
  <1>0. /\ MainThreads \subseteq Threads /\ Irqs \subseteq MainThreads
        /\ MainWork \in MainThreads /\ Closer \in Threads
        /\ Closer \notin MainThreads
    BY ThreadAssumption DEF Threads, MainThreads
  <1> DEFINE Kept == /\ UNCHANGED mlan_processing
                     /\ \A u \in MainThreads :
                           pc'[u] \in LoopPC \cup {"enter", "exit"} =>
                              pc'[u] = pc[u] \/ (pc[u] \in {"idle", "irq"} /\ pc'[u] = "enter")
  <1>1. ASSUME NEW t \in Irqs, IrqStep(t)
        PROVE  Kept
    BY <1>0, <1>1 DEF IrqStep, IrqStart, Interrupt, Goto, PcTypeOK, LoopPC
  <1>2. CASE MainWorkStart
    BY <1>0, <1>2 DEF MainWorkStart, Goto, PcTypeOK, LoopPC
  <1>3. ASSUME NEW t \in Threads, ShutdownStep(t)
        PROVE  Kept
    <2>1. PICK l \in {"idle", "wait", "done", "sd_set", "sd_test", "sd_down"} : Goto(t, l)
      BY <1>3 DEF ShutdownStep, ShutdownCheck, ShutdownSet, ShutdownTest,
                  ShutdownDown, After
    <2>2. UNCHANGED mlan_processing
      BY <1>3 DEF ShutdownStep, ShutdownCheck, ShutdownSet, ShutdownTest,
                  ShutdownDown
    <2> QED
      BY <1>0, <2>1, <2>2 DEF Goto, PcTypeOK, LoopPC
  <1>4. CASE CloseStart \/ CloseStep
    <2>1. PICK l : Goto(Closer, l)
      BY <1>4, Zenon DEF CloseStart, CloseStep, CloseMainEnded, CloseFlushMain, CloseFlushRx, CloseWoken
    <2>2. UNCHANGED mlan_processing
      BY <1>4 DEF CloseStart, CloseStep, CloseMainEnded, CloseFlushMain, CloseFlushRx, CloseWoken
    <2> QED
      BY <1>0, <2>1, <2>2 DEF Goto, PcTypeOK
  <1>5. CASE PostJob \/ RxWorkStart \/ RxStep
    BY <1>5 DEF PostJob, QueueMainWork, RxWorkStart, RxStep, RxEnter, RxDequeue, RxRun,
                RxRunKick, RxHandle, RxTail, QueueMainWork
  <1> QED
    BY <1>1, <1>2, <1>3, <1>4, <1>5 DEF Next, IrqStep

\* What a step of the loop does to mlan_processing and to the place of its
\* context; the other contexts stay where they are.
LEMMA LoopStep ==
    ASSUME TypeOK, NEW t \in MainThreads, MainStep(t)
    PROVE  /\ \A u \in MainThreads : u # t => pc'[u] = pc[u]
           /\ \/ /\ pc[t] = "enter" /\ mlan_processing
                 /\ pc'[t] = "exit" /\ UNCHANGED mlan_processing
              \/ /\ pc[t] = "enter" /\ ~mlan_processing
                 /\ pc'[t] = "loop" /\ mlan_processing'
              \/ /\ pc[t] \in LoopPC /\ pc'[t] \in LoopPC
                 /\ UNCHANGED mlan_processing
              \/ /\ pc[t] = "tail" /\ pc'[t] = "exit" /\ ~mlan_processing'
              \/ /\ pc[t] = "exit" /\ pc'[t] \in {"idle", "sd_check"}
                 /\ UNCHANGED mlan_processing
  <1> USE DEF TypeOK, PcTypeOK, mainVars, Goto, LoopPC
  <1>0. t \in Threads /\ MainThreads \subseteq Threads
    BY DEF Threads
  <1>1. CASE MainEnter(t)
    BY <1>0, <1>1 DEF MainEnter, MainBusy
  <1>2. CASE MainLoop(t)
    BY <1>0, <1>2 DEF MainLoop
  <1>3. CASE MainRxLimit(t)
    BY <1>0, <1>3 DEF MainRxLimit
  <1>4. CASE MainPause(t)
    BY <1>0, <1>4 DEF MainPause
  <1>5. CASE MainPauseKick(t)
    BY <1>0, <1>5 DEF MainPauseKick
  <1>6. CASE MainInt(t)
    BY <1>0, <1>6 DEF MainInt
  <1>7. CASE MainIntKick(t)
    BY <1>0, <1>7 DEF MainIntKick
  <1>8. CASE MainGate(t)
    BY <1>0, <1>8 DEF MainGate
  <1>9. CASE MainBlock(t)
    BY <1>0, <1>9 DEF MainBlock
  <1>10. CASE MainFlushCall(t)
    BY <1>0, <1>10 DEF MainFlushCall
  <1>11. CASE MainFlushed(t)
    BY <1>0, <1>11 DEF MainFlushed
  <1>12. CASE MainDeleteTbl(t)
    BY <1>0, <1>12 DEF MainDeleteTbl
  <1>13. CASE MainUnblock(t)
    BY <1>0, <1>13 DEF MainUnblock
  <1>14. CASE MainTail(t)
    BY <1>0, <1>14 DEF MainTail
  <1>15. CASE MainExit(t)
    BY <1>0, <1>15 DEF MainExit
  <1> QED
    BY <1>1, <1>2, <1>3, <1>4, <1>5, <1>6, <1>7, <1>8, <1>9, <1>10, <1>11,
       <1>12, <1>13, <1>14, <1>15
       DEF MainStep

\* The inductive invariant behind MainExclusive.
THEOREM ExclusiveInvHolds == Spec => []ExclusiveInv
  <1>1. Init => ExclusiveInv
    BY ThreadAssumption
       DEF Init, ExclusiveInv, LoopHeld, MainExclusive, LoopPC, Threads
  <1>2. TypeOK /\ ExclusiveInv /\ [Next]_vars => ExclusiveInv'
    <2> SUFFICES ASSUME TypeOK, ExclusiveInv, [Next]_vars
                 PROVE  ExclusiveInv'
      OBVIOUS
    <2> USE DEF ExclusiveInv, LoopHeld, MainExclusive
    <2>1. ASSUME NEW t \in MainThreads, MainStep(t)
          PROVE  ExclusiveInv'
      <3>1. CASE pc[t] = "enter"
        BY <2>1, <3>1, LoopStep DEF LoopPC
      <3>2. CASE pc[t] \in LoopPC
        BY <2>1, <3>2, LoopStep DEF LoopPC
      <3>3. CASE pc[t] = "exit"
        BY <2>1, <3>3, LoopStep DEF LoopPC
      <3> QED
        BY <2>1, <3>1, <3>2, <3>3, LoopStep DEF LoopPC
    <2>2. CASE Next /\ ~ \E t \in MainThreads : MainStep(t)
      <3>1. \A u \in MainThreads : pc'[u] \in LoopPC => pc'[u] = pc[u]
        BY <2>2, OutsideLoop DEF LoopPC
      <3>2. mlan_processing' = mlan_processing
        BY <2>2, OutsideLoop
      <3> QED
        BY <3>1, <3>2
    <2>3. CASE UNCHANGED vars
      BY <2>3 DEF vars, mainVars
    <2> QED
      BY <2>1, <2>2, <2>3
  <1> QED
    BY <1>1, <1>2, TypeCorrect, PTL DEF Spec

\* MainExclusive is an invariant: mlan_processing, taken and given back under
\* pmain_proc_lock, keeps the loop to one context however many call it.
THEOREM MainExclusiveHolds == Spec => []MainExclusive
  <1>1. ExclusiveInv => MainExclusive
    BY DEF ExclusiveInv
  <1> QED
    BY <1>1, ExclusiveInvHolds, PTL

-----------------------------------------------------------------------------
(* No receive worker while a reorder table goes away.  mlan_rx_processing   *)
(* says whether the worker is in its loop; a context between the two calls  *)
(* of mlan_block_rx_process holds rx_lock_flag, so the worker does not get  *)
(* back in, and a flush that began while it was in its loop still waits.    *)

BlockPC == {"flush_call", "flush_rx", "delete_tbl", "unblock"}

RxHeld == mlan_rx_processing <=> rx_pc \in RxLoopPC

BlockHeld ==
    \A t \in MainThreads :
       /\ pc[t] \in BlockPC => rx_lock_flag
       /\ pc[t] = "flush_rx" /\ rx_flush = 0 => ~mlan_rx_processing
       /\ pc[t] \in {"delete_tbl", "unblock"} => ~mlan_rx_processing

BlockInv == RxHeld /\ BlockHeld

\* The steps of the receive worker, by what they do to its loop: outside
\* RxEnter it does not get in, and a flush loses a work item only when the
\* worker is out.
LEMMA RxLoopStep ==
    ASSUME TypeOK, RxHeld, RxWorkStart \/ RxStep
    PROVE  /\ RxHeld'
           /\ UNCHANGED <<pc, rx_lock_flag>>
           /\ ~mlan_rx_processing' \/ UNCHANGED <<mlan_rx_processing, rx_flush>>
              \/ ~rx_lock_flag
  <1> USE DEF RxHeld, RxPC, RxLoopPC, mainVars, blockVars, cardVars
  <1>1. CASE RxWorkStart
    BY <1>1 DEF RxWorkStart, RxDone
  <1>2. CASE RxEnter
    BY <1>2 DEF RxEnter, RxDone, RxBusy
  <1>3. CASE RxDequeue
    BY <1>3 DEF RxDequeue
  <1>4. CASE RxRun
    BY <1>4 DEF RxRun
  <1>5. CASE RxRunKick
    BY <1>5 DEF RxRunKick
  <1>6. CASE RxHandle
    BY <1>6 DEF RxHandle
  <1>7. CASE RxTail
    BY <1>7 DEF RxTail, RxDone
  <1> QED
    BY <1>1, <1>2, <1>3, <1>4, <1>5, <1>6, <1>7 DEF RxStep

\* The main loop leaves the worker where it is.
LEMMA RxKeptByMain ==
    ASSUME NEW t \in MainThreads, MainStep(t)
    PROVE  UNCHANGED <<rx_pc, mlan_rx_processing>>
  BY
     DEF MainStep, MainEnter, MainLoop, MainRxLimit, MainPause,
         MainPauseKick, MainInt, MainIntKick, MainGate, MainBlock,
         MainFlushCall, MainFlushed, MainDeleteTbl, MainUnblock, MainTail,
         MainExit, QueueRxWork, rxVars

\* So does everybody else, and only a context in the loop touches the two
\* variables of the blocking.
LEMMA RxUntouched ==
    ASSUME Next
    PROVE  \/ RxWorkStart \/ RxStep
           \/ /\ UNCHANGED <<rx_pc, mlan_rx_processing>>
              /\ \/ UNCHANGED blockVars
                 \/ \E t \in MainThreads : MainStep(t)
  <1> USE DEF rxVars, QueueRxWork
  <1>1. ASSUME NEW t \in MainThreads, MainStep(t)
        PROVE  UNCHANGED <<rx_pc, mlan_rx_processing>>
    BY <1>1, RxKeptByMain
  <1>2. ASSUME NEW t \in Threads, ShutdownStep(t)
        PROVE  UNCHANGED <<rx_pc, mlan_rx_processing>> /\ UNCHANGED blockVars
    BY <1>2 DEF ShutdownStep, ShutdownCheck, ShutdownSet, ShutdownTest, ShutdownDown
  <1>3. ASSUME \/ \E t \in Irqs : IrqStep(t)
               \/ PostJob \/ MainWorkStart \/ CloseStart \/ CloseStep
        PROVE  UNCHANGED <<rx_pc, mlan_rx_processing>> /\ UNCHANGED blockVars
    BY <1>3 DEF IrqStep, IrqStart, Interrupt, PostJob, QueueMainWork, MainWorkStart, CloseStart, CloseStep,
                CloseMainEnded, CloseFlushMain, CloseFlushRx, CloseWoken
  <1> QED
    BY <1>1, <1>2, <1>3 DEF Next, IrqStep

\* The steps of the context in the loop.
LEMMA BlockMain ==
    ASSUME TypeOK, ExclusiveInv, BlockInv, NEW t \in MainThreads, MainStep(t)
    PROVE  BlockInv'
  <1>0. t \in Threads /\ MainThreads \subseteq Threads /\ PcTypeOK
    BY DEF Threads, TypeOK
  <1>1. RxHeld'
    BY RxKeptByMain DEF BlockInv, RxHeld
  <1>2. UNCHANGED <<rx_pc, mlan_rx_processing>>
    BY RxKeptByMain
  <1>3. \A u \in MainThreads : u # t => pc'[u] = pc[u]
    BY LoopStep
  <1> USE DEF BlockHeld, BlockPC
  <1>4. CASE MainBlock(t)
    <2>1. rx_lock_flag' /\ pc'[t] \in {"flush_call", "delete_tbl"}
          /\ (pc'[t] = "delete_tbl" => ~mlan_rx_processing) /\ rx_flush' = rx_flush
      BY <1>0, <1>4 DEF MainBlock, Goto, PcTypeOK
    <2> QED
      BY <1>1, <1>2, <1>3, <2>1 DEF BlockInv
  <1>5. CASE MainFlushCall(t)
    <2>1. rx_pc # "idle" => rx_flush' # 0
      <3>1. CASE rx_work
        BY <1>5, <3>1 DEF MainFlushCall
      <3>2. CASE ~rx_work
        BY <1>5, <3>2 DEF MainFlushCall
      <3> QED
        BY <3>1, <3>2
    <2>2. mlan_rx_processing => rx_flush' # 0
      BY <2>1 DEF BlockInv, RxHeld, RxLoopPC
    <2>3. pc[t] = "flush_call" /\ pc'[t] = "flush_rx" /\ rx_lock_flag' = rx_lock_flag
      BY <1>0, <1>5 DEF MainFlushCall, Goto, PcTypeOK
    <2>4. \A u \in MainThreads : u # t => pc[u] \notin BlockPC
      BY <2>3 DEF ExclusiveInv, MainExclusive, LoopPC
    <2> QED
      BY <1>1, <1>2, <1>3, <2>2, <2>3, <2>4 DEF BlockInv
  <1>6. CASE MainFlushed(t)
    <2>1. pc[t] = "flush_rx" /\ rx_flush = 0 /\ pc'[t] = "delete_tbl"
          /\ rx_lock_flag' = rx_lock_flag /\ rx_flush' = rx_flush
      BY <1>0, <1>6 DEF MainFlushed, Goto, PcTypeOK, blockVars
    <2> QED
      BY <1>1, <1>2, <1>3, <2>1 DEF BlockInv
  <1>7. CASE MainDeleteTbl(t)
    <2>1. pc[t] = "delete_tbl" /\ pc'[t] = "unblock"
          /\ rx_lock_flag' = rx_lock_flag /\ rx_flush' = rx_flush
      BY <1>0, <1>7 DEF MainDeleteTbl, Goto, PcTypeOK, blockVars
    <2> QED
      BY <1>1, <1>2, <1>3, <2>1 DEF BlockInv
  <1>8. CASE MainUnblock(t)
    <2>1. pc[t] = "unblock" /\ pc'[t] = "loop"
      BY <1>0, <1>8 DEF MainUnblock, Goto, PcTypeOK
    <2>2. \A u \in MainThreads : u # t => pc[u] \notin BlockPC
      BY <2>1 DEF ExclusiveInv, MainExclusive, LoopPC
    <2> QED
      BY <1>1, <1>3, <2>1, <2>2 DEF BlockInv
  <1>9. CASE pc'[t] \notin BlockPC /\ UNCHANGED blockVars
    BY <1>1, <1>2, <1>3, <1>9 DEF BlockInv, blockVars
  <1>10. ASSUME \/ MainEnter(t) \/ MainLoop(t) \/ MainRxLimit(t) \/ MainPause(t) \/ MainPauseKick(t)
                \/ MainInt(t) \/ MainIntKick(t) \/ MainGate(t)
                \/ MainTail(t) \/ MainExit(t)
         PROVE  pc'[t] \notin BlockPC /\ UNCHANGED blockVars
    BY <1>0, <1>10
       DEF MainEnter, MainLoop, MainRxLimit, MainPause, MainPauseKick,
           MainInt, MainIntKick, MainGate, MainTail, MainExit, Goto,
           PcTypeOK
  <1> QED
    BY <1>4, <1>5, <1>6, <1>7, <1>8, <1>9, <1>10 DEF MainStep

\* TableQuiet is an invariant: the receive worker is never inside its loop
\* while the main loop frees a reorder table.
THEOREM TableQuietHolds == Spec => []TableQuiet
  <1>1. Init => BlockInv
    BY ThreadAssumption
       DEF Init, BlockInv, RxHeld, BlockHeld, BlockPC, RxLoopPC, Threads
  <1>2. TypeOK /\ ExclusiveInv /\ BlockInv /\ [Next]_vars => BlockInv'
    <2> SUFFICES ASSUME TypeOK, ExclusiveInv, BlockInv, [Next]_vars
                 PROVE  BlockInv'
      OBVIOUS
    <2>1. ASSUME NEW t \in MainThreads, MainStep(t)
          PROVE  BlockInv'
      BY <2>1, BlockMain
    <2>2. CASE RxWorkStart \/ RxStep
      <3>1. /\ RxHeld' /\ UNCHANGED <<pc, rx_lock_flag>>
            /\ \/ ~mlan_rx_processing'
               \/ UNCHANGED <<mlan_rx_processing, rx_flush>>
               \/ ~rx_lock_flag
        BY <2>2, RxLoopStep DEF BlockInv
      <3> QED
        BY <3>1 DEF BlockInv, BlockHeld, BlockPC
    <2>3. CASE /\ Next /\ ~(RxWorkStart \/ RxStep)
               /\ ~ \E t \in MainThreads : MainStep(t)
      <3>1. \A u \in MainThreads : pc'[u] \in LoopPC => pc'[u] = pc[u]
        BY <2>3, OutsideLoop DEF LoopPC
      <3>2. UNCHANGED <<rx_pc, mlan_rx_processing>> /\ UNCHANGED blockVars
        BY <2>3, RxUntouched
      <3> QED
        BY <3>1, <3>2 DEF BlockInv, RxHeld, BlockHeld, BlockPC, LoopPC, blockVars
    <2>4. CASE UNCHANGED vars
      BY <2>4 DEF vars, rxVars, blockVars, BlockInv, RxHeld, BlockHeld
    <2> QED
      BY <2>1, <2>2, <2>3, <2>4
  <1>3. BlockInv => TableQuiet
    BY DEF BlockInv, RxHeld, BlockHeld, TableQuiet
  <1> QED
    BY <1>1, <1>2, <1>3, TypeCorrect, ExclusiveInvHolds, PTL DEF Spec

-----------------------------------------------------------------------------
(* Shutdown finds the adapter quiet.  Whoever reads mlan_processing in      *)
(* mlan_shutdown_fw has made hw_status leave Ready first, and it never      *)
(* comes back: a context that was past the test of hw_status still holds    *)
(* mlan_processing, and one that comes later turns back.                    *)

Flushing == {"start", "wait_end", "flush_main", "flush_rxq"}

TeardownInv ==
    /\ \A t \in Threads : pc[t] \in {"sd_test", "sd_down"} => hw_status # "Ready"
    /\ \A t \in MainThreads : pc[t] \in ShutdownPC => hw_status # "Ready"
    /\ \A t \in Threads, u \in MainThreads :
          pc[t] = "sd_down" => pc[u] \notin WorkPC

\* Until the removal has flushed the receive worker hw_status is Ready; after
\* that the worker never enters its loop again.
RemovalInv ==
    /\ pc[Closer] \in Flushing => hw_status = "Ready"
    /\ pc[Closer] = "start" => path = "none"
    /\ path = "remove" => surprise_removed
    /\ path = "remove" /\ pc[Closer] \notin Flushing => rx_pc = "idle"

\* hw_status changes only in mlan_shutdown_fw.
LEMMA StatusStep ==
    ASSUME Next
    PROVE  \/ \E t \in Threads : ShutdownSet(t) \/ ShutdownDown(t)
           \/ UNCHANGED hw_status
  <1>1. ASSUME NEW t \in Threads, ShutdownStep(t)
        PROVE  ShutdownSet(t) \/ ShutdownDown(t) \/ UNCHANGED hw_status
    BY <1>1 DEF ShutdownStep, ShutdownCheck, ShutdownTest, closeVars
  <1>2. CASE CloseStart
    BY <1>2 DEF CloseStart
  <1> QED
    BY <1>1, <1>2, CloseVarsUnchanged DEF closeVars

\* The steps of mlan_shutdown_fw itself.
LEMMA TeardownShutdown ==
    ASSUME TypeOK, ExclusiveInv, TeardownInv, NEW t \in Threads, ShutdownStep(t)
    PROVE  TeardownInv'
  <1>0. PcTypeOK /\ MainThreads \subseteq Threads
    BY DEF TypeOK, Threads
  <1> USE DEF Goto, PcTypeOK, TeardownInv, ShutdownPC, WorkPC, LoopPC, closeVars
  <1>1. CASE ShutdownCheck(t)
    <2>1. pc'[t] \in {"idle", "wait", "done", "sd_set"}
          /\ UNCHANGED hw_status /\ \A u \in Threads : u # t => pc'[u] = pc[u]
      BY <1>0, <1>1 DEF ShutdownCheck, After
    <2>2. pc[t] = "sd_check"
      BY <1>1 DEF ShutdownCheck
    <2> QED
      BY <1>0, <2>1, <2>2
  <1>2. CASE ShutdownSet(t)
    <2>1. pc'[t] = "sd_test" /\ hw_status' = "Closing"
          /\ \A u \in Threads : u # t => pc'[u] = pc[u]
      BY <1>0, <1>2 DEF ShutdownSet
    <2> QED
      BY <1>0, <2>1
  <1>3. CASE ShutdownTest(t)
    <2>1. /\ pc[t] = "sd_test" /\ UNCHANGED hw_status
          /\ \A u \in Threads : u # t => pc'[u] = pc[u]
          /\ pc'[t] \in {"idle", "wait", "done", "sd_down"}
      BY <1>0, <1>3 DEF ShutdownTest, After
    <2>2. pc'[t] = "sd_down" => ~mlan_processing
      BY <1>0, <1>3 DEF ShutdownTest, After, MainRunning
    <2>3. pc'[t] = "sd_down" => \A u \in MainThreads : pc'[u] \notin WorkPC
      BY <1>0, <2>1, <2>2 DEF ExclusiveInv, LoopHeld
    <2> QED
      BY <1>0, <2>1, <2>3
  <1>4. CASE ShutdownDown(t)
    <2>1. pc'[t] \in {"idle", "wait", "done"} /\ hw_status' = "NotReady"
          /\ \A u \in Threads : u # t => pc'[u] = pc[u]
      BY <1>0, <1>4 DEF ShutdownDown, After
    <2> QED
      BY <1>0, <2>1
  <1> QED
    BY <1>1, <1>2, <1>3, <1>4 DEF ShutdownStep

\* The steps of the main loop: into its working part only while Ready, into
\* mlan_shutdown_fw only while Closing.
LEMMA WorkStep ==
    ASSUME TypeOK, NEW t \in MainThreads, MainStep(t)
    PROVE  /\ UNCHANGED hw_status
           /\ \A u \in Threads : u # t => pc'[u] = pc[u]
           /\ pc'[t] \in WorkPC => pc[t] \in WorkPC \/ hw_status = "Ready"
           /\ pc'[t] \in ShutdownPC => pc'[t] = "sd_check" /\ hw_status = "Closing"
  <1> USE DEF PcTypeOK, Goto, LoopPC, WorkPC, ShutdownPC, closeVars
  <1>0. t \in Threads /\ PcTypeOK
    BY DEF Threads, TypeOK
  <1>1. CASE MainEnter(t)
    BY <1>0, <1>1 DEF MainEnter
  <1>2. CASE MainLoop(t)
    BY <1>0, <1>2 DEF MainLoop
  <1>3. CASE MainRxLimit(t)
    BY <1>0, <1>3 DEF MainRxLimit
  <1>4. CASE MainPause(t)
    BY <1>0, <1>4 DEF MainPause
  <1>5. CASE MainPauseKick(t)
    BY <1>0, <1>5 DEF MainPauseKick
  <1>6. CASE MainInt(t)
    BY <1>0, <1>6 DEF MainInt
  <1>7. CASE MainIntKick(t)
    BY <1>0, <1>7 DEF MainIntKick
  <1>8. CASE MainGate(t)
    BY <1>0, <1>8 DEF MainGate
  <1>9. CASE MainBlock(t)
    BY <1>0, <1>9 DEF MainBlock
  <1>10. CASE MainFlushCall(t)
    BY <1>0, <1>10 DEF MainFlushCall
  <1>11. CASE MainFlushed(t)
    BY <1>0, <1>11 DEF MainFlushed
  <1>12. CASE MainDeleteTbl(t)
    BY <1>0, <1>12 DEF MainDeleteTbl
  <1>13. CASE MainUnblock(t)
    BY <1>0, <1>13 DEF MainUnblock
  <1>14. CASE MainTail(t)
    BY <1>0, <1>14 DEF MainTail
  <1>15. CASE MainExit(t)
    BY <1>0, <1>15 DEF MainExit, Closing
  <1> QED
    BY <1>1, <1>2, <1>3, <1>4, <1>5, <1>6, <1>7, <1>8, <1>9, <1>10, <1>11,
       <1>12, <1>13, <1>14, <1>15
       DEF MainStep

\* The steps of all others: a context of the main loop starts at most an
\* entry, and the closer gets at most to the head of mlan_shutdown_fw.
LEMMA MovesOutside ==
    ASSUME TypeOK, Next,
           ~ \E t \in Threads : ShutdownStep(t),
           ~ \E t \in MainThreads : MainStep(t)
    PROVE  /\ \A u \in MainThreads : pc'[u] = pc[u] \/ pc'[u] \in {"idle", "irq", "enter"}
           /\ pc'[Closer] = pc[Closer] \/ pc'[Closer] \notin {"sd_test", "sd_down"}
  <1> USE DEF Goto, PcTypeOK
  <1>0. /\ MainThreads \subseteq Threads /\ Closer \in Threads
        /\ Closer \notin MainThreads /\ Irqs \subseteq MainThreads
        /\ MainWork \in MainThreads /\ PcTypeOK
    BY ThreadAssumption DEF Threads, MainThreads, TypeOK
  <1>1. CASE \/ \E t \in Irqs : IrqStep(t)
             \/ PostJob \/ MainWorkStart
    BY <1>0, <1>1 DEF IrqStep, IrqStart, Interrupt, PostJob, QueueMainWork, MainWorkStart
  <1>2. CASE CloseStart \/ CloseStep
    BY <1>0, <1>2 DEF CloseStart, CloseStep, CloseMainEnded, CloseFlushMain, CloseFlushRx, CloseWoken
  <1>3. CASE RxWorkStart \/ RxStep
    BY <1>3 DEF RxWorkStart, RxStep, RxEnter, RxDequeue, RxRun, RxRunKick,
                RxHandle, RxTail
  <1> QED
    BY <1>1, <1>2, <1>3 DEF Next, IrqStep

\* What TeardownInv says is kept by every step.
LEMMA TeardownStep ==
    ASSUME TypeOK, ExclusiveInv, TeardownInv, Next
    PROVE  TeardownInv'
  <1>0. MainThreads \subseteq Threads /\ Closer \in Threads /\ Closer \notin MainThreads
    BY ThreadAssumption DEF Threads
  <1>1. ASSUME NEW t \in Threads, ShutdownStep(t)
        PROVE  TeardownInv'
    BY <1>1, TeardownShutdown
  <1>2. ASSUME NEW t \in MainThreads, MainStep(t)
        PROVE  TeardownInv'
    <2>1. /\ UNCHANGED hw_status
          /\ \A u \in Threads : u # t => pc'[u] = pc[u]
          /\ pc'[t] \in WorkPC => pc[t] \in WorkPC \/ hw_status = "Ready"
          /\ pc'[t] \in ShutdownPC => pc'[t] = "sd_check" /\ hw_status = "Closing"
      BY <1>2, WorkStep
    <2>2. pc'[t] \notin {"sd_test", "sd_down"}
      BY <2>1 DEF ShutdownPC
    <2> QED
      BY <1>0, <2>1, <2>2 DEF TeardownInv
  <1>3. CASE /\ ~ \E t \in Threads : ShutdownStep(t)
             /\ ~ \E t \in MainThreads : MainStep(t)
    <2>1. UNCHANGED hw_status
      BY <1>3, StatusStep DEF ShutdownStep
    <2>2. \A u \in MainThreads : pc'[u] = pc[u] \/ pc'[u] \in {"idle", "irq", "enter"}
      BY <1>0, <1>3, MovesOutside
    <2>3. pc'[Closer] = pc[Closer] \/ pc'[Closer] \notin {"sd_test", "sd_down"}
      BY <1>0, <1>3, MovesOutside
    <2> QED
      BY <1>0, <2>1, <2>2, <2>3
         DEF TeardownInv, Threads, ShutdownPC, WorkPC, LoopPC
  <1> QED
    BY <1>1, <1>2, <1>3

\* What the removal has established stays.
LEMMA RemovalStep ==
    ASSUME TypeOK, TeardownInv, RemovalInv, Next
    PROVE  RemovalInv'
  <1>0. /\ MainThreads \subseteq Threads /\ Closer \in Threads
        /\ Closer \notin MainThreads /\ PcTypeOK
    BY ThreadAssumption DEF Threads, TypeOK
  <1> USE DEF RemovalInv, Flushing
  <1>1. CASE CloseStart
    BY <1>0, <1>1, PathAssumption DEF CloseStart, Goto, PcTypeOK, rxVars
  <1>2. CASE CloseMainEnded \/ CloseFlushMain
    BY <1>0, <1>2 DEF CloseMainEnded, CloseFlushMain, Goto, PcTypeOK, rxVars, closeVars
  <1>3. CASE CloseFlushRx
    BY <1>0, <1>3 DEF CloseFlushRx, Goto, PcTypeOK, rxVars, closeVars
  <1>4. CASE CloseWoken
    BY <1>0, <1>4 DEF CloseWoken, Goto, PcTypeOK, rxVars, closeVars
  <1>5. ASSUME NEW t \in Threads, ShutdownStep(t)
        PROVE  RemovalInv'
    <2>1. pc[t] \in ShutdownPC /\ UNCHANGED <<rx_pc, path, surprise_removed>>
      BY <1>5 DEF ShutdownStep, ShutdownCheck, ShutdownSet, ShutdownTest,
                  ShutdownDown, ShutdownPC, closeVars, rxVars
    <2>2. PICK l \in {"idle", "wait", "done", "sd_set", "sd_test", "sd_down"} : Goto(t, l)
      BY <1>5 DEF ShutdownStep, ShutdownCheck, ShutdownSet, ShutdownTest,
                  ShutdownDown, After
    <2>3. pc[Closer] \notin Flushing
      BY <1>0, <2>1 DEF TeardownInv, Threads, ShutdownPC
    <2>4. pc'[Closer] \notin Flushing
      BY <1>0, <2>2, <2>3 DEF Goto, PcTypeOK
    <2> QED
      BY <2>1, <2>3, <2>4
  <1>6. ASSUME NEW t \in MainThreads, MainStep(t)
        PROVE  RemovalInv'
    <2>1. UNCHANGED closeVars
      BY <1>6, MainLeavesStatus
    <2>2. UNCHANGED rx_pc /\ pc'[Closer] = pc[Closer]
      BY <1>0, <1>6, RxKeptByMain, WorkStep
    <2> QED
      BY <2>1, <2>2 DEF closeVars
  <1>7. CASE RxWorkStart
    BY <1>7 DEF RxWorkStart, RxDone, closeVars
  <1>8. CASE RxStep
    <2>1. rx_pc # "idle" /\ UNCHANGED <<pc, closeVars>>
      BY <1>8 DEF RxStep, RxEnter, RxDequeue, RxRun, RxRunKick, RxHandle, RxTail
    <2> QED
      BY <2>1 DEF closeVars
  <1>9. ASSUME \/ \E t \in Irqs : IrqStep(t)
               \/ PostJob \/ MainWorkStart
        PROVE  RemovalInv'
    <2>1. UNCHANGED closeVars /\ UNCHANGED rx_pc
      BY <1>9 DEF IrqStep, IrqStart, Interrupt, PostJob, QueueMainWork, MainWorkStart, rxVars
    <2>2. pc'[Closer] = pc[Closer]
      BY <1>0, <1>9, ThreadAssumption
         DEF IrqStep, IrqStart, Interrupt, PostJob, QueueMainWork, MainWorkStart, Goto, PcTypeOK, MainThreads
    <2> QED
      BY <2>1, <2>2 DEF closeVars
  <1> QED
    BY <1>1, <1>2, <1>3, <1>4, <1>5, <1>6, <1>7, <1>8, <1>9 DEF Next, CloseStep, IrqStep

\* TeardownQuiet is an invariant: when mlan_shutdown_fw takes the adapter
\* apart no context is past the test of hw_status in the main loop, and in a
\* removal no receive worker is in its loop.
THEOREM TeardownQuietHolds == Spec => []TeardownQuiet
  <1>1. Init => TeardownInv /\ RemovalInv
    <2> USE DEF Init, Threads
    <2>1. Init => TeardownInv
      BY ThreadAssumption DEF TeardownInv, ShutdownPC, WorkPC, LoopPC
    <2>2. Init => RemovalInv
      BY DEF RemovalInv, Flushing
    <2> QED
      BY <2>1, <2>2
  <1>2. /\ TypeOK /\ ExclusiveInv /\ TeardownInv /\ RemovalInv
        /\ [Next]_vars
        => TeardownInv' /\ RemovalInv'
    <2>1. CASE Next
      BY <2>1, TeardownStep, RemovalStep
    <2>2. CASE UNCHANGED vars
      BY <2>2 DEF vars, rxVars, closeVars, TeardownInv, RemovalInv
    <2> QED
      BY <2>1, <2>2
  <1>3. TeardownInv /\ RemovalInv => TeardownQuiet
    BY DEF TeardownInv, RemovalInv, TeardownQuiet, Flushing, RxLoopPC
  <1> QED
    BY <1>1, <1>2, <1>3, TypeCorrect, ExclusiveInvHolds, PTL DEF Spec

=============================================================================
