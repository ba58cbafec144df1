-------------------------- MODULE RxReorder_proof --------------------------
(***************************************************************************)
(* The window, the timer and the lifetime of a reorder table, for any size *)
(* of the number space, any windows that fit the bitmap and any traffic.   *)
(*   - a buffered frame is in the slot of its number and the bitmap knows  *)
(*     it (WindowAgrees);                                                  *)
(*   - it has something that releases it (BufferedHasExit);                *)
(*   - the timer handler never meets a freed table (FreedTableUntouched);  *)
(*   - every buffer received is in one place until it is disposed of       *)
(*     (OneFate), and everything has its type (TypeOK);                    *)
(*   - frames leave in order where nothing wraps (InOrder).                *)
(*                                                                         *)
(* Assumed: RXBA_SYNC finds the worker idle (~SyncRaces), the worker is a  *)
(* work item (~Napi) where the timer is concerned, and windows are no      *)
(* larger than the bitmap is wide (WinsFit): otherwise TLC finds           *)
(* counterexamples.                                                        *)
(***************************************************************************)
EXTENDS RxReorder, TLAPS, WellFoundedInduction, FiniteSetTheorems

\* The places of either context.
Places == {"idle", "top", "dequeue", "create", "resync", "stop", "start", "place",
           "scan", "settle"}

\* The fields of a RxReorderTbl.
Fields == {"start", "wsize", "slot", "bits", "isset", "flush", "amsdu", "nodrop",
           "check", "count", "last", "ba"}

\* A record that may stand in tbl.
IsTable(t) ==
  /\ DOMAIN t = Fields
  /\ t.wsize \in Nat \ {0}
  /\ {t.isset, t.flush, t.nodrop, t.check} \subseteq BOOLEAN

\* What becomes of t when its buffer moves: the timer knows it as before, and no
\* flush is asked for.
Kept(t, u) ==
  IsTable(u) /\ u.wsize = t.wsize /\ u.isset = t.isset /\ (u.flush => t.flush)

\* A context inside mlan_11n_rxreorder_pkt is alone there and has a table.
ShapeInv ==
  /\ pc \in [Contexts -> Places]
  /\ tbl = NoTbl \/ IsTable(tbl)
  /\ \A c \in Contexts : InPkt(c) => tbl # NoTbl
  /\ pc["main"] = "create" => tbl = NoTbl /\ op.win \in Nat \ {0}
  /\ InPkt("main") => pc["rx"] = "idle"

\* An armed timer, and a handler that has yet to store to the table, belong to a
\* table that says so (timer_is_set): what DeleteTbl tests before it waits.
TimerInv ==
  /\ timer \in [armed : BOOLEAN, canceled : BOOLEAN, period : BOOLEAN]
  /\ hand \in {"idle", "fired", "table", "unset", "tail"}
  /\ tbl = NoTbl => ~timer.armed /\ hand \in {"idle", "tail"}
  /\ tbl # NoTbl /\ timer.armed => tbl.isset
  /\ hand \in {"fired", "table", "unset"} => tbl.isset /\ ~timer.armed
  /\ \A c \in Contexts : pc[c] = "start" => ~timer.armed /\ hand \in {"idle", "tail"}

\* A table whose slots hold the frames of their numbers and whose bitmap knows
\* them; until the first packet is through, it is empty.
WellFormed(t) ==
  /\ IsTable(t)
  /\ t.wsize <= Bits /\ 2 * t.wsize < MAX_TID_VALUE
  /\ t.start \in 0 .. MAX_TID_VALUE
  /\ t.last \in 0 .. MAX_TID_VALUE - 1 \cup {DEFAULT_SEQ_NUM}
  /\ t.slot \in [0 .. t.wsize - 1 -> Numbers \cup {Empty, FwDrop}]
  /\ t.bits = {i \in 0 .. t.wsize - 1 : t.slot[i] # Empty}
  /\ \A i \in 0 .. t.wsize - 1 :
       IsFrame(t.slot[i]) => SeqOf(t.slot[i]) = Mask(t.start + i)
  /\ t.check => t.bits = {}

\* The locals of mlan_11n_rxreorder_pkt.
Locals == [n : Numbers \cup {0}, type : {"data", "amsdu", "bar"},
           pay : Numbers \cup {Empty, FwDrop}, prev : 0 .. MAX_TID_VALUE,
           back : {"settle", "place", "return"}]

\* A packet still to be placed ...
Pending(c) == \/ pc[c] \in {"resync", "place"}
              \/ pc[c] \in {"stop", "start"} /\ loc[c].back = "place"

\* ... is its frame or stands for one dropped in the firmware; at the window test,
\* the start read before is still that of the table.
PacketFits(c) ==
  /\ loc[c].n \in Numbers
  /\ loc[c].type # "bar" => loc[c].pay \in {loc[c].n, FwDrop}
  /\ tbl.wsize > 1 /\ ~tbl.check
  /\ pc[c] = "place" => loc[c].prev = tbl.start

\* The strengthening of WindowAgrees.
WinInv ==
  /\ left \in Load
  /\ op.ssn \in 0 .. MAX_TID_VALUE - 1
  /\ pc["main"] = "create" =>
       op.win \in Nat \ {0} /\ op.win <= Bits /\ 2 * op.win < MAX_TID_VALUE
  /\ tbl # NoTbl => WellFormed(tbl)
  /\ loc \in [Contexts -> Locals]
  /\ \A c \in Contexts : Pending(c) => PacketFits(c)

\* No window is larger than the bitmap is wide.
WinsFit == \A l \in Loads : \A win \in l.wins : win <= Bits

\* The strengthening of BufferedHasExit: unless the worker met the handler, a
\* handler that has taken note of the adapter's flag finds it still set, and
\* timer_is_set means that the timer or its handler is under way.
ExitInv ==
  /\ timer.armed \/ hand = "fired" => ~timer.canceled
  /\ raced \in BOOLEAN
  /\ ~raced =>
       /\ hand = "table" => aflush
       /\ hand = "unset" /\ tbl # NoTbl /\ tbl.flush => aflush
       /\ tbl # NoTbl /\ (\A c \in Contexts : pc[c] # "start") /\ tbl.isset =>
            timer.armed \/ hand \in {"fired", "table", "unset"}
       /\ tbl # NoTbl /\ ~Busy /\ tbl.bits # {} => HasExit

\* A table is told from its absence.
LEMMA TableIsOne == ASSUME NEW t, IsTable(t) PROVE t # NoTbl
  BY DEF IsTable, NoTbl

\* The flags of a table may change.
LEMMA FlagsFit ==
  ASSUME NEW t, IsTable(t), NEW b \in BOOLEAN
  PROVE  /\ IsTable([t EXCEPT !.isset = b]) /\ [t EXCEPT !.isset = b].isset = b
         /\ IsTable([t EXCEPT !.flush = b]) /\ [t EXCEPT !.flush = b].isset = t.isset
<1>1. IsTable([t EXCEPT !.isset = b])
  BY DEF IsTable, Fields
<1>2. IsTable([t EXCEPT !.flush = b])
  BY DEF IsTable, Fields
<1>3. [t EXCEPT !.isset = b].isset = b /\ [t EXCEPT !.flush = b].isset = t.isset
  BY DEF IsTable, Fields
<1> QED BY <1>1, <1>2, <1>3

\* Rotating the buffer moves only its contents.
LEMMA RotateKeeps == ASSUME NEW t, IsTable(t), NEW k PROVE Kept(t, Rotate(t, k))
  BY DEF IsTable, Kept, Rotate, Fields

\* So does dispatching up to a number,
LEMMA DispatchKeeps ==
  ASSUME NEW t, IsTable(t), NEW new
  PROVE  Kept(t, DispatchUntil(t, new).tbl)
<1>1. Kept(t, Rotate(t, NoPktToSend(t, new)))
  BY RotateKeeps
<1> QED BY <1>1 DEF DispatchUntil, Kept, IsTable, Fields

\* dispatching up to the first hole,
LEMMA ScanKeeps ==
  ASSUME NEW t, IsTable(t) PROVE Kept(t, ScanAndDispatch(t).tbl)
<1>1. Kept(t, Rotate(t, HeadRun(t)))
  BY RotateKeeps
<1> QED BY <1>1 DEF ScanAndDispatch, Kept, IsTable, Fields

\* a flush,
LEMMA FlushKeeps ==
  ASSUME NEW t, IsTable(t) PROVE Kept(t, TakeFlush(t).tbl)
<1> DEFINE u == [t EXCEPT !.flush = FALSE]
<1>1. IsTable(u) /\ Kept(t, u)
  BY DEF IsTable, Kept, Fields
<1>2. \A new : Kept(u, DispatchUntil(u, new).tbl)
  BY <1>1, DispatchKeeps
<1>3. StartFlush(u).tbl = u \/ \E new : StartFlush(u) = DispatchUntil(u, new)
  BY DEF StartFlush
<1>4. Kept(u, StartFlush(u).tbl)
  BY <1>1, <1>2, <1>3 DEF Kept
<1>5. Kept(t, StartFlush(u).tbl)
  BY <1>1, <1>4 DEF Kept
<1> QED BY <1>5 DEF TakeFlush, Kept, IsTable

\* the first packet after ADDBA,
LEMMA CheckedKeeps ==
  ASSUME NEW t, IsTable(t), NEW seq PROVE Kept(t, Checked(t, seq))
  BY DEF Checked, Kept, IsTable, Fields

\* and mlan_11n_rxreorder_pkt in each of its steps.
LEMMA AdmitKeeps ==
  ASSUME IsTable(tbl), NEW c, NEW n, NEW type, NEW pay, Admit(c, n, type, pay)
  PROVE  Kept(tbl, tbl')
<1> DEFINE f == TakeFlush(tbl)
<1>1. Kept(tbl, f.tbl)
  BY FlushKeeps
<1>2. Kept(tbl, Checked(f.tbl, SeqOf(n)))
  BY <1>1, CheckedKeeps DEF Kept
<1>3. Kept(tbl, [f.tbl EXCEPT !.count = @ + 1, !.last = SeqOf(n)])
  BY <1>1 DEF Kept, IsTable, Fields
<1>4. \/ tbl' = f.tbl
      \/ tbl' = [f.tbl EXCEPT !.count = @ + 1, !.last = SeqOf(n)]
      \/ tbl' = Checked(f.tbl, SeqOf(n))
  BY DEF Admit
<1> QED BY <1>1, <1>2, <1>3, <1>4

\* 940-950: the dispatch after host sleep.
LEMMA ResyncKeeps ==
  ASSUME IsTable(tbl), NEW c, Resync(c) PROVE Kept(tbl, tbl')
<1> DEFINE d == DispatchUntil(tbl, Mask(tbl.start + tbl.wsize))
<1>1. Kept(tbl, d.tbl)
  BY DispatchKeeps
<1>2. Kept(tbl, [d.tbl EXCEPT !.start = SeqOf(loc[c].n)])
  BY <1>1 DEF Kept, IsTable, Fields
<1>3. tbl' = tbl \/ tbl' = d.tbl \/ tbl' = [d.tbl EXCEPT !.start = SeqOf(loc[c].n)]
  BY DEF Resync
<1> QED BY <1>1, <1>2, <1>3 DEF Kept

\* 952-1065: the window moves and the packet is stored.
LEMMA PlaceKeeps ==
  ASSUME IsTable(tbl), NEW c, Place(c) PROVE Kept(tbl, tbl')
<1> DEFINE t == [tbl EXCEPT !.nodrop = FALSE]
<1>1. IsTable(t) /\ Kept(tbl, t)
  BY DEF IsTable, Kept, Fields
<1>2. \A new : Kept(tbl, DispatchUntil(t, new).tbl)
  BY <1>1, DispatchKeeps DEF Kept
<1>3. \A u, s, p, b : Kept(tbl, u) => Kept(tbl, [u EXCEPT !.slot[s] = p, !.bits = b])
  BY DEF IsTable, Kept, Fields
<1> DEFINE win == tbl.wsize
           end == Mask(loc[c].prev + win - 1)
           seq == IF loc[c].type = "bar" THEN Mask(SeqOf(loc[c].n) + win - 1)
                  ELSE SeqOf(loc[c].n)
           ahead == Ahead(loc[c].prev, end, seq)
           start == IF ahead THEN StartFor(seq, win) ELSE loc[c].prev
           d == IF ahead THEN DispatchUntil(t, start) ELSE [tbl |-> t, up |-> <<>>]
           slot == SlotOf(start, seq)
<1>4. Kept(tbl, d.tbl)
  BY <1>1, <1>2
<1>5. \/ tbl' = tbl
      \/ tbl' = d.tbl
      \/ \E b : tbl' = [d.tbl EXCEPT !.slot[slot] = loc[c].pay, !.bits = b]
  BY DEF Place
<1> HIDE DEF d, slot
<1>6. CASE \E b : tbl' = [d.tbl EXCEPT !.slot[slot] = loc[c].pay, !.bits = b]
  <2> PICK b : tbl' = [d.tbl EXCEPT !.slot[slot] = loc[c].pay, !.bits = b]
    BY <1>6
  <2>1. Kept(tbl, [d.tbl EXCEPT !.slot[slot] = loc[c].pay, !.bits = b])
    BY <1>3, <1>4
  <2> QED BY <2>1
<1> QED BY <1>4, <1>5, <1>6 DEF Kept

\* 1069-1082: only timer_is_set changes.
LEMMA SettleKeeps ==
  ASSUME IsTable(tbl), NEW c, Settle(c) PROVE IsTable(tbl') /\ tbl'.wsize = tbl.wsize
  BY DEF Settle, IsTable, Fields

\* The main process sets flags of the table.
LEMMA FlagStepsKeep ==
  ASSUME IsTable(tbl),
         SetNoDrop \/ (\E amsdu \in BOOLEAN : AddbaResp(amsdu))
  PROVE  Kept(tbl, tbl') /\ tbl'.bits = tbl.bits
<1>1. CASE SetNoDrop
  <2>1. tbl' = [tbl EXCEPT !.nodrop = TRUE]
    BY <1>1 DEF SetNoDrop
  <2> QED BY <2>1 DEF Kept, IsTable, Fields
<1>2. CASE \E amsdu \in BOOLEAN : AddbaResp(amsdu)
  <2>1. PICK amsdu : tbl' = [tbl EXCEPT !.ba = "complete", !.amsdu = amsdu]
    BY <1>2 DEF AddbaResp
  <2> QED BY <2>1 DEF Kept, IsTable, Fields
<1> QED BY <1>1, <1>2

\* wlan_flush_rxreorder_tbl changes the contents of a table.
LEMMA RxFlushKeeps ==
  ASSUME tbl = NoTbl \/ IsTable(tbl), RxFlush
  PROVE  tbl' = tbl \/ (IsTable(tbl) /\ Kept(tbl, tbl'))
<1>1. tbl' = tbl \/ (tbl # NoTbl /\ tbl' = TakeFlush(tbl).tbl)
  BY DEF RxFlush
<1> QED BY <1>1, FlushKeeps

\* ADDBA requests negotiate windows of at least one frame.
LEMMA WindowSizes == \A win \in UNION {l.wins : l \in Loads} : win \in Nat \ {0}
  BY ParamsAssumption DEF Load

\* Where mlan_11n_rxreorder_pkt goes first.
LEMMA AdmitGoto ==
  ASSUME pc \in [Contexts -> Places], NEW c \in Contexts, NEW n, NEW type, NEW pay,
         Admit(c, n, type, pay)
  PROVE  /\ pc' \in [Contexts -> Places]
         /\ \E l \in {Return(c), "resync"} : pc' = [pc EXCEPT ![c] = l]
         /\ UNCHANGED <<timer, hand, aflush, rxwork, op, raced>>
  BY DEF Admit, Goto, Return, Contexts, Places

\* What uses the table, and whether there is one.
LEMMA ShapeKept ==
  ASSUME ~SyncRaces, ShapeInv, [Next]_vars
  PROVE  ShapeInv'
<1> USE DEF ShapeInv, InPkt, Contexts, Places
<1>1. ASSUME NEW c \in Contexts, Resync(c)
       PROVE  ShapeInv'
  BY <1>1, ResyncKeeps, TableIsOne
    DEF Resync, Goto, Kept
<1>2. ASSUME NEW c \in Contexts, TimerStop(c)
       PROVE  ShapeInv'
  BY <1>2
    DEF TimerStop, Goto, Canceled
<1>3. ASSUME NEW c \in Contexts, TimerStart(c)
       PROVE  ShapeInv'
  <2>1. /\ pc[c] = "start" /\ IsTable(tbl) /\ tbl' = [tbl EXCEPT !.isset = TRUE]
        /\ timer' = [armed |-> TRUE, canceled |-> FALSE, period |-> TRUE]
        /\ UNCHANGED <<hand, op>>
    BY <1>3 DEF TimerStart
  <2>2. IsTable(tbl') /\ tbl'.isset /\ tbl # NoTbl /\ tbl' # NoTbl
    BY <2>1, FlagsFit, TableIsOne
  <2>3. \E l \in {"place", "idle", "top"} :
          /\ pc' = [pc EXCEPT ![c] = l]
          /\ (l = "idle" => c = "main") /\ (l = "top" => c = "rx")
    BY <1>3 DEF TimerStart, Goto, Return
  <2> QED BY <2>1, <2>2, <2>3
<1>4. ASSUME NEW c \in Contexts, Place(c)
       PROVE  ShapeInv'
  <2>1. pc[c] = "place" /\ IsTable(tbl)
    BY <1>4 DEF Place
  <2>2. IsTable(tbl') /\ tbl' # NoTbl
    BY <1>4, <2>1, PlaceKeeps, TableIsOne DEF Kept
  <2>3. op' = op /\ \E l \in {"scan", "settle"} : Goto(c, l)
    BY <1>4 DEF Place, Gone
  <2> QED BY <2>1, <2>2, <2>3 DEF Goto
<1>5. ASSUME NEW c \in Contexts, Scan(c)
       PROVE  ShapeInv'
  BY <1>5, ScanKeeps, TableIsOne
    DEF Scan, Goto, Kept
<1>6. ASSUME NEW c \in Contexts, Settle(c)
       PROVE  ShapeInv'
  BY <1>6, SettleKeeps, TableIsOne
    DEF Settle, Goto, Return
<1>7. CASE TimerFires
  BY <1>7
    DEF TimerFires
<1>8. CASE HandlerEnters
  BY <1>8
    DEF HandlerEnters
<1>9. CASE HandlerFlags
  <2>1. /\ hand = "table" /\ hand' = "unset" /\ IsTable(tbl)
        /\ tbl' = [tbl EXCEPT !.flush = TRUE] /\ UNCHANGED <<timer, pc, op>>
    BY <1>9 DEF HandlerFlags
  <2>2. IsTable(tbl') /\ tbl'.isset = tbl.isset /\ tbl # NoTbl /\ tbl' # NoTbl
    BY <2>1, FlagsFit, TableIsOne
  <2> QED BY <2>1, <2>2
<1>10. CASE HandlerUnsets
  <2>1. /\ hand = "unset" /\ hand' = "tail" /\ IsTable(tbl)
        /\ tbl' = [tbl EXCEPT !.isset = FALSE] /\ UNCHANGED <<timer, pc, op>>
    BY <1>10 DEF HandlerUnsets
  <2>2. IsTable(tbl') /\ tbl # NoTbl /\ tbl' # NoTbl
    BY <2>1, FlagsFit, TableIsOne
  <2> QED BY <2>1, <2>2
<1>11. CASE HandlerEnds
  BY <1>11
    DEF HandlerEnds
<1>12. CASE Arrive
  BY <1>12
    DEF Arrive
<1>13. CASE RxStart
  BY <1>13
    DEF RxStart, Goto
<1>14. CASE RxFlush
  BY <1>14, RxFlushKeeps, TableIsOne
    DEF RxFlush, Goto, Kept
<1>15. CASE RxEmpty
  BY <1>15
    DEF RxEmpty, Goto
<1>16. ASSUME NEW n \in Numbers, NEW type \in {"data", "amsdu", "bar"},
         RxPacket(n, type)
       PROVE  ShapeInv'
  BY <1>16, AdmitKeeps, TableIsOne, AdmitGoto
    DEF RxPacket, Goto, Kept
<1>17. ASSUME NEW n \in Numbers, NEW win \in UNION {l.wins : l \in Loads}, AddBa(n, win)
       PROVE  ShapeInv'
  BY <1>17, WindowSizes
    DEF AddBa, DeleteTbl, MainFree, RxBlocked, Goto, NoTbl
<1>18. ASSUME NEW last \in LastSeqs, Create(last)
       PROVE  ShapeInv'
  BY <1>18
    DEF Create, RxBlocked, Goto, NewTbl, IsTable, Fields, NoTbl
<1>19. CASE CreateFails
  BY <1>19
    DEF CreateFails, Goto
<1>20. ASSUME NEW amsdu \in BOOLEAN, AddbaResp(amsdu)
       PROVE  ShapeInv'
  BY <1>20, FlagStepsKeep, TableIsOne
    DEF AddbaResp, MainFree, Kept
<1>21. CASE Delba
  BY <1>21
    DEF Delba, DeleteTbl, MainFree, RxBlocked
<1>22. CASE SetNoDrop
  BY <1>22, FlagStepsKeep, TableIsOne
    DEF SetNoDrop, MainFree, Kept
<1>23. ASSUME NEW n \in Numbers, SyncPacket(n)
       PROVE  ShapeInv'
  BY <1>23, AdmitKeeps, TableIsOne, AdmitGoto
    DEF SyncPacket, MainFree, RxBlocked, Kept, Return
<1>24. CASE UNCHANGED vars
  BY <1>24
    DEF vars
<1> QED BY <1>1, <1>2, <1>3, <1>4, <1>5, <1>6, <1>7, <1>8, <1>9, <1>10, <1>11,
   <1>12, <1>13, <1>14, <1>15, <1>16, <1>17, <1>18, <1>19, <1>20, <1>21, <1>22,
   <1>23, <1>24
    DEF Next, PktStep, Handler

\* A timer that has been cancelled is not armed.
LEMMA CanceledIs ==
  /\ Canceled \in [armed : BOOLEAN, canceled : BOOLEAN, period : BOOLEAN]
  /\ ~Canceled.armed
  BY DEF Canceled

\* mlan frees a table after its timer has come to rest.
LEMMA DeletedQuiet ==
  ASSUME ~Napi, TimerInv, tbl = NoTbl \/ IsTable(tbl), DeleteTbl
  PROVE  /\ timer' \in [armed : BOOLEAN, canceled : BOOLEAN, period : BOOLEAN]
         /\ ~timer'.armed /\ hand \in {"idle", "tail"}
<1>1. /\ tbl # NoTbl
      /\ IF tbl.isset \/ FreeCancels THEN MayCancel("main") /\ timer' = Canceled
         ELSE UNCHANGED timer
  BY DEF DeleteTbl
<1>2. CASE tbl.isset \/ FreeCancels
  BY <1>1, <1>2, CanceledIs DEF MayCancel
<1>3. CASE ~(tbl.isset \/ FreeCancels)
  BY <1>1, <1>3 DEF TimerInv
<1> QED BY <1>2, <1>3

\* The timer, its handler and the table that owns them.
LEMMA TimerKept ==
  ASSUME ~Napi, ~SyncRaces, ShapeInv, TimerInv, [Next]_vars
  PROVE  TimerInv'
<1> USE DEF ShapeInv, TimerInv, InPkt, Contexts, Places
<1>1. ASSUME NEW c \in Contexts, Resync(c)
       PROVE  TimerInv'
  BY <1>1, ResyncKeeps, TableIsOne
    DEF Resync, Goto, Kept
<1>2. ASSUME NEW c \in Contexts, TimerStop(c)
       PROVE  TimerInv'
  <2>1. /\ IF tbl.isset THEN MayCancel(c) /\ timer' = Canceled ELSE UNCHANGED timer
        /\ pc[c] = "stop" /\ pc' = [pc EXCEPT ![c] = "start"]
        /\ UNCHANGED <<tbl, hand>>
    BY <1>2 DEF TimerStop, Goto
  <2>2. hand \in {"idle", "tail"} /\ ~timer'.armed
    BY <2>1, CanceledIs DEF MayCancel, IsTable
  <2> QED BY <2>1, <2>2, CanceledIs
<1>3. ASSUME NEW c \in Contexts, TimerStart(c)
       PROVE  TimerInv'
  <2>1. /\ pc[c] = "start" /\ IsTable(tbl) /\ tbl' = [tbl EXCEPT !.isset = TRUE]
        /\ timer' = [armed |-> TRUE, canceled |-> FALSE, period |-> TRUE]
        /\ UNCHANGED <<hand, op>>
    BY <1>3 DEF TimerStart
  <2>2. IsTable(tbl') /\ tbl'.isset /\ tbl # NoTbl /\ tbl' # NoTbl
    BY <2>1, FlagsFit, TableIsOne
  <2>3. \E l \in {"place", "idle", "top"} :
          /\ pc' = [pc EXCEPT ![c] = l]
          /\ (l = "idle" => c = "main") /\ (l = "top" => c = "rx")
    BY <1>3 DEF TimerStart, Goto, Return
  <2> QED BY <2>1, <2>2, <2>3
<1>4. ASSUME NEW c \in Contexts, Place(c)
       PROVE  TimerInv'
  <2>1. pc[c] = "place" /\ IsTable(tbl) /\ UNCHANGED <<timer, hand>>
    BY <1>4 DEF Place
  <2>2. IsTable(tbl') /\ tbl'.isset = tbl.isset /\ tbl # NoTbl /\ tbl' # NoTbl
    BY <1>4, <2>1, PlaceKeeps, TableIsOne DEF Kept
  <2>3. \E l \in {"scan", "settle"} : Goto(c, l)
    BY <1>4 DEF Place, Gone
  <2> QED BY <2>1, <2>2, <2>3 DEF Goto
<1>5. ASSUME NEW c \in Contexts, Scan(c)
       PROVE  TimerInv'
  BY <1>5, ScanKeeps, TableIsOne
    DEF Scan, Goto, Kept
<1>6. ASSUME NEW c \in Contexts, Settle(c)
       PROVE  TimerInv'
  <2>1. /\ pc[c] = "settle" /\ UNCHANGED hand /\ IsTable(tbl') /\ tbl' # NoTbl
        /\ \/ UNCHANGED <<tbl, timer>> /\ \E l \in {"stop", Return(c)} : Goto(c, l)
           \/ MayCancel(c) /\ timer' = Canceled /\ Goto(c, Return(c))
    BY <1>6, SettleKeeps, TableIsOne DEF Settle
  <2>2. CASE UNCHANGED <<tbl, timer>>
    BY <2>1, <2>2 DEF Goto, Return
  <2>3. CASE MayCancel(c) /\ timer' = Canceled /\ Goto(c, Return(c))
    BY <2>1, <2>3, CanceledIs DEF MayCancel, Goto, Return
  <2> QED BY <2>1, <2>2, <2>3
<1>7. CASE TimerFires
  BY <1>7
    DEF TimerFires
<1>8. CASE HandlerEnters
  BY <1>8
    DEF HandlerEnters
<1>9. CASE HandlerFlags
  <2>1. /\ hand = "table" /\ hand' = "unset" /\ IsTable(tbl)
        /\ tbl' = [tbl EXCEPT !.flush = TRUE] /\ UNCHANGED <<timer, pc, op>>
    BY <1>9 DEF HandlerFlags
  <2>2. IsTable(tbl') /\ tbl'.isset = tbl.isset /\ tbl # NoTbl /\ tbl' # NoTbl
    BY <2>1, FlagsFit, TableIsOne
  <2> QED BY <2>1, <2>2
<1>10. CASE HandlerUnsets
  <2>1. /\ hand = "unset" /\ hand' = "tail" /\ IsTable(tbl)
        /\ tbl' = [tbl EXCEPT !.isset = FALSE] /\ UNCHANGED <<timer, pc, op>>
    BY <1>10 DEF HandlerUnsets
  <2>2. IsTable(tbl') /\ tbl # NoTbl /\ tbl' # NoTbl
    BY <2>1, FlagsFit, TableIsOne
  <2> QED BY <2>1, <2>2
<1>11. CASE HandlerEnds
  BY <1>11
    DEF HandlerEnds
<1>12. CASE Arrive
  BY <1>12
    DEF Arrive
<1>13. CASE RxStart
  BY <1>13
    DEF RxStart, Goto
<1>14. CASE RxFlush
  BY <1>14, RxFlushKeeps, TableIsOne
    DEF RxFlush, Goto, Kept
<1>15. CASE RxEmpty
  BY <1>15
    DEF RxEmpty, Goto
<1>16. ASSUME NEW n \in Numbers, NEW type \in {"data", "amsdu", "bar"},
         RxPacket(n, type)
       PROVE  TimerInv'
  <2>1. /\ pc["rx"] = "dequeue" /\ UNCHANGED <<timer, hand>>
        /\ \E l \in {"top", "resync"} : Goto("rx", l)
        /\ tbl' = tbl \/ (IsTable(tbl') /\ tbl'.isset = tbl.isset /\ tbl # NoTbl)
    BY <1>16, AdmitKeeps, AdmitGoto DEF RxPacket, Goto, Return, Kept
  <2> QED BY <2>1, TableIsOne DEF Goto
<1>17. ASSUME NEW n \in Numbers, NEW win \in UNION {l.wins : l \in Loads}, AddBa(n, win)
       PROVE  TimerInv'
  <2>1. /\ pc["main"] = "idle" /\ Goto("main", "create")
        /\ tbl' = NoTbl \/ UNCHANGED tbl
        /\ UNCHANGED hand
        /\ \/ UNCHANGED <<tbl, timer>>
           \/ tbl' = NoTbl /\ pc["rx"] = "idle" /\ DeleteTbl
    BY <1>17 DEF AddBa, MainFree, DeleteTbl, RxBlocked
  <2>2. CASE UNCHANGED <<tbl, timer>>
    BY <2>1, <2>2 DEF Goto
  <2>3. CASE tbl' = NoTbl /\ pc["rx"] = "idle" /\ DeleteTbl
    BY <2>1, <2>3, DeletedQuiet DEF Goto
  <2> QED BY <2>1, <2>2, <2>3
<1>18. ASSUME NEW last \in LastSeqs, Create(last)
       PROVE  TimerInv'
  BY <1>18, CanceledIs
    DEF Create, RxBlocked, Goto, NewTbl, NoTbl
<1>19. CASE CreateFails
  BY <1>19
    DEF CreateFails, Goto
<1>20. ASSUME NEW amsdu \in BOOLEAN, AddbaResp(amsdu)
       PROVE  TimerInv'
  BY <1>20, FlagStepsKeep, TableIsOne
    DEF AddbaResp, MainFree, Kept
<1>21. CASE Delba
  <2>1. /\ pc["main"] = "idle" /\ pc["rx"] = "idle" /\ tbl' = NoTbl
        /\ DeleteTbl /\ UNCHANGED <<hand, pc>>
    BY <1>21 DEF Delba, MainFree, DeleteTbl, RxBlocked
  <2> QED BY <2>1, DeletedQuiet
<1>22. CASE SetNoDrop
  BY <1>22, FlagStepsKeep, TableIsOne
    DEF SetNoDrop, MainFree, Kept
<1>23. ASSUME NEW n \in Numbers, SyncPacket(n)
       PROVE  TimerInv'
  BY <1>23, AdmitKeeps, TableIsOne, AdmitGoto
    DEF SyncPacket, MainFree, RxBlocked, Kept, Return
<1>24. CASE UNCHANGED vars
  BY <1>24
    DEF vars
<1> QED BY <1>1, <1>2, <1>3, <1>4, <1>5, <1>6, <1>7, <1>8, <1>9, <1>10, <1>11,
   <1>12, <1>13, <1>14, <1>15, <1>16, <1>17, <1>18, <1>19, <1>20, <1>21, <1>22,
   <1>23, <1>24
    DEF Next, PktStep, Handler

\* The sequence space is not empty, and the windows fit in half of it.
LEMMA Sizes ==
  /\ MAX_TID_VALUE \in Nat /\ MAX_TID_VALUE > 2
  /\ Bits \in Nat
  /\ \A win \in UNION {l.wins : l \in Loads} :
       win \in Nat /\ win > 0 /\ 2 * win < MAX_TID_VALUE
<1>1. \A win \in UNION {l.wins : l \in Loads} :
        win \in Nat /\ win > 0 /\ win <= MAX_TID_VALUE \div 2 - 1
  BY ParamsAssumption DEF Load
<1>2. MAX_TID_VALUE \in Nat /\ Bits \in Nat
  BY ParamsAssumption
<1>3. \A x \in Nat : 2 * (x \div 2) <= x
  OBVIOUS
<1>4. \A win \in UNION {l.wins : l \in Loads} : 2 * win < MAX_TID_VALUE
  <2> TAKE win \in UNION {l.wins : l \in Loads}
  <2> DEFINE half == MAX_TID_VALUE \div 2
  <2>1. half \in Nat /\ 2 * half <= MAX_TID_VALUE
    BY <1>2, <1>3
  <2>2. win \in Nat /\ win <= half - 1
    BY <1>1
  <2> HIDE DEF half
  <2> QED BY <2>1, <2>2, <1>2
<1>5. PICK l \in Loads : l.wins # {}
  BY ParamsAssumption
<1>6. PICK win \in l.wins : TRUE
  BY <1>5
<1>7. win \in UNION {k.wins : k \in Loads}
  BY <1>5, <1>6
<1>8. win \in Nat /\ win > 0 /\ 2 * win < MAX_TID_VALUE
  BY <1>1, <1>4, <1>7
<1>9. MAX_TID_VALUE > 2
  BY <1>2, <1>8
<1> QED BY <1>1, <1>2, <1>4, <1>9

\* Frames are numbered by natural numbers.
LEMMA NumbersNat ==
  /\ Numbers \subseteq Nat /\ Empty \notin Numbers /\ FwDrop \notin Numbers
  /\ \A n \in Numbers : SeqOf(n) \in 0 .. MAX_TID_VALUE - 1
<1>1. Numbers \subseteq Nat
  BY ParamsAssumption DEF Load, Numbers
<1>2. Empty \notin Nat /\ FwDrop \notin Nat
  BY ParamsAssumption
<1>3. \A n \in Nat : SeqOf(n) \in 0 .. MAX_TID_VALUE - 1
  BY Sizes DEF SeqOf
<1> QED BY <1>1, <1>2, <1>3

\* The number space wraps once over the sums the code forms.
LEMMA Wraps ==
  /\ \A x \in 0 .. MAX_TID_VALUE - 1 : Mask(x) = x
  /\ \A x \in MAX_TID_VALUE .. 2 * MAX_TID_VALUE - 1 : Mask(x) = x - MAX_TID_VALUE
  BY Sizes DEF Mask

\* A window start that moves by less than the number space wraps once at most.
LEMMA WrapsNear ==
  ASSUME NEW s \in 0 .. MAX_TID_VALUE, NEW i \in 0 .. MAX_TID_VALUE - 2
  PROVE  Mask(s + i + 1) = s + i + 1 \/ Mask(s + i + 1) = (s + i + 1) - MAX_TID_VALUE
<1>1. CASE s + i + 1 \in 0 .. MAX_TID_VALUE - 1
  <2>1. Mask(s + i + 1) = s + i + 1
    BY <1>1, Wraps, Zenon
  <2> QED BY <2>1, Zenon
<1>2. CASE s + i + 1 \in MAX_TID_VALUE .. 2 * MAX_TID_VALUE - 1
  <2>1. Mask(s + i + 1) = (s + i + 1) - MAX_TID_VALUE
    BY <1>2, Wraps, Zenon
  <2> QED BY <2>1, Zenon
<1>3. \/ s + i + 1 \in 0 .. MAX_TID_VALUE - 1
      \/ s + i + 1 \in MAX_TID_VALUE .. 2 * MAX_TID_VALUE - 1
  BY Sizes
<1> QED BY <1>1, <1>2, <1>3, Zenon

\* Rotating by k with start moved by k keeps the frames in their slots.
LEMMA RotateWell ==
  ASSUME NEW t, WellFormed(t), NEW k \in 0 .. t.wsize, NEW new \in 0 .. MAX_TID_VALUE,
         \A i \in 0 .. t.wsize - 1 :
           i + k < t.wsize => Mask(new + i) = Mask(t.start + (i + k))
  PROVE  WellFormed([Rotate(t, k) EXCEPT !.start = new])
<1> DEFINE u == [Rotate(t, k) EXCEPT !.start = new]
           w == t.wsize
<1>1. IsTable(u) /\ u.wsize = w /\ u.start = new /\ u.last = t.last
      /\ u.check = t.check
  BY RotateKeeps DEF WellFormed, Kept, IsTable, Fields, Rotate
<1>2. /\ u.slot = [i \in 0 .. w - 1 |-> IF i + k < w THEN t.slot[i + k] ELSE Empty]
      /\ u.bits = {b - k : b \in {x \in t.bits : x >= k}}
  BY DEF WellFormed, IsTable, Fields, Rotate
<1>3. w \in Nat /\ k \in Nat
  BY DEF WellFormed, IsTable
<1>4. /\ t.slot \in [0 .. w - 1 -> Numbers \cup {Empty, FwDrop}]
      /\ t.bits = {i \in 0 .. w - 1 : t.slot[i] # Empty}
      /\ \A i \in 0 .. w - 1 : IsFrame(t.slot[i]) => SeqOf(t.slot[i]) = Mask(t.start + i)
  BY DEF WellFormed
<1> HIDE DEF u, w
<1>5. u.slot \in [0 .. w - 1 -> Numbers \cup {Empty, FwDrop}]
  BY <1>2, <1>3, <1>4
<1>6. u.bits = {i \in 0 .. w - 1 : u.slot[i] # Empty}
  <2>1. ASSUME NEW i, i \in u.bits PROVE i \in 0 .. w - 1 /\ u.slot[i] # Empty
    <3>1. PICK b \in t.bits : b >= k /\ i = b - k
      BY <1>2, <2>1
    <3>2. b \in 0 .. w - 1 /\ t.slot[b] # Empty
      BY <1>4
    <3>3. i \in 0 .. w - 1 /\ i + k = b /\ b < w
      BY <3>1, <3>2, <1>3
    <3> QED BY <3>2, <3>3, <1>2
  <2>2. ASSUME NEW i \in 0 .. w - 1, u.slot[i] # Empty PROVE i \in u.bits
    <3>1. i + k < w /\ t.slot[i + k] # Empty
      BY <1>2, <2>2
    <3>2. i + k \in t.bits /\ i + k >= k /\ (i + k) - k = i
      BY <3>1, <1>3, <1>4
    <3> QED BY <3>2, <1>2
  <2> QED BY <2>1, <2>2
<1>7. ASSUME NEW i \in 0 .. w - 1, IsFrame(u.slot[i])
      PROVE  SeqOf(u.slot[i]) = Mask(new + i)
  <2>1. i + k < w /\ u.slot[i] = t.slot[i + k]
    BY <1>2, <1>7, NumbersNat DEF IsFrame
  <2>2. i + k \in 0 .. w - 1
    BY <2>1, <1>3
  <2>3. SeqOf(u.slot[i]) = Mask(t.start + (i + k))
    BY <2>1, <2>2, <1>4, <1>7
  <2>4. Mask(new + i) = Mask(t.start + (i + k))
    BY <2>1 DEF w
  <2> QED BY <2>3, <2>4
<1>8. u.check => u.bits = {}
  BY <1>1, <1>2 DEF WellFormed
<1>9. w <= Bits /\ 2 * w < MAX_TID_VALUE
      /\ t.last \in 0 .. MAX_TID_VALUE - 1 \cup {DEFAULT_SEQ_NUM}
  BY DEF WellFormed, w
<1>10. WellFormed(u)
  BY <1>1, <1>5, <1>6, <1>7, <1>8, <1>9 DEF WellFormed
<1> QED BY <1>10 DEF u

\* wlan_11n_dispatch_pkt_until_start_win moves the window anywhere.
LEMMA DispatchWell ==
  ASSUME NEW t, WellFormed(t), NEW new \in 0 .. MAX_TID_VALUE
  PROVE  WellFormed(DispatchUntil(t, new).tbl)
<1> DEFINE k == NoPktToSend(t, new)
<1>1. t.wsize \in Nat /\ t.start \in 0 .. MAX_TID_VALUE /\ 2 * t.wsize < MAX_TID_VALUE
  BY DEF WellFormed, IsTable
<1>2. k \in 0 .. t.wsize
  BY <1>1, Sizes DEF NoPktToSend
<1>3. k < t.wsize => new = t.start + k
  BY <1>1, Sizes DEF NoPktToSend
<1> HIDE DEF k
<1>4. ASSUME NEW i \in 0 .. t.wsize - 1, i + k < t.wsize
      PROVE  Mask(new + i) = Mask(t.start + (i + k))
  <2>1. new + i = t.start + (i + k)
    BY <1>1, <1>2, <1>3, <1>4, Sizes
  <2> QED BY <2>1
<1>5. WellFormed([Rotate(t, k) EXCEPT !.start = new])
  BY <1>2, <1>4, RotateWell
<1> QED BY <1>5 DEF DispatchUntil, k

\* A set of numbers has a least member, and below a bound ...
LEMMA Least ==
  ASSUME NEW T \in SUBSET Nat, T # {}
  PROVE  \E x \in T : \A y \in T : x <= y
<1> DEFINE R == OpToRel(<, Nat)
<1>1. IsWellFoundedOn(R, Nat)
  BY NatLessThanWellFounded
<1>2. \A x, y \in Nat : y < x => <<y, x>> \in R
  BY DEF OpToRel
<1> HIDE DEF R
<1>3. PICK x \in T : \A y \in T : ~(<<y, x>> \in R)
  BY <1>1, WFMin
<1>4. \A y \in T : ~(y < x)
  BY <1>2, <1>3
<1>5. \A y \in T : x <= y
  BY <1>4
<1> QED BY <1>5

\* ... and a greatest.
LEMMA Greatest ==
  ASSUME NEW b \in Nat, NEW T \in SUBSET (0 .. b), T # {}
  PROVE  \E x \in T : \A y \in T : y <= x
<1> DEFINE U == {b - x : x \in T}
<1>1. /\ \A x \in T : x \in Nat /\ b - x \in Nat
      /\ U # {}
  <2>1. \A x \in T : x \in 0 .. b
    OBVIOUS
  <2>2. PICK x \in T : TRUE
    OBVIOUS
  <2>3. b - x \in U
    BY <2>2
  <2> QED BY <2>1, <2>3
<1>2. PICK u \in U : \A v \in U : u <= v
  <2>1. U \in SUBSET Nat
    BY <1>1
  <2> HIDE DEF U
  <2> QED BY <1>1, <2>1, Least
<1>3. PICK x \in T : u = b - x
  OBVIOUS
<1>4. \A y \in T : b - x <= b - y
  BY <1>2, <1>3
<1> QED BY <1>1, <1>4

\* wlan_11n_scan_and_dispatch stops at the first hole.
LEMMA HeadRunIn == ASSUME NEW t, t.wsize \in Nat PROVE HeadRun(t) \in 0 .. t.wsize
<1> DEFINE holes == {i \in 0 .. t.wsize - 1 : t.slot[i] = Empty}
           Runs(k) == /\ \A i \in 0 .. k - 1 : t.slot[i] # Empty
                      /\ k < t.wsize => t.slot[k] = Empty
<1>1. CASE holes = {}
  <2>1. \A i \in 0 .. t.wsize - 1 : t.slot[i] # Empty
    BY <1>1
  <2> QED BY <2>1 DEF HeadRun
<1>2. CASE holes # {}
  <2>1. holes \in SUBSET Nat
    OBVIOUS
  <2>2. PICK k \in holes : \A y \in holes : k <= y
    BY <1>2, <2>1, Least
  <2>3. k \in 0 .. t.wsize - 1 /\ t.slot[k] = Empty
    OBVIOUS
  <2>4. \A i \in 0 .. k - 1 : t.slot[i] # Empty
    BY <2>2, <2>3
  <2>5. k \in 0 .. t.wsize /\ Runs(k)
    BY <2>3, <2>4
  <2> QED BY <2>5 DEF HeadRun
<1> QED BY <1>1, <1>2

\* wlan_11n_scan_and_dispatch moves the window past what it hands up.
LEMMA ScanWell == ASSUME NEW t, WellFormed(t) PROVE WellFormed(ScanAndDispatch(t).tbl)
<1> DEFINE k == HeadRun(t)
           new == Mask(t.start + k)
<1>1. t.wsize \in Nat /\ t.start \in 0 .. MAX_TID_VALUE /\ 2 * t.wsize < MAX_TID_VALUE
  BY DEF WellFormed, IsTable
<1>2. k \in 0 .. t.wsize
  BY <1>1, HeadRunIn
<1> HIDE DEF k
<1>3. new \in 0 .. MAX_TID_VALUE - 1
  BY <1>1, <1>2, Sizes DEF Mask
<1>4. new = t.start + k \/ new = t.start + k - MAX_TID_VALUE
  BY <1>1, <1>2, Sizes, Wraps
<1>5. ASSUME NEW i \in 0 .. t.wsize - 1, i + k < t.wsize
      PROVE  Mask(new + i) = Mask(t.start + (i + k))
  <2>1. \A x \in 0 .. 2 * MAX_TID_VALUE - 1 :
          Mask(x) = IF x < MAX_TID_VALUE THEN x ELSE x - MAX_TID_VALUE
    BY Sizes, Wraps
  <2>2. CASE new = t.start + k
    <3>1. new + i = t.start + (i + k)
      BY <2>2, <1>1, <1>2
    <3> QED BY <3>1
  <2>3. CASE new = t.start + k - MAX_TID_VALUE
    <3> DEFINE x == t.start + (i + k)
               y == new + i
    <3>1. /\ x = y + MAX_TID_VALUE /\ y \in 0 .. MAX_TID_VALUE - 1
          /\ x \in MAX_TID_VALUE .. 2 * MAX_TID_VALUE - 1
      <4> HIDE DEF new
      <4> QED BY <2>3, <1>1, <1>2, <1>3, <1>5, Sizes
    <3> HIDE DEF x, y
    <3>2. Mask(y) = y /\ Mask(x) = x - MAX_TID_VALUE
      BY <3>1, Wraps
    <3>3. Mask(y) = Mask(x)
      BY <3>1, <3>2, Sizes
    <3> QED BY <3>3 DEF x, y
  <2> QED BY <1>4, <2>2, <2>3
<1> HIDE DEF new
<1>6. new \in 0 .. MAX_TID_VALUE
  BY <1>3, Sizes
<1>7. WellFormed([Rotate(t, k) EXCEPT !.start = new])
  BY <1>2, <1>5, <1>6, RotateWell
<1> QED BY <1>7 DEF ScanAndDispatch, k, new

\* wlan_start_flush_data, and the flag that asks for it.
LEMMA FlushWell ==
  ASSUME NEW t, WellFormed(t)
  PROVE  WellFormed(TakeFlush(t).tbl) /\ TakeFlush(t).tbl.check = t.check
<1> DEFINE u == [t EXCEPT !.flush = FALSE]
           full == {i \in 0 .. u.wsize - 1 : u.slot[i] # Empty}
           last == CHOOSE i \in full : \A j \in full : j <= i
           new == Mask(u.start + last + 1)
<1>1. WellFormed(u) /\ u.check = t.check
  BY DEF WellFormed, IsTable, Fields
<1>2. CASE full = {}
  <2>1. StartFlush(u).tbl = u
    BY <1>2 DEF StartFlush
  <2> QED BY <1>1, <2>1 DEF TakeFlush
<1>3. CASE full # {}
  <2>1. u.wsize \in Nat /\ u.wsize > 0 /\ u.start \in 0 .. MAX_TID_VALUE
    BY <1>1 DEF WellFormed, IsTable
  <2>2. full \in SUBSET (0 .. u.wsize - 1) /\ u.wsize - 1 \in Nat
    BY <2>1
  <2> HIDE DEF full
  <2>3. \E i \in full : \A j \in full : j <= i
    BY <1>3, <2>2, Greatest
  <2>4. last \in full
    BY <2>3
  <2> HIDE DEF last
  <2>5. u.start + last + 1 \in Nat
    BY <2>1, <2>2, <2>4, Sizes
  <2>6. new \in 0 .. MAX_TID_VALUE
    BY <2>5, Sizes DEF Mask
  <2>7. WellFormed(DispatchUntil(u, new).tbl)
    BY <1>1, <2>6, DispatchWell
  <2>8. DispatchUntil(u, new).tbl.check = u.check
    BY <1>1 DEF DispatchUntil, Rotate, WellFormed, IsTable, Fields
  <2>9. StartFlush(u) = DispatchUntil(u, new)
    BY <1>3 DEF StartFlush, full, last
  <2> QED BY <1>1, <2>7, <2>8, <2>9 DEF TakeFlush
<1> QED BY <1>2, <1>3

\* The fields the window is made of decide whether the table is well formed.
LEMMA SameWindow ==
  ASSUME NEW t, WellFormed(t), NEW u, IsTable(u),
         u.start = t.start, u.wsize = t.wsize, u.slot = t.slot, u.bits = t.bits,
         u.last = t.last, u.check = t.check
  PROVE  WellFormed(u)
  BY DEF WellFormed

\* An empty window may start anywhere.
LEMMA EmptyWindow ==
  ASSUME NEW t, WellFormed(t), t.bits = {}, NEW u, IsTable(u),
         u.wsize = t.wsize, u.slot = t.slot, u.bits = t.bits, u.last = t.last,
         u.start \in 0 .. MAX_TID_VALUE
  PROVE  WellFormed(u)
<1>1. \A i \in 0 .. t.wsize - 1 : t.slot[i] = Empty
  BY DEF WellFormed
<1>2. \A i \in 0 .. u.wsize - 1 : ~IsFrame(u.slot[i])
  BY <1>1, NumbersNat DEF IsFrame
<1> QED BY <1>2 DEF WellFormed

\* 893-937: the first packet may set start_win; nothing is buffered yet.
LEMMA CheckedWell ==
  ASSUME NEW t, WellFormed(t), NEW seq \in 0 .. MAX_TID_VALUE - 1
  PROVE  WellFormed(Checked(t, seq)) /\ ~Checked(t, seq).check
<1>1. CASE ~t.check
  BY <1>1 DEF Checked
<1>2. CASE t.check
  <2> DEFINE u == Checked(t, seq)
  <2>1. IsTable(u) /\ u.wsize = t.wsize
    BY CheckedKeeps DEF WellFormed, Kept
  <2>2. u.slot = t.slot /\ u.bits = t.bits /\ u.last = t.last /\ u.check = FALSE
    BY <1>2 DEF Checked, WellFormed, IsTable, Fields
  <2>3. u.start = t.start \/ u.start = CheckedStart(t, seq)
    BY <1>2 DEF Checked, WellFormed, IsTable, Fields
  <2>4. t.start \in 0 .. MAX_TID_VALUE
        /\ t.last \in 0 .. MAX_TID_VALUE - 1 \cup {DEFAULT_SEQ_NUM}
    BY DEF WellFormed
  <2>5. CheckedStart(t, seq) \in 0 .. MAX_TID_VALUE
    <3>1. \/ CheckedStart(t, seq) = t.start
          \/ t.last # DEFAULT_SEQ_NUM /\ CheckedStart(t, seq) = t.last + 1
      BY DEF CheckedStart
    <3> QED BY <2>4, <3>1, Sizes
  <2>6. u.start \in 0 .. MAX_TID_VALUE
    BY <2>3, <2>4, <2>5
  <2>7. t.bits = {}
    BY <1>2 DEF WellFormed
  <2> HIDE DEF u
  <2>8. WellFormed(u)
    BY <2>1, <2>2, <2>6, <2>7, EmptyWindow
  <2> QED BY <2>2, <2>8 DEF u
<1> QED BY <1>1, <1>2

\* 940-950: the whole window is dispatched, and starts where the packet is.
LEMMA ResyncWell ==
  ASSUME NEW t, WellFormed(t), NEW s \in 0 .. MAX_TID_VALUE
  PROVE  LET d == DispatchUntil(t, Mask(t.start + t.wsize)).tbl
         IN /\ WellFormed(d) /\ d.check = t.check
            /\ WellFormed([d EXCEPT !.start = s])
<1> DEFINE new == Mask(t.start + t.wsize)
           d == DispatchUntil(t, new).tbl
           e == [d EXCEPT !.start = s]
<1>1. t.wsize \in Nat /\ t.wsize > 0 /\ t.start \in 0 .. MAX_TID_VALUE
      /\ 2 * t.wsize < MAX_TID_VALUE
  BY DEF WellFormed, IsTable
<1>2. new \in 0 .. MAX_TID_VALUE
  BY <1>1, Sizes DEF Mask
<1>3. new = t.start + t.wsize \/ new = t.start + t.wsize - MAX_TID_VALUE
  BY <1>1, Sizes, Wraps
<1> HIDE DEF new
<1>4. NoPktToSend(t, new) = t.wsize
  BY <1>1, <1>2, <1>3, Sizes DEF NoPktToSend
<1>5. WellFormed(d)
  BY <1>2, DispatchWell
<1>6. d.bits = {b - t.wsize : b \in {x \in t.bits : x >= t.wsize}} /\ d.check = t.check
  <2>1. d = [Rotate(t, t.wsize) EXCEPT !.start = new]
    BY <1>4 DEF DispatchUntil
  <2> HIDE DEF d
  <2> QED BY <2>1 DEF Rotate, WellFormed, IsTable, Fields
<1>7. t.bits \subseteq 0 .. t.wsize - 1
  BY DEF WellFormed
<1>8. \A x \in t.bits : ~(x >= t.wsize)
  BY <1>1, <1>7
<1>9. d.bits = {}
  BY <1>6, <1>8
<1> HIDE DEF d
<1>10. IsTable(d)
  BY <1>5 DEF WellFormed
<1>11. IsTable(e) /\ e.wsize = d.wsize /\ e.slot = d.slot /\ e.bits = d.bits
       /\ e.last = d.last /\ e.start = s
  BY <1>10 DEF IsTable, Fields
<1> HIDE DEF e
<1>12. WellFormed(e)
  BY <1>5, <1>9, <1>11, EmptyWindow
<1> QED BY <1>5, <1>6, <1>12 DEF d, e, new

\* 1004-1054: the window that prev or seq decides has a slot for seq.
LEMMA SlotInWindow ==
  ASSUME NEW w \in Nat, w > 1, 2 * w < MAX_TID_VALUE,
         NEW prev \in 0 .. MAX_TID_VALUE, NEW seq \in 0 .. MAX_TID_VALUE - 1,
         NEW start,
         start = IF Ahead(prev, Mask(prev + w - 1), seq) THEN StartFor(seq, w) ELSE prev
  PROVE  /\ start \in 0 .. MAX_TID_VALUE
         /\ SlotOf(start, seq) \in 0 .. w - 1
         /\ Mask(start + SlotOf(start, seq)) = seq
<1> DEFINE end == Mask(prev + w - 1)
           x == prev + w - 1
<1>1. x \in 0 .. 2 * MAX_TID_VALUE - 1
  BY Sizes
<1>2. end = IF x < MAX_TID_VALUE THEN x ELSE x - MAX_TID_VALUE
  <2> HIDE DEF x
  <2> QED BY <1>1, Sizes, Wraps DEF x
<1> HIDE DEF end
<1>3. CASE Ahead(prev, end, seq)
  <2>1. start = StartFor(seq, w)
    BY <1>3 DEF end
  <2>2. start \in 0 .. MAX_TID_VALUE /\ SlotOf(start, seq) = w - 1
    BY <2>1, Sizes DEF StartFor, SlotOf
  <2>3. \/ start + (w - 1) = seq
        \/ start + (w - 1) = seq + MAX_TID_VALUE
    BY <2>1, Sizes DEF StartFor
  <2> QED BY <2>2, <2>3, Sizes, Wraps
<1>4. CASE ~Ahead(prev, end, seq)
  <2>1. start = prev
    BY <1>4 DEF end
  <2>2. SlotOf(prev, seq) \in 0 .. w - 1
    BY <1>2, <1>4, Sizes DEF Ahead, SlotOf
  <2>3. \/ prev + SlotOf(prev, seq) = seq
        \/ prev + SlotOf(prev, seq) = seq + MAX_TID_VALUE
    BY Sizes DEF SlotOf
  <2> QED BY <2>1, <2>2, <2>3, Sizes, Wraps
<1> QED BY <1>3, <1>4

\* 1056-1065: a packet is stored in the free slot of its number.
LEMMA StoreWell ==
  ASSUME NEW u, WellFormed(u), ~u.check, NEW i \in 0 .. u.wsize - 1,
         NEW pay \in Numbers \cup {FwDrop},
         IsFrame(pay) => SeqOf(pay) = Mask(u.start + i),
         NEW b \in SetBit(u.bits, i)
  PROVE  WellFormed([u EXCEPT !.slot[i] = pay, !.bits = b])
<1> DEFINE v == [u EXCEPT !.slot[i] = pay, !.bits = b]
           w == u.wsize
<1>1. w \in Nat /\ i < Bits
  BY Sizes DEF WellFormed, IsTable
<1>2. b = u.bits \cup {i}
  BY <1>1 DEF SetBit
<1>3. IsTable(v) /\ v.wsize = w /\ v.start = u.start /\ v.last = u.last
      /\ v.check = u.check /\ v.bits = b /\ v.slot = [u.slot EXCEPT ![i] = pay]
  BY DEF WellFormed, IsTable, Fields
<1>4. /\ u.slot \in [0 .. w - 1 -> Numbers \cup {Empty, FwDrop}]
      /\ u.bits = {j \in 0 .. w - 1 : u.slot[j] # Empty}
      /\ \A j \in 0 .. w - 1 : IsFrame(u.slot[j]) => SeqOf(u.slot[j]) = Mask(u.start + j)
  BY DEF WellFormed
<1> HIDE DEF v
<1>5. pay # Empty
  BY NumbersNat, ParamsAssumption
<1>6. /\ v.slot \in [0 .. w - 1 -> Numbers \cup {Empty, FwDrop}]
      /\ v.slot[i] = pay /\ \A j \in 0 .. w - 1 : j # i => v.slot[j] = u.slot[j]
  BY <1>3, <1>4
<1>7. v.bits = {j \in 0 .. w - 1 : v.slot[j] # Empty}
  BY <1>2, <1>3, <1>4, <1>5, <1>6
<1>8. \A j \in 0 .. w - 1 : IsFrame(v.slot[j]) => SeqOf(v.slot[j]) = Mask(u.start + j)
  BY <1>4, <1>6
<1>9. WellFormed(v)
  BY <1>3, <1>6, <1>7, <1>8 DEF WellFormed
<1> QED BY <1>9 DEF v

\* mlan_11n_rxreorder_pkt from the test of the window to the buffer.
LEMMA PlaceWell ==
  ASSUME WellFormed(tbl), NEW c, Place(c), tbl.wsize > 1, ~tbl.check,
         loc[c].n \in Numbers, loc[c].prev = tbl.start,
         loc[c].type # "bar" => loc[c].pay \in {loc[c].n, FwDrop}
  PROVE  WellFormed(tbl')
<1> DEFINE l == loc[c]
           win == tbl.wsize
           t == [tbl EXCEPT !.nodrop = FALSE]
           end == Mask(l.prev + win - 1)
           seq == IF l.type = "bar" THEN Mask(SeqOf(l.n) + win - 1) ELSE SeqOf(l.n)
           ahead == Ahead(l.prev, end, seq)
           start == IF ahead THEN StartFor(seq, win) ELSE l.prev
           d == IF ahead THEN DispatchUntil(t, start) ELSE [tbl |-> t, up |-> <<>>]
           slot == SlotOf(start, seq)
<1>1. WellFormed(t) /\ t.wsize = win /\ t.start = tbl.start /\ ~t.check
  BY DEF WellFormed, IsTable, Fields
<1>2. win \in Nat /\ 2 * win < MAX_TID_VALUE /\ l.prev \in 0 .. MAX_TID_VALUE
  BY DEF WellFormed, IsTable
<1>3. seq \in 0 .. MAX_TID_VALUE - 1
  <2>1. SeqOf(l.n) \in 0 .. MAX_TID_VALUE - 1
    BY NumbersNat
  <2>2. SeqOf(l.n) + win - 1 \in Nat
    BY <2>1, <1>2, Sizes
  <2>3. Mask(SeqOf(l.n) + win - 1) \in 0 .. MAX_TID_VALUE - 1
    BY <2>2, Sizes DEF Mask
  <2> QED BY <2>1, <2>3
<1>4. \/ tbl' = tbl
      \/ tbl' = d.tbl
      \/ /\ l.type # "bar"
         /\ \E b \in SetBit(d.tbl.bits, slot) :
              tbl' = [d.tbl EXCEPT !.slot[slot] = l.pay, !.bits = b]
  BY DEF Place
<1> HIDE DEF seq
<1>5. /\ start \in 0 .. MAX_TID_VALUE /\ slot \in 0 .. win - 1
      /\ Mask(start + slot) = seq
  <2>1. start = IF Ahead(l.prev, Mask(l.prev + win - 1), seq)
                THEN StartFor(seq, win) ELSE l.prev
    OBVIOUS
  <2> HIDE DEF start, win, l
  <2>2. win > 1
    BY DEF win
  <2> QED BY <1>2, <1>3, <2>1, <2>2, SlotInWindow
<1> HIDE DEF t
<1>6. WellFormed(d.tbl) /\ d.tbl.start = start /\ d.tbl.wsize = win /\ ~d.tbl.check
  <2>1. CASE ahead
    <3> HIDE DEF start
    <3>1. d.tbl = [Rotate(t, NoPktToSend(t, start)) EXCEPT !.start = start]
      BY <2>1 DEF DispatchUntil
    <3>2. WellFormed(d.tbl)
      BY <2>1, <1>1, <1>5, DispatchWell
    <3> QED BY <3>1, <3>2, <1>1 DEF Rotate, WellFormed, IsTable, Fields
  <2>2. CASE ~ahead
    BY <2>2, <1>1
  <2> QED BY <2>1, <2>2
<1> HIDE DEF d, start, slot
<1>7. CASE \E b \in SetBit(d.tbl.bits, slot) :
             l.type # "bar" /\ tbl' = [d.tbl EXCEPT !.slot[slot] = l.pay, !.bits = b]
  <2>1. PICK b \in SetBit(d.tbl.bits, slot) :
          l.type # "bar" /\ tbl' = [d.tbl EXCEPT !.slot[slot] = l.pay, !.bits = b]
    BY <1>7
  <2>2. l.pay \in Numbers \cup {FwDrop}
    BY <2>1
  <2>3. IsFrame(l.pay) => SeqOf(l.pay) = Mask(d.tbl.start + slot)
    BY <2>1, <1>5, <1>6, NumbersNat DEF IsFrame, seq
  <2>4. slot \in 0 .. d.tbl.wsize - 1
    BY <1>5, <1>6
  <2>5. WellFormed([d.tbl EXCEPT !.slot[slot] = l.pay, !.bits = b])
    BY <2>2, <2>3, <2>4, <1>6, StoreWell
  <2> QED BY <2>1, <2>5
<1> QED BY <1>4, <1>6, <1>7

\* One context at a time is inside mlan_11n_rxreorder_pkt.
LEMMA OnePacket ==
  ASSUME ShapeInv, NEW c \in Contexts, InPkt(c), NEW d \in Contexts \ {c}
  PROVE  ~InPkt(d)
  BY DEF ShapeInv, InPkt, Contexts

\* Steps inside mlan_11n_rxreorder_pkt leave the other context out of it.
LEMMA OthersNotPending ==
  ASSUME ShapeInv, WinInv, NEW c \in Contexts, InPkt(c), NEW l,
         Goto(c, l), \A d \in Contexts \ {c} : loc'[d] = loc[d]
  PROVE  \A d \in Contexts \ {c} : ~Pending(d)'
<1> TAKE d \in Contexts \ {c}
<1>1. ~InPkt(d)
  BY OnePacket
<1>2. pc'[d] = pc[d]
  BY DEF Goto, ShapeInv
<1> QED BY <1>1, <1>2 DEF Pending, InPkt

\* The locals of a context outside mlan_11n_rxreorder_pkt.
LEMMA NoLocTyped == NoLoc \in Locals
<1>1. 0 \in 0 .. MAX_TID_VALUE
  BY Sizes
<1> QED BY <1>1 DEF NoLoc, Locals

\* Steps outside mlan_11n_rxreorder_pkt.
LEMMA OutsideKeeps ==
  ASSUME WinInv, left' \in Load, op' = op, loc' = loc,
         pc'["main"] = "create" => pc["main"] = "create",
         tbl' # NoTbl => WellFormed(tbl'),
         \A c \in Contexts : Pending(c)' =>
           /\ Pending(c) /\ (pc'[c] = "place" => pc[c] = "place")
           /\ tbl'.wsize = tbl.wsize /\ tbl'.start = tbl.start /\ tbl'.check = tbl.check
  PROVE  WinInv'
<1>1. \A c \in Contexts : Pending(c)' => PacketFits(c)'
  BY DEF WinInv, PacketFits
<1> QED BY <1>1 DEF WinInv

\* Steps inside it, in context c.
LEMMA InsideKeeps ==
  ASSUME ShapeInv, WinInv, NEW c \in Contexts, InPkt(c), NEW l, l # "create", Goto(c, l),
         UNCHANGED <<left, op>>, WellFormed(tbl'),
         NEW k \in Locals, loc' = [loc EXCEPT ![c] = k],
         Pending(c)' => PacketFits(c)'
  PROVE  WinInv'
<1>1. loc' \in [Contexts -> Locals] /\ \A d \in Contexts \ {c} : loc'[d] = loc[d]
  BY DEF WinInv
<1>2. \A d \in Contexts \ {c} : ~Pending(d)'
  BY <1>1, OthersNotPending
<1>3. pc'["main"] = "create" => pc["main"] = "create"
  BY DEF Goto, ShapeInv
<1> QED BY <1>1, <1>2, <1>3 DEF WinInv

\* What mlan_11n_rxreorder_pkt leaves when it first yields.
LEMMA AdmitWell ==
  ASSUME ShapeInv, WinInv, tbl # NoTbl, tbl.wsize > 1, NEW c \in Contexts,
         NEW n \in Numbers, NEW type \in {"data", "amsdu", "bar"},
         NEW pay \in Numbers \cup {Empty, FwDrop},
         type # "bar" => pay \in {n, FwDrop},
         Admit(c, n, type, pay), \A d \in Contexts : ~InPkt(d)
  PROVE  /\ WellFormed(tbl') /\ loc' \in [Contexts -> Locals]
         /\ op' = op /\ (pc["main"] # "create" => pc'["main"] # "create")
         /\ \A d \in Contexts : Pending(d)' => PacketFits(d)'
<1> DEFINE f == TakeFlush(tbl).tbl
           g == [f EXCEPT !.count = @ + 1, !.last = SeqOf(n)]
           h == Checked(f, SeqOf(n))
           new == [NoLoc EXCEPT !.n = n, !.type = type, !.pay = pay]
<1>1. WellFormed(tbl) /\ IsTable(tbl)
  BY DEF WinInv, WellFormed
<1>2. WellFormed(f) /\ f.wsize = tbl.wsize /\ SeqOf(n) \in 0 .. MAX_TID_VALUE - 1
  BY <1>1, FlushWell, FlushKeeps, NumbersNat DEF Kept
<1>3. \/ tbl' = f /\ Goto(c, Return(c)) /\ UNCHANGED loc
      \/ tbl' = g /\ Goto(c, Return(c)) /\ UNCHANGED loc
      \/ tbl' = h /\ Goto(c, "resync") /\ loc' = [loc EXCEPT ![c] = new]
  BY DEF Admit
<1>4. op' = op
  BY DEF Admit
<1> HIDE DEF f
<1>5. WellFormed(g)
  <2>1. /\ IsTable(g) /\ g.start = f.start /\ g.wsize = f.wsize /\ g.slot = f.slot
        /\ g.bits = f.bits /\ g.check = f.check /\ g.last = SeqOf(n)
    BY <1>2 DEF WellFormed, IsTable, Fields
  <2> HIDE DEF g
  <2> QED BY <1>2, <2>1 DEF WellFormed
<1>6. WellFormed(h) /\ ~h.check /\ h.wsize = tbl.wsize
  <2>1. IsTable(f)
    BY <1>2 DEF WellFormed
  <2> QED BY <1>2, <2>1, CheckedWell, CheckedKeeps DEF Kept
<1> HIDE DEF g, h
<1>7. CASE (tbl' = f \/ tbl' = g) /\ Goto(c, Return(c)) /\ UNCHANGED loc
  <2>1. \A d \in Contexts : ~Pending(d)'
    BY <1>7 DEF Pending, InPkt, Goto, Return, ShapeInv
  <2> QED BY <1>2, <1>4, <1>5, <1>7, <2>1 DEF WinInv, Goto, Return, ShapeInv, Contexts
<1>8. CASE tbl' = h /\ Goto(c, "resync") /\ loc' = [loc EXCEPT ![c] = new]
  <2>1. /\ new \in Locals /\ new.n = n /\ new.type = type /\ new.pay = pay
    <3>1. NoLoc \in Locals
      BY NoLocTyped
    <3> QED BY <3>1 DEF Locals
  <2> HIDE DEF new
  <2>2. loc' \in [Contexts -> Locals] /\ loc'[c] = new
    BY <1>8, <2>1 DEF WinInv
  <2>3. pc'[c] = "resync" /\ \A d \in Contexts \ {c} : pc'[d] = pc[d]
    BY <1>8 DEF Goto, ShapeInv
  <2>4. PacketFits(c)'
    BY <1>6, <1>8, <2>1, <2>2, <2>3 DEF PacketFits
  <2>5. \A d \in Contexts \ {c} : ~Pending(d)'
    BY <2>3 DEF Pending, InPkt
  <2> QED BY <1>4, <1>6, <1>8, <2>2, <2>3, <2>4, <2>5 DEF Contexts
<1> QED BY <1>3, <1>7, <1>8

\* wlan_11n_create_rxreorder_tbl starts with an empty window.
LEMMA NewTblWell ==
  ASSUME NEW ssn \in 0 .. MAX_TID_VALUE - 1, NEW win \in Nat \ {0}, win <= Bits,
         2 * win < MAX_TID_VALUE,
         NEW last \in 0 .. MAX_TID_VALUE - 1 \cup {DEFAULT_SEQ_NUM}
  PROVE  WellFormed(NewTbl(ssn, win, last))
<1> DEFINE t == NewTbl(ssn, win, last)
<1>1. /\ IsTable(t) /\ t.wsize = win /\ t.start = ssn /\ t.last = last /\ t.bits = {}
      /\ t.slot = [i \in 0 .. win - 1 |-> Empty]
  BY DEF NewTbl, IsTable, Fields
<1> HIDE DEF t
<1>2. \A i \in 0 .. win - 1 : ~IsFrame(t.slot[i])
  BY <1>1, NumbersNat DEF IsFrame
<1>3. ssn \in 0 .. MAX_TID_VALUE
  BY Sizes
<1>4. WellFormed(t)
  BY <1>1, <1>2, <1>3 DEF WellFormed
<1> QED BY <1>4 DEF t

\* Every step keeps each buffered frame in the slot of its number.
LEMMA WinKept ==
  ASSUME WinsFit, ~SyncRaces, ShapeInv, WinInv, [Next]_vars
  PROVE  WinInv'
<1> USE DEF Contexts
<1>1. ASSUME NEW c \in Contexts, Resync(c)
       PROVE  WinInv'
  <2>1. InPkt(c) /\ Pending(c) /\ tbl # NoTbl
    BY <1>1 DEF Resync, InPkt, Pending, ShapeInv
  <2>2. WellFormed(tbl) /\ PacketFits(c) /\ loc[c] \in Locals
    BY <2>1 DEF WinInv
  <2>3. SeqOf(loc[c].n) \in 0 .. MAX_TID_VALUE /\ tbl.start \in 0 .. MAX_TID_VALUE
    <3>1. SeqOf(loc[c].n) \in 0 .. MAX_TID_VALUE - 1
      BY <2>2, NumbersNat DEF PacketFits
    <3> QED BY <2>2, <3>1, Sizes DEF WellFormed
  <2> DEFINE d == DispatchUntil(tbl, Mask(tbl.start + tbl.wsize)).tbl
             e == [d EXCEPT !.start = SeqOf(loc[c].n)]
  <2>4. WellFormed(d) /\ d.check = tbl.check /\ d.wsize = tbl.wsize /\ WellFormed(e)
    <3>1. IsTable(tbl)
      BY <2>2 DEF WellFormed
    <3>2. d.wsize = tbl.wsize
      BY <3>1, DispatchKeeps DEF Kept
    <3>3. WellFormed(d) /\ d.check = tbl.check /\ WellFormed(e)
      BY <2>2, <2>3, ResyncWell
    <3> QED BY <3>2, <3>3
  <2>5. e.wsize = d.wsize /\ e.check = d.check
    <3> HIDE DEF d
    <3> QED BY <2>4 DEF WellFormed, IsTable, Fields
  <2>6. \/ /\ tbl' = d \/ tbl' = e
           /\ loc' = [loc EXCEPT ![c].back = "place"] /\ Goto(c, "stop")
        \/ /\ tbl' = tbl
           /\ loc' = [loc EXCEPT ![c].prev = tbl.start] /\ Goto(c, "place")
    BY <1>1 DEF Resync
  <2> HIDE DEF d, e
  <2>7. UNCHANGED <<left, op>>
    BY <1>1 DEF Resync
  <2>8. CASE (tbl' = d \/ tbl' = e) /\ loc' = [loc EXCEPT ![c].back = "place"]
             /\ Goto(c, "stop")
    <3> DEFINE k == [loc[c] EXCEPT !.back = "place"]
    <3>1. k \in Locals /\ k.n = loc[c].n /\ k.type = loc[c].type /\ k.pay = loc[c].pay
      BY <2>2 DEF Locals
    <3>2. loc' = [loc EXCEPT ![c] = k] /\ loc'[c] = k /\ pc'[c] = "stop"
      BY <2>8 DEF WinInv, Goto, ShapeInv
    <3> HIDE DEF k
    <3>3. PacketFits(c)' /\ WellFormed(tbl')
      BY <2>2, <2>4, <2>5, <2>8, <3>1, <3>2 DEF PacketFits
    <3> QED BY <2>1, <2>7, <2>8, <3>1, <3>2, <3>3, InsideKeeps
  <2>9. CASE tbl' = tbl /\ loc' = [loc EXCEPT ![c].prev = tbl.start] /\ Goto(c, "place")
    <3> DEFINE k == [loc[c] EXCEPT !.prev = tbl.start]
    <3>1. k \in Locals /\ k.n = loc[c].n /\ k.type = loc[c].type /\ k.pay = loc[c].pay
          /\ k.prev = tbl.start
      BY <2>2, <2>3 DEF Locals
    <3>2. loc' = [loc EXCEPT ![c] = k] /\ loc'[c] = k
      BY <2>9 DEF WinInv
    <3> HIDE DEF k
    <3>3. PacketFits(c)'
      BY <2>2, <2>9, <3>1, <3>2 DEF PacketFits
    <3> QED BY <2>1, <2>2, <2>7, <2>9, <3>1, <3>2, <3>3, InsideKeeps
  <2> QED BY <2>6, <2>8, <2>9
<1>2. ASSUME NEW c \in Contexts, TimerStop(c)
       PROVE  WinInv'
  <2>1. /\ pc[c] = "stop" /\ Goto(c, "start") /\ UNCHANGED <<tbl, loc, left, op>>
        /\ pc'[c] = "start" /\ tbl # NoTbl /\ InPkt(c)
    BY <1>2 DEF TimerStop, Goto, ShapeInv, InPkt
  <2>2. WellFormed(tbl) /\ loc[c] \in Locals /\ loc' = [loc EXCEPT ![c] = loc[c]]
    BY <2>1 DEF WinInv
  <2>3. Pending(c)' => PacketFits(c)'
    BY <2>1 DEF Pending, PacketFits, WinInv
  <2> QED BY <2>1, <2>2, <2>3, InsideKeeps
<1>3. ASSUME NEW c \in Contexts, TimerStart(c)
       PROVE  WinInv'
  <2>1. pc[c] = "start" /\ tbl # NoTbl /\ InPkt(c) /\ UNCHANGED <<left, op>>
    BY <1>3 DEF TimerStart, ShapeInv, InPkt
  <2>2. tbl' = [tbl EXCEPT !.isset = TRUE]
    BY <1>3 DEF TimerStart
  <2>3. WellFormed(tbl) /\ loc[c] \in Locals
    BY <2>1 DEF WinInv
  <2>4. WellFormed(tbl') /\ tbl'.wsize = tbl.wsize /\ tbl'.start = tbl.start
        /\ tbl'.check = tbl.check
    BY <2>2, <2>3 DEF WellFormed, IsTable, Fields
  <2>5. CASE loc[c].back = "place"
    <3> DEFINE k == [loc[c] EXCEPT !.prev = tbl.start]
    <3>1. k \in Locals /\ k.n = loc[c].n /\ k.type = loc[c].type /\ k.pay = loc[c].pay
          /\ k.prev = tbl.start
      BY <2>3 DEF Locals, WellFormed
    <3>2. Goto(c, "place") /\ loc' = [loc EXCEPT ![c] = k] /\ loc'[c] = k
      BY <1>3, <2>5 DEF TimerStart, WinInv
    <3> HIDE DEF k
    <3>3. PacketFits(c)
      BY <2>1, <2>5 DEF WinInv, Pending
    <3>4. PacketFits(c)'
      BY <2>4, <3>1, <3>2, <3>3 DEF PacketFits
    <3> QED BY <2>1, <2>4, <3>1, <3>2, <3>4, InsideKeeps
  <2>6. CASE loc[c].back # "place"
    <3>1. Goto(c, Return(c)) /\ loc' = [loc EXCEPT ![c] = NoLoc]
      BY <1>3, <2>6 DEF TimerStart
    <3>2. Return(c) # "create" /\ ~Pending(c)'
      BY <3>1 DEF Return, Goto, Pending, ShapeInv
    <3> QED BY <2>1, <2>4, <3>1, <3>2, NoLocTyped, InsideKeeps
  <2> QED BY <2>5, <2>6
<1>4. ASSUME NEW c \in Contexts, Place(c)
       PROVE  WinInv'
  <2>1. InPkt(c) /\ Pending(c) /\ tbl # NoTbl
    BY <1>4 DEF Place, InPkt, Pending, ShapeInv
  <2>2. WellFormed(tbl) /\ PacketFits(c) /\ pc[c] = "place" /\ loc[c] \in Locals
    BY <2>1, <1>4 DEF WinInv, Place
  <2>3. WellFormed(tbl')
    BY <1>4, <2>2, PlaceWell DEF PacketFits
  <2>4. \E l \in {"scan", "settle"} : Goto(c, l)
    BY <1>4 DEF Place, Gone
  <2>5. UNCHANGED <<left, op>> /\ (loc' = loc \/ loc' = [loc EXCEPT ![c].pay = Empty])
    BY <1>4 DEF Place, Gone
  <2>6. \E k \in Locals : loc' = [loc EXCEPT ![c] = k]
    <3>1. [loc[c] EXCEPT !.pay = Empty] \in Locals
      BY <2>2 DEF Locals
    <3> QED BY <2>2, <2>5, <3>1 DEF WinInv
  <2>7. ~Pending(c)'
    BY <2>4 DEF Pending, Goto, ShapeInv
  <2> QED BY <2>1, <2>3, <2>4, <2>5, <2>6, <2>7, InsideKeeps
<1>5. ASSUME NEW c \in Contexts, Scan(c)
       PROVE  WinInv'
  <2>1. InPkt(c) /\ tbl # NoTbl /\ Goto(c, "settle") /\ UNCHANGED <<left, op, loc>>
    BY <1>5 DEF Scan, InPkt, ShapeInv
  <2>2. WellFormed(tbl') /\ loc[c] \in Locals /\ loc' = [loc EXCEPT ![c] = loc[c]]
    BY <1>5, <2>1, ScanWell DEF Scan, WinInv
  <2>3. ~Pending(c)'
    BY <2>1 DEF Pending, Goto, ShapeInv
  <2> QED BY <2>1, <2>2, <2>3, InsideKeeps
<1>6. ASSUME NEW c \in Contexts, Settle(c)
       PROVE  WinInv'
  <2>1. InPkt(c) /\ tbl # NoTbl /\ UNCHANGED <<left, op>>
    BY <1>6 DEF Settle, InPkt, ShapeInv
  <2>2. WellFormed(tbl) /\ loc[c] \in Locals
    BY <2>1 DEF WinInv
  <2>3. /\ tbl' = tbl \/ tbl' = [tbl EXCEPT !.isset = FALSE]
        /\ \/ loc' = [loc EXCEPT ![c].back = "return"] /\ Goto(c, "stop")
           \/ loc' = [loc EXCEPT ![c] = NoLoc] /\ Goto(c, Return(c))
    BY <1>6 DEF Settle
  <2>4. WellFormed(tbl')
    <3>1. CASE tbl' = [tbl EXCEPT !.isset = FALSE]
      BY <2>2, <3>1 DEF WellFormed, IsTable, Fields
    <3> QED BY <2>2, <2>3, <3>1
  <2>5. CASE loc' = [loc EXCEPT ![c].back = "return"] /\ Goto(c, "stop")
    <3> DEFINE k == [loc[c] EXCEPT !.back = "return"]
    <3>1. k \in Locals /\ k.back = "return"
      BY <2>2 DEF Locals
    <3>2. loc' = [loc EXCEPT ![c] = k] /\ loc'[c] = k
      BY <2>5 DEF WinInv
    <3> HIDE DEF k
    <3>3. ~Pending(c)'
      BY <2>5, <3>1, <3>2 DEF Pending, Goto, ShapeInv
    <3> QED BY <2>1, <2>4, <2>5, <3>1, <3>2, <3>3, InsideKeeps
  <2>6. CASE loc' = [loc EXCEPT ![c] = NoLoc] /\ Goto(c, Return(c))
    <3>1. Return(c) # "create" /\ ~Pending(c)'
      BY <2>6 DEF Return, Goto, Pending, ShapeInv
    <3> QED BY <2>1, <2>4, <2>6, <3>1, NoLocTyped, InsideKeeps
  <2> QED BY <2>3, <2>5, <2>6
<1>7. CASE TimerFires
  <2>1. UNCHANGED <<tbl, loc, op, left>>
    BY <1>7 DEF TimerFires
  <2>2. /\ pc'["main"] = "create" => pc["main"] = "create"
        /\ \A c \in Contexts : Pending(c)' =>
             Pending(c) /\ (pc'[c] = "place" => pc[c] = "place")
    BY <1>7, <2>1 DEF TimerFires, Pending, Goto, ShapeInv
  <2>3. left' \in Load /\ (tbl' # NoTbl => WellFormed(tbl'))
    BY <2>1 DEF WinInv
  <2> QED BY <2>1, <2>2, <2>3, OutsideKeeps
<1>8. CASE HandlerEnters
  <2>1. UNCHANGED <<tbl, loc, op, left>>
    BY <1>8 DEF HandlerEnters
  <2>2. /\ pc'["main"] = "create" => pc["main"] = "create"
        /\ \A c \in Contexts : Pending(c)' =>
             Pending(c) /\ (pc'[c] = "place" => pc[c] = "place")
    BY <1>8, <2>1 DEF HandlerEnters, Pending, Goto, ShapeInv
  <2>3. left' \in Load /\ (tbl' # NoTbl => WellFormed(tbl'))
    BY <2>1 DEF WinInv
  <2> QED BY <2>1, <2>2, <2>3, OutsideKeeps
<1>9. CASE HandlerFlags
  <2>1. tbl # NoTbl /\ UNCHANGED <<pc, loc, op, left>>
    BY <1>9 DEF HandlerFlags
  <2>2. /\ WellFormed(tbl') /\ tbl'.wsize = tbl.wsize /\ tbl'.start = tbl.start
        /\ tbl'.check = tbl.check
    <3>1. WellFormed(tbl)
      BY <2>1 DEF WinInv
    <3> QED BY <1>9, <3>1 DEF HandlerFlags, WellFormed, IsTable, Fields
  <2>3. left' \in Load
    BY <2>1 DEF WinInv
  <2>4. \A c \in Contexts : Pending(c)' => Pending(c)
    BY <2>1 DEF Pending
  <2> QED BY <2>1, <2>2, <2>3, <2>4, OutsideKeeps
<1>10. CASE HandlerUnsets
  <2>1. tbl # NoTbl /\ UNCHANGED <<pc, loc, op, left>>
    BY <1>10 DEF HandlerUnsets
  <2>2. /\ WellFormed(tbl') /\ tbl'.wsize = tbl.wsize /\ tbl'.start = tbl.start
        /\ tbl'.check = tbl.check
    <3>1. WellFormed(tbl)
      BY <2>1 DEF WinInv
    <3> QED BY <1>10, <3>1 DEF HandlerUnsets, WellFormed, IsTable, Fields
  <2>3. left' \in Load
    BY <2>1 DEF WinInv
  <2>4. \A c \in Contexts : Pending(c)' => Pending(c)
    BY <2>1 DEF Pending
  <2> QED BY <2>1, <2>2, <2>3, <2>4, OutsideKeeps
<1>11. CASE HandlerEnds
  <2>1. UNCHANGED <<tbl, loc, op, left>>
    BY <1>11 DEF HandlerEnds
  <2>2. /\ pc'["main"] = "create" => pc["main"] = "create"
        /\ \A c \in Contexts : Pending(c)' =>
             Pending(c) /\ (pc'[c] = "place" => pc[c] = "place")
    BY <1>11, <2>1 DEF HandlerEnds, Pending, Goto, ShapeInv
  <2>3. left' \in Load /\ (tbl' # NoTbl => WellFormed(tbl'))
    BY <2>1 DEF WinInv
  <2> QED BY <2>1, <2>2, <2>3, OutsideKeeps
<1>12. CASE Arrive
  <2>1. UNCHANGED <<tbl, loc, op, left>>
    BY <1>12 DEF Arrive
  <2>2. /\ pc'["main"] = "create" => pc["main"] = "create"
        /\ \A c \in Contexts : Pending(c)' =>
             Pending(c) /\ (pc'[c] = "place" => pc[c] = "place")
    BY <1>12, <2>1 DEF Arrive, Pending, Goto, ShapeInv
  <2>3. left' \in Load /\ (tbl' # NoTbl => WellFormed(tbl'))
    BY <2>1 DEF WinInv
  <2> QED BY <2>1, <2>2, <2>3, OutsideKeeps
<1>13. CASE RxStart
  <2>1. UNCHANGED <<tbl, loc, op, left>>
    BY <1>13 DEF RxStart
  <2>2. /\ pc'["main"] = "create" => pc["main"] = "create"
        /\ \A c \in Contexts : Pending(c)' =>
             Pending(c) /\ (pc'[c] = "place" => pc[c] = "place")
    BY <1>13, <2>1 DEF RxStart, Pending, Goto, ShapeInv
  <2>3. left' \in Load /\ (tbl' # NoTbl => WellFormed(tbl'))
    BY <2>1 DEF WinInv
  <2> QED BY <2>1, <2>2, <2>3, OutsideKeeps
<1>14. CASE RxFlush
  <2>1. pc["rx"] = "top" /\ Goto("rx", "dequeue") /\ UNCHANGED <<loc, op, left>>
    BY <1>14 DEF RxFlush
  <2>2. \A c \in Contexts : ~Pending(c)'
    BY <2>1 DEF Pending, Goto, ShapeInv, InPkt
  <2>3. tbl' # NoTbl => WellFormed(tbl')
    <3>1. tbl' = tbl \/ (tbl # NoTbl /\ tbl' = TakeFlush(tbl).tbl)
      BY <1>14 DEF RxFlush
    <3> QED BY <3>1, FlushWell DEF WinInv
  <2>4. left' \in Load /\ (pc'["main"] = "create" => pc["main"] = "create")
    BY <2>1 DEF WinInv, Goto, ShapeInv
  <2> QED BY <2>1, <2>2, <2>3, <2>4, OutsideKeeps
<1>15. CASE RxEmpty
  <2>1. UNCHANGED <<tbl, loc, op, left>>
    BY <1>15 DEF RxEmpty
  <2>2. /\ pc'["main"] = "create" => pc["main"] = "create"
        /\ \A c \in Contexts : Pending(c)' =>
             Pending(c) /\ (pc'[c] = "place" => pc[c] = "place")
    BY <1>15, <2>1 DEF RxEmpty, Pending, Goto, ShapeInv
  <2>3. left' \in Load /\ (tbl' # NoTbl => WellFormed(tbl'))
    BY <2>1 DEF WinInv
  <2> QED BY <2>1, <2>2, <2>3, OutsideKeeps
<1>16. ASSUME NEW n \in Numbers, NEW type \in {"data", "amsdu", "bar"},
         RxPacket(n, type)
       PROVE  WinInv'
  <2> DEFINE pay == IF type = "bar" THEN Empty ELSE n
  <2>1. pc["rx"] = "dequeue" /\ left' = left
    BY <1>16 DEF RxPacket
  <2>2. \A d \in Contexts : ~InPkt(d)
    BY <2>1 DEF ShapeInv, InPkt
  <2>3. \/ Goto("rx", "top") /\ UNCHANGED <<tbl, loc, op>>
        \/ tbl # NoTbl /\ ~(tbl.wsize <= 1) /\ Admit("rx", n, type, pay)
    BY <1>16 DEF RxPacket
  <2>4. CASE Goto("rx", "top") /\ UNCHANGED <<tbl, loc, op>>
    <3>1. /\ pc'["main"] = "create" => pc["main"] = "create"
          /\ \A c \in Contexts : ~Pending(c)'
      BY <2>2, <2>4 DEF Goto, ShapeInv, Pending, InPkt
    <3>2. left' \in Load /\ (tbl' # NoTbl => WellFormed(tbl'))
      BY <2>1, <2>4 DEF WinInv
    <3> QED BY <2>4, <3>1, <3>2, OutsideKeeps
  <2>5. CASE tbl # NoTbl /\ ~(tbl.wsize <= 1) /\ Admit("rx", n, type, pay)
    <3>1. tbl.wsize > 1
      BY <2>5 DEF WinInv, WellFormed, IsTable
    <3>2. pay \in Numbers \cup {Empty, FwDrop} /\ (type # "bar" => pay \in {n, FwDrop})
      OBVIOUS
    <3> HIDE DEF pay
    <3>3. /\ WellFormed(tbl') /\ loc' \in [Contexts -> Locals] /\ op' = op
          /\ pc["main"] # "create" => pc'["main"] # "create"
          /\ \A d \in Contexts : Pending(d)' => PacketFits(d)'
      BY <2>2, <2>5, <3>1, <3>2, AdmitWell
    <3> QED BY <2>1, <3>3 DEF WinInv
  <2> QED BY <2>3, <2>4, <2>5
<1>17. ASSUME NEW n \in Numbers, NEW win \in UNION {l.wins : l \in Loads}, AddBa(n, win)
       PROVE  WinInv'
  <2>1. /\ left.ba > 0 /\ left' = [left EXCEPT !.ba = @ - 1]
        /\ op' = [ssn |-> SeqOf(n), win |-> win] /\ UNCHANGED loc
        /\ Goto("main", "create") /\ pc["main"] = "idle"
    BY <1>17 DEF AddBa, MainFree
  <2>2. \/ UNCHANGED tbl
        \/ tbl' = NoTbl /\ pc["rx"] = "idle"
    BY <1>17 DEF AddBa, DeleteTbl, RxBlocked
  <2>3. left' \in Load
    BY <2>1 DEF WinInv, Load
  <2>4. op'.ssn \in 0 .. MAX_TID_VALUE - 1 /\ op'.win \in Nat \ {0} /\ op'.win <= Bits
        /\ 2 * op'.win < MAX_TID_VALUE
    <3>1. win \in Nat \ {0} /\ 2 * win < MAX_TID_VALUE /\ win <= Bits
      BY Sizes DEF WinsFit
    <3>2. SeqOf(n) \in 0 .. MAX_TID_VALUE - 1
      BY NumbersNat
    <3> QED BY <2>1, <3>1, <3>2
  <2>5. \A c \in Contexts : Pending(c)' => PacketFits(c)'
    <3>1. \A c \in Contexts : Pending(c)' => Pending(c) /\ pc'[c] = pc[c] /\ tbl' = tbl
      BY <2>1, <2>2 DEF Pending, Goto, ShapeInv
    <3> QED BY <2>1, <3>1 DEF WinInv, PacketFits
  <2> QED BY <2>1, <2>2, <2>3, <2>4, <2>5 DEF WinInv
<1>18. ASSUME NEW last \in LastSeqs, Create(last)
       PROVE  WinInv'
  <2>1. /\ pc["main"] = "create" /\ pc["rx"] = "idle" /\ Goto("main", "idle")
        /\ tbl' = NewTbl(op.ssn, op.win, last) /\ UNCHANGED <<loc, op, left>>
    BY <1>18 DEF Create, RxBlocked
  <2>2. /\ op.win \in Nat \ {0} /\ op.win <= Bits /\ 2 * op.win < MAX_TID_VALUE
        /\ op.ssn \in 0 .. MAX_TID_VALUE - 1 /\ left \in Load
    BY <2>1 DEF WinInv
  <2>3. last \in 0 .. MAX_TID_VALUE - 1 \cup {DEFAULT_SEQ_NUM}
    <3>1. Frames \subseteq Nat
      BY <2>2 DEF Frames, Load
    <3>2. \A k \in Nat : SeqOf(k) \in 0 .. MAX_TID_VALUE - 1
      BY Sizes DEF SeqOf
    <3> QED BY <3>1, <3>2 DEF LastSeqs
  <2>4. WellFormed(tbl')
    BY <2>1, <2>2, <2>3, NewTblWell
  <2>5. \A c \in Contexts : ~Pending(c)'
    BY <2>1 DEF Pending, Goto, ShapeInv
  <2>6. pc'["main"] = "idle"
    BY <2>1 DEF Goto, ShapeInv
  <2> QED BY <2>1, <2>2, <2>4, <2>5, <2>6, OutsideKeeps
<1>19. CASE CreateFails
  <2>1. UNCHANGED <<tbl, loc, op, left>>
    BY <1>19 DEF CreateFails
  <2>2. /\ pc'["main"] = "create" => pc["main"] = "create"
        /\ \A c \in Contexts : Pending(c)' =>
             Pending(c) /\ (pc'[c] = "place" => pc[c] = "place")
    BY <1>19, <2>1 DEF CreateFails, Pending, Goto, ShapeInv
  <2>3. left' \in Load /\ (tbl' # NoTbl => WellFormed(tbl'))
    BY <2>1 DEF WinInv
  <2> QED BY <2>1, <2>2, <2>3, OutsideKeeps
<1>20. ASSUME NEW amsdu \in BOOLEAN, AddbaResp(amsdu)
       PROVE  WinInv'
  <2>1. tbl # NoTbl /\ UNCHANGED <<pc, loc, op, left>>
    BY <1>20 DEF AddbaResp
  <2>2. /\ WellFormed(tbl') /\ tbl'.wsize = tbl.wsize /\ tbl'.start = tbl.start
        /\ tbl'.check = tbl.check
    <3>1. WellFormed(tbl)
      BY <2>1 DEF WinInv
    <3> QED BY <1>20, <3>1 DEF AddbaResp, WellFormed, IsTable, Fields
  <2>3. left' \in Load
    BY <2>1 DEF WinInv
  <2>4. \A c \in Contexts : Pending(c)' => Pending(c)
    BY <2>1 DEF Pending
  <2> QED BY <2>1, <2>2, <2>3, <2>4, OutsideKeeps
<1>21. CASE Delba
  <2>1. /\ pc["main"] = "idle" /\ pc["rx"] = "idle" /\ tbl' = NoTbl
        /\ UNCHANGED <<pc, loc, op, left>>
    BY <1>21 DEF Delba, MainFree, DeleteTbl, RxBlocked
  <2>2. \A c \in Contexts : ~Pending(c)'
    BY <2>1 DEF Pending
  <2>3. left' \in Load
    BY <2>1 DEF WinInv
  <2> QED BY <2>1, <2>2, <2>3, OutsideKeeps
<1>22. CASE SetNoDrop
  <2>1. tbl # NoTbl /\ UNCHANGED <<pc, loc, op>>
    BY <1>22 DEF SetNoDrop
  <2>2. /\ WellFormed(tbl') /\ tbl'.wsize = tbl.wsize /\ tbl'.start = tbl.start
        /\ tbl'.check = tbl.check
    <3>1. WellFormed(tbl)
      BY <2>1 DEF WinInv
    <3> QED BY <1>22, <3>1 DEF SetNoDrop, WellFormed, IsTable, Fields
  <2>3. left' \in Load
    BY <1>22 DEF SetNoDrop, WinInv, Load
  <2>4. \A c \in Contexts : Pending(c)' => Pending(c)
    BY <2>1 DEF Pending
  <2> QED BY <2>1, <2>2, <2>3, <2>4, OutsideKeeps
<1>23. ASSUME NEW n \in Numbers, SyncPacket(n)
       PROVE  WinInv'
  <2>1. /\ pc["main"] = "idle" /\ pc["rx"] = "idle" /\ tbl # NoTbl /\ tbl.wsize > 1
        /\ left.sync > 0 /\ left' = [left EXCEPT !.sync = @ - 1]
        /\ Admit("main", n, "data", FwDrop)
    BY <1>23 DEF SyncPacket, MainFree, RxBlocked
  <2>2. \A d \in Contexts : ~InPkt(d)
    BY <2>1 DEF InPkt
  <2>3. /\ WellFormed(tbl') /\ loc' \in [Contexts -> Locals] /\ op' = op
        /\ pc["main"] # "create" => pc'["main"] # "create"
        /\ \A d \in Contexts : Pending(d)' => PacketFits(d)'
    BY <2>1, <2>2, AdmitWell
  <2>4. left' \in Load
    BY <2>1 DEF WinInv, Load
  <2> QED BY <2>3, <2>1, <2>4 DEF WinInv
<1>24. CASE UNCHANGED vars
  <2>1. UNCHANGED <<tbl, loc, op, left>>
    BY <1>24 DEF vars
  <2>2. /\ pc'["main"] = "create" => pc["main"] = "create"
        /\ \A c \in Contexts : Pending(c)' =>
             Pending(c) /\ (pc'[c] = "place" => pc[c] = "place")
    BY <1>24, <2>1 DEF vars, Pending, Goto, ShapeInv
  <2>3. left' \in Load /\ (tbl' # NoTbl => WellFormed(tbl'))
    BY <2>1 DEF WinInv
  <2> QED BY <2>1, <2>2, <2>3, OutsideKeeps
<1> QED BY <1>1, <1>2, <1>3, <1>4, <1>5, <1>6, <1>7, <1>8, <1>9, <1>10, <1>11,
   <1>12, <1>13, <1>14, <1>15, <1>16, <1>17, <1>18, <1>19, <1>20, <1>21, <1>22,
   <1>23, <1>24
    DEF Next, PktStep, Handler

\* A flush empties the buffer.
LEMMA FlushEmpties ==
  ASSUME NEW t, WellFormed(t)
  PROVE  LET f == TakeFlush(t).tbl
         IN /\ ~f.flush
            /\ t.flush => f.bits = {}
            /\ ~t.flush => f = t
<1> DEFINE u == [t EXCEPT !.flush = FALSE]
           full == {i \in 0 .. u.wsize - 1 : u.slot[i] # Empty}
           last == CHOOSE i \in full : \A j \in full : j <= i
           new == Mask(u.start + last + 1)
           f == TakeFlush(t).tbl
<1>1. WellFormed(u) /\ ~u.flush /\ t.flush \in BOOLEAN
  BY DEF WellFormed, IsTable, Fields
<1>2. CASE ~t.flush
  BY <1>2 DEF TakeFlush
<1>3. CASE t.flush /\ full = {}
  <2>1. f = u
    BY <1>3 DEF StartFlush, TakeFlush
  <2>2. u.bits = full
    BY <1>1 DEF WellFormed
  <2> QED BY <1>1, <1>3, <2>1, <2>2
<1>4. CASE t.flush /\ full # {}
  <2>1. u.wsize \in Nat /\ u.wsize > 0 /\ u.start \in 0 .. MAX_TID_VALUE
        /\ 2 * u.wsize < MAX_TID_VALUE
    BY <1>1 DEF WellFormed, IsTable
  <2>2. full \in SUBSET (0 .. u.wsize - 1) /\ u.wsize - 1 \in Nat /\ u.bits = full
    BY <1>1, <2>1 DEF WellFormed
  <2>3. f = DispatchUntil(u, new).tbl
    BY <1>4 DEF StartFlush, TakeFlush
  <2> HIDE DEF full, u, f
  <2>4. \E i \in full : \A j \in full : j <= i
    BY <1>4, <2>2, Greatest
  <2>5. last \in full /\ \A j \in full : j <= last
    BY <2>4
  <2> HIDE DEF last
  <2>6. last \in 0 .. u.wsize - 1
    BY <2>2, <2>5
  <2>7. new = u.start + last + 1 \/ new = u.start + last + 1 - MAX_TID_VALUE
    <3> DEFINE x == u.start + last + 1
    <3>1. x \in 0 .. 2 * MAX_TID_VALUE - 1
      BY <2>1, <2>6, Sizes
    <3>2. new = Mask(x)
      OBVIOUS
    <3> HIDE DEF x, new
    <3>3. new = x \/ new = x - MAX_TID_VALUE
      BY <3>1, <3>2, Sizes, Wraps
    <3> QED BY <3>3, <2>1, <2>6, Sizes DEF x
  <2> DEFINE k == NoPktToSend(u, new)
  <2>8. k > last
    <3> HIDE DEF new
    <3> QED BY <2>1, <2>6, <2>7, Sizes DEF NoPktToSend
  <2>9. f.bits = {b - k : b \in {x \in u.bits : x >= k}} /\ f.flush = u.flush
    <3>1. f = [Rotate(u, k) EXCEPT !.start = new]
      BY <2>3 DEF DispatchUntil
    <3> HIDE DEF new, k
    <3> QED BY <1>1, <3>1 DEF Rotate, WellFormed, IsTable, Fields
  <2>10. k \in Int
    <3> HIDE DEF new
    <3> QED BY <2>1, <2>6, <2>7, Sizes DEF NoPktToSend
  <2> HIDE DEF k
  <2>11. \A x \in u.bits : ~(x >= k)
    BY <2>2, <2>5, <2>6, <2>8, <2>10
  <2>12. f.bits = {}
    BY <2>9, <2>11
  <2> QED BY <1>1, <1>4, <2>9, <2>12 DEF f
<1> QED BY <1>1, <1>2, <1>3, <1>4

\* mlan_11n_rxreorder_pkt obeys the flush flag before it returns or goes on.
LEMMA AdmitFlags ==
  ASSUME WellFormed(tbl), NEW c, NEW n \in Numbers, NEW type, NEW pay,
         Admit(c, n, type, pay)
  PROVE  /\ Kept(tbl, tbl') /\ ~tbl'.flush
         /\ tbl.flush => tbl'.bits = {}
         /\ ~tbl.flush => tbl'.bits = tbl.bits
         /\ UNCHANGED <<timer, hand, aflush, raced>>
         /\ \E l \in {Return(c), "resync"} : Goto(c, l)
<1> DEFINE f == TakeFlush(tbl).tbl
           g == [f EXCEPT !.count = @ + 1, !.last = SeqOf(n)]
           h == Checked(f, SeqOf(n))
<1>1. IsTable(tbl)
  BY DEF WellFormed
<1>2. Kept(tbl, tbl')
  BY <1>1, AdmitKeeps
<1>3. tbl' = f \/ tbl' = g \/ tbl' = h
  BY DEF Admit
<1>4. IsTable(f) /\ ~f.flush /\ (tbl.flush => f.bits = {}) /\ (~tbl.flush => f = tbl)
  BY <1>1, FlushEmpties, FlushKeeps DEF Kept
<1> HIDE DEF f
<1>5. g.flush = f.flush /\ g.bits = f.bits /\ h.flush = f.flush /\ h.bits = f.bits
  BY <1>4 DEF Checked, IsTable, Fields
<1> HIDE DEF g, h
<1>6. /\ UNCHANGED <<timer, hand, aflush, raced>>
      /\ \E l \in {Return(c), "resync"} : Goto(c, l)
  BY DEF Admit
<1> QED BY <1>2, <1>3, <1>4, <1>5, <1>6

\* A step of a packet that stays inside and leaves the timer alone.
LEMMA InsideExit ==
  ASSUME ShapeInv, ExitInv, NEW c \in Contexts, InPkt(c), pc[c] # "start",
         NEW l \in {"stop", "place", "scan", "settle"}, Goto(c, l),
         IsTable(tbl), Kept(tbl, tbl'), UNCHANGED <<timer, hand, aflush, raced>>
  PROVE  ExitInv'
<1>1. Busy'
  BY DEF Busy, InPkt, Goto, ShapeInv, Contexts
<1>2. tbl # NoTbl
  BY TableIsOne
<1>3. (\A d \in Contexts : pc'[d] # "start") => \A d \in Contexts : pc[d] # "start"
  BY DEF Goto, ShapeInv
<1> QED BY <1>1, <1>2, <1>3 DEF ExitInv, Kept

\* A packet that is admitted, or passed or dropped at once.
LEMMA AdmitExit ==
  ASSUME ShapeInv, WinInv, ExitInv, NEW c \in Contexts, ~Busy, pc[c] # "start",
         NEW n \in Numbers, NEW type, NEW pay, tbl # NoTbl, Admit(c, n, type, pay)
  PROVE  ExitInv'
<1>1. WellFormed(tbl)
  BY DEF WinInv
<1>2. /\ Kept(tbl, tbl') /\ ~tbl'.flush
      /\ tbl.flush => tbl'.bits = {}
      /\ ~tbl.flush => tbl'.bits = tbl.bits
      /\ UNCHANGED <<timer, hand, aflush, raced>>
      /\ \E l \in {Return(c), "resync"} : Goto(c, l)
  BY <1>1, AdmitFlags
<1>3. (\A d \in Contexts : pc'[d] # "start") => \A d \in Contexts : pc[d] # "start"
  BY <1>2 DEF Goto, ShapeInv
<1> QED BY <1>2, <1>3 DEF ExitInv, HasExit, Kept

\* Deleting the table leaves nothing to release.
LEMMA DeleteExit ==
  ASSUME ~Napi, ShapeInv, TimerInv, DeleteTbl, UNCHANGED <<hand, aflush>>
  PROVE  ExitInv'
<1>1. ~timer'.armed /\ hand \in {"idle", "tail"}
  BY DeletedQuiet DEF ShapeInv
<1>2. tbl' = NoTbl /\ raced' = FALSE
  BY DEF DeleteTbl
<1> QED BY <1>1, <1>2 DEF ExitInv

\* What is buffered keeps an exit.
LEMMA ExitKept ==
  ASSUME ~Napi, ~SyncRaces, ShapeInv, TimerInv, WinInv, ExitInv, [Next]_vars
  PROVE  ExitInv'
<1> USE DEF Contexts
<1>1. ASSUME NEW c \in Contexts, Resync(c)
       PROVE  ExitInv'
  <2>1. InPkt(c) /\ pc[c] # "start" /\ IsTable(tbl)
    BY <1>1 DEF Resync, InPkt, ShapeInv
  <2>2. Kept(tbl, tbl')
    BY <1>1, <2>1, ResyncKeeps DEF Kept
  <2>3. UNCHANGED <<timer, hand, aflush, raced>>
    BY <1>1 DEF Resync
  <2>4. \E l \in {"stop", "place"} : Goto(c, l)
    BY <1>1 DEF Resync, Gone
  <2> QED BY <2>1, <2>2, <2>3, <2>4, InsideExit
<1>2. ASSUME NEW c \in Contexts, TimerStop(c)
       PROVE  ExitInv'
  <2>1. /\ pc[c] = "stop" /\ Goto(c, "start") /\ tbl # NoTbl
        /\ IF tbl.isset THEN MayCancel(c) /\ timer' = Canceled ELSE UNCHANGED timer
        /\ UNCHANGED <<tbl, hand, aflush, raced>>
    BY <1>2 DEF TimerStop, ShapeInv, InPkt
  <2>2. Busy' /\ pc'[c] = "start"
    BY <2>1 DEF Busy, InPkt, Goto, ShapeInv
  <2>3. timer' = timer \/ (~timer'.armed /\ hand' = "idle")
    BY <2>1, CanceledIs DEF MayCancel
  <2> QED BY <2>1, <2>2, <2>3 DEF ExitInv
<1>3. ASSUME NEW c \in Contexts, TimerStart(c)
       PROVE  ExitInv'
  <2>1. /\ UNCHANGED <<hand, aflush>> /\ raced' = (hand # "idle")
        /\ timer' = [armed |-> TRUE, canceled |-> FALSE, period |-> TRUE]
    BY <1>3 DEF TimerStart
  <2> QED BY <2>1 DEF ExitInv, HasExit
<1>4. ASSUME NEW c \in Contexts, Place(c)
       PROVE  ExitInv'
  <2>1. InPkt(c) /\ pc[c] # "start" /\ IsTable(tbl)
    BY <1>4 DEF Place, InPkt, ShapeInv
  <2>2. Kept(tbl, tbl')
    BY <1>4, <2>1, PlaceKeeps DEF Kept
  <2>3. UNCHANGED <<timer, hand, aflush, raced>>
    BY <1>4 DEF Place
  <2>4. \E l \in {"scan", "settle"} : Goto(c, l)
    BY <1>4 DEF Place, Gone
  <2> QED BY <2>1, <2>2, <2>3, <2>4, InsideExit
<1>5. ASSUME NEW c \in Contexts, Scan(c)
       PROVE  ExitInv'
  <2>1. InPkt(c) /\ pc[c] # "start" /\ IsTable(tbl)
    BY <1>5 DEF Scan, InPkt, ShapeInv
  <2>2. Kept(tbl, tbl')
    BY <1>5, <2>1, ScanKeeps DEF Kept, Scan
  <2>3. UNCHANGED <<timer, hand, aflush, raced>>
    BY <1>5 DEF Scan
  <2>4. \E l \in {"settle"} : Goto(c, l)
    BY <1>5 DEF Scan, Gone
  <2> QED BY <2>1, <2>2, <2>3, <2>4, InsideExit
<1>6. ASSUME NEW c \in Contexts, Settle(c)
       PROVE  ExitInv'
  <2>1. /\ pc[c] = "settle" /\ InPkt(c) /\ IsTable(tbl) /\ UNCHANGED <<hand, aflush>>
    BY <1>6 DEF Settle, ShapeInv, InPkt
  <2>2. \A d \in Contexts : pc[d] # "start"
    BY <2>1, OnePacket DEF InPkt
  <2>3. \/ /\ tbl.bits # {} /\ NeedsRestart(c) /\ Goto(c, "stop")
           /\ UNCHANGED <<tbl, timer, raced>>
        \/ /\ ~(tbl.bits # {} /\ NeedsRestart(c)) /\ ~(tbl.bits = {} /\ tbl.isset)
           /\ UNCHANGED <<tbl, timer>>
           /\ raced' = (raced \/ (tbl.bits # {} /\ hand = "unset" /\ ~tbl.flush))
        \/ /\ tbl.bits = {} /\ MayCancel(c) /\ timer' = Canceled
           /\ tbl' = [tbl EXCEPT !.isset = FALSE]
           /\ raced' = (raced \/ (tbl.bits # {} /\ hand = "unset" /\ ~tbl.flush))
    BY <1>6 DEF Settle
  <2>4. CASE Goto(c, "stop") /\ UNCHANGED <<tbl, timer, raced>>
    <3>1. Kept(tbl, tbl')
      BY <2>1, <2>4 DEF Kept
    <3> QED BY <2>1, <2>4, <3>1, InsideExit
  <2>5. CASE /\ ~(tbl.bits # {} /\ NeedsRestart(c)) /\ ~(tbl.bits = {} /\ tbl.isset)
             /\ UNCHANGED <<tbl, timer>>
             /\ raced' = (raced \/ (tbl.bits # {} /\ hand = "unset" /\ ~tbl.flush))
    <3>1. tbl # NoTbl /\ tbl.isset \in BOOLEAN /\ tbl.flush \in BOOLEAN
      BY <2>1, TableIsOne DEF IsTable
    <3>2. tbl.bits # {} => tbl.isset
      BY <2>5, <3>1 DEF NeedsRestart
    <3>3. ~raced' /\ tbl.bits # {} => HasExit
      BY <2>2, <2>5, <3>1, <3>2 DEF ExitInv, HasExit
    <3>4. raced' \in BOOLEAN /\ (~raced' => ~raced)
      BY <2>5 DEF ExitInv
    <3>5. HasExit' = HasExit
      BY <2>1, <2>5 DEF HasExit
    <3> QED BY <2>1, <2>2, <2>5, <3>3, <3>4, <3>5 DEF ExitInv
  <2>6. CASE /\ tbl.bits = {} /\ MayCancel(c) /\ timer' = Canceled
             /\ tbl' = [tbl EXCEPT !.isset = FALSE]
             /\ raced' = (raced \/ (tbl.bits # {} /\ hand = "unset" /\ ~tbl.flush))
    <3>1. ~tbl'.isset /\ tbl'.bits = {}
      BY <2>1, <2>6 DEF IsTable, Fields
    <3>2. ~timer'.armed /\ hand' = "idle"
      BY <2>1, <2>6, CanceledIs DEF MayCancel
    <3>3. raced' \in BOOLEAN
      BY <2>6 DEF ExitInv
    <3> QED BY <3>1, <3>2, <3>3 DEF ExitInv
  <2> QED BY <2>3, <2>4, <2>5, <2>6
<1>7. CASE TimerFires
  BY <1>7
    DEF TimerFires, ExitInv, TimerInv, HasExit, Busy, InPkt
<1>8. CASE HandlerEnters
  BY <1>8
    DEF HandlerEnters, ExitInv, TimerInv, HasExit, Busy, InPkt
<1>9. CASE HandlerFlags
  <2>1. /\ hand = "table" /\ tbl # NoTbl /\ hand' = "unset"
        /\ tbl' = [tbl EXCEPT !.flush = TRUE]
        /\ UNCHANGED <<timer, aflush, pc, raced>>
    BY <1>9 DEF HandlerFlags
  <2>2. IsTable(tbl)
    BY <2>1 DEF ShapeInv
  <2>3. tbl'.flush /\ tbl'.bits = tbl.bits /\ tbl'.isset = tbl.isset
    BY <2>1, <2>2 DEF IsTable, Fields
  <2>4. ~raced => aflush
    BY <2>1 DEF ExitInv
  <2> QED BY <2>1, <2>3, <2>4 DEF ExitInv, HasExit
<1>10. CASE HandlerUnsets
  <2>1. /\ hand = "unset" /\ tbl # NoTbl /\ hand' = "tail"
        /\ tbl' = [tbl EXCEPT !.isset = FALSE]
        /\ UNCHANGED <<timer, aflush, pc, raced>>
    BY <1>10 DEF HandlerUnsets
  <2>2. IsTable(tbl)
    BY <2>1 DEF ShapeInv
  <2>3. ~tbl'.isset /\ tbl'.bits = tbl.bits /\ tbl'.flush = tbl.flush
    BY <2>1, <2>2 DEF IsTable, Fields
  <2>4. Busy' = Busy
    BY <2>1 DEF Busy, InPkt
  <2> QED BY <2>1, <2>3, <2>4 DEF ExitInv, HasExit
<1>11. CASE HandlerEnds
  BY <1>11
    DEF HandlerEnds, ExitInv, HasExit, Busy, InPkt
<1>12. CASE Arrive
  BY <1>12
    DEF Arrive, ExitInv, HasExit, Busy, InPkt
<1>13. CASE RxStart
  BY <1>13
    DEF RxStart, Goto, ExitInv, ShapeInv, HasExit, Busy, InPkt
<1>14. CASE RxFlush
  <2>1. /\ pc["rx"] = "top" /\ Goto("rx", "dequeue") /\ UNCHANGED <<timer, hand>>
        /\ ~aflush'
        /\ \/ aflush /\ tbl # NoTbl /\ tbl' = TakeFlush(tbl).tbl
              /\ raced' = (raced \/ hand = "table")
           \/ ~(aflush /\ tbl # NoTbl) /\ UNCHANGED <<tbl, raced>>
    BY <1>14 DEF RxFlush
  <2>2. ~Busy
    BY <2>1 DEF Busy, InPkt, ShapeInv
  <2>3. (\A c \in Contexts : pc'[c] # "start") => \A c \in Contexts : pc[c] # "start"
    BY <2>1 DEF Goto, ShapeInv
  <2>4. CASE aflush /\ tbl # NoTbl /\ tbl' = TakeFlush(tbl).tbl
             /\ raced' = (raced \/ hand = "table")
    <3>1. WellFormed(tbl) /\ IsTable(tbl)
      BY <2>4 DEF WinInv, WellFormed
    <3>2. /\ Kept(tbl, tbl') /\ ~tbl'.flush
          /\ tbl.flush => tbl'.bits = {}
          /\ ~tbl.flush => tbl'.bits = tbl.bits
      BY <2>4, <3>1, FlushKeeps, FlushEmpties
    <3> QED BY <2>1, <2>2, <2>3, <2>4, <3>2 DEF ExitInv, HasExit, Kept
  <2>5. CASE ~(aflush /\ tbl # NoTbl) /\ UNCHANGED <<tbl, raced>>
    BY <2>1, <2>2, <2>3, <2>5 DEF ExitInv, HasExit, TimerInv
  <2> QED BY <2>1, <2>4, <2>5
<1>15. CASE RxEmpty
  BY <1>15
    DEF RxEmpty, Goto, ExitInv, ShapeInv, HasExit, Busy, InPkt
<1>16. ASSUME NEW n \in Numbers, NEW type \in {"data", "amsdu", "bar"},
         RxPacket(n, type)
       PROVE  ExitInv'
  <2> DEFINE pay == IF type = "bar" THEN Empty ELSE n
  <2>1. pc["rx"] = "dequeue"
    BY <1>16 DEF RxPacket
  <2>2. ~Busy
    BY <2>1 DEF Busy, InPkt, ShapeInv
  <2>3. \/ Goto("rx", "top") /\ UNCHANGED <<tbl, timer, hand, aflush, raced>>
        \/ tbl # NoTbl /\ Admit("rx", n, type, pay)
    BY <1>16 DEF RxPacket
  <2>4. CASE Goto("rx", "top") /\ UNCHANGED <<tbl, timer, hand, aflush, raced>>
    <3>1. (\A c \in Contexts : pc'[c] # "start") => \A c \in Contexts : pc[c] # "start"
      BY <2>1, <2>4 DEF Goto, ShapeInv
    <3> QED BY <2>2, <2>4, <3>1 DEF ExitInv, HasExit
  <2>5. CASE tbl # NoTbl /\ Admit("rx", n, type, pay)
    BY <2>1, <2>2, <2>5, AdmitExit
  <2> QED BY <2>3, <2>4, <2>5
<1>17. ASSUME NEW n \in Numbers, NEW win \in UNION {l.wins : l \in Loads}, AddBa(n, win)
       PROVE  ExitInv'
  <2>1. pc["main"] = "idle" /\ Goto("main", "create") /\ UNCHANGED <<hand, aflush>>
    BY <1>17 DEF AddBa, MainFree
  <2>2. UNCHANGED <<tbl, timer, raced>> \/ DeleteTbl
    BY <1>17 DEF AddBa
  <2>3. CASE UNCHANGED <<tbl, timer, raced>>
    <3>1. Busy' = Busy
      BY <2>1 DEF Busy, InPkt, Goto, ShapeInv
    <3>2. (\A c \in Contexts : pc'[c] # "start") => \A c \in Contexts : pc[c] # "start"
      BY <2>1 DEF Goto, ShapeInv
    <3> QED BY <2>1, <2>3, <3>1, <3>2 DEF ExitInv, HasExit
  <2>4. CASE DeleteTbl
    BY <2>1, <2>4, DeleteExit
  <2> QED BY <2>2, <2>3, <2>4
<1>18. ASSUME NEW last \in LastSeqs, Create(last)
       PROVE  ExitInv'
  <2>1. /\ pc["main"] = "create" /\ tbl' = NewTbl(op.ssn, op.win, last)
        /\ timer' = Canceled /\ UNCHANGED <<hand, raced>>
    BY <1>18 DEF Create
  <2>2. hand \in {"idle", "tail"}
    BY <2>1 DEF ShapeInv, TimerInv
  <2>3. ~tbl'.isset /\ tbl'.bits = {}
    BY <2>1 DEF NewTbl
  <2> QED BY <2>1, <2>2, <2>3, CanceledIs DEF ExitInv
<1>19. CASE CreateFails
  BY <1>19
    DEF CreateFails, Goto, ExitInv, ShapeInv, HasExit, Busy, InPkt
<1>20. ASSUME NEW amsdu \in BOOLEAN, AddbaResp(amsdu)
       PROVE  ExitInv'
  <2>1. IsTable(tbl) /\ UNCHANGED <<timer, hand, aflush, pc, raced>>
    BY <1>20 DEF AddbaResp, ShapeInv
  <2>2. Kept(tbl, tbl') /\ tbl'.bits = tbl.bits
    BY <1>20, <2>1, FlagStepsKeep
  <2>3. tbl'.flush = tbl.flush
    BY <1>20, <2>1 DEF AddbaResp, IsTable, Fields
  <2>4. tbl # NoTbl /\ Busy' = Busy
    BY <1>20, <2>1 DEF AddbaResp, Busy, InPkt
  <2> QED BY <2>1, <2>2, <2>3, <2>4 DEF ExitInv, HasExit, Kept
<1>21. CASE Delba
  <2>1. DeleteTbl /\ UNCHANGED <<hand, aflush>>
    BY <1>21 DEF Delba
  <2> QED BY <2>1, DeleteExit
<1>22. CASE SetNoDrop
  <2>1. IsTable(tbl) /\ UNCHANGED <<timer, hand, aflush, pc, raced>>
    BY <1>22 DEF SetNoDrop, ShapeInv
  <2>2. Kept(tbl, tbl') /\ tbl'.bits = tbl.bits
    BY <1>22, <2>1, FlagStepsKeep
  <2>3. tbl'.flush = tbl.flush
    BY <1>22, <2>1 DEF SetNoDrop, IsTable, Fields
  <2>4. tbl # NoTbl /\ Busy' = Busy
    BY <1>22, <2>1 DEF SetNoDrop, Busy, InPkt
  <2> QED BY <2>1, <2>2, <2>3, <2>4 DEF ExitInv, HasExit, Kept
<1>23. ASSUME NEW n \in Numbers, SyncPacket(n)
       PROVE  ExitInv'
  <2>1. /\ pc["main"] = "idle" /\ pc["rx"] = "idle" /\ tbl # NoTbl
        /\ Admit("main", n, "data", FwDrop)
    BY <1>23 DEF SyncPacket, MainFree, RxBlocked
  <2>2. ~Busy
    BY <2>1 DEF Busy, InPkt
  <2> QED BY <2>1, <2>2, AdmitExit
<1>24. CASE UNCHANGED vars
  BY <1>24
    DEF vars, ExitInv, HasExit, Busy, InPkt
<1> QED BY <1>1, <1>2, <1>3, <1>4, <1>5, <1>6, <1>7, <1>8, <1>9, <1>10, <1>11,
   <1>12, <1>13, <1>14, <1>15, <1>16, <1>17, <1>18, <1>19, <1>20, <1>21, <1>22,
   <1>23, <1>24
    DEF Next, PktStep, Handler

\* Initially there is no table, no packet and no timer.
LEMMA Initially == Init => ShapeInv /\ TimerInv /\ WinInv /\ ExitInv
<1> SUFFICES ASSUME Init PROVE ShapeInv /\ TimerInv /\ WinInv /\ ExitInv
  OBVIOUS
<1>1. pc = [c \in Contexts |-> "idle"] /\ tbl = NoTbl
  BY DEF Init
<1>2. ShapeInv
  BY <1>1 DEF ShapeInv, InPkt, Contexts, Places
<1>3. TimerInv
  BY <1>1 DEF Init, TimerInv, Contexts
<1>4. WinInv
  <2>1. left \in Load /\ op.ssn = 0 /\ loc = [c \in Contexts |-> NoLoc]
    BY ParamsAssumption DEF Init
  <2>2. 0 \in 0 .. MAX_TID_VALUE - 1
    BY Sizes
  <2>3. \A c \in Contexts : ~Pending(c)
    BY <1>1 DEF Pending, Contexts
  <2> QED BY <1>1, <2>1, <2>2, <2>3, NoLocTyped DEF WinInv, Contexts
<1>5. ExitInv
  BY <1>1 DEF Init, ExitInv
<1> QED BY <1>2, <1>3, <1>4, <1>5

\* A freed table is met neither by its timer nor by a handler that would store to
\* it: moal_free_timer waits for every handler wlan_flush_data may still run in.
THEOREM FreedTableUntouchedHolds ==
  ASSUME ~Napi, ~SyncRaces PROVE Spec => []FreedTableUntouched
<1> DEFINE Inv == ShapeInv /\ TimerInv
<1>1. Init => Inv
  BY Initially
<1>2. Inv /\ [Next]_vars => Inv'
  BY ShapeKept, TimerKept
<1>3. Inv => FreedTableUntouched
  BY DEF TimerInv, FreedTableUntouched
<1> QED BY <1>1, <1>2, <1>3, PTL DEF Spec

\* Every buffered frame is in the slot of its sequence number and has its bit, across
\* the wrap, host sleep, flushes, BARs and duplicates.
THEOREM WindowAgreesHolds ==
  ASSUME WinsFit, ~SyncRaces PROVE Spec => []WindowAgrees
<1> DEFINE Inv == ShapeInv /\ WinInv
<1>1. Init => Inv
  BY Initially
<1>2. Inv /\ [Next]_vars => Inv'
  BY ShapeKept, WinKept
<1>3. Inv => WindowAgrees
  <2> SUFFICES ASSUME Inv PROVE WindowAgrees
    OBVIOUS
  <2>1. CASE tbl = NoTbl
    BY <2>1 DEF WindowAgrees, SlotsAgree, BitmapAgrees, Buffered
  <2>2. CASE tbl # NoTbl
    <3>1. WellFormed(tbl)
      BY <2>2 DEF WinInv
    <3>2. Buffered = {i \in 0 .. tbl.wsize - 1 : tbl.slot[i] # Empty}
      BY <2>2, <3>1 DEF Buffered, WellFormed
    <3> QED BY <3>1, <3>2 DEF WindowAgrees, SlotsAgree, BitmapAgrees, WellFormed
  <2> QED BY <2>1, <2>2
<1> QED BY <1>1, <1>2, <1>3, PTL DEF Spec

\* What is buffered outside mlan_11n_rxreorder_pkt has a timer, a handler or a flush
\* that releases it, unless the worker ran between two stores of the handler.
THEOREM BufferedHasExitHolds ==
  ASSUME WinsFit, ~Napi, ~SyncRaces PROVE Spec => []BufferedHasExit
<1> DEFINE Inv == ShapeInv /\ TimerInv /\ WinInv /\ ExitInv
<1>1. Init => Inv
  BY Initially
<1>2. Inv /\ [Next]_vars => Inv'
  BY ShapeKept, TimerKept, WinKept, ExitKept
<1>3. Inv => BufferedHasExit
  <2> SUFFICES ASSUME Inv, Stuck PROVE raced
    BY DEF BufferedHasExit
  <2>1. tbl # NoTbl
    BY DEF Stuck, Buffered
  <2>2. WellFormed(tbl)
    BY <2>1 DEF WinInv
  <2>3. tbl.bits = Buffered
    BY <2>1, <2>2 DEF Buffered, WellFormed
  <2> QED BY <2>1, <2>3 DEF ExitInv, Stuck
<1> QED BY <1>1, <1>2, <1>3, PTL DEF Spec

--------------------------------------------------------------------------------
(* What a move of the window hands up, and what it leaves                    *)

\* The window of t moves by k slots: up is what leaves, u what stays.
Shifted(t, u, k, up) ==
  /\ k \in 0 .. t.wsize /\ u.wsize = t.wsize
  /\ \A i \in 0 .. t.wsize - 1 :
       u.slot[i] = IF i + k < t.wsize THEN t.slot[i + k] ELSE Empty
  /\ DOMAIN up = {j \in 0 .. k - 1 : IsFrame(t.slot[j])}
  /\ \A j \in DOMAIN up : up[j] = t.slot[j]

\* What has nothing to do with the window.
Same(t, u) ==
  /\ u.last = t.last /\ u.check = t.check /\ u.nodrop = t.nodrop
  /\ u.amsdu = t.amsdu /\ u.ba = t.ba

\* Rotating is such a move, if what is handed up is what leaves.
LEMMA RotateShifts ==
  ASSUME NEW t, WellFormed(t), NEW k \in 0 .. t.wsize, NEW new
  PROVE  /\ Shifted(t, [Rotate(t, k) EXCEPT !.start = new], k, FramesIn(t, k))
         /\ Same(t, [Rotate(t, k) EXCEPT !.start = new])
         /\ [Rotate(t, k) EXCEPT !.start = new].start = new
<1> DEFINE u == [Rotate(t, k) EXCEPT !.start = new]
           up == FramesIn(t, k)
<1>1. DOMAIN t = Fields
  BY DEF WellFormed, IsTable
<1>2. /\ u.wsize = t.wsize /\ u.start = new
      /\ u.slot = [i \in 0 .. t.wsize - 1 |-> IF i + k < t.wsize THEN t.slot[i + k] ELSE Empty]
  BY <1>1 DEF Rotate, Fields
<1>3. Same(t, u)
  BY <1>1 DEF Rotate, Fields, Same
<1>4. /\ DOMAIN up = {j \in 0 .. k - 1 : IsFrame(t.slot[j])}
      /\ \A j \in DOMAIN up : up[j] = t.slot[j]
  BY DEF FramesIn
<1> HIDE DEF u, up
<1>5. Shifted(t, u, k, up)
  BY <1>2, <1>4 DEF Shifted
<1> QED BY <1>2, <1>3, <1>5 DEF u, up

\* wlan_11n_dispatch_pkt_until_start_win,
LEMMA DispatchShifts ==
  ASSUME NEW t, WellFormed(t), NEW new \in 0 .. MAX_TID_VALUE
  PROVE  /\ Shifted(t, DispatchUntil(t, new).tbl, NoPktToSend(t, new), DispatchUntil(t, new).up)
         /\ Same(t, DispatchUntil(t, new).tbl) /\ DispatchUntil(t, new).tbl.start = new
<1> DEFINE k == NoPktToSend(t, new)
<1>1. t.wsize \in Nat /\ t.start \in 0 .. MAX_TID_VALUE /\ 2 * t.wsize < MAX_TID_VALUE
  BY DEF WellFormed, IsTable
<1>2. k \in 0 .. t.wsize
  BY <1>1, Sizes DEF NoPktToSend
<1> HIDE DEF k
<1>3. /\ Shifted(t, [Rotate(t, k) EXCEPT !.start = new], k, FramesIn(t, k))
      /\ Same(t, [Rotate(t, k) EXCEPT !.start = new])
      /\ [Rotate(t, k) EXCEPT !.start = new].start = new
  BY <1>2, RotateShifts
<1>4. /\ DispatchUntil(t, new).tbl = [Rotate(t, k) EXCEPT !.start = new]
      /\ DispatchUntil(t, new).up = FramesIn(t, k)
  BY DEF DispatchUntil, k
<1> QED BY <1>3, <1>4 DEF k

\* and wlan_11n_scan_and_dispatch, which hands up full slots only.
LEMMA ScanShifts ==
  ASSUME NEW t, WellFormed(t)
  PROVE  /\ Shifted(t, ScanAndDispatch(t).tbl, HeadRun(t), ScanAndDispatch(t).up)
         /\ Same(t, ScanAndDispatch(t).tbl)
         /\ ScanAndDispatch(t).tbl.start = Mask(t.start + HeadRun(t))
<1> DEFINE k == HeadRun(t)
           new == Mask(t.start + k)
<1>1. k \in 0 .. t.wsize
  BY HeadRunIn DEF WellFormed, IsTable
<1> HIDE DEF k
<1>2. /\ Shifted(t, [Rotate(t, k) EXCEPT !.start = new], k, FramesIn(t, k))
      /\ Same(t, [Rotate(t, k) EXCEPT !.start = new])
      /\ [Rotate(t, k) EXCEPT !.start = new].start = new
  BY <1>1, RotateShifts
<1>3. /\ ScanAndDispatch(t).tbl = [Rotate(t, k) EXCEPT !.start = new]
      /\ ScanAndDispatch(t).up = FramesIn(t, k)
  BY DEF ScanAndDispatch, k
<1> QED BY <1>2, <1>3 DEF k, new

\* The slots before the first hole are full.
LEMMA HeadRunFull ==
  ASSUME NEW t, t.wsize \in Nat
  PROVE  \A i \in 0 .. HeadRun(t) - 1 : t.slot[i] # Empty
<1> DEFINE holes == {i \in 0 .. t.wsize - 1 : t.slot[i] = Empty}
           Runs(k) == /\ \A i \in 0 .. k - 1 : t.slot[i] # Empty
                      /\ k < t.wsize => t.slot[k] = Empty
<1>1. \E k \in 0 .. t.wsize : Runs(k)
  <2>1. CASE holes = {}
    <3>1. \A i \in 0 .. t.wsize - 1 : t.slot[i] # Empty
      BY <2>1
    <3>2. t.wsize \in 0 .. t.wsize
      OBVIOUS
    <3> QED BY <3>1, <3>2
  <2>2. CASE holes # {}
    <3>1. holes \in SUBSET Nat
      OBVIOUS
    <3>2. PICK k \in holes : \A y \in holes : k <= y
      BY <2>2, <3>1, Least
    <3>3. k \in 0 .. t.wsize - 1 /\ t.slot[k] = Empty
      OBVIOUS
    <3>4. \A i \in 0 .. k - 1 : t.slot[i] # Empty
      BY <3>2, <3>3
    <3> QED BY <3>3, <3>4
  <2> QED BY <2>1, <2>2
<1>2. HeadRun(t) = CHOOSE k \in 0 .. t.wsize : Runs(k)
  BY DEF HeadRun
<1>3. Runs(HeadRun(t))
  <2> HIDE DEF Runs
  <2> QED BY <1>1, <1>2
<1> QED BY <1>3

\* wlan_start_flush_data leaves nothing and starts after the last packet, m.
LEMMA FlushShifts ==
  ASSUME NEW t, WellFormed(t)
  PROVE  /\ Same(t, TakeFlush(t).tbl)
         /\ \/ /\ Shifted(t, TakeFlush(t).tbl, 0, TakeFlush(t).up)
               /\ TakeFlush(t).tbl.start = t.start
            \/ \E m \in 0 .. t.wsize - 1 : \E k \in m + 1 .. t.wsize :
                 /\ t.slot[m] # Empty /\ \A i \in m + 1 .. t.wsize - 1 : t.slot[i] = Empty
                 /\ Shifted(t, TakeFlush(t).tbl, k, TakeFlush(t).up)
                 /\ TakeFlush(t).tbl.start = Mask(t.start + m + 1)
<1> DEFINE f == TakeFlush(t)
           u == [t EXCEPT !.flush = FALSE]
           full == {i \in 0 .. u.wsize - 1 : u.slot[i] # Empty}
           m == CHOOSE i \in full : \A j \in full : j <= i
           new == Mask(u.start + m + 1)
<1>1. /\ WellFormed(u) /\ Same(t, u) /\ u.slot = t.slot /\ u.wsize = t.wsize
      /\ u.start = t.start
  BY DEF WellFormed, IsTable, Fields, Same
<1>2. t.wsize \in Nat /\ t.start \in 0 .. MAX_TID_VALUE /\ 2 * t.wsize < MAX_TID_VALUE
      /\ DOMAIN t.slot = 0 .. t.wsize - 1
  BY DEF WellFormed, IsTable
<1>3. ASSUME NEW x, Same(t, x), x.slot = t.slot, x.wsize = t.wsize
      PROVE  Shifted(t, x, 0, <<>>)
  <2>1. \A i \in 0 .. t.wsize - 1 : i + 0 = i /\ i < t.wsize
    BY <1>2
  <2>2. DOMAIN <<>> = {} /\ 0 .. 0 - 1 = {} /\ 0 \in 0 .. t.wsize
    BY <1>2
  <2> QED BY <1>3, <2>1, <2>2 DEF Shifted
<1>4. CASE ~t.flush
  <2>1. f = [tbl |-> t, up |-> <<>>]
    BY <1>4 DEF TakeFlush
  <2>2. f.tbl = t /\ f.up = <<>>
    BY <2>1
  <2> HIDE DEF f
  <2>3. Same(t, t)
    BY DEF Same
  <2>4. Shifted(t, t, 0, <<>>)
    BY <1>3, <2>3
  <2> QED BY <2>2, <2>3, <2>4 DEF f
<1>5. CASE t.flush /\ full = {}
  <2>1. f = [tbl |-> u, up |-> <<>>]
    BY <1>5 DEF TakeFlush, StartFlush
  <2>2. f.tbl = u /\ f.up = <<>>
    BY <2>1
  <2> HIDE DEF f, u
  <2>3. Shifted(t, u, 0, <<>>)
    BY <1>1, <1>3
  <2> QED BY <1>1, <2>2, <2>3 DEF f
<1>6. CASE t.flush /\ full # {}
  <2>1. f = DispatchUntil(u, new)
    BY <1>6 DEF TakeFlush, StartFlush
  <2>2. full = {i \in 0 .. t.wsize - 1 : t.slot[i] # Empty}
    BY <1>1
  <2> HIDE DEF f, u, full
  <2>3. m \in full /\ \A j \in full : j <= m
    <3>1. t.wsize - 1 \in Nat /\ full \in SUBSET (0 .. t.wsize - 1)
      BY <1>2, <1>6, <2>2
    <3>2. \E i \in full : \A j \in full : j <= i
      BY <1>6, <3>1, Greatest
    <3> QED BY <3>2
  <2> HIDE DEF m
  <2>4. m \in 0 .. t.wsize - 1 /\ t.slot[m] # Empty
        /\ \A i \in m + 1 .. t.wsize - 1 : t.slot[i] = Empty
    <3>1. m \in 0 .. t.wsize - 1 /\ t.slot[m] # Empty
      BY <2>2, <2>3
    <3>2. \A i \in m + 1 .. t.wsize - 1 : i \in 0 .. t.wsize - 1 /\ ~(i <= m)
      BY <1>2, <3>1
    <3> QED BY <2>2, <2>3, <3>1, <3>2
  <2>5. new = Mask(t.start + m + 1) /\ new \in 0 .. MAX_TID_VALUE
    BY <1>1, <1>2, <2>4, Sizes DEF Mask
  <2> HIDE DEF new
  <2>6. new = t.start + m + 1 \/ new = (t.start + m + 1) - MAX_TID_VALUE
    <3>1. t.start \in 0 .. MAX_TID_VALUE /\ m \in 0 .. MAX_TID_VALUE - 2
      BY <1>2, <2>4, Sizes
    <3>2. \/ Mask(t.start + m + 1) = t.start + m + 1
          \/ Mask(t.start + m + 1) = (t.start + m + 1) - MAX_TID_VALUE
      BY <3>1, WrapsNear, Zenon
    <3> QED BY <2>5, <3>2, Zenon
  <2> DEFINE k == NoPktToSend(u, new)
  <2>7. k \in m + 1 .. t.wsize
    <3> DEFINE s == t.start
               w == t.wsize
    <3>1. k = IF new > s THEN IF new - s < w THEN new - s ELSE w ELSE w
      BY <1>1 DEF NoPktToSend
    <3>2. /\ s \in Nat /\ w \in Nat /\ m \in Nat /\ m < w /\ w < MAX_TID_VALUE
          /\ MAX_TID_VALUE \in Nat
      BY <1>2, <2>4, Sizes
    <3>3. new = s + m + 1 \/ new = (s + m + 1) - MAX_TID_VALUE
      BY <2>6
    <3> HIDE DEF k, s, w
    <3>4. k \in m + 1 .. w
      BY <3>1, <3>2, <3>3
    <3> QED BY <3>4 DEF w
  <2>8. Shifted(u, f.tbl, k, f.up) /\ Same(u, f.tbl) /\ f.tbl.start = new
    BY <1>1, <2>1, <2>5, DispatchShifts
  <2> HIDE DEF k
  <2>9. Shifted(t, f.tbl, k, f.up) /\ Same(t, f.tbl)
    BY <1>1, <2>8 DEF Shifted, Same
  <2> QED BY <2>4, <2>5, <2>7, <2>8, <2>9 DEF f
<1>7. t.flush \in BOOLEAN
  BY DEF WellFormed, IsTable
<1> QED BY <1>4, <1>5, <1>6, <1>7

--------------------------------------------------------------------------------
(* Where the buffer of a frame is                                            *)

\* The slots that hold frame n, counted.
Slots(t, n) == Cardinality({i \in 0 .. t.wsize - 1 : t.slot[i] = n})
Held(t, n) == IF t = NoTbl THEN 0 ELSE Slots(t, n)

\* The contexts that have its buffer in hand, with places p and locals l.
InPktAt == {"resync", "stop", "start", "place", "scan", "settle"}
CarriersIn(p, l, n) == {c \in Contexts : p[c] \in InPktAt /\ l[c].pay = n}
Carried(p, l, n) == Cardinality(CarriersIn(p, l, n))

\* The history agrees with where the buffers are; a BAR has no buffer, and behind the
\* window test no context has one in hand.
FateInv ==
  /\ owed = [n \in Frames |-> Held(tbl, n) + Carried(pc, loc, n)]
  /\ \A c \in Contexts : InPkt(c) /\ ~(Pending(c) /\ loc[c].type # "bar")
                           => loc[c].pay \notin Frames

\* A set with at most one member.
LEMMA AtMostOne ==
  ASSUME NEW S, \A x, y \in S : x = y
  PROVE  Cardinality(S) = IF S = {} THEN 0 ELSE 1
<1>1. CASE S = {}
  BY <1>1, FS_EmptySet
<1>2. CASE S # {}
  <2>1. PICK x \in S : TRUE
    BY <1>2
  <2>2. S = {x}
    BY <2>1
  <2> QED BY <1>2, <2>2, FS_Singleton
<1> QED BY <1>1, <1>2

\* A frame is in one slot at most.
LEMMA OneSlot ==
  ASSUME NEW t, WellFormed(t), NEW n \in Numbers,
         NEW i \in 0 .. t.wsize - 1, NEW j \in 0 .. t.wsize - 1, t.slot[i] = n, t.slot[j] = n
  PROVE  i = j
<1>1. /\ t.wsize \in Nat /\ t.start \in 0 .. MAX_TID_VALUE /\ 2 * t.wsize < MAX_TID_VALUE
      /\ i \in Nat /\ j \in Nat /\ i < t.wsize /\ j < t.wsize
  BY DEF WellFormed, IsTable
<1>2. Mask(t.start + i) = Mask(t.start + j)
  BY DEF WellFormed, IsFrame
<1> DEFINE s == t.start
<1> HIDE DEF s
<1>3. /\ Mask(s + i) = IF s + i < MAX_TID_VALUE THEN s + i ELSE s + i - MAX_TID_VALUE
      /\ Mask(s + j) = IF s + j < MAX_TID_VALUE THEN s + j ELSE s + j - MAX_TID_VALUE
  BY <1>1, Sizes, Wraps DEF s
<1> QED BY <1>1, <1>2, <1>3, Sizes DEF s

\* So it is counted once, if at all.
LEMMA SlotsAre ==
  ASSUME NEW t, WellFormed(t), NEW n \in Numbers
  PROVE  Slots(t, n) = IF \E i \in 0 .. t.wsize - 1 : t.slot[i] = n THEN 1 ELSE 0
<1> DEFINE S == {i \in 0 .. t.wsize - 1 : t.slot[i] = n}
<1>1. \A x, y \in S : x = y
  BY OneSlot
<1>2. S = {} <=> ~\E i \in 0 .. t.wsize - 1 : t.slot[i] = n
  OBVIOUS
<1> HIDE DEF S
<1>3. Cardinality(S) = IF S = {} THEN 0 ELSE 1
  BY <1>1, AtMostOne
<1> QED BY <1>2, <1>3 DEF Slots, S

\* What a move of the window hands up is what it takes away.
LEMMA MoveCounts ==
  ASSUME NEW t, WellFormed(t), NEW u, NEW k, NEW up, Shifted(t, u, k, up), NEW n \in Numbers
  PROVE  /\ Slots(t, n) = Slots(u, n) + CountIn(up, n)
         /\ Slots(u, n) \in Nat /\ CountIn(up, n) \in Nat
<1> DEFINE w == t.wsize
           A == {i \in 0 .. w - 1 : t.slot[i] = n}
           B == {i \in 0 .. w - 1 : u.slot[i] = n}
           C == {i \in DOMAIN up : up[i] = n}
<1>1. w \in Nat /\ k \in 0 .. w /\ n # Empty /\ IsFrame(n)
  BY NumbersNat DEF WellFormed, IsTable, Shifted, IsFrame
<1>2. \A i \in 0 .. w - 1 : u.slot[i] = IF i + k < w THEN t.slot[i + k] ELSE Empty
  BY DEF Shifted
<1>3. C = {i \in 0 .. k - 1 : t.slot[i] = n}
  BY <1>1 DEF Shifted
<1>4. \A x, y \in A : x = y
  BY OneSlot
<1>5. Slots(t, n) = Cardinality(A) /\ CountIn(up, n) = Cardinality(C)
  BY DEF Slots, CountIn
<1>6. Slots(u, n) = Cardinality(B)
  BY DEF Shifted, Slots
<1> HIDE DEF w, A, B, C
<1>7. C = {i \in A : i < k}
  BY <1>1, <1>3 DEF A
<1>8. \A b \in B : b \in Nat /\ b + k \in A
  BY <1>1, <1>2 DEF A, B
<1>9. \A a \in A : a \in Nat /\ (a >= k => a - k \in B)
  <2> TAKE a \in A
  <2>1. a \in 0 .. w - 1 /\ t.slot[a] = n
    BY DEF A
  <2>2. ASSUME a >= k PROVE a - k \in B
    <3>1. a - k \in 0 .. w - 1 /\ (a - k) + k = a /\ a < w
      BY <1>1, <2>1, <2>2
    <3> QED BY <1>2, <2>1, <3>1 DEF B
  <2> QED BY <2>1, <2>2
<1>10. \A x, y \in B : x = y
  <2> TAKE x, y \in B
  <2>1. x + k = y + k
    BY <1>4, <1>8
  <2> QED BY <1>1, <1>8, <2>1
<1>11. /\ Cardinality(A) = IF A = {} THEN 0 ELSE 1
       /\ Cardinality(B) = IF B = {} THEN 0 ELSE 1
       /\ Cardinality(C) = IF C = {} THEN 0 ELSE 1
  BY <1>4, <1>7, <1>10, AtMostOne
<1>12. CASE A = {}
  BY <1>5, <1>6, <1>7, <1>8, <1>11, <1>12
<1>13. CASE A # {}
  <2>1. PICK a \in A : TRUE
    BY <1>13
  <2>2. a \in Nat /\ k \in Nat
    BY <1>1, <1>9
  <2>3. CASE a < k
    <3>1. C # {}
      BY <1>7, <2>3
    <3>2. B = {}
      <4>1. ASSUME NEW b \in B PROVE FALSE
        <5>1. b + k = a /\ b \in Nat
          BY <1>4, <1>8
        <5> QED BY <2>2, <2>3, <5>1
      <4> QED BY <4>1
    <3> QED BY <1>5, <1>6, <1>11, <1>13, <3>1, <3>2
  <2>4. CASE a >= k
    <3>1. B # {}
      BY <1>9, <2>4
    <3>2. C = {}
      <4>1. ASSUME NEW b \in C PROVE FALSE
        <5>1. b = a /\ b < k
          BY <1>4, <1>7
        <5> QED BY <2>2, <2>4, <5>1
      <4> QED BY <4>1
    <3> QED BY <1>5, <1>6, <1>11, <1>13, <3>1, <3>2
  <2> QED BY <2>2, <2>3, <2>4
<1> QED BY <1>12, <1>13

\* Nothing, and one buffer.
LEMMA CountOf ==
  ASSUME NEW n \in Numbers
  PROVE  /\ CountIn(<<>>, n) = 0
         /\ \A p : CountIn(BufferOf(p), n) = IF p = n THEN 1 ELSE 0
<1>1. CountIn(<<>>, n) = 0
  <2>1. {i \in DOMAIN <<>> : <<>>[i] = n} = {}
    OBVIOUS
  <2> QED BY <2>1, FS_EmptySet DEF CountIn
<1>2. ASSUME NEW p PROVE CountIn(BufferOf(p), n) = IF p = n THEN 1 ELSE 0
  <2>1. CASE p \in Numbers
    <3>1. BufferOf(p) = <<p>>
      BY <2>1 DEF BufferOf, IsFrame
    <3>2. {i \in DOMAIN <<p>> : <<p>>[i] = n} = IF p = n THEN {1} ELSE {}
      OBVIOUS
    <3>3. CountIn(<<p>>, n) = Cardinality(IF p = n THEN {1} ELSE {})
      BY <3>2 DEF CountIn
    <3>4. Cardinality({1}) = 1 /\ Cardinality({}) = 0
      BY FS_EmptySet, FS_Singleton
    <3> QED BY <3>1, <3>3, <3>4
  <2>2. CASE p \notin Numbers
    <3>1. BufferOf(p) = <<>>
      BY <2>2 DEF BufferOf, IsFrame
    <3> QED BY <1>1, <2>2, <3>1
  <2> QED BY <2>1, <2>2
<1> QED BY <1>1, <1>2

\* The context inside mlan_11n_rxreorder_pkt is the only one with a buffer in hand ...
LEMMA OneCarrier ==
  ASSUME NEW p, NEW l, NEW n, NEW c \in Contexts, p[c] \in InPktAt,
         \A d \in Contexts \ {c} : p[d] \notin InPktAt
  PROVE  Carried(p, l, n) = IF l[c].pay = n THEN 1 ELSE 0
<1>1. CarriersIn(p, l, n) = IF l[c].pay = n THEN {c} ELSE {}
  BY DEF CarriersIn
<1> QED BY <1>1, FS_EmptySet, FS_Singleton DEF Carried

\* ... and outside it nobody has one.
LEMMA NoCarrier ==
  ASSUME NEW p, NEW l, NEW n, \A d \in Contexts : p[d] \notin InPktAt
  PROVE  Carried(p, l, n) = 0
<1>1. CarriersIn(p, l, n) = {}
  BY DEF CarriersIn
<1> QED BY <1>1, FS_EmptySet DEF Carried

--------------------------------------------------------------------------------
(* 952-1055 of mlan_11n_rxreorder_pkt, with prev the start of the table      *)

PlaceSeq(c) ==
  IF loc[c].type = "bar" THEN Mask(SeqOf(loc[c].n) + tbl.wsize - 1) ELSE SeqOf(loc[c].n)
PlaceAhead(c) == Ahead(tbl.start, Mask(tbl.start + tbl.wsize - 1), PlaceSeq(c))
PlaceStart(c) == IF PlaceAhead(c) THEN StartFor(PlaceSeq(c), tbl.wsize) ELSE tbl.start
PlaceBy(c) == IF PlaceAhead(c) THEN NoPktToSend(tbl, PlaceStart(c)) ELSE 0
PlaceSlot(c) == SlotOf(PlaceStart(c), PlaceSeq(c))
PlaceMove(c) ==
  IF PlaceAhead(c) THEN DispatchUntil([tbl EXCEPT !.nodrop = FALSE], PlaceStart(c))
  ELSE [tbl |-> [tbl EXCEPT !.nodrop = FALSE], up |-> <<>>]
PlaceOld(c) == ~tbl.nodrop /\ Old(tbl.start, SeqOf(loc[c].n))

\* An old packet is dropped, ...
LEMMA PlaceDrops ==
  ASSUME NEW c, Place(c), loc[c].prev = tbl.start, PlaceOld(c)
  PROVE  /\ Account(<<>>, <<>>, BufferOf(loc[c].pay)) /\ Gone(c)
         /\ UNCHANGED <<tbl, top, inorder, left, low, op>>
  BY DEF Place, PlaceOld

\* ... any other moves the window where it must and is kept unless it is a BAR or a
\* duplicate.
LEMMA PlaceTakes ==
  ASSUME NEW c, Place(c), loc[c].prev = tbl.start, ~PlaceOld(c)
  PROVE  /\ StillInOrder(PlaceMove(c).up)
         /\ top' = IF tbl.nodrop THEN -1 ELSE LastUp(PlaceMove(c).up)
         /\ UNCHANGED <<left, low, op>>
         /\ \/ /\ loc[c].type = "bar" /\ tbl' = PlaceMove(c).tbl
               /\ Account(<<>>, PlaceMove(c).up, <<>>)
               /\ Goto(c, "scan") /\ UNCHANGED loc
            \/ /\ loc[c].type # "bar" /\ Duplicate(PlaceMove(c).tbl, PlaceSlot(c))
               /\ tbl' = PlaceMove(c).tbl
               /\ Account(<<>>, PlaceMove(c).up, BufferOf(loc[c].pay)) /\ Gone(c)
            \/ /\ loc[c].type # "bar" /\ ~Duplicate(PlaceMove(c).tbl, PlaceSlot(c))
               /\ \E b \in SetBit(PlaceMove(c).tbl.bits, PlaceSlot(c)) :
                    tbl' = [PlaceMove(c).tbl EXCEPT !.slot[PlaceSlot(c)] = loc[c].pay, !.bits = b]
               /\ Account(<<>>, PlaceMove(c).up, <<>>)
               /\ loc' = [loc EXCEPT ![c].pay = Empty] /\ Goto(c, "scan")
<1> DEFINE l == loc[c]
           win == tbl.wsize
           t == [tbl EXCEPT !.nodrop = FALSE]
           end == Mask(l.prev + win - 1)
           seq == IF l.type = "bar" THEN Mask(SeqOf(l.n) + win - 1) ELSE SeqOf(l.n)
           ahead == Ahead(l.prev, end, seq)
           start == IF ahead THEN StartFor(seq, win) ELSE l.prev
           d == IF ahead THEN DispatchUntil(t, start) ELSE [tbl |-> t, up |-> <<>>]
           slot == SlotOf(start, seq)
<1>1. /\ ~(~tbl.nodrop /\ Old(l.prev, SeqOf(l.n)))
      /\ UNCHANGED <<left, low, op>>
  BY DEF Place, PlaceOld
<1>2. /\ StillInOrder(d.up)
      /\ top' = IF tbl.nodrop THEN -1 ELSE LastUp(d.up)
      /\ \/ /\ l.type = "bar"
            /\ tbl' = d.tbl /\ Account(<<>>, d.up, <<>>)
            /\ Goto(c, "scan") /\ UNCHANGED loc
         \/ /\ l.type # "bar" /\ Duplicate(d.tbl, slot)
            /\ tbl' = d.tbl /\ Account(<<>>, d.up, BufferOf(l.pay))
            /\ Gone(c)
         \/ /\ l.type # "bar" /\ ~Duplicate(d.tbl, slot)
            /\ \E b \in SetBit(d.tbl.bits, slot) :
                 tbl' = [d.tbl EXCEPT !.slot[slot] = l.pay, !.bits = b]
            /\ Account(<<>>, d.up, <<>>)
            /\ loc' = [loc EXCEPT ![c].pay = Empty]
            /\ Goto(c, "scan")
  BY <1>1 DEF Place
<1>3. seq = PlaceSeq(c) /\ ahead = PlaceAhead(c)
  BY DEF PlaceSeq, PlaceAhead
<1>4. start = PlaceStart(c)
  BY <1>3 DEF PlaceStart
<1>5. slot = PlaceSlot(c)
  BY <1>3, <1>4 DEF PlaceSlot
<1>6. d = PlaceMove(c)
  BY <1>3, <1>4 DEF PlaceMove
<1> HIDE DEF d, slot, start, ahead, seq
<1> QED BY <1>1, <1>2, <1>5, <1>6

\* The window it moves to, and the slot there.
LEMMA PlaceWindow ==
  ASSUME NEW c, WellFormed(tbl), tbl.wsize > 1, loc[c].n \in Numbers
  PROVE  /\ PlaceSeq(c) \in 0 .. MAX_TID_VALUE - 1
         /\ PlaceStart(c) \in 0 .. MAX_TID_VALUE /\ PlaceSlot(c) \in 0 .. tbl.wsize - 1
         /\ WellFormed(PlaceMove(c).tbl) /\ PlaceMove(c).tbl.start = PlaceStart(c)
         /\ Shifted(tbl, PlaceMove(c).tbl, PlaceBy(c), PlaceMove(c).up)
         /\ PlaceMove(c).tbl.last = tbl.last /\ PlaceMove(c).tbl.check = tbl.check
         /\ PlaceMove(c).tbl.amsdu = tbl.amsdu /\ PlaceMove(c).tbl.ba = tbl.ba
<1> DEFINE t == [tbl EXCEPT !.nodrop = FALSE]
           d == PlaceMove(c)
<1>1. /\ WellFormed(t) /\ t.wsize = tbl.wsize /\ t.start = tbl.start /\ t.slot = tbl.slot
      /\ t.last = tbl.last /\ t.check = tbl.check /\ t.amsdu = tbl.amsdu /\ t.ba = tbl.ba
  BY DEF WellFormed, IsTable, Fields
<1>2. tbl.wsize \in Nat /\ 2 * tbl.wsize < MAX_TID_VALUE /\ tbl.start \in 0 .. MAX_TID_VALUE
  BY DEF WellFormed, IsTable
<1>3. PlaceSeq(c) \in 0 .. MAX_TID_VALUE - 1
  <2>1. SeqOf(loc[c].n) \in 0 .. MAX_TID_VALUE - 1
    BY NumbersNat
  <2>2. SeqOf(loc[c].n) + tbl.wsize - 1 \in Nat
    BY <2>1, <1>2, Sizes
  <2>3. Mask(SeqOf(loc[c].n) + tbl.wsize - 1) \in 0 .. MAX_TID_VALUE - 1
    BY <2>2, Sizes DEF Mask
  <2> QED BY <2>1, <2>3 DEF PlaceSeq
<1>4. /\ PlaceStart(c) \in 0 .. MAX_TID_VALUE /\ PlaceSlot(c) \in 0 .. tbl.wsize - 1
  <2>1. PlaceStart(c) = IF Ahead(tbl.start, Mask(tbl.start + tbl.wsize - 1), PlaceSeq(c))
                        THEN StartFor(PlaceSeq(c), tbl.wsize) ELSE tbl.start
    BY DEF PlaceStart, PlaceAhead
  <2> DEFINE w == tbl.wsize
             s == tbl.start
             q == PlaceSeq(c)
             r == PlaceStart(c)
  <2>2. /\ w \in Nat /\ w > 1 /\ 2 * w < MAX_TID_VALUE /\ s \in 0 .. MAX_TID_VALUE
        /\ q \in 0 .. MAX_TID_VALUE - 1
        /\ r = IF Ahead(s, Mask(s + w - 1), q) THEN StartFor(q, w) ELSE s
    BY <1>2, <1>3, <2>1
  <2> HIDE DEF w, s, q, r
  <2>3. r \in 0 .. MAX_TID_VALUE /\ SlotOf(r, q) \in 0 .. w - 1
    BY <2>2, SlotInWindow
  <2> QED BY <2>3 DEF r, q, w, PlaceSlot
<1> HIDE DEF t
<1>5. CASE PlaceAhead(c)
  <2>1. d = DispatchUntil(t, PlaceStart(c)) /\ PlaceBy(c) = NoPktToSend(t, PlaceStart(c))
    BY <1>1, <1>5 DEF PlaceMove, PlaceBy, NoPktToSend, t
  <2> HIDE DEF d
  <2>2. WellFormed(d.tbl)
    BY <1>1, <1>4, <2>1, DispatchWell
  <2>3. Shifted(t, d.tbl, PlaceBy(c), d.up) /\ Same(t, d.tbl) /\ d.tbl.start = PlaceStart(c)
    BY <1>1, <1>4, <2>1, DispatchShifts
  <2>4. Shifted(tbl, d.tbl, PlaceBy(c), d.up)
    BY <1>1, <2>3 DEF Shifted
  <2> QED BY <1>1, <1>3, <1>4, <2>2, <2>3, <2>4 DEF Same, d
<1>6. CASE ~PlaceAhead(c)
  <2>1. d.tbl = t /\ d.up = <<>> /\ PlaceBy(c) = 0 /\ PlaceStart(c) = tbl.start
    BY <1>6 DEF PlaceMove, PlaceBy, PlaceStart, t
  <2> HIDE DEF d
  <2>2. \A i \in 0 .. tbl.wsize - 1 : i + 0 = i /\ i < tbl.wsize
    BY <1>2
  <2>3. DOMAIN <<>> = {} /\ 0 .. 0 - 1 = {} /\ 0 \in 0 .. tbl.wsize
    BY <1>2
  <2>4. Shifted(tbl, t, 0, <<>>)
    BY <1>1, <2>2, <2>3 DEF Shifted
  <2> QED BY <1>1, <1>3, <1>4, <2>1, <2>4 DEF d
<1> QED BY <1>5, <1>6

--------------------------------------------------------------------------------
(* Types                                                                     *)

\* A table of this load.
TblTyped(t) ==
  /\ t.wsize \in left.wins /\ t.amsdu \in BOOLEAN /\ t.ba \in {"inprogress", "complete"}
  /\ \A i \in 0 .. t.wsize - 1 : t.slot[i] \in Frames \cup {Empty, FwDrop}

\* What the invariants above leave open of the types.
TypedInv ==
  /\ \E l \in Loads : left.first = l.first /\ left.last = l.last /\ left.wins = l.wins
  /\ tbl # NoTbl => TblTyped(tbl)
  /\ pc["main"] = "create" => op.win \in left.wins
  /\ timer \in [armed : BOOLEAN, canceled : BOOLEAN, period : BOOLEAN]
  /\ hand \in {"idle", "fired", "table", "unset", "tail"}
  /\ aflush \in BOOLEAN /\ rxwork \in BOOLEAN
  /\ pc["main"] \notin {"top", "dequeue"} /\ pc["rx"] # "create"
  /\ low \in Nat /\ top \in -1 .. left.last
  /\ \A c \in Contexts : loc[c].pay \in Frames \cup {Empty, FwDrop}

\* The frames of a behaviour, and the windows it negotiates.
LEMMA LoadIs ==
  ASSUME TypedInv
  PROVE  /\ left.first \in Nat /\ left.last \in Nat /\ Frames \subseteq Numbers
         /\ Frames \subseteq Nat /\ left.wins # {} /\ PeerWindow \in left.wins
         /\ \A w \in left.wins : /\ w \in Nat \ {0} /\ 2 * w < MAX_TID_VALUE
                                 /\ w \in UNION {l.wins : l \in Loads} /\ w <= PeerWindow
<1>1. PICK l \in Loads : left.first = l.first /\ left.last = l.last /\ left.wins = l.wins
  BY DEF TypedInv
<1>2. l.first \in Nat /\ l.last \in Nat /\ l.wins # {} /\ l.wins \subseteq 0 .. MAX_TID_VALUE
  BY ParamsAssumption, Sizes DEF Load
<1>3. Frames \subseteq Numbers
  BY <1>1 DEF Frames, Numbers
<1>4. \A w \in left.wins : w \in UNION {k.wins : k \in Loads}
  BY <1>1
<1>5. \A w \in left.wins : w \in Nat /\ w > 0 /\ 2 * w < MAX_TID_VALUE
  BY <1>4, Sizes
<1>6. PeerWindow \in left.wins /\ \A w \in left.wins : w <= PeerWindow
  <2>1. \E w \in left.wins : \A v \in left.wins : v <= w
    <3>1. left.wins \in SUBSET (0 .. MAX_TID_VALUE) /\ left.wins # {}
      BY <1>1, <1>2
    <3>2. MAX_TID_VALUE \in Nat
      BY Sizes
    <3> QED BY <3>1, <3>2, Greatest
  <2> QED BY <2>1 DEF PeerWindow
<1>7. Frames \subseteq Nat
  BY <1>3, NumbersNat
<1> QED BY <1>1, <1>2, <1>3, <1>4, <1>5, <1>6, <1>7

\* The frames and the windows stay those of the load.
LEMMA LeftKept ==
  ASSUME left \in Load, [Next]_vars
  PROVE  /\ left'.first = left.first /\ left'.last = left.last /\ left'.wins = left.wins
         /\ Frames' = Frames /\ PeerWindow' = PeerWindow
<1>1. DOMAIN left = {"wins", "first", "last", "jump", "ba", "nodrop", "sync"}
  BY DEF Load
<1>2. \/ left' = left
      \/ left' = [left EXCEPT !.ba = @ - 1]
      \/ left' = [left EXCEPT !.nodrop = @ - 1]
      \/ left' = [left EXCEPT !.sync = @ - 1]
  <2>1. ASSUME NEW c \in Contexts, PktStep(c) PROVE left' = left
    BY <2>1 DEF PktStep, Resync, TimerStop, TimerStart, Place, Scan, Settle
  <2>2. CASE TimerFires \/ Handler \/ Arrive \/ RxStart \/ RxFlush \/ RxEmpty
    BY <2>2 DEF TimerFires, Handler, HandlerEnters, HandlerFlags, HandlerUnsets, HandlerEnds,
                Arrive, RxStart, RxFlush, RxEmpty
  <2>3. CASE \E n \in Numbers, type \in {"data", "amsdu", "bar"} : RxPacket(n, type)
    BY <2>3 DEF RxPacket
  <2>4. CASE \E n \in Numbers, win \in UNION {l.wins : l \in Loads} : AddBa(n, win)
    BY <2>4 DEF AddBa
  <2>5. CASE \/ \E last \in LastSeqs : Create(last)
             \/ CreateFails \/ \E amsdu \in BOOLEAN : AddbaResp(amsdu)
             \/ Delba \/ UNCHANGED vars
    BY <2>5 DEF Create, CreateFails, AddbaResp, Delba, vars
  <2>6. CASE SetNoDrop
    BY <2>6 DEF SetNoDrop
  <2>7. CASE \E n \in Numbers : SyncPacket(n)
    BY <2>7 DEF SyncPacket
  <2> QED BY <2>1, <2>2, <2>3, <2>4, <2>5, <2>6, <2>7 DEF Next
<1>3. left'.first = left.first /\ left'.last = left.last /\ left'.wins = left.wins
  BY <1>1, <1>2
<1> QED BY <1>3 DEF Frames, PeerWindow

\* A move of the window brings nothing in.
LEMMA ShiftTyped ==
  ASSUME NEW t, TblTyped(t), t.wsize \in Nat, NEW u, NEW k, NEW up, Shifted(t, u, k, up),
         u.amsdu = t.amsdu, u.ba = t.ba
  PROVE  TblTyped(u) /\ \A j \in DOMAIN up : up[j] \in Frames
<1>1. \A i \in 0 .. u.wsize - 1 : u.slot[i] \in Frames \cup {Empty, FwDrop}
  <2> TAKE i \in 0 .. u.wsize - 1
  <2>1. i \in 0 .. t.wsize - 1 /\ k \in Nat
    BY DEF Shifted
  <2>2. u.slot[i] = IF i + k < t.wsize THEN t.slot[i + k] ELSE Empty
    BY <2>1 DEF Shifted
  <2>3. i + k < t.wsize => i + k \in 0 .. t.wsize - 1
    BY <2>1
  <2> QED BY <2>2, <2>3 DEF TblTyped
<1>2. \A j \in DOMAIN up : up[j] \in Frames
  <2> TAKE j \in DOMAIN up
  <2>1. j \in 0 .. t.wsize - 1 /\ IsFrame(t.slot[j]) /\ up[j] = t.slot[j]
    BY DEF Shifted
  <2> QED BY <2>1, NumbersNat DEF TblTyped, IsFrame
<1> QED BY <1>1, <1>2 DEF TblTyped, Shifted

\* What is handed up last is one of the frames that leave.
LEMMA LastUpIs ==
  ASSUME NEW up, NEW k \in Nat, DOMAIN up \subseteq 0 .. k - 1
  PROVE  LastUp(up) = top \/ \E j \in DOMAIN up : LastUp(up) = up[j]
<1>1. CASE DOMAIN up = {}
  BY <1>1 DEF LastUp
<1>2. CASE DOMAIN up # {}
  <2>1. k - 1 \in Nat /\ DOMAIN up \in SUBSET (0 .. k - 1)
    BY <1>2
  <2>2. \E i \in DOMAIN up : \A j \in DOMAIN up : j <= i
    BY <1>2, <2>1, Greatest
  <2> QED BY <1>2, <2>2 DEF LastUp
<1> QED BY <1>1, <1>2

\* So it lies within the range of top.
LEMMA LastUpTyped ==
  ASSUME TypedInv, NEW t, t.wsize \in Nat, NEW u, NEW k, NEW up, Shifted(t, u, k, up),
         \A j \in DOMAIN up : up[j] \in Frames
  PROVE  LastUp(up) \in -1 .. left.last /\ -1 \in -1 .. left.last
<1>1. k \in Nat /\ DOMAIN up \subseteq 0 .. k - 1
  BY DEF Shifted
<1>2. LastUp(up) = top \/ LastUp(up) \in Frames
  BY <1>1, LastUpIs
<1>3. Frames \subseteq -1 .. left.last /\ -1 \in -1 .. left.last
  BY LoadIs DEF Frames
<1> QED BY <1>2, <1>3 DEF TypedInv

\* mlan_11n_rxreorder_pkt up to where it first yields,
LEMMA AdmitTyped ==
  ASSUME ShapeInv, WinInv, TypedInv, tbl # NoTbl, NEW c \in Contexts, NEW n, NEW type,
         NEW pay \in Frames \cup {Empty, FwDrop}, Admit(c, n, type, pay)
  PROVE  /\ TblTyped(tbl') /\ tbl' # NoTbl /\ top' \in -1 .. left.last
         /\ \A d \in Contexts : loc'[d].pay \in Frames \cup {Empty, FwDrop}
         /\ UNCHANGED <<timer, hand, aflush, rxwork, op>>
<1> DEFINE f == TakeFlush(tbl)
           g == [f.tbl EXCEPT !.count = @ + 1, !.last = SeqOf(n)]
           h == Checked(f.tbl, SeqOf(n))
           new == [NoLoc EXCEPT !.n = n, !.type = type, !.pay = pay]
<1>1. WellFormed(tbl) /\ IsTable(tbl) /\ tbl.wsize \in Nat /\ TblTyped(tbl)
  BY DEF WinInv, WellFormed, TypedInv, IsTable
<1>2. Same(tbl, f.tbl) /\ \E k : Shifted(tbl, f.tbl, k, f.up)
  BY <1>1, FlushShifts
<1>3. /\ \/ tbl' = f.tbl /\ UNCHANGED loc
         \/ tbl' = g /\ UNCHANGED loc
         \/ tbl' = h /\ loc' = [loc EXCEPT ![c] = new]
      /\ top' = LastUp(f.up) /\ UNCHANGED <<timer, hand, aflush, rxwork, op>>
  BY DEF Admit, HandUp
<1>4. IsTable(f.tbl)
  BY <1>1, FlushKeeps DEF Kept
<1> HIDE DEF f
<1>5. PICK k : Shifted(tbl, f.tbl, k, f.up)
  BY <1>2
<1>6. TblTyped(f.tbl) /\ \A j \in DOMAIN f.up : f.up[j] \in Frames
  BY <1>1, <1>2, <1>5, ShiftTyped DEF Same
<1>7. top' \in -1 .. left.last
  BY <1>1, <1>3, <1>5, <1>6, LastUpTyped
<1>8. TblTyped(g) /\ IsTable(g)
  BY <1>4, <1>6 DEF TblTyped, IsTable, Fields
<1>9. TblTyped(h) /\ IsTable(h)
  <2>1. h.wsize = f.tbl.wsize /\ h.slot = f.tbl.slot /\ h.amsdu = f.tbl.amsdu /\ h.ba = f.tbl.ba
    BY <1>4 DEF Checked, IsTable, Fields
  <2>2. IsTable(h)
    BY <1>4, CheckedKeeps DEF Kept
  <2> QED BY <1>6, <2>1, <2>2 DEF TblTyped
<1>10. new.pay = pay
  BY DEF NoLoc
<1> HIDE DEF g, h, new
<1>11. \A d \in Contexts : loc'[d].pay \in Frames \cup {Empty, FwDrop}
  BY <1>3, <1>10 DEF TypedInv, WinInv
<1>12. tbl' # NoTbl /\ TblTyped(tbl')
  BY <1>3, <1>4, <1>6, <1>8, <1>9, TableIsOne
<1> QED BY <1>3, <1>7, <1>11, <1>12

\* the placing of a packet,
LEMMA PlaceTyped ==
  ASSUME TypedInv, NEW c \in Contexts, WellFormed(tbl), tbl.wsize > 1, tbl # NoTbl,
         loc \in [Contexts -> Locals], loc[c].n \in Numbers, loc[c].prev = tbl.start, Place(c)
  PROVE  /\ TblTyped(tbl') /\ top' \in -1 .. left.last
         /\ \A d \in Contexts : loc'[d].pay \in Frames \cup {Empty, FwDrop}
<1> DEFINE m == PlaceMove(c)
           s == PlaceSlot(c)
           lo == [loc EXCEPT ![c].pay = Empty]
<1>1. /\ s \in 0 .. tbl.wsize - 1 /\ WellFormed(m.tbl)
      /\ Shifted(tbl, m.tbl, PlaceBy(c), m.up) /\ m.tbl.amsdu = tbl.amsdu /\ m.tbl.ba = tbl.ba
  BY PlaceWindow
<1>2. tbl.wsize \in Nat /\ TblTyped(tbl)
  BY DEF WellFormed, IsTable, TypedInv
<1>3. \A d \in Contexts : lo[d].pay \in Frames \cup {Empty, FwDrop}
  BY DEF TypedInv, Locals
<1>4. CASE PlaceOld(c)
  <2>1. UNCHANGED <<tbl, top>> /\ loc' = lo
    BY <1>4, PlaceDrops DEF Gone
  <2> QED BY <1>2, <1>3, <2>1 DEF TypedInv
<1>5. CASE ~PlaceOld(c)
  <2>1. /\ top' = IF tbl.nodrop THEN -1 ELSE LastUp(m.up)
        /\ (loc' = loc \/ loc' = lo)
        /\ \/ tbl' = m.tbl
           \/ \E b : tbl' = [m.tbl EXCEPT !.slot[s] = loc[c].pay, !.bits = b]
    BY <1>5, PlaceTakes DEF Gone
  <2> HIDE DEF m, s, lo
  <2>2. TblTyped(m.tbl) /\ \A j \in DOMAIN m.up : m.up[j] \in Frames
    BY <1>1, <1>2, ShiftTyped
  <2>3. top' \in -1 .. left.last
    BY <1>1, <1>2, <2>1, <2>2, LastUpTyped
  <2>4. loc[c].pay \in Frames \cup {Empty, FwDrop}
    BY DEF TypedInv
  <2>5. ASSUME NEW b, tbl' = [m.tbl EXCEPT !.slot[s] = loc[c].pay, !.bits = b]
        PROVE  TblTyped(tbl')
    <3>1. IsTable(m.tbl) /\ m.tbl.slot \in [0 .. m.tbl.wsize - 1 -> Numbers \cup {Empty, FwDrop}]
      BY <1>1 DEF WellFormed
    <3>2. /\ tbl'.wsize = m.tbl.wsize /\ tbl'.amsdu = m.tbl.amsdu /\ tbl'.ba = m.tbl.ba
          /\ tbl'.slot = [m.tbl.slot EXCEPT ![s] = loc[c].pay]
      BY <2>5, <3>1 DEF IsTable, Fields
    <3>3. \A i \in 0 .. m.tbl.wsize - 1 : tbl'.slot[i] \in Frames \cup {Empty, FwDrop}
      BY <2>2, <2>4, <3>1, <3>2 DEF TblTyped
    <3> QED BY <2>2, <3>2, <3>3 DEF TblTyped
  <2> QED BY <1>3, <2>1, <2>2, <2>3, <2>5 DEF TypedInv
<1> QED BY <1>4, <1>5

\* and the parts of the type invariant, put together.
LEMMA TypedFrom ==
  ASSUME TypedInv, left \in Load, [Next]_vars,
         tbl' # NoTbl => TblTyped(tbl'),
         pc'["main"] = "create" => op'.win \in left.wins,
         timer' \in [armed : BOOLEAN, canceled : BOOLEAN, period : BOOLEAN],
         hand' \in {"idle", "fired", "table", "unset", "tail"},
         aflush' \in BOOLEAN, rxwork' \in BOOLEAN,
         pc'["main"] \notin {"top", "dequeue"}, pc'["rx"] # "create",
         low' \in Nat, top' \in -1 .. left.last,
         \A c \in Contexts : loc'[c].pay \in Frames \cup {Empty, FwDrop}
  PROVE  TypedInv'
<1>1. /\ left'.first = left.first /\ left'.last = left.last /\ left'.wins = left.wins
      /\ Frames' = Frames
  BY LeftKept
<1>2. (\E l \in Loads : left.first = l.first /\ left.last = l.last /\ left.wins = l.wins)'
  BY <1>1 DEF TypedInv
<1> QED BY <1>1, <1>2 DEF TypedInv, TblTyped

\* The peer's window only moves up.
LEMMA LowKept ==
  ASSUME TypedInv, NEW n \in Frames
  PROVE  /\ Higher(low, n - PeerWindow + 1) \in Nat
         /\ Higher(low, n - PeerWindow + 1) >= low
         /\ n < Higher(low, n - PeerWindow + 1) + PeerWindow
<1>1. low \in Nat /\ n \in Nat /\ PeerWindow \in Nat
  BY LoadIs DEF TypedInv
<1> QED BY <1>1 DEF Higher

\* Every step keeps the types.
LEMMA TypedKept ==
  ASSUME WinsFit, ~SyncRaces, ShapeInv, WinInv, TypedInv, [Next]_vars
  PROVE  TypedInv'
<1>0. /\ left \in Load /\ loc \in [Contexts -> Locals] /\ pc \in [Contexts -> Places]
      /\ "rx" \in Contexts /\ "main" \in Contexts /\ Contexts = {"rx", "main"}
      /\ tbl # NoTbl => WellFormed(tbl) /\ IsTable(tbl) /\ TblTyped(tbl) /\ tbl.wsize \in Nat
  BY DEF WinInv, ShapeInv, Contexts, WellFormed, TypedInv, IsTable
<1>a. /\ Canceled \in [armed : BOOLEAN, canceled : BOOLEAN, period : BOOLEAN]
      /\ NoLoc.pay = Empty
  BY CanceledIs DEF NoLoc
<1>b. ASSUME UNCHANGED <<tbl, op, loc, low, top>>,
             timer' \in [armed : BOOLEAN, canceled : BOOLEAN, period : BOOLEAN],
             hand' \in {"idle", "fired", "table", "unset", "tail"},
             aflush' \in BOOLEAN, rxwork' \in BOOLEAN,
             pc'["main"] = "create" => pc["main"] = "create",
             pc'["main"] \notin {"top", "dequeue"}, pc'["rx"] # "create"
      PROVE  TypedInv'
  BY <1>0, <1>b, TypedFrom DEF TypedInv
<1>1. ASSUME NEW c \in Contexts, Resync(c)
       PROVE  TypedInv'
  <2>1. tbl # NoTbl /\ pc[c] = "resync"
    BY <1>1 DEF Resync, ShapeInv, InPkt
  <2>2. /\ \E l \in {"stop", "place"} : pc' = [pc EXCEPT ![c] = l]
        /\ UNCHANGED <<timer, hand, aflush, rxwork, op, low>>
    BY <1>1 DEF Resync, Goto
  <2>3. \A d \in Contexts : loc'[d].pay = loc[d].pay
    <3>1. \/ loc' = [loc EXCEPT ![c].back = "place"]
          \/ loc' = [loc EXCEPT ![c].prev = tbl.start]
      BY <1>1 DEF Resync
    <3> QED BY <1>0, <3>1 DEF Locals
  <2>4. TblTyped(tbl') /\ top' \in -1 .. left.last
    <3>1. CASE ~tbl.nodrop
      <4>1. UNCHANGED <<tbl, top>>
        BY <1>1, <3>1 DEF Resync, history
      <4> QED BY <1>0, <2>1, <4>1 DEF TypedInv
    <3>2. CASE tbl.nodrop
      <4> DEFINE new == Mask(tbl.start + tbl.wsize)
                 d == DispatchUntil(tbl, new)
                 e == [d.tbl EXCEPT !.start = SeqOf(loc[c].n)]
      <4>1. (tbl' = d.tbl \/ tbl' = e) /\ top' = LastUp(d.up)
        BY <1>1, <3>2 DEF Resync, HandUp
      <4>2. new \in 0 .. MAX_TID_VALUE
        BY <1>0, <2>1, Sizes DEF WellFormed, IsTable, Mask
      <4> HIDE DEF new
      <4>3. Shifted(tbl, d.tbl, NoPktToSend(tbl, new), d.up) /\ Same(tbl, d.tbl)
        BY <1>0, <2>1, <4>2, DispatchShifts
      <4>4. IsTable(d.tbl)
        BY <1>0, <2>1, DispatchKeeps DEF Kept
      <4> HIDE DEF d
      <4>5. TblTyped(d.tbl) /\ \A j \in DOMAIN d.up : d.up[j] \in Frames
        BY <1>0, <2>1, <4>3, ShiftTyped DEF Same
      <4>6. TblTyped(e)
        BY <4>4, <4>5 DEF TblTyped, IsTable, Fields
      <4>7. top' \in -1 .. left.last
        BY <1>0, <2>1, <4>1, <4>3, <4>5, LastUpTyped
      <4> QED BY <4>1, <4>5, <4>6, <4>7
    <3> QED BY <3>1, <3>2
  <2> QED BY <1>0, <2>2, <2>3, <2>4, TypedFrom DEF TypedInv
<1>2. ASSUME NEW c \in Contexts, TimerStop(c)
       PROVE  TypedInv'
  <2>1. timer' = timer \/ timer' = Canceled
    BY <1>2 DEF TimerStop
  <2> QED BY <1>0, <1>2, <1>a, <1>b, <2>1 DEF TimerStop, Goto, history, TypedInv
<1>3. ASSUME NEW c \in Contexts, TimerStart(c)
       PROVE  TypedInv'
  <2>1. /\ tbl # NoTbl /\ tbl' = [tbl EXCEPT !.isset = TRUE]
        /\ timer' = [armed |-> TRUE, canceled |-> FALSE, period |-> TRUE]
        /\ UNCHANGED <<hand, aflush, rxwork, op, low, top>>
        /\ \E l \in {"place", Return(c)} : pc' = [pc EXCEPT ![c] = l]
        /\ (loc' = [loc EXCEPT ![c].prev = tbl.start] \/ loc' = [loc EXCEPT ![c] = NoLoc])
    BY <1>3 DEF TimerStart, Goto, history, ShapeInv, InPkt
  <2>2. TblTyped(tbl')
    BY <1>0, <2>1 DEF TblTyped, IsTable, Fields
  <2>3. \A d \in Contexts : loc'[d].pay \in Frames \cup {Empty, FwDrop}
    BY <1>0, <1>a, <2>1 DEF TypedInv, Locals
  <2> QED BY <1>0, <2>1, <2>2, <2>3, TypedFrom DEF TypedInv, Return
<1>4. ASSUME NEW c \in Contexts, Place(c)
       PROVE  TypedInv'
  <2>1. pc[c] = "place" /\ tbl # NoTbl /\ Pending(c)
    BY <1>4 DEF Place, ShapeInv, InPkt, Pending
  <2>2. tbl.wsize > 1 /\ loc[c].n \in Numbers /\ loc[c].prev = tbl.start
    BY <2>1 DEF WinInv, PacketFits
  <2>3. /\ TblTyped(tbl') /\ top' \in -1 .. left.last
        /\ \A d \in Contexts : loc'[d].pay \in Frames \cup {Empty, FwDrop}
    BY <1>0, <1>4, <2>1, <2>2, PlaceTyped
  <2>4. /\ UNCHANGED <<timer, hand, aflush, rxwork, op, low>>
        /\ \E l \in {"scan", "settle"} : pc' = [pc EXCEPT ![c] = l]
    BY <1>4 DEF Place, Gone, Goto
  <2> QED BY <1>0, <2>3, <2>4, TypedFrom DEF TypedInv
<1>5. ASSUME NEW c \in Contexts, Scan(c)
       PROVE  TypedInv'
  <2> DEFINE s == ScanAndDispatch(tbl)
  <2>1. /\ tbl # NoTbl /\ tbl' = s.tbl /\ top' = LastUp(s.up) /\ pc' = [pc EXCEPT ![c] = "settle"]
        /\ UNCHANGED <<timer, hand, aflush, rxwork, op, low, loc>>
    BY <1>5 DEF Scan, Goto, HandUp, ShapeInv, InPkt
  <2>2. Shifted(tbl, s.tbl, HeadRun(tbl), s.up) /\ Same(tbl, s.tbl)
    BY <1>0, <2>1, ScanShifts
  <2> HIDE DEF s
  <2>3. TblTyped(s.tbl) /\ \A j \in DOMAIN s.up : s.up[j] \in Frames
    BY <1>0, <2>1, <2>2, ShiftTyped DEF Same
  <2>4. top' \in -1 .. left.last
    BY <1>0, <2>1, <2>2, <2>3, LastUpTyped
  <2> QED BY <1>0, <2>1, <2>3, <2>4, TypedFrom DEF TypedInv
<1>6. ASSUME NEW c \in Contexts, Settle(c)
       PROVE  TypedInv'
  <2>1. /\ tbl # NoTbl /\ (tbl' = tbl \/ tbl' = [tbl EXCEPT !.isset = FALSE])
        /\ (timer' = timer \/ timer' = Canceled)
        /\ UNCHANGED <<hand, aflush, rxwork, op, low, top>>
        /\ \E l \in {"stop", Return(c)} : pc' = [pc EXCEPT ![c] = l]
        /\ (loc' = [loc EXCEPT ![c].back = "return"] \/ loc' = [loc EXCEPT ![c] = NoLoc])
    BY <1>6 DEF Settle, Goto, history, ShapeInv, InPkt
  <2>2. TblTyped(tbl')
    BY <1>0, <1>6, <2>1 DEF TblTyped, IsTable, Fields, Settle, ShapeInv, InPkt
  <2>3. \A d \in Contexts : loc'[d].pay \in Frames \cup {Empty, FwDrop}
    BY <1>0, <1>a, <2>1 DEF TypedInv, Locals
  <2> QED BY <1>0, <1>a, <2>1, <2>2, <2>3, TypedFrom DEF TypedInv, Return
<1>7. CASE TimerFires
  <2>1. timer' \in [armed : BOOLEAN, canceled : BOOLEAN, period : BOOLEAN]
    BY <1>7 DEF TimerFires, TypedInv
  <2> QED BY <1>7, <1>b, <2>1 DEF TimerFires, history, TypedInv
<1>8. CASE HandlerEnters
  BY <1>8, <1>b DEF HandlerEnters, history, TypedInv
<1>9. CASE HandlerFlags
  <2>1. TblTyped(tbl')
    BY <1>0, <1>9 DEF HandlerFlags, TblTyped, IsTable, Fields
  <2> QED BY <1>0, <1>9, <2>1, TypedFrom DEF HandlerFlags, history, TypedInv
<1>10. CASE HandlerUnsets
  <2>1. TblTyped(tbl')
    BY <1>0, <1>10 DEF HandlerUnsets, TblTyped, IsTable, Fields
  <2> QED BY <1>0, <1>10, <2>1, TypedFrom DEF HandlerUnsets, history, TypedInv
<1>11. CASE HandlerEnds
  <2>1. timer' \in [armed : BOOLEAN, canceled : BOOLEAN, period : BOOLEAN]
    BY <1>11 DEF HandlerEnds, TypedInv
  <2> QED BY <1>11, <1>b, <2>1 DEF HandlerEnds, history, TypedInv
<1>12. CASE Arrive
  BY <1>12, <1>b DEF Arrive, history, TypedInv
<1>13. CASE RxStart
  BY <1>0, <1>13, <1>b DEF RxStart, Goto, history, TypedInv
<1>14. CASE RxFlush
  <2>1. /\ UNCHANGED <<timer, hand, rxwork, op, low, loc>> /\ aflush' = FALSE
        /\ pc' = [pc EXCEPT !["rx"] = "dequeue"]
    BY <1>14 DEF RxFlush, Goto
  <2>2. CASE aflush /\ tbl # NoTbl
    <3> DEFINE f == TakeFlush(tbl)
    <3>1. tbl' = f.tbl /\ top' = LastUp(f.up)
      BY <1>14, <2>2 DEF RxFlush, HandUp
    <3>2. Same(tbl, f.tbl) /\ \E k : Shifted(tbl, f.tbl, k, f.up)
      BY <1>0, <2>2, FlushShifts
    <3> HIDE DEF f
    <3>3. PICK k : Shifted(tbl, f.tbl, k, f.up)
      BY <3>2
    <3>4. TblTyped(f.tbl) /\ \A j \in DOMAIN f.up : f.up[j] \in Frames
      BY <1>0, <2>2, <3>2, <3>3, ShiftTyped DEF Same
    <3>5. top' \in -1 .. left.last
      BY <1>0, <2>2, <3>1, <3>3, <3>4, LastUpTyped
    <3> QED BY <1>0, <2>1, <3>1, <3>4, <3>5, TypedFrom DEF TypedInv
  <2>3. CASE ~(aflush /\ tbl # NoTbl)
    <3>1. UNCHANGED <<tbl, top>>
      BY <1>14, <2>3 DEF RxFlush, history
    <3> QED BY <1>0, <1>b, <2>1, <3>1 DEF TypedInv
  <2> QED BY <2>2, <2>3
<1>15. CASE RxEmpty
  BY <1>0, <1>15, <1>b DEF RxEmpty, Goto, history, TypedInv
<1>16. ASSUME NEW n \in Numbers, NEW type \in {"data", "amsdu", "bar"},
         RxPacket(n, type)
       PROVE  TypedInv'
  <2>1. n \in Frames /\ pc["rx"] = "dequeue" /\ left' = left
        /\ low' = IF type = "bar" THEN n ELSE Higher(low, n - PeerWindow + 1)
    BY <1>16 DEF RxPacket, Transmittable
  <2>2. low' \in Nat
    BY <2>1, LowKept, LoadIs
  <2>3. CASE tbl = NoTbl \/ tbl.wsize <= 1
    <3>1. /\ UNCHANGED <<tbl, timer, hand, aflush, rxwork, loc, op, top>>
          /\ pc' = [pc EXCEPT !["rx"] = "top"]
      BY <1>16, <2>3 DEF RxPacket, Goto, history
    <3> QED BY <1>0, <2>2, <3>1, TypedFrom DEF TypedInv
  <2>4. CASE ~(tbl = NoTbl \/ tbl.wsize <= 1)
    <3> DEFINE pay == IF type = "bar" THEN Empty ELSE n
    <3>1. Admit("rx", n, type, pay) /\ pay \in Frames \cup {Empty, FwDrop}
      BY <1>16, <2>1, <2>4 DEF RxPacket
    <3> HIDE DEF pay
    <3>2. /\ TblTyped(tbl') /\ tbl' # NoTbl /\ top' \in -1 .. left.last
          /\ \A d \in Contexts : loc'[d].pay \in Frames \cup {Empty, FwDrop}
          /\ UNCHANGED <<timer, hand, aflush, rxwork, op>>
      BY <1>0, <2>4, <3>1, AdmitTyped
    <3>3. \E l \in {"top", "resync"} : pc' = [pc EXCEPT !["rx"] = l]
      BY <3>1 DEF Admit, Goto, Return
    <3>4. pc'["main"] = pc["main"] /\ pc'["rx"] # "create"
      BY <1>0, <3>3
    <3>5. /\ pc["main"] = "create" => op.win \in left.wins
          /\ timer \in [armed : BOOLEAN, canceled : BOOLEAN, period : BOOLEAN]
          /\ hand \in {"idle", "fired", "table", "unset", "tail"}
          /\ aflush \in BOOLEAN /\ rxwork \in BOOLEAN
          /\ pc["main"] \notin {"top", "dequeue"}
      BY DEF TypedInv
    <3>6. low' \in Nat
      BY <2>1, <2>2
    <3>7. /\ pc'["main"] = "create" => op'.win \in left.wins
          /\ timer' \in [armed : BOOLEAN, canceled : BOOLEAN, period : BOOLEAN]
          /\ hand' \in {"idle", "fired", "table", "unset", "tail"}
          /\ aflush' \in BOOLEAN /\ rxwork' \in BOOLEAN
          /\ pc'["main"] \notin {"top", "dequeue"}
      BY <3>2, <3>4, <3>5
    <3>8. left \in Load
      BY <1>0
    <3> QED BY <3>2, <3>4, <3>6, <3>7, <3>8, TypedFrom
  <2> QED BY <2>3, <2>4
<1>17. ASSUME NEW n \in Numbers, NEW win \in UNION {l.wins : l \in Loads}, AddBa(n, win)
       PROVE  TypedInv'
  <2>1. /\ win \in left.wins /\ op'.win = win /\ pc' = [pc EXCEPT !["main"] = "create"]
        /\ UNCHANGED <<hand, aflush, rxwork, loc, low>>
        /\ \/ UNCHANGED <<tbl, timer, top>>
           \/ tbl' = NoTbl /\ top' = -1 /\ (timer' = timer \/ timer' = Canceled)
    BY <1>17 DEF AddBa, DeleteTbl, Goto, history
  <2>2. -1 \in -1 .. left.last
    BY LoadIs
  <2> QED BY <1>0, <1>a, <2>1, <2>2, TypedFrom DEF TypedInv
<1>18. ASSUME NEW last \in LastSeqs, Create(last)
       PROVE  TypedInv'
  <2>1. /\ tbl' = NewTbl(op.ssn, op.win, last) /\ timer' = Canceled /\ pc["main"] = "create"
        /\ pc' = [pc EXCEPT !["main"] = "idle"]
        /\ UNCHANGED <<hand, aflush, rxwork, loc, op, low, top>>
    BY <1>18 DEF Create, Goto, history
  <2>2. op.win \in left.wins
    BY <2>1 DEF TypedInv
  <2>3. TblTyped(tbl')
    BY <2>1, <2>2 DEF TblTyped, NewTbl
  <2> QED BY <1>0, <1>a, <2>1, <2>3, TypedFrom DEF TypedInv
<1>19. CASE CreateFails
  BY <1>0, <1>19, <1>b DEF CreateFails, Goto, history, TypedInv
<1>20. ASSUME NEW amsdu \in BOOLEAN, AddbaResp(amsdu)
       PROVE  TypedInv'
  <2>1. TblTyped(tbl')
    BY <1>0, <1>20 DEF AddbaResp, TblTyped, IsTable, Fields
  <2> QED BY <1>0, <1>20, <2>1, TypedFrom DEF AddbaResp, history, TypedInv
<1>21. CASE Delba
  <2>1. /\ UNCHANGED <<hand, aflush, rxwork, pc, loc, op, low>>
        /\ tbl' = NoTbl /\ top' = -1 /\ (timer' = timer \/ timer' = Canceled)
    BY <1>21 DEF Delba, DeleteTbl
  <2>2. -1 \in -1 .. left.last
    BY LoadIs
  <2> QED BY <1>0, <1>a, <2>1, <2>2, TypedFrom DEF TypedInv
<1>22. CASE SetNoDrop
  <2>1. TblTyped(tbl')
    BY <1>0, <1>22 DEF SetNoDrop, TblTyped, IsTable, Fields
  <2> QED BY <1>0, <1>22, <2>1, TypedFrom DEF SetNoDrop, history, TypedInv
<1>23. ASSUME NEW n \in Numbers, SyncPacket(n)
       PROVE  TypedInv'
  <2>1. /\ n \in Frames /\ pc["main"] = "idle" /\ tbl # NoTbl /\ Admit("main", n, "data", FwDrop)
        /\ low' = Higher(low, n - PeerWindow + 1)
    BY <1>23 DEF SyncPacket, Transmittable, MainFree
  <2>2. low' \in Nat
    BY <2>1, LowKept
  <2>3. /\ TblTyped(tbl') /\ tbl' # NoTbl /\ top' \in -1 .. left.last
        /\ \A d \in Contexts : loc'[d].pay \in Frames \cup {Empty, FwDrop}
        /\ UNCHANGED <<timer, hand, aflush, rxwork, op>>
    BY <1>0, <2>1, AdmitTyped
  <2>4. \E l \in {"idle", "resync"} : pc' = [pc EXCEPT !["main"] = l]
    BY <2>1 DEF Admit, Goto, Return
  <2> QED BY <1>0, <2>2, <2>3, <2>4, TypedFrom DEF TypedInv
<1>24. CASE UNCHANGED vars
  BY <1>24, <1>b DEF vars, TypedInv
<1> QED BY <1>1, <1>2, <1>3, <1>4, <1>5, <1>6, <1>7, <1>8, <1>9, <1>10, <1>11,
   <1>12, <1>13, <1>14, <1>15, <1>16, <1>17, <1>18, <1>19, <1>20, <1>21, <1>22,
   <1>23, <1>24
    DEF Next, PktStep, Handler

\* The counts are numbers.
LEMMA CountsNat ==
  ASSUME NEW t, t = NoTbl \/ WellFormed(t), NEW p, NEW l, NEW n \in Numbers
  PROVE  Held(t, n) \in Nat /\ Carried(p, l, n) \in Nat
<1>1. t # NoTbl => Slots(t, n) \in Nat
  BY SlotsAre
<1>2. Carried(p, l, n) \in Nat
  <2>1. IsFiniteSet(Contexts)
    <3>1. IsFiniteSet({"rx"}) /\ Contexts = {"rx"} \cup {"main"}
      BY FS_Singleton DEF Contexts
    <3> QED BY <3>1, FS_AddElement
  <2>2. CarriersIn(p, l, n) \subseteq Contexts
    BY DEF CarriersIn
  <2> QED BY <2>1, <2>2, FS_Subset, FS_CardinalityType DEF Carried
<1> QED BY <1>1, <1>2 DEF Held

\* The same buffers in the same hands.
LEMMA SameCarriers ==
  ASSUME NEW p, NEW l, NEW q, NEW m, NEW n,
         \A c \in Contexts : p[c] \in InPktAt /\ l[c].pay = n <=> q[c] \in InPktAt /\ m[c].pay = n
  PROVE  Carried(p, l, n) = Carried(q, m, n)
<1>1. CarriersIn(p, l, n) = CarriersIn(q, m, n)
  BY DEF CarriersIn
<1> QED BY <1>1 DEF Carried

\* What a move of the window hands up, t becoming u and then v with the same buffer.
LEMMA HeldMoves ==
  ASSUME NEW t, WellFormed(t), NEW u, NEW k, NEW up, Shifted(t, u, k, up),
         NEW v, v # NoTbl, v.slot = u.slot, v.wsize = u.wsize, NEW n \in Numbers
  PROVE  /\ Held(t, n) = Held(v, n) + CountIn(up, n)
         /\ Held(v, n) \in Nat /\ CountIn(up, n) \in Nat
<1>1. t # NoTbl
  BY TableIsOne DEF WellFormed
<1>2. Slots(v, n) = Slots(u, n)
  BY DEF Slots
<1> QED BY <1>1, <1>2, MoveCounts DEF Held

\* A step that accounts for what it moves keeps the history true,
LEMMA FateMoved ==
  ASSUME owed = [n \in Frames |-> Held(tbl, n) + Carried(pc, loc, n)], Frames' = Frames,
         NEW in, NEW up, NEW gone, Account(in, up, gone),
         \A n \in Frames :
           Held(tbl', n) + Carried(pc', loc', n)
             = Held(tbl, n) + Carried(pc, loc, n)
               + CountIn(in, n) - CountIn(up, n) - CountIn(gone, n)
  PROVE  owed' = [n \in Frames' |-> Held(tbl', n) + Carried(pc', loc', n)]
BY DEF Account

\* and so does one that moves nothing.
LEMMA FateStill ==
  ASSUME owed = [n \in Frames |-> Held(tbl, n) + Carried(pc, loc, n)], Frames' = Frames,
         owed' = owed,
         \A n \in Frames : Held(tbl', n) = Held(tbl, n),
         \A n \in Frames : \A c \in Contexts :
           pc[c] \in InPktAt /\ loc[c].pay = n <=> pc'[c] \in InPktAt /\ loc'[c].pay = n
  PROVE  owed' = [n \in Frames' |-> Held(tbl', n) + Carried(pc', loc', n)]
<1>1. \A n \in Frames : Carried(pc, loc, n) = Carried(pc', loc', n)
  BY SameCarriers
<1> QED BY <1>1

\* A table that differs in other fields only.
LEMMA SameHeld ==
  ASSUME NEW t, NEW v, t # NoTbl, v # NoTbl, v.slot = t.slot, v.wsize = t.wsize, NEW n
  PROVE  Held(v, n) = Held(t, n)
BY DEF Held, Slots

\* A packet stored in a free slot.
LEMMA StoreCounts ==
  ASSUME NEW u, WellFormed(u), NEW v, WellFormed(v), v.wsize = u.wsize,
         NEW i \in 0 .. u.wsize - 1, u.slot[i] = Empty, NEW pay, v.slot = [u.slot EXCEPT ![i] = pay],
         NEW n \in Numbers
  PROVE  Slots(v, n) = Slots(u, n) + (IF pay = n THEN 1 ELSE 0)
<1>1. n # Empty /\ DOMAIN u.slot = 0 .. u.wsize - 1
  BY NumbersNat DEF WellFormed
<1>2. \A j \in 0 .. u.wsize - 1 : v.slot[j] = IF j = i THEN pay ELSE u.slot[j]
  BY <1>1
<1>3. CASE pay = n
  <2>1. Slots(v, n) = 1
    <3>1. i \in 0 .. v.wsize - 1 /\ v.slot[i] = n
      BY <1>2, <1>3
    <3> QED BY <3>1, SlotsAre
  <2>2. ~\E j \in 0 .. u.wsize - 1 : u.slot[j] = n
    <3> SUFFICES ASSUME NEW j \in 0 .. u.wsize - 1, u.slot[j] = n PROVE FALSE
      OBVIOUS
    <3>1. j # i
      BY <1>1
    <3>2. v.slot[j] = n /\ v.slot[i] = n /\ i \in 0 .. v.wsize - 1 /\ j \in 0 .. v.wsize - 1
      BY <1>2, <1>3, <3>1
    <3>3. j = i
      BY ONLY <3>2, WellFormed(v), n \in Numbers, OneSlot
    <3> QED BY <3>1, <3>2, <3>3
  <2>3. Slots(u, n) = 0
    BY <2>2, SlotsAre
  <2> QED BY <1>3, <2>1, <2>3
<1>4. CASE pay # n
  <2>1. {j \in 0 .. u.wsize - 1 : v.slot[j] = n} = {j \in 0 .. u.wsize - 1 : u.slot[j] = n}
    BY <1>1, <1>2, <1>4
  <2>2. Slots(v, n) = Slots(u, n)
    BY <2>1 DEF Slots
  <2>3. Slots(u, n) \in Nat
    BY SlotsAre
  <2> QED BY <1>4, <2>2, <2>3
<1> QED BY <1>3, <1>4

\* The placing of a packet: it goes into the buffer or is dropped, once.
LEMMA PlaceFate ==
  ASSUME TypedInv, NEW c \in Contexts, WellFormed(tbl), WellFormed(tbl'), tbl.wsize > 1,
         loc \in [Contexts -> Locals], loc[c].n \in Numbers, loc[c].prev = tbl.start,
         loc[c].type = "bar" => loc[c].pay \notin Frames,
         pc \in [Contexts -> Places], \A d \in Contexts \ {c} : pc[d] \notin InPktAt,
         Frames' = Frames, owed = [n \in Frames |-> Held(tbl, n) + Carried(pc, loc, n)],
         Place(c)
  PROVE  /\ owed' = [n \in Frames' |-> Held(tbl', n) + Carried(pc', loc', n)]
         /\ loc'[c].pay \notin Frames
<1> DEFINE m == PlaceMove(c)
           s == PlaceSlot(c)
           pay == loc[c].pay
           lo == [loc EXCEPT ![c].pay = Empty]
<1>1. /\ s \in 0 .. tbl.wsize - 1 /\ WellFormed(m.tbl)
      /\ Shifted(tbl, m.tbl, PlaceBy(c), m.up)
  BY PlaceWindow
<1>2. tbl # NoTbl /\ tbl' # NoTbl /\ m.tbl # NoTbl
  BY <1>1, TableIsOne DEF WellFormed
<1>3. Frames \subseteq Numbers /\ \A n \in Frames : n # Empty
  BY LoadIs, NumbersNat
<1>4. lo[c].pay = Empty /\ \A d \in Contexts \ {c} : lo[d] = loc[d]
  BY DEF Locals
<1>5. pc[c] \in InPktAt
  BY DEF Place, InPktAt
<1>6. ASSUME NEW n \in Frames
      PROVE  Carried(pc, loc, n) = IF pay = n THEN 1 ELSE 0
  BY <1>5, OneCarrier
<1>7. ASSUME NEW l, Goto(c, l), l \in InPktAt
      PROVE  pc'[c] \in InPktAt /\ \A d \in Contexts \ {c} : pc'[d] \notin InPktAt
  BY <1>7 DEF Goto
<1>8. ASSUME NEW l, Goto(c, l), l \in InPktAt, loc' = lo, NEW n \in Frames
      PROVE  Carried(pc', loc', n) = 0
  <2>1. pc'[c] \in InPktAt /\ \A d \in Contexts \ {c} : pc'[d] \notin InPktAt
    BY <1>7, <1>8
  <2>2. loc'[c].pay # n
    BY <1>3, <1>4, <1>8
  <2> QED BY <2>1, <2>2, OneCarrier
<1>9. {"scan", "settle"} \subseteq InPktAt
  BY DEF InPktAt
<1>10. CASE PlaceOld(c)
  <2>1. /\ Account(<<>>, <<>>, BufferOf(pay)) /\ Goto(c, "settle") /\ loc' = lo /\ tbl' = tbl
    BY <1>10, PlaceDrops DEF Gone
  <2> HIDE DEF lo, pay
  <2>2. ASSUME NEW n \in Frames
        PROVE  Held(tbl', n) + Carried(pc', loc', n)
                 = Held(tbl, n) + Carried(pc, loc, n)
                   + CountIn(<<>>, n) - CountIn(<<>>, n) - CountIn(BufferOf(pay), n)
    <3>1. CountIn(<<>>, n) = 0 /\ CountIn(BufferOf(pay), n) = IF pay = n THEN 1 ELSE 0
      BY <1>3, CountOf
    <3>2. Carried(pc', loc', n) = 0 /\ Carried(pc, loc, n) = IF pay = n THEN 1 ELSE 0
      BY <1>6, <1>8, <1>9, <2>1
    <3>3. Held(tbl, n) \in Nat
      BY <1>3, CountsNat
    <3> QED BY <2>1, <3>1, <3>2, <3>3
  <2> QED BY <1>3, <1>4, <2>1, <2>2, FateMoved
<1>11. CASE ~PlaceOld(c)
  <2>1. \/ /\ loc[c].type = "bar" /\ tbl' = m.tbl
           /\ Account(<<>>, m.up, <<>>) /\ Goto(c, "scan") /\ UNCHANGED loc
        \/ /\ tbl' = m.tbl
           /\ Account(<<>>, m.up, BufferOf(pay)) /\ Goto(c, "settle") /\ loc' = lo
        \/ /\ m.tbl.slot[s] = Empty
           /\ \E b : tbl' = [m.tbl EXCEPT !.slot[s] = pay, !.bits = b]
           /\ Account(<<>>, m.up, <<>>) /\ loc' = lo /\ Goto(c, "scan")
    BY <1>11, PlaceTakes DEF Gone, Duplicate
  <2> HIDE DEF m, s, lo, pay
  <2>2. ASSUME NEW n \in Frames
        PROVE  /\ Held(tbl, n) = Held(m.tbl, n) + CountIn(m.up, n)
               /\ Held(m.tbl, n) \in Nat /\ CountIn(m.up, n) \in Nat
    BY <1>1, <1>2, <1>3, HeldMoves
  <2>3. CASE /\ loc[c].type = "bar" /\ tbl' = m.tbl
             /\ Account(<<>>, m.up, <<>>) /\ Goto(c, "scan") /\ UNCHANGED loc
    <3>1. ASSUME NEW n \in Frames
          PROVE  Held(tbl', n) + Carried(pc', loc', n)
                   = Held(tbl, n) + Carried(pc, loc, n)
                     + CountIn(<<>>, n) - CountIn(m.up, n) - CountIn(<<>>, n)
      <4>1. CountIn(<<>>, n) = 0
        BY <1>3, CountOf
      <4>2. Carried(pc', loc', n) = Carried(pc, loc, n) /\ Carried(pc, loc, n) \in Nat
        <5>1. Carried(pc', loc', n) = IF loc'[c].pay = n THEN 1 ELSE 0
          BY <1>7, <1>9, <2>3, OneCarrier
        <5> QED BY <1>6, <2>3, <5>1 DEF pay
      <4> QED BY <2>2, <2>3, <4>1, <4>2
    <3> QED BY <2>3, <3>1, FateMoved
  <2>4. CASE /\ tbl' = m.tbl
             /\ Account(<<>>, m.up, BufferOf(pay)) /\ Goto(c, "settle") /\ loc' = lo
    <3>1. ASSUME NEW n \in Frames
          PROVE  Held(tbl', n) + Carried(pc', loc', n)
                   = Held(tbl, n) + Carried(pc, loc, n)
                     + CountIn(<<>>, n) - CountIn(m.up, n) - CountIn(BufferOf(pay), n)
      <4>1. CountIn(<<>>, n) = 0 /\ CountIn(BufferOf(pay), n) = IF pay = n THEN 1 ELSE 0
        BY <1>3, CountOf
      <4>2. Carried(pc', loc', n) = 0 /\ Carried(pc, loc, n) = IF pay = n THEN 1 ELSE 0
        BY <1>6, <1>8, <1>9, <2>4
      <4> QED BY <2>2, <2>4, <4>1, <4>2
    <3> QED BY <1>3, <1>4, <2>4, <3>1, FateMoved
  <2>5. CASE /\ m.tbl.slot[s] = Empty
             /\ \E b : tbl' = [m.tbl EXCEPT !.slot[s] = pay, !.bits = b]
             /\ Account(<<>>, m.up, <<>>) /\ loc' = lo /\ Goto(c, "scan")
    <3>1. m.tbl.wsize = tbl.wsize /\ s \in 0 .. m.tbl.wsize - 1
      BY <1>1 DEF Shifted
    <3>2. tbl'.wsize = m.tbl.wsize /\ tbl'.slot = [m.tbl.slot EXCEPT ![s] = pay]
      BY <1>1, <2>5 DEF WellFormed, IsTable, Fields
    <3>3. ASSUME NEW n \in Frames
          PROVE  Held(tbl', n) + Carried(pc', loc', n)
                   = Held(tbl, n) + Carried(pc, loc, n)
                     + CountIn(<<>>, n) - CountIn(m.up, n) - CountIn(<<>>, n)
      <4>1. CountIn(<<>>, n) = 0
        BY <1>3, CountOf
      <4>2. Carried(pc', loc', n) = 0 /\ Carried(pc, loc, n) = IF pay = n THEN 1 ELSE 0
        BY <1>6, <1>8, <1>9, <2>5
      <4>3. Slots(tbl', n) = Slots(m.tbl, n) + (IF pay = n THEN 1 ELSE 0)
        <5>1. n \in Numbers /\ m.tbl.slot[s] = Empty
          BY <1>3, <2>5
        <5> QED BY <1>1, <3>1, <3>2, <5>1, StoreCounts
      <4>4. Held(tbl', n) = Held(m.tbl, n) + (IF pay = n THEN 1 ELSE 0)
        BY <1>2, <4>3 DEF Held
      <4> QED BY <2>2, <4>1, <4>2, <4>4
    <3> QED BY <1>3, <1>4, <2>5, <3>3, FateMoved
  <2> QED BY <2>1, <2>3, <2>4, <2>5
<1> QED BY <1>10, <1>11

\* mlan_11n_rxreorder_pkt up to where it first yields: what it flushes is handed up, and
\* the new buffer is in hand if it goes on.
LEMMA AdmitFate ==
  ASSUME ShapeInv, WinInv, TypedInv, tbl # NoTbl, NEW c \in Contexts, NEW n, NEW type,
         NEW pay, type = "bar" => pay \notin Frames, Admit(c, n, type, pay),
         \A d \in Contexts : pc[d] \notin InPktAt, Frames' = Frames,
         owed = [f \in Frames |-> Held(tbl, f) + Carried(pc, loc, f)]
  PROVE  /\ owed' = [f \in Frames' |-> Held(tbl', f) + Carried(pc', loc', f)]
         /\ \A d \in Contexts : pc'[d] \in InPktAt =>
              d = c /\ pc'[d] = "resync" /\ (loc'[d].type = "bar" => loc'[d].pay \notin Frames)
<1> DEFINE f == TakeFlush(tbl)
           g == [f.tbl EXCEPT !.count = @ + 1, !.last = SeqOf(n)]
           h == Checked(f.tbl, SeqOf(n))
           new == [NoLoc EXCEPT !.n = n, !.type = type, !.pay = pay]
<1>1. WellFormed(tbl) /\ IsTable(tbl)
  BY DEF WinInv, WellFormed
<1>2. \E k : Shifted(tbl, f.tbl, k, f.up)
  BY <1>1, FlushShifts
<1>3. \/ /\ (tbl' = f.tbl \/ tbl' = g) /\ Goto(c, Return(c)) /\ UNCHANGED loc
         /\ Account(<<>>, f.up, <<>>)
      \/ /\ tbl' = h /\ Goto(c, "resync") /\ loc' = [loc EXCEPT ![c] = new]
         /\ Account(BufferOf(pay), f.up, <<>>)
  BY DEF Admit
<1>4. IsTable(f.tbl)
  BY <1>1, FlushKeeps DEF Kept
<1> HIDE DEF f
<1>5. g.slot = f.tbl.slot /\ g.wsize = f.tbl.wsize /\ IsTable(g)
  BY <1>4 DEF IsTable, Fields
<1>6. h.slot = f.tbl.slot /\ h.wsize = f.tbl.wsize /\ IsTable(h)
  <2>1. h.slot = f.tbl.slot /\ h.wsize = f.tbl.wsize
    BY <1>4 DEF Checked, IsTable, Fields
  <2> QED BY <1>4, <2>1, CheckedKeeps DEF Kept
<1>7. new.type = type /\ new.pay = pay
  BY DEF NoLoc
<1> HIDE DEF g, h, new
<1>8. tbl' # NoTbl /\ tbl'.slot = f.tbl.slot /\ tbl'.wsize = f.tbl.wsize
  BY <1>3, <1>4, <1>5, <1>6, TableIsOne
<1>9. Frames \subseteq Numbers
  BY LoadIs
<1>10. ASSUME NEW m \in Frames
       PROVE  /\ Held(tbl, m) = Held(tbl', m) + CountIn(f.up, m)
              /\ Held(tbl', m) \in Nat /\ CountIn(f.up, m) \in Nat
  <2>1. PICK k : Shifted(tbl, f.tbl, k, f.up)
    BY <1>2
  <2> QED BY <1>1, <1>8, <1>9, <2>1, HeldMoves
<1>11. CASE /\ (tbl' = f.tbl \/ tbl' = g) /\ Goto(c, Return(c)) /\ UNCHANGED loc
            /\ Account(<<>>, f.up, <<>>)
  <2>1. \A d \in Contexts : pc'[d] \notin InPktAt
    BY <1>11 DEF Goto, Return, InPktAt, ShapeInv
  <2>2. ASSUME NEW m \in Frames
        PROVE  Held(tbl', m) + Carried(pc', loc', m)
                 = Held(tbl, m) + Carried(pc, loc, m)
                   + CountIn(<<>>, m) - CountIn(f.up, m) - CountIn(<<>>, m)
    <3>1. CountIn(<<>>, m) = 0
      BY <1>9, CountOf
    <3>2. Carried(pc', loc', m) = 0 /\ Carried(pc, loc, m) = 0
      BY <2>1, NoCarrier
    <3> QED BY <1>10, <3>1, <3>2
  <2>3. Account(<<>>, f.up, <<>>)
    BY <1>11
  <2>4. owed' = [q \in Frames' |-> Held(tbl', q) + Carried(pc', loc', q)]
    BY <2>2, <2>3, FateMoved
  <2> QED BY <2>1, <2>4
<1>12. CASE /\ tbl' = h /\ Goto(c, "resync") /\ loc' = [loc EXCEPT ![c] = new]
            /\ Account(BufferOf(pay), f.up, <<>>)
  <2>1. /\ pc'[c] = "resync" /\ "resync" \in InPktAt /\ loc'[c] = new
        /\ \A d \in Contexts \ {c} : pc'[d] \notin InPktAt
    BY <1>12 DEF Goto, InPktAt, ShapeInv, WinInv
  <2>2. ASSUME NEW m \in Frames
        PROVE  Held(tbl', m) + Carried(pc', loc', m)
                 = Held(tbl, m) + Carried(pc, loc, m)
                   + CountIn(BufferOf(pay), m) - CountIn(f.up, m) - CountIn(<<>>, m)
    <3>1. CountIn(<<>>, m) = 0 /\ CountIn(BufferOf(pay), m) = IF pay = m THEN 1 ELSE 0
      BY <1>9, CountOf
    <3>2. Carried(pc, loc, m) = 0
      BY NoCarrier
    <3>3. Carried(pc', loc', m) = IF pay = m THEN 1 ELSE 0
      <4>1. loc'[c].pay = pay
        BY <1>7, <2>1
      <4>2. Carried(pc', loc', m) = IF loc'[c].pay = m THEN 1 ELSE 0
        BY <2>1, OneCarrier
      <4> QED BY <4>1, <4>2
    <3> QED BY <1>10, <3>1, <3>2, <3>3
  <2>3. Account(BufferOf(pay), f.up, <<>>)
    BY <1>12
  <2>4. owed' = [q \in Frames' |-> Held(tbl', q) + Carried(pc', loc', q)]
    BY <2>2, <2>3, FateMoved
  <2> QED BY <1>7, <2>1, <2>4
<1> QED BY <1>3, <1>11, <1>12

\* What a step hands up from the buffer, with the same buffers in hand.
LEMMA FateShifted ==
  ASSUME owed = [n \in Frames |-> Held(tbl, n) + Carried(pc, loc, n)], Frames' = Frames,
         Frames \subseteq Numbers, WellFormed(tbl), NEW u, NEW k, NEW up, Shifted(tbl, u, k, up),
         tbl' # NoTbl, tbl'.slot = u.slot, tbl'.wsize = u.wsize, Account(<<>>, up, <<>>),
         \A n \in Frames : \A c \in Contexts :
           pc[c] \in InPktAt /\ loc[c].pay = n <=> pc'[c] \in InPktAt /\ loc'[c].pay = n
  PROVE  owed' = [n \in Frames' |-> Held(tbl', n) + Carried(pc', loc', n)]
<1>1. ASSUME NEW n \in Frames
      PROVE  Held(tbl', n) + Carried(pc', loc', n)
               = Held(tbl, n) + Carried(pc, loc, n)
                 + CountIn(<<>>, n) - CountIn(up, n) - CountIn(<<>>, n)
  <2>1. CountIn(<<>>, n) = 0
    BY CountOf
  <2>2. /\ Held(tbl, n) = Held(tbl', n) + CountIn(up, n)
        /\ Held(tbl', n) \in Nat /\ CountIn(up, n) \in Nat
    BY HeldMoves
  <2>3. Carried(pc', loc', n) = Carried(pc, loc, n)
    BY SameCarriers
  <2>4. Carried(pc, loc, n) \in Nat
    BY CountsNat
  <2> QED BY <2>1, <2>2, <2>3, <2>4
<1> QED BY <1>1, FateMoved

\* A start_win one window further: everything leaves.
LEMMA WholeShifts ==
  ASSUME NEW t, WellFormed(t), NEW new, new = Mask(t.start + t.wsize)
  PROVE  /\ Shifted(t, DispatchUntil(t, new).tbl, t.wsize, DispatchUntil(t, new).up)
         /\ Same(t, DispatchUntil(t, new).tbl) /\ IsTable(DispatchUntil(t, new).tbl)
         /\ DispatchUntil(t, new).tbl.start = new /\ new \in 0 .. MAX_TID_VALUE - 1
         /\ \A i \in 0 .. t.wsize - 1 : DispatchUntil(t, new).tbl.slot[i] = Empty
<1>1. t.wsize \in Nat /\ t.wsize > 0 /\ t.start \in 0 .. MAX_TID_VALUE
      /\ 2 * t.wsize < MAX_TID_VALUE
  BY DEF WellFormed, IsTable
<1>2. new \in 0 .. MAX_TID_VALUE - 1 /\ new \in 0 .. MAX_TID_VALUE
  BY <1>1, Sizes DEF Mask
<1>3. new = t.start + t.wsize \/ new = t.start + t.wsize - MAX_TID_VALUE
  BY <1>1, Sizes, Wraps
<1>4. NoPktToSend(t, new) = t.wsize
  BY <1>1, <1>2, <1>3, Sizes DEF NoPktToSend
<1> DEFINE d == DispatchUntil(t, new)
<1>5. Shifted(t, d.tbl, t.wsize, d.up) /\ Same(t, d.tbl) /\ d.tbl.start = new
  BY <1>2, <1>4, DispatchShifts
<1>6. IsTable(d.tbl)
  BY DispatchKeeps DEF Kept, WellFormed
<1> HIDE DEF d
<1>7. \A i \in 0 .. t.wsize - 1 : d.tbl.slot[i] = Empty
  <2> TAKE i \in 0 .. t.wsize - 1
  <2>1. d.tbl.slot[i] = IF i + t.wsize < t.wsize THEN t.slot[i + t.wsize] ELSE Empty
    BY <1>5 DEF Shifted
  <2>2. ~(i + t.wsize < t.wsize)
    BY <1>1
  <2> QED BY <2>1, <2>2
<1> QED BY <1>2, <1>5, <1>6, <1>7 DEF d

\* A table that is deleted hands up all it holds.
LEMMA DeleteFate ==
  ASSUME FateInv, TypedInv, WinInv, DeleteTbl, Frames' = Frames,
         \A n \in Frames : \A c \in Contexts :
           pc[c] \in InPktAt /\ loc[c].pay = n <=> pc'[c] \in InPktAt /\ loc'[c].pay = n
  PROVE  owed' = [n \in Frames' |-> Held(tbl', n) + Carried(pc', loc', n)]
<1> DEFINE new == Mask(tbl.start + tbl.wsize)
           d == DispatchUntil(tbl, new)
<1>1. tbl # NoTbl /\ tbl' = NoTbl /\ Account(<<>>, d.up, <<>>)
  BY DEF DeleteTbl
<1>2. WellFormed(tbl) /\ Frames \subseteq Numbers
  BY <1>1, LoadIs DEF WinInv
<1>3. /\ Shifted(tbl, d.tbl, tbl.wsize, d.up)
      /\ \A i \in 0 .. tbl.wsize - 1 : d.tbl.slot[i] = Empty
  BY <1>2, WholeShifts
<1> HIDE DEF d, new
<1>4. ASSUME NEW n \in Frames
      PROVE  Held(tbl', n) + Carried(pc', loc', n)
               = Held(tbl, n) + Carried(pc, loc, n)
                 + CountIn(<<>>, n) - CountIn(d.up, n) - CountIn(<<>>, n)
  <2>1. CountIn(<<>>, n) = 0
    BY <1>2, CountOf
  <2>2. /\ Slots(tbl, n) = Slots(d.tbl, n) + CountIn(d.up, n) /\ CountIn(d.up, n) \in Nat
        /\ Slots(d.tbl, n) \in Nat
    BY <1>2, <1>3, MoveCounts
  <2>3. Slots(d.tbl, n) = 0
    <3>1. n # Empty /\ d.tbl.wsize = tbl.wsize
      BY <1>2, <1>3, NumbersNat DEF Shifted
    <3>2. {i \in 0 .. d.tbl.wsize - 1 : d.tbl.slot[i] = n} = {}
      BY <1>3, <3>1
    <3> QED BY <3>2, FS_EmptySet DEF Slots
  <2>4. Carried(pc', loc', n) = Carried(pc, loc, n)
    BY SameCarriers
  <2>5. Carried(pc, loc, n) \in Nat
    BY <1>2, CountsNat
  <2>6. Held(tbl', n) = 0 /\ Held(tbl, n) = Slots(tbl, n)
    BY <1>1 DEF Held
  <2> QED BY <2>1, <2>2, <2>3, <2>4, <2>5, <2>6
<1> QED BY <1>1, <1>4, FateMoved DEF FateInv

\* The two parts, put together.
LEMMA FateFrom ==
  ASSUME owed' = [n \in Frames' |-> Held(tbl', n) + Carried(pc', loc', n)], Frames' = Frames,
         \A c \in Contexts : pc'[c] \in InPktAt =>
           \/ Pending(c)' /\ loc'[c].type # "bar"
           \/ loc'[c].pay \notin Frames
  PROVE  FateInv'
BY DEF FateInv, InPkt, InPktAt

\* Every step keeps the account.
LEMMA FateKept ==
  ASSUME WinsFit, ~SyncRaces, ShapeInv, WinInv, WinInv', TypedInv, FateInv, [Next]_vars
  PROVE  FateInv'
<1>0. /\ loc \in [Contexts -> Locals] /\ pc \in [Contexts -> Places]
      /\ "rx" \in Contexts /\ "main" \in Contexts /\ Contexts = {"rx", "main"}
      /\ tbl # NoTbl => WellFormed(tbl) /\ IsTable(tbl) /\ DOMAIN tbl = Fields
      /\ Frames \subseteq Numbers /\ NoLoc.pay = Empty /\ Empty \notin Frames /\ Frames' = Frames
      /\ owed = [n \in Frames |-> Held(tbl, n) + Carried(pc, loc, n)]
  <2>1. Frames' = Frames
    BY LeftKept DEF WinInv
  <2>2. Frames \subseteq Numbers /\ Empty \notin Frames
    BY LoadIs, NumbersNat
  <2> QED BY <2>1, <2>2 DEF WinInv, ShapeInv, Contexts, WellFormed, IsTable, NoLoc, FateInv
<1>a. ASSUME NEW c \in Contexts, pc[c] \in InPktAt
      PROVE  /\ tbl # NoTbl /\ InPkt(c) /\ \A d \in Contexts \ {c} : pc[d] \notin InPktAt
             /\ ~(Pending(c) /\ loc[c].type # "bar") => loc[c].pay \notin Frames
  <2>1. InPkt(c)
    BY <1>a DEF InPktAt, InPkt
  <2>2. \A d \in Contexts \ {c} : ~InPkt(d)
    BY <2>1, OnePacket
  <2> QED BY <2>1, <2>2 DEF ShapeInv, FateInv, InPkt, InPktAt
<1>b. ASSUME owed' = owed, \A n \in Frames : Held(tbl', n) = Held(tbl, n),
             UNCHANGED loc, \A c \in Contexts : pc'[c] \in InPktAt <=> pc[c] \in InPktAt,
             \A c \in Contexts : pc[c] \in InPktAt => pc'[c] = pc[c]
      PROVE  FateInv'
  <2>1. owed' = [n \in Frames' |-> Held(tbl', n) + Carried(pc', loc', n)]
    BY <1>0, <1>b, FateStill
  <2>2. \A c \in Contexts : pc'[c] \in InPktAt =>
          \/ Pending(c)' /\ loc'[c].type # "bar"
          \/ loc'[c].pay \notin Frames
    <3> SUFFICES ASSUME NEW c \in Contexts, pc[c] \in InPktAt
                 PROVE  \/ Pending(c)' /\ loc[c].type # "bar"
                        \/ loc[c].pay \notin Frames
      BY <1>b
    <3>1. Pending(c)' <=> Pending(c)
      BY <1>b DEF Pending
    <3> QED BY <1>a, <3>1
  <2> QED BY <1>0, <2>1, <2>2, FateFrom
<1>c. ASSUME UNCHANGED <<owed, loc, tbl, pc>> PROVE FateInv'
  BY <1>b, <1>c
<1>1. ASSUME NEW c \in Contexts, Resync(c)
       PROVE  FateInv'
  <2>1. pc[c] = "resync" /\ pc[c] \in InPktAt /\ Pending(c)
    BY <1>1 DEF Resync, InPktAt, Pending
  <2>2. /\ \/ tbl.nodrop /\ pc' = [pc EXCEPT ![c] = "stop"]
              /\ loc' = [loc EXCEPT ![c].back = "place"]
           \/ ~tbl.nodrop /\ pc' = [pc EXCEPT ![c] = "place"]
              /\ loc' = [loc EXCEPT ![c].prev = tbl.start]
    BY <1>1 DEF Resync, Goto
  <2>3. /\ pc'[c] \in InPktAt /\ Pending(c)' /\ \A d \in Contexts \ {c} : pc'[d] = pc[d]
    BY <1>0, <2>2 DEF InPktAt, Pending, Locals
  <2>4. \A d \in Contexts : loc'[d].pay = loc[d].pay /\ loc'[d].type = loc[d].type
    BY <1>0, <2>2 DEF Locals
  <2>5. \A n \in Frames : \A d \in Contexts :
          pc[d] \in InPktAt /\ loc[d].pay = n <=> pc'[d] \in InPktAt /\ loc'[d].pay = n
    BY <2>1, <2>3, <2>4
  <2>6. \A d \in Contexts : pc'[d] \in InPktAt =>
          \/ Pending(d)' /\ loc'[d].type # "bar"
          \/ loc'[d].pay \notin Frames
    BY <1>a, <2>1, <2>3, <2>4
  <2>7. owed' = [n \in Frames' |-> Held(tbl', n) + Carried(pc', loc', n)]
    <3>1. CASE ~tbl.nodrop
      <4>1. UNCHANGED <<tbl, owed>>
        BY <1>1, <3>1 DEF Resync, history
      <4> QED BY <1>0, <2>5, <4>1, FateStill
    <3>2. CASE tbl.nodrop
      <4> DEFINE new == Mask(tbl.start + tbl.wsize)
                 d == DispatchUntil(tbl, new)
                 e == [d.tbl EXCEPT !.start = SeqOf(loc[c].n)]
      <4>1. (tbl' = d.tbl \/ tbl' = e) /\ Account(<<>>, d.up, <<>>)
        BY <1>1, <3>2 DEF Resync
      <4>2. Shifted(tbl, d.tbl, tbl.wsize, d.up) /\ IsTable(d.tbl)
        BY <1>0, <1>a, <2>1, WholeShifts
      <4> HIDE DEF d
      <4>3. e.slot = d.tbl.slot /\ e.wsize = d.tbl.wsize /\ IsTable(e)
        BY <4>2 DEF IsTable, Fields
      <4>4. tbl' # NoTbl /\ tbl'.slot = d.tbl.slot /\ tbl'.wsize = d.tbl.wsize
        BY <4>1, <4>2, <4>3, TableIsOne
      <4>5. WellFormed(tbl) /\ Account(<<>>, d.up, <<>>)
        BY <1>0, <1>a, <2>1, <4>1
      <4> QED BY <1>0, <2>5, <4>2, <4>4, <4>5, FateShifted
    <3> QED BY <3>1, <3>2
  <2> QED BY <1>0, <2>6, <2>7, FateFrom
<1>2. ASSUME NEW c \in Contexts, TimerStop(c)
       PROVE  FateInv'
  <2>1. /\ pc[c] = "stop" /\ pc' = [pc EXCEPT ![c] = "start"] /\ UNCHANGED <<tbl, loc, owed>>
    BY <1>2 DEF TimerStop, Goto, history
  <2>2. pc[c] \in InPktAt /\ pc'[c] \in InPktAt /\ pc'[c] = "start"
        /\ \A d \in Contexts \ {c} : pc'[d] = pc[d]
    BY <1>0, <2>1 DEF InPktAt
  <2>3. Pending(c)' <=> Pending(c)
    BY <2>1, <2>2 DEF Pending
  <2>4. owed' = [n \in Frames' |-> Held(tbl', n) + Carried(pc', loc', n)]
    BY <1>0, <2>1, <2>2, FateStill
  <2>5. \A d \in Contexts : pc'[d] \in InPktAt =>
          \/ Pending(d)' /\ loc'[d].type # "bar"
          \/ loc'[d].pay \notin Frames
    BY <1>a, <2>1, <2>2, <2>3
  <2> QED BY <1>0, <2>4, <2>5, FateFrom
<1>3. ASSUME NEW c \in Contexts, TimerStart(c)
       PROVE  FateInv'
  <2>1. /\ pc[c] = "start" /\ tbl' = [tbl EXCEPT !.isset = TRUE] /\ owed' = owed
        /\ \/ loc[c].back = "place" /\ loc' = [loc EXCEPT ![c].prev = tbl.start]
              /\ pc' = [pc EXCEPT ![c] = "place"]
           \/ loc[c].back # "place" /\ loc' = [loc EXCEPT ![c] = NoLoc]
              /\ pc' = [pc EXCEPT ![c] = Return(c)]
    BY <1>3 DEF TimerStart, Goto, history
  <2>2. pc[c] \in InPktAt /\ tbl # NoTbl
    BY <1>a, <2>1 DEF InPktAt
  <2>3. \A n \in Frames : Held(tbl', n) = Held(tbl, n)
    <3>1. tbl'.slot = tbl.slot /\ tbl'.wsize = tbl.wsize /\ IsTable(tbl')
      BY <1>0, <2>1, <2>2 DEF Fields, IsTable
    <3> QED BY <2>2, <3>1, SameHeld, TableIsOne
  <2>4. \A d \in Contexts \ {c} : pc'[d] \notin InPktAt /\ pc[d] \notin InPktAt
    BY <1>0, <1>a, <2>1, <2>2
  <2>5. /\ pc'[c] \in InPktAt => Pending(c)' /\ loc'[c].pay = loc[c].pay
                                /\ loc'[c].type = loc[c].type /\ Pending(c)
        /\ pc'[c] \notin InPktAt => loc[c].pay \notin Frames
    <3>1. CASE loc[c].back = "place"
      BY <1>0, <2>1, <3>1 DEF Pending, InPktAt, Locals
    <3>2. CASE loc[c].back # "place"
      <4>1. pc'[c] = Return(c) /\ ~Pending(c)
        BY <1>0, <2>1, <3>2 DEF Pending
      <4> QED BY <1>a, <2>2, <4>1 DEF Return, InPktAt
    <3> QED BY <3>1, <3>2
  <2>6. owed' = [n \in Frames' |-> Held(tbl', n) + Carried(pc', loc', n)]
    <3>1. \A n \in Frames : \A d \in Contexts :
            pc[d] \in InPktAt /\ loc[d].pay = n <=> pc'[d] \in InPktAt /\ loc'[d].pay = n
      BY <2>2, <2>4, <2>5
    <3> QED BY <1>0, <2>1, <2>3, <3>1, FateStill
  <2>7. \A d \in Contexts : pc'[d] \in InPktAt =>
          \/ Pending(d)' /\ loc'[d].type # "bar"
          \/ loc'[d].pay \notin Frames
    BY <1>a, <2>2, <2>4, <2>5
  <2> QED BY <1>0, <2>6, <2>7, FateFrom
<1>4. ASSUME NEW c \in Contexts, Place(c)
       PROVE  FateInv'
  <2>1. pc[c] = "place" /\ pc[c] \in InPktAt /\ Pending(c)
    BY <1>4 DEF Place, InPktAt, Pending
  <2>2. /\ tbl # NoTbl /\ \A d \in Contexts \ {c} : pc[d] \notin InPktAt
        /\ loc[c].type = "bar" => loc[c].pay \notin Frames
    BY <1>a, <2>1
  <2>3. /\ tbl.wsize > 1 /\ loc[c].n \in Numbers /\ loc[c].prev = tbl.start /\ ~tbl.check
        /\ loc[c].type # "bar" => loc[c].pay \in {loc[c].n, FwDrop}
    BY <2>1 DEF WinInv, PacketFits
  <2>4. WellFormed(tbl) /\ WellFormed(tbl')
    BY <1>0, <1>4, <2>2, <2>3, PlaceWell
  <2>5. /\ owed' = [n \in Frames' |-> Held(tbl', n) + Carried(pc', loc', n)]
        /\ loc'[c].pay \notin Frames
    BY <1>0, <1>4, <2>2, <2>3, <2>4, PlaceFate
  <2>6. \A d \in Contexts \ {c} : pc'[d] = pc[d]
    <3>1. \E l : pc' = [pc EXCEPT ![c] = l]
      BY <1>4 DEF Place, Gone, Goto
    <3> QED BY <1>0, <3>1
  <2> QED BY <1>0, <2>2, <2>5, <2>6, FateFrom
<1>5. ASSUME NEW c \in Contexts, Scan(c)
       PROVE  FateInv'
  <2> DEFINE s == ScanAndDispatch(tbl)
  <2>1. /\ pc[c] = "scan" /\ tbl' = s.tbl /\ pc' = [pc EXCEPT ![c] = "settle"]
        /\ Account(<<>>, s.up, <<>>) /\ UNCHANGED loc
    BY <1>5 DEF Scan, Goto
  <2>2. /\ pc[c] \in InPktAt /\ pc'[c] \in InPktAt /\ ~Pending(c)
        /\ \A d \in Contexts \ {c} : pc'[d] = pc[d]
    BY <1>0, <2>1 DEF InPktAt, Pending
  <2>3. /\ tbl # NoTbl /\ WellFormed(tbl)
    BY <1>0, <1>a, <2>2
  <2>4. Shifted(tbl, s.tbl, HeadRun(tbl), s.up) /\ IsTable(s.tbl)
    BY <2>3, ScanShifts, ScanKeeps DEF Kept, WellFormed
  <2> HIDE DEF s
  <2>5. tbl' # NoTbl /\ tbl'.slot = s.tbl.slot /\ tbl'.wsize = s.tbl.wsize
    BY <2>1, <2>4, TableIsOne
  <2>6. owed' = [n \in Frames' |-> Held(tbl', n) + Carried(pc', loc', n)]
    <3>1. \A n \in Frames : \A d \in Contexts :
            pc[d] \in InPktAt /\ loc[d].pay = n <=> pc'[d] \in InPktAt /\ loc'[d].pay = n
      BY <2>1, <2>2
    <3>2. Account(<<>>, s.up, <<>>)
      BY <2>1
    <3> QED BY <1>0, <2>3, <2>4, <2>5, <3>1, <3>2, FateShifted
  <2>7. \A d \in Contexts : pc'[d] \in InPktAt =>
          \/ Pending(d)' /\ loc'[d].type # "bar"
          \/ loc'[d].pay \notin Frames
    BY <1>a, <2>1, <2>2
  <2> QED BY <1>0, <2>6, <2>7, FateFrom
<1>6. ASSUME NEW c \in Contexts, Settle(c)
       PROVE  FateInv'
  <2>1. /\ pc[c] = "settle" /\ owed' = owed
        /\ (tbl' = tbl \/ tbl' = [tbl EXCEPT !.isset = FALSE])
        /\ \/ loc' = [loc EXCEPT ![c].back = "return"] /\ pc' = [pc EXCEPT ![c] = "stop"]
           \/ loc' = [loc EXCEPT ![c] = NoLoc] /\ pc' = [pc EXCEPT ![c] = Return(c)]
    BY <1>6 DEF Settle, Goto, history
  <2>2. pc[c] \in InPktAt /\ ~Pending(c)
    BY <2>1 DEF InPktAt, Pending
  <2>3. tbl # NoTbl /\ loc[c].pay \notin Frames /\ \A d \in Contexts \ {c} : pc[d] \notin InPktAt
    BY <1>a, <2>2
  <2>4. \A n \in Frames : Held(tbl', n) = Held(tbl, n)
    <3>1. tbl'.slot = tbl.slot /\ tbl'.wsize = tbl.wsize /\ IsTable(tbl')
      BY <1>0, <2>1, <2>3 DEF Fields, IsTable
    <3> QED BY <2>3, <3>1, SameHeld, TableIsOne
  <2>5. \A d \in Contexts \ {c} : pc'[d] \notin InPktAt
    BY <1>0, <2>1, <2>3
  <2>6. loc'[c].pay \notin Frames
    BY <1>0, <2>1, <2>3 DEF Locals
  <2>7. owed' = [n \in Frames' |-> Held(tbl', n) + Carried(pc', loc', n)]
    <3>1. \A n \in Frames : \A d \in Contexts :
            pc[d] \in InPktAt /\ loc[d].pay = n <=> pc'[d] \in InPktAt /\ loc'[d].pay = n
      BY <2>3, <2>5, <2>6
    <3> QED BY <1>0, <2>1, <2>4, <3>1, FateStill
  <2> QED BY <1>0, <2>5, <2>6, <2>7, FateFrom
<1>7. CASE TimerFires
  BY <1>7, <1>c DEF TimerFires, history
<1>8. CASE HandlerEnters
  BY <1>8, <1>c DEF HandlerEnters, history
<1>9. CASE HandlerFlags \/ HandlerUnsets
  <2>1. /\ tbl # NoTbl /\ (tbl' = [tbl EXCEPT !.flush = TRUE] \/ tbl' = [tbl EXCEPT !.isset = FALSE])
        /\ UNCHANGED <<pc, loc, owed>>
    BY <1>9 DEF HandlerFlags, HandlerUnsets, history
  <2>2. tbl'.slot = tbl.slot /\ tbl'.wsize = tbl.wsize /\ IsTable(tbl')
    BY <1>0, <2>1 DEF Fields, IsTable
  <2>3. \A n \in Frames : Held(tbl', n) = Held(tbl, n)
    BY <2>1, <2>2, SameHeld, TableIsOne
  <2> QED BY <1>b, <2>1, <2>3
<1>11. CASE HandlerEnds
  BY <1>11, <1>c DEF HandlerEnds, history
<1>12. CASE Arrive
  BY <1>12, <1>c DEF Arrive, history
<1>d. ASSUME NEW c \in Contexts, NEW l, pc' = [pc EXCEPT ![c] = l], pc[c] \notin InPktAt,
             l \notin InPktAt
      PROVE  /\ \A d \in Contexts : pc'[d] \in InPktAt <=> pc[d] \in InPktAt
             /\ \A d \in Contexts : pc[d] \in InPktAt => pc'[d] = pc[d]
  BY <1>0, <1>d
<1>13. CASE RxStart
  <2>1. /\ pc["rx"] = "idle" /\ pc' = [pc EXCEPT !["rx"] = "top"] /\ UNCHANGED <<tbl, loc, owed>>
    BY <1>13 DEF RxStart, Goto, history
  <2>2. "idle" \notin InPktAt /\ "top" \notin InPktAt
    BY DEF InPktAt
  <2> QED BY <1>0, <1>b, <1>d, <2>1, <2>2
<1>14. CASE RxFlush
  <2>1. /\ pc["rx"] = "top" /\ pc' = [pc EXCEPT !["rx"] = "dequeue"] /\ UNCHANGED loc
    BY <1>14 DEF RxFlush, Goto
  <2>2. "top" \notin InPktAt /\ "dequeue" \notin InPktAt
    BY DEF InPktAt
  <2>3. /\ \A d \in Contexts : pc'[d] \in InPktAt <=> pc[d] \in InPktAt
        /\ \A d \in Contexts : pc[d] \in InPktAt => pc'[d] = pc[d]
    BY <1>0, <1>d, <2>1, <2>2
  <2>4. CASE aflush /\ tbl # NoTbl
    <3> DEFINE f == TakeFlush(tbl)
    <3>1. tbl' = f.tbl /\ Account(<<>>, f.up, <<>>)
      BY <1>14, <2>4 DEF RxFlush
    <3>2. IsTable(f.tbl) /\ \E k : Shifted(tbl, f.tbl, k, f.up)
      BY <1>0, <2>4, FlushShifts, FlushKeeps DEF Kept
    <3> HIDE DEF f
    <3>3. PICK k : Shifted(tbl, f.tbl, k, f.up)
      BY <3>2
    <3>4. tbl' # NoTbl /\ tbl'.slot = f.tbl.slot /\ tbl'.wsize = f.tbl.wsize
      BY <3>1, <3>2, TableIsOne
    <3>5. \A n \in Frames : \A d \in Contexts :
            pc[d] \in InPktAt /\ loc[d].pay = n <=> pc'[d] \in InPktAt /\ loc'[d].pay = n
      BY <2>1, <2>3
    <3>6. Account(<<>>, f.up, <<>>) /\ WellFormed(tbl)
      BY <1>0, <2>4, <3>1
    <3>7. owed' = [n \in Frames' |-> Held(tbl', n) + Carried(pc', loc', n)]
      BY <1>0, <3>3, <3>4, <3>5, <3>6, FateShifted
    <3>8. \A d \in Contexts : pc'[d] \in InPktAt =>
            \/ Pending(d)' /\ loc'[d].type # "bar"
            \/ loc'[d].pay \notin Frames
      BY <1>a, <2>1, <2>3 DEF Pending
    <3> QED BY <1>0, <3>7, <3>8, FateFrom
  <2>5. CASE ~(aflush /\ tbl # NoTbl)
    <3>1. UNCHANGED <<tbl, owed>>
      BY <1>14, <2>5 DEF RxFlush, history
    <3> QED BY <1>b, <2>1, <2>3, <3>1
  <2> QED BY <2>4, <2>5
<1>15. CASE RxEmpty
  <2>1. /\ pc["rx"] = "dequeue" /\ pc' = [pc EXCEPT !["rx"] = "idle"] /\ UNCHANGED <<tbl, loc, owed>>
    BY <1>15 DEF RxEmpty, Goto, history
  <2>2. "idle" \notin InPktAt /\ "dequeue" \notin InPktAt
    BY DEF InPktAt
  <2> QED BY <1>0, <1>b, <1>d, <2>1, <2>2
<1>e. ASSUME tbl # NoTbl, NEW c \in Contexts, NEW n, NEW type,
             NEW pay, type = "bar" => pay \notin Frames, Admit(c, n, type, pay),
             \A d \in Contexts : pc[d] \notin InPktAt
      PROVE  FateInv'
  <2>1. /\ owed' = [f \in Frames' |-> Held(tbl', f) + Carried(pc', loc', f)]
        /\ \A d \in Contexts : pc'[d] \in InPktAt =>
             pc'[d] = "resync" /\ (loc'[d].type = "bar" => loc'[d].pay \notin Frames)
    BY <1>0, <1>e, AdmitFate
  <2>2. \A d \in Contexts : pc'[d] \in InPktAt =>
          \/ Pending(d)' /\ loc'[d].type # "bar"
          \/ loc'[d].pay \notin Frames
    BY <2>1 DEF Pending
  <2> QED BY <1>0, <2>1, <2>2, FateFrom
<1>16. ASSUME NEW n \in Numbers, NEW type \in {"data", "amsdu", "bar"},
         RxPacket(n, type)
       PROVE  FateInv'
  <2>1. pc["rx"] = "dequeue"
    BY <1>16 DEF RxPacket
  <2>2. pc["rx"] \notin InPktAt /\ "top" \notin InPktAt
    BY <2>1 DEF InPktAt
  <2>3. CASE tbl = NoTbl \/ tbl.wsize <= 1
    <3>1. UNCHANGED <<tbl, loc, owed>> /\ pc' = [pc EXCEPT !["rx"] = "top"]
      BY <1>16, <2>3 DEF RxPacket, Goto, history
    <3> QED BY <1>0, <1>b, <1>d, <2>2, <3>1
  <2>4. CASE ~(tbl = NoTbl \/ tbl.wsize <= 1)
    <3>1. Admit("rx", n, type, IF type = "bar" THEN Empty ELSE n)
      BY <1>16, <2>4 DEF RxPacket
    <3>2. pc["main"] \notin InPktAt
      BY <2>1 DEF ShapeInv, InPkt, InPktAt
    <3>3. type = "bar" => (IF type = "bar" THEN Empty ELSE n) \notin Frames
      BY <1>0
    <3> QED BY <1>0, <1>e, <2>2, <2>4, <3>1, <3>2, <3>3
  <2> QED BY <2>3, <2>4
<1>17. ASSUME NEW n \in Numbers, NEW win \in UNION {l.wins : l \in Loads}, AddBa(n, win)
       PROVE  FateInv'
  <2>1. /\ pc["main"] = "idle" /\ pc' = [pc EXCEPT !["main"] = "create"] /\ UNCHANGED loc
        /\ (UNCHANGED <<tbl, owed>> \/ DeleteTbl)
    BY <1>17 DEF AddBa, MainFree, Goto, history
  <2>2. "idle" \notin InPktAt /\ "create" \notin InPktAt
    BY DEF InPktAt
  <2>3. /\ \A d \in Contexts : pc'[d] \in InPktAt <=> pc[d] \in InPktAt
        /\ \A d \in Contexts : pc[d] \in InPktAt => pc'[d] = pc[d]
    BY <1>0, <1>d, <2>1, <2>2
  <2>4. CASE DeleteTbl
    <3>1. owed' = [f \in Frames' |-> Held(tbl', f) + Carried(pc', loc', f)]
      BY <1>0, <2>1, <2>3, <2>4, DeleteFate
    <3>2. \A d \in Contexts : pc'[d] \in InPktAt =>
            \/ Pending(d)' /\ loc'[d].type # "bar"
            \/ loc'[d].pay \notin Frames
      BY <1>a, <2>1, <2>3 DEF Pending
    <3> QED BY <1>0, <3>1, <3>2, FateFrom
  <2> QED BY <1>b, <2>1, <2>3, <2>4
<1>18. ASSUME NEW last \in LastSeqs, Create(last)
       PROVE  FateInv'
  <2>1. /\ tbl' = NewTbl(op.ssn, op.win, last) /\ pc["main"] = "create"
        /\ pc' = [pc EXCEPT !["main"] = "idle"] /\ UNCHANGED <<loc, owed>>
    BY <1>18 DEF Create, Goto, history
  <2>2. tbl = NoTbl
    BY <2>1 DEF ShapeInv
  <2>3. "idle" \notin InPktAt /\ "create" \notin InPktAt
    BY DEF InPktAt
  <2>4. \A n \in Frames : Held(tbl', n) = Held(tbl, n)
    <3> TAKE n \in Frames
    <3>1. tbl'.wsize = op.win /\ tbl'.slot = [i \in 0 .. op.win - 1 |-> Empty] /\ n # Empty
      BY <1>0, <2>1 DEF NewTbl
    <3>2. {i \in 0 .. tbl'.wsize - 1 : tbl'.slot[i] = n} = {}
      BY <3>1
    <3>3. Slots(tbl', n) = 0
      BY <3>2, FS_EmptySet DEF Slots
    <3> QED BY <2>2, <3>3 DEF Held
  <2> QED BY <1>0, <1>b, <1>d, <2>1, <2>3, <2>4
<1>19. CASE CreateFails
  <2>1. /\ pc["main"] = "create" /\ pc' = [pc EXCEPT !["main"] = "idle"] /\ UNCHANGED <<tbl, loc, owed>>
    BY <1>19 DEF CreateFails, Goto, history
  <2>2. "idle" \notin InPktAt /\ "create" \notin InPktAt
    BY DEF InPktAt
  <2> QED BY <1>0, <1>b, <1>d, <2>1, <2>2
<1>20. CASE (\E amsdu \in BOOLEAN : AddbaResp(amsdu)) \/ SetNoDrop
  <2>1. /\ tbl # NoTbl /\ tbl'.slot = tbl.slot /\ tbl'.wsize = tbl.wsize /\ IsTable(tbl')
        /\ UNCHANGED <<pc, loc, owed>>
    <3>1. /\ tbl # NoTbl /\ IsTable(tbl) /\ UNCHANGED <<pc, loc, owed>>
          /\ \/ tbl' = [tbl EXCEPT !.nodrop = TRUE]
             \/ \E amsdu : tbl' = [tbl EXCEPT !.ba = "complete", !.amsdu = amsdu]
      BY <1>0, <1>20 DEF AddbaResp, SetNoDrop, history
    <3>2. tbl'.slot = tbl.slot /\ tbl'.wsize = tbl.wsize
      BY <3>1 DEF IsTable, Fields
    <3>3. IsTable(tbl')
      BY <1>20, <3>1, FlagStepsKeep DEF Kept
    <3> QED BY <3>1, <3>2, <3>3
  <2>2. \A n \in Frames : Held(tbl', n) = Held(tbl, n)
    BY <2>1, SameHeld, TableIsOne
  <2> QED BY <1>b, <2>1, <2>2
<1>21. CASE Delba
  <2>1. UNCHANGED <<pc, loc>> /\ DeleteTbl
    BY <1>21 DEF Delba
  <2>2. owed' = [f \in Frames' |-> Held(tbl', f) + Carried(pc', loc', f)]
    BY <1>0, <2>1, DeleteFate
  <2>3. \A d \in Contexts : pc'[d] \in InPktAt =>
          \/ Pending(d)' /\ loc'[d].type # "bar"
          \/ loc'[d].pay \notin Frames
    BY <1>a, <2>1 DEF Pending
  <2> QED BY <1>0, <2>2, <2>3, FateFrom
<1>23. ASSUME NEW n \in Numbers, SyncPacket(n)
       PROVE  FateInv'
  <2>1. pc["main"] = "idle" /\ pc["rx"] = "idle" /\ tbl # NoTbl /\ Admit("main", n, "data", FwDrop)
    BY <1>23 DEF SyncPacket, MainFree, RxBlocked
  <2>2. \A d \in Contexts : pc[d] \notin InPktAt
    BY <1>0, <2>1 DEF InPktAt
  <2> QED BY <1>0, <1>e, <2>1, <2>2
<1>24. CASE UNCHANGED vars
  BY <1>24, <1>c DEF vars
<1> QED BY <1>1, <1>2, <1>3, <1>4, <1>5, <1>6, <1>7, <1>8, <1>9, <1>11,
   <1>12, <1>13, <1>14, <1>15, <1>16, <1>17, <1>18, <1>19, <1>20, <1>21,
   <1>23, <1>24
    DEF Next, PktStep, Handler

\* Initially no frame has arrived.
LEMMA InitiallyTyped == Init => TypedInv /\ FateInv
<1> SUFFICES ASSUME Init PROVE TypedInv /\ FateInv
  OBVIOUS
<1>1. /\ tbl = NoTbl /\ pc = [c \in Contexts |-> "idle"] /\ loc = [c \in Contexts |-> NoLoc]
      /\ left \in Loads /\ low = left.first /\ top = -1 /\ owed = [n \in Frames |-> 0]
  BY DEF Init
<1>2. left \in Load
  BY <1>1, ParamsAssumption
<1>3. left.first \in Nat /\ left.last \in Nat
  BY <1>2 DEF Load
<1>4. \A c \in Contexts : loc[c].pay = Empty /\ ~InPkt(c) /\ pc[c] = "idle"
  BY <1>1 DEF NoLoc, InPkt
<1>5. -1 \in -1 .. left.last
  BY <1>3
<1>6. "rx" \in Contexts /\ "main" \in Contexts
  BY DEF Contexts
<1>7. TypedInv
  BY <1>1, <1>3, <1>4, <1>5, <1>6 DEF Init, TypedInv
<1>8. \A n : Carried(pc, loc, n) = 0
  BY <1>4, NoCarrier DEF InPktAt
<1>9. \A n : Held(tbl, n) = 0
  BY <1>1 DEF Held
<1>10. owed = [n \in Frames |-> Held(tbl, n) + Carried(pc, loc, n)]
  BY <1>1, <1>8, <1>9
<1> QED BY <1>4, <1>7, <1>10 DEF FateInv

\* The model is well typed: a table keeps within its window, its bitmap and the number
\* space whatever the peer, the firmware and the host do.
THEOREM ReorderTyped ==
  ASSUME WinsFit, ~SyncRaces PROVE Spec => []TypeOK
<1> DEFINE Inv == ShapeInv /\ WinInv /\ TypedInv /\ FateInv
<1>1. Init => Inv
  BY Initially, InitiallyTyped
<1>2. Inv /\ [Next]_vars => Inv'
  BY ShapeKept, WinKept, TypedKept, FateKept
<1>3. Inv => TypeOK
  <2> SUFFICES ASSUME Inv PROVE TypeOK
    OBVIOUS
  <2>1. ASSUME tbl # NoTbl
        PROVE  /\ tbl.wsize \in left.wins
               /\ tbl.start \in 0 .. MAX_TID_VALUE
               /\ tbl.slot \in [0 .. tbl.wsize - 1 -> Frames \cup {Empty, FwDrop}]
               /\ tbl.bits \subseteq 0 .. Bits - 1
               /\ {tbl.isset, tbl.flush, tbl.amsdu, tbl.nodrop, tbl.check} \subseteq BOOLEAN
               /\ tbl.last \in 0 .. DEFAULT_SEQ_NUM
               /\ tbl.ba \in {"inprogress", "complete"}
    <3>1. WellFormed(tbl) /\ TblTyped(tbl) /\ IsTable(tbl)
      BY <2>1 DEF WinInv, TypedInv, WellFormed
    <3>2. tbl.wsize \in Nat /\ tbl.wsize <= Bits /\ Bits \in Nat
      BY <3>1, ParamsAssumption DEF WellFormed, IsTable
    <3>3. tbl.bits \subseteq 0 .. Bits - 1
      BY <3>1, <3>2 DEF WellFormed
    <3>4. tbl.slot \in [0 .. tbl.wsize - 1 -> Frames \cup {Empty, FwDrop}]
      BY <3>1 DEF WellFormed, TblTyped
    <3>5. tbl.last \in 0 .. DEFAULT_SEQ_NUM
      BY <3>1, Sizes DEF WellFormed, DEFAULT_SEQ_NUM
    <3> QED BY <3>1, <3>3, <3>4, <3>5 DEF WellFormed, IsTable, TblTyped
  <2>2. /\ pc["rx"] \in {"idle", "top", "dequeue", "resync", "stop", "start", "place",
                         "scan", "settle"}
        /\ pc["main"] \in {"idle", "create", "resync", "stop", "start", "place", "scan",
                           "settle"}
    BY DEF ShapeInv, TypedInv, Places, Contexts
  <2>3. owed \in [Frames -> Nat]
    <3>1. \A n \in Frames : Held(tbl, n) + Carried(pc, loc, n) \in Nat
      <4> TAKE n \in Frames
      <4>1. Held(tbl, n) \in Nat /\ Carried(pc, loc, n) \in Nat
        BY LoadIs, CountsNat DEF WinInv
      <4> QED BY <4>1
    <3> QED BY <3>1 DEF FateInv
  <2> QED BY <2>1, <2>2, <2>3 DEF TypeOK, TypedInv
<1> QED BY <1>1, <1>2, <1>3, PTL DEF Spec

\* Every buffer the worker took is in one slot of the window, in the hands of the context
\* that places it, or was handed up or freed once.
THEOREM OneFateHolds ==
  ASSUME WinsFit, ~SyncRaces PROVE Spec => []OneFate
<1> DEFINE Inv == ShapeInv /\ WinInv /\ TypedInv /\ FateInv
<1>1. Init => Inv
  BY Initially, InitiallyTyped
<1>2. Inv /\ [Next]_vars => Inv'
  BY ShapeKept, WinKept, TypedKept, FateKept
<1>3. Inv => OneFate
  <2> SUFFICES ASSUME Inv, NEW n \in Frames
               PROVE  owed[n] = Cardinality({i \in Buffered : tbl.slot[i] = n})
                                + Cardinality({c \in Contexts : InPkt(c) /\ loc[c].pay = n})
    BY DEF OneFate
  <2>1. owed[n] = Held(tbl, n) + Carried(pc, loc, n)
    BY DEF FateInv
  <2>2. Carried(pc, loc, n) = Cardinality({c \in Contexts : InPkt(c) /\ loc[c].pay = n})
    <3>1. CarriersIn(pc, loc, n) = {c \in Contexts : InPkt(c) /\ loc[c].pay = n}
      BY DEF CarriersIn, InPktAt, InPkt
    <3> QED BY <3>1 DEF Carried
  <2>3. Held(tbl, n) = Cardinality({i \in Buffered : tbl.slot[i] = n})
    <3>1. CASE tbl = NoTbl
      <4>1. {i \in Buffered : tbl.slot[i] = n} = {}
        BY <3>1 DEF Buffered
      <4> QED BY <3>1, <4>1, FS_EmptySet DEF Held
    <3>2. CASE tbl # NoTbl
      <4>1. WellFormed(tbl) /\ n # Empty
        BY <3>2, LoadIs, NumbersNat DEF WinInv
      <4>2. {i \in Buffered : tbl.slot[i] = n} = {i \in 0 .. tbl.wsize - 1 : tbl.slot[i] = n}
        BY <3>2, <4>1 DEF Buffered, WellFormed
      <4> QED BY <3>2, <4>2 DEF Held, Slots
    <3> QED BY <3>1, <3>2
  <2> QED BY <2>1, <2>2, <2>3
<1> QED BY <1>1, <1>2, <1>3, PTL DEF Spec

--------------------------------------------------------------------------------
(* The order of the frames                                                   *)

\* The window of t starts at the frame v, counted without the wrap: what is buffered are
\* the frames from v on, what was handed up before (tp) lies behind.  lw is the peer's
\* window, la its last frame, w the largest window.
AlignedTo(v, t, tp, lw, la, w) ==
  /\ t.start = v \/ t.start = v - MAX_TID_VALUE
  /\ v <= lw + w /\ v <= la + w /\ tp < v
  /\ \A i \in 0 .. t.wsize - 1 :
       t.slot[i] # Empty =>
         v + i < lw + w /\ v + i <= la /\ (IsFrame(t.slot[i]) => t.slot[i] = v + i)

\* After force_no_drop emptied the buffer, its window may start anywhere until the packet
\* is placed.
Restarted(t) ==
  /\ t.nodrop /\ t.start < MAX_TID_VALUE
  /\ \A i \in 0 .. t.wsize - 1 : t.slot[i] = Empty
Resyncing(c) == loc[c].back = "place" /\ pc[c] \in {"stop", "start", "place"}

\* last_seq of the table is that of a frame the peer may have sent.
LastFits(t, lw, la, w) == t.last # DEFAULT_SEQ_NUM => t.last < lw + w /\ t.last <= la

Aligned ==
  \E v \in Nat : /\ AlignedTo(v, tbl, top, low, left.last, PeerWindow)
                 /\ \A c \in Contexts : Pending(c) => v <= loc[c].n + PeerWindow

\* The strengthening of InOrder.
OrderInv ==
  NoWrap =>
  /\ inorder
  /\ tbl = NoTbl => top = -1
  /\ pc["main"] = "create" => op.ssn <= low + PeerWindow /\ op.ssn <= left.last
  /\ \A c \in Contexts : Pending(c) =>
       /\ loc[c].n \in Frames /\ loc[c].n < low + PeerWindow
       /\ loc[c].type = "bar" => loc[c].n <= low
  /\ tbl # NoTbl => Aligned \/ (Restarted(tbl) /\ \E c \in Contexts : Resyncing(c))
  /\ tbl # NoTbl => LastFits(tbl, low, left.last, PeerWindow) /\ (tbl.check => top = -1)

\* Half the number space.
LEMMA Half == TWOPOW11 \in Nat /\ 2 * TWOPOW11 = MAX_TID_VALUE
<1>1. MAX_TID_VALUE \in Nat /\ MAX_TID_VALUE % 2 = 0
  BY ParamsAssumption
<1>2. \A x \in Nat : x % 2 = 0 => x \div 2 \in Nat /\ 2 * (x \div 2) = x
  OBVIOUS
<1> QED BY <1>1, <1>2 DEF TWOPOW11

\* The number space wraps at most once over the sums the code forms.
LEMMA WrapsOnce ==
  ASSUME NEW x \in 0 .. 2 * MAX_TID_VALUE - 1
  PROVE  Mask(x) = IF x < MAX_TID_VALUE THEN x ELSE x - MAX_TID_VALUE
<1>1. CASE x < MAX_TID_VALUE
  BY <1>1, Sizes, Wraps
<1>2. CASE ~(x < MAX_TID_VALUE)
  BY <1>2, Sizes, Wraps
<1> QED BY <1>1, <1>2

\* A packet that is not behind the window is at its start or after it: the peer never
\* falls back by more than its window.
LEMMA NotOld ==
  ASSUME NEW v \in Nat, NEW s \in 0 .. MAX_TID_VALUE, s = v \/ s = v - MAX_TID_VALUE,
         NEW n \in 0 .. MAX_TID_VALUE - 1, NEW w \in Nat, 2 * w < MAX_TID_VALUE,
         v <= n + w, ~Old(s, n)
  PROVE  s = v /\ v <= n
<1>1. CASE s + TWOPOW11 > MAX_TID_VALUE - 1
  <2> DEFINE y == Mask(s + TWOPOW11)
  <2>1. s + TWOPOW11 \in 0 .. 2 * MAX_TID_VALUE - 1 /\ ~(s + TWOPOW11 < MAX_TID_VALUE)
    BY <1>1, Half, Sizes
  <2>3. ~(n >= y /\ n < s)
    BY <1>1 DEF Old
  <2>4. y = s + TWOPOW11 - MAX_TID_VALUE
    <3>1. ASSUME NEW x, x = s + TWOPOW11 PROVE Mask(x) = x - MAX_TID_VALUE
      <4>1. x \in 0 .. 2 * MAX_TID_VALUE - 1 /\ ~(x < MAX_TID_VALUE)
        BY <2>1, <3>1
      <4> QED BY <4>1, WrapsOnce
    <3>2. PICK x : x = s + TWOPOW11
      OBVIOUS
    <3>3. Mask(x) = x - MAX_TID_VALUE
      BY <3>1, <3>2
    <3>4. Mask(s + TWOPOW11) = Mask(x)
      BY <3>2
    <3>5. x \in Nat /\ TWOPOW11 \in Nat /\ MAX_TID_VALUE \in Nat
      BY <3>2, Half, Sizes
    <3> QED BY <3>2, <3>3, <3>4, <3>5
  <2> HIDE DEF y
  <2>5. MAX_TID_VALUE \in Nat /\ TWOPOW11 \in Nat /\ 2 * TWOPOW11 = MAX_TID_VALUE /\ w < TWOPOW11
    BY Half, Sizes
  <2>6. ~(n < s)
    BY <2>3, <2>4, <2>5
  <2>7. s = v
    BY <1>1, <2>5, <2>6
  <2> QED BY <2>6, <2>7
<1>2. CASE ~(s + TWOPOW11 > MAX_TID_VALUE - 1)
  <2>1. ~(n < s) /\ ~(n >= s + TWOPOW11)
    BY <1>2 DEF Old
  <2> QED BY <2>1, Half, Sizes
<1> QED BY <1>1, <1>2

\* The end of a window.
LEMMA EndIs ==
  ASSUME NEW s \in 0 .. MAX_TID_VALUE, NEW w \in Nat, w > 1, 2 * w < MAX_TID_VALUE
  PROVE  Mask(s + w - 1) = IF s + w - 1 < MAX_TID_VALUE THEN s + w - 1
                           ELSE s + w - 1 - MAX_TID_VALUE
<1>1. ASSUME NEW x, x = s + w - 1
      PROVE  Mask(x) = IF x < MAX_TID_VALUE THEN x ELSE x - MAX_TID_VALUE
  <2>1. x \in 0 .. 2 * MAX_TID_VALUE - 1
    BY <1>1, Sizes
  <2> QED BY <2>1, WrapsOnce
<1>2. PICK x : x = s + w - 1
  OBVIOUS
<1>3. Mask(x) = IF x < MAX_TID_VALUE THEN x ELSE x - MAX_TID_VALUE
  BY <1>1, <1>2
<1>4. Mask(s + w - 1) = Mask(x)
  BY <1>2
<1>5. x \in Nat
  BY <1>2, Sizes
<1> QED BY <1>2, <1>3, <1>4, <1>5, Sizes

\* A packet within the window is in the slot of its distance from the start.
LEMMA DataWithin ==
  ASSUME NEW v \in Nat, NEW s \in 0 .. MAX_TID_VALUE, s = v \/ s = v - MAX_TID_VALUE,
         NEW n \in 0 .. MAX_TID_VALUE - 1, NEW w \in Nat, w > 1, NEW p \in Nat, w <= p,
         2 * p < MAX_TID_VALUE, v <= n + p, ~Ahead(s, Mask(s + w - 1), n)
  PROVE  s = v /\ v <= n /\ SlotOf(s, n) = n - v
<1> DEFINE end == Mask(s + w - 1)
<1>1. end = IF s + w - 1 < MAX_TID_VALUE THEN s + w - 1 ELSE s + w - 1 - MAX_TID_VALUE
  BY EndIs, Sizes
<1>2. ~(end < s /\ n < s /\ n > end) /\ ~(end > s /\ (n > end \/ n < s))
  BY DEF Ahead
<1> HIDE DEF end
<1>3. s = v /\ v <= n
  BY <1>1, <1>2, Sizes
<1> QED BY <1>3, Sizes DEF SlotOf

\* The window that a packet ahead moves to ends at the packet,
LEMMA DataAhead ==
  ASSUME NEW n \in 0 .. MAX_TID_VALUE - 1, NEW w \in Nat, w > 1, w <= n + 1
  PROVE  StartFor(n, w) = n - w + 1 /\ SlotOf(n - w + 1, n) = w - 1
BY Sizes DEF StartFor, SlotOf

\* and beyond the start.
LEMMA DataAheadUp ==
  ASSUME NEW v \in 0 .. MAX_TID_VALUE, NEW n \in 0 .. MAX_TID_VALUE - 1, NEW w \in Nat, w > 1,
         2 * w < MAX_TID_VALUE, v <= n, Ahead(v, Mask(v + w - 1), n)
  PROVE  n - w + 1 > v
<1> DEFINE end == Mask(v + w - 1)
<1>1. end = IF v + w - 1 < MAX_TID_VALUE THEN v + w - 1 ELSE v + w - 1 - MAX_TID_VALUE
  BY EndIs
<1>2. (end < v /\ n < v /\ n > end) \/ (end > v /\ (n > end \/ n < v))
  BY DEF Ahead
<1> HIDE DEF end
<1> QED BY <1>1, <1>2, Sizes

\* The window that a BAR moves to starts at its number,
LEMMA BarStart ==
  ASSUME NEW n \in 0 .. MAX_TID_VALUE - 1, NEW w \in Nat, w > 1, 2 * w < MAX_TID_VALUE
  PROVE  StartFor(Mask(n + w - 1), w) = n
<1> DEFINE q == Mask(n + w - 1)
<1>1. q = IF n + w - 1 < MAX_TID_VALUE THEN n + w - 1 ELSE n + w - 1 - MAX_TID_VALUE
  BY EndIs, Sizes
<1> HIDE DEF q
<1>2. StartFor(q, w) = n
  BY <1>1, Sizes DEF StartFor
<1> QED BY <1>2 DEF q

\* unless the window starts there already.
LEMMA BarAhead ==
  ASSUME NEW v \in 0 .. MAX_TID_VALUE, NEW n \in 0 .. MAX_TID_VALUE - 1, NEW w \in Nat, w > 1,
         2 * w < MAX_TID_VALUE, v <= n, ~Old(v, n)
  PROVE  Ahead(v, Mask(v + w - 1), Mask(n + w - 1)) <=> v < n
<1> DEFINE e == Mask(v + w - 1)
           q == Mask(n + w - 1)
<1>1. e = IF v + w - 1 < MAX_TID_VALUE THEN v + w - 1 ELSE v + w - 1 - MAX_TID_VALUE
  BY EndIs
<1>2. q = IF n + w - 1 < MAX_TID_VALUE THEN n + w - 1 ELSE n + w - 1 - MAX_TID_VALUE
  BY EndIs, Sizes
<1>3. n < v + TWOPOW11
  <2>1. CASE v + TWOPOW11 > MAX_TID_VALUE - 1
    BY <2>1, Half, Sizes
  <2>2. CASE ~(v + TWOPOW11 > MAX_TID_VALUE - 1)
    BY <2>2, Half, Sizes DEF Old
  <2> QED BY <2>1, <2>2
<1>4. Ahead(v, e, q) <=> (e < v /\ q < v /\ q > e) \/ (e > v /\ (q > e \/ q < v))
  BY DEF Ahead
<1> HIDE DEF e, q
<1>5. ((e < v /\ q < v /\ q > e) \/ (e > v /\ (q > e \/ q < v))) <=> v < n
  BY <1>1, <1>2, <1>3, Half, Sizes
<1> QED BY <1>4, <1>5 DEF e, q

\* After force_no_drop the window starts where the packet puts it,
LEMMA DataRestarts ==
  ASSUME NEW s \in 0 .. MAX_TID_VALUE - 1, NEW n \in 0 .. MAX_TID_VALUE - 1, NEW w \in Nat,
         w <= n + 1, SlotOf(s, n) \in 0 .. w - 1
  PROVE  s = n - SlotOf(s, n)
BY Sizes DEF SlotOf

\* or no further than the BAR does.
LEMMA BarRestarts ==
  ASSUME NEW s \in 0 .. MAX_TID_VALUE - 1, NEW n \in 0 .. MAX_TID_VALUE - 1, NEW w \in Nat,
         w > 1, 2 * w < MAX_TID_VALUE, SlotOf(s, Mask(n + w - 1)) \in 0 .. w - 1
  PROVE  \E v \in Nat : v <= n + w - 1 /\ (s = v \/ s = v - MAX_TID_VALUE)
<1> DEFINE q == Mask(n + w - 1)
           i == SlotOf(s, q)
           v == n + w - 1 - i
<1>1. q = IF n + w - 1 < MAX_TID_VALUE THEN n + w - 1 ELSE n + w - 1 - MAX_TID_VALUE
  BY EndIs, Sizes
<1>2. i \in 0 .. w - 1
  OBVIOUS
<1>3. i = IF q >= s THEN q - s ELSE q + MAX_TID_VALUE - s
  BY DEF SlotOf
<1> HIDE DEF q, i
<1>4. v \in Nat /\ v <= n + w - 1 /\ (s = v \/ s = v - MAX_TID_VALUE)
  BY <1>1, <1>2, <1>3, Sizes
<1> QED BY <1>4

\* What a move of an aligned window hands up are the frames it passes, after the last one.
LEMMA UpIs ==
  ASSUME NEW v \in Nat, NEW t, t.wsize \in Nat, NEW tp, NEW lw, NEW la, NEW w,
         AlignedTo(v, t, tp, lw, la, w),
         \A i \in 0 .. t.wsize - 1 : t.slot[i] \in Numbers \cup {Empty, FwDrop},
         NEW u, NEW k, NEW up, Shifted(t, u, k, up)
  PROVE  \A j \in DOMAIN up : /\ j \in 0 .. t.wsize - 1 /\ j < k /\ up[j] = v + j
                              /\ t.slot[j] # Empty /\ v + j <= la
<1> TAKE j \in DOMAIN up
<1>1. j \in 0 .. k - 1 /\ k \in 0 .. t.wsize /\ IsFrame(t.slot[j]) /\ up[j] = t.slot[j]
  BY DEF Shifted
<1>2. j \in 0 .. t.wsize - 1 /\ j < k
  BY <1>1
<1>3. t.slot[j] # Empty
  BY <1>1, NumbersNat DEF IsFrame
<1> QED BY <1>1, <1>2, <1>3 DEF AlignedTo

\* So it is in order.
LEMMA StillOrdered ==
  ASSUME inorder, NEW up, StillInOrder(up), NEW v \in Nat, top \in Int, top < v,
         DOMAIN up \subseteq Nat, \A j \in DOMAIN up : up[j] = v + j
  PROVE  inorder'
<1>1. Increasing(up)
  <2> SUFFICES ASSUME NEW i \in DOMAIN up, NEW j \in DOMAIN up, i < j PROVE up[i] < up[j]
    BY DEF Increasing
  <2>1. i \in Nat /\ j \in Nat /\ up[i] = v + i /\ up[j] = v + j
    OBVIOUS
  <2> QED BY <2>1
<1>2. \A i \in DOMAIN up : top < up[i]
  <2> TAKE i \in DOMAIN up
  <2>1. i \in Nat /\ up[i] = v + i
    OBVIOUS
  <2> QED BY <2>1
<1> QED BY <1>1, <1>2, Zenon DEF StillInOrder

\* An empty move.
LEMMA NothingUp ==
  ASSUME NEW up, DOMAIN up = {}
  PROVE  LastUp(up) = top /\ (inorder /\ StillInOrder(up) => inorder')
<1>1. LastUp(up) = top
  BY DEF LastUp
<1>2. Increasing(up) /\ \A i \in DOMAIN up : top < up[i]
  BY DEF Increasing
<1> QED BY <1>1, <1>2, Zenon DEF StillInOrder

\* The window after the move.
LEMMA MoveAligned ==
  ASSUME NEW v \in Nat, NEW t, t.wsize \in Nat, NEW tp, NEW lw, NEW la, NEW w,
         AlignedTo(v, t, tp, lw, la, w), NEW u, NEW k, NEW up, Shifted(t, u, k, up),
         NEW v2 \in Nat, u.start = v2 \/ u.start = v2 - MAX_TID_VALUE,
         v2 <= lw + w, v2 <= la + w, NEW tp2, tp2 < v2,
         v2 = v + k \/ \A i \in 0 .. u.wsize - 1 : u.slot[i] = Empty
  PROVE  AlignedTo(v2, u, tp2, lw, la, w)
<1>1. ASSUME NEW i \in 0 .. u.wsize - 1, u.slot[i] # Empty
      PROVE  v2 + i < lw + w /\ v2 + i <= la /\ (IsFrame(u.slot[i]) => u.slot[i] = v2 + i)
  <2>1. k \in 0 .. t.wsize /\ i \in 0 .. t.wsize - 1 /\ v2 = v + k
    BY <1>1 DEF Shifted
  <2>2. u.slot[i] = IF i + k < t.wsize THEN t.slot[i + k] ELSE Empty
    BY <2>1 DEF Shifted
  <2>3. i + k \in 0 .. t.wsize - 1 /\ u.slot[i] = t.slot[i + k]
    BY <1>1, <2>1, <2>2
  <2>4. t.slot[i + k] # Empty
    BY <1>1, <2>3
  <2>5. v + (i + k) < lw + w /\ v + (i + k) <= la
        /\ (IsFrame(t.slot[i + k]) => t.slot[i + k] = v + (i + k))
    BY <2>3, <2>4 DEF AlignedTo
  <2>6. v + (i + k) = v2 + i
    BY <2>1
  <2> QED BY <2>3, <2>5, <2>6
<1> QED BY <1>1 DEF AlignedTo

\* The window of a table that differs in nothing that counts.
LEMMA SameAligned ==
  ASSUME NEW v, NEW t, NEW tp, NEW lw \in Int, NEW la, NEW w \in Int,
         AlignedTo(v, t, tp, lw, la, w), v \in Int, t.wsize \in Nat,
         NEW u, u.start = t.start, u.wsize = t.wsize, u.slot = t.slot,
         NEW hi \in Int, lw <= hi
  PROVE  AlignedTo(v, u, tp, hi, la, w)
<1>1. ASSUME NEW i \in 0 .. t.wsize - 1, t.slot[i] # Empty
      PROVE  v + i < hi + w
  <2>1. v + i < lw + w
    BY <1>1 DEF AlignedTo
  <2> QED BY <2>1
<1>2. v <= hi + w
  BY DEF AlignedTo
<1> QED BY <1>1, <1>2 DEF AlignedTo

\* The parts of the order, put together.
LEMMA OrderFrom ==
  ASSUME left \in Load, [Next]_vars, inorder', tbl' = NoTbl => top' = -1,
         pc'["main"] = "create" => op'.ssn <= low' + PeerWindow /\ op'.ssn <= left.last,
         \A c \in Contexts : Pending(c)' =>
           /\ loc'[c].n \in Frames /\ loc'[c].n < low' + PeerWindow
           /\ loc'[c].type = "bar" => loc'[c].n <= low',
         tbl' # NoTbl =>
           \/ \E v \in Nat : /\ AlignedTo(v, tbl', top', low', left.last, PeerWindow)
                             /\ \A c \in Contexts : Pending(c)' => v <= loc'[c].n + PeerWindow
           \/ Restarted(tbl') /\ \E c \in Contexts : Resyncing(c)',
         tbl' # NoTbl => LastFits(tbl', low', left.last, PeerWindow) /\ (tbl'.check => top' = -1)
  PROVE  OrderInv'
<1>1. /\ left'.last = left.last /\ Frames' = Frames /\ PeerWindow' = PeerWindow
  BY LeftKept
<1>2. tbl' # NoTbl => Aligned' \/ (Restarted(tbl') /\ \E c \in Contexts : Resyncing(c)')
  BY <1>1 DEF Aligned
<1> QED BY <1>1, <1>2 DEF OrderInv

\* Steps that leave the window alone.
LEMMA OrderStill ==
  ASSUME left \in Load, TypedInv, WinInv, OrderInv, NoWrap, [Next]_vars,
         UNCHANGED <<top, inorder>>, low' \in Nat, low <= low',
         tbl' # NoTbl =>
           /\ tbl # NoTbl /\ tbl'.start = tbl.start /\ tbl'.wsize = tbl.wsize
           /\ tbl'.slot = tbl.slot /\ tbl'.last = tbl.last /\ (tbl'.check => tbl.check)
           /\ (tbl.nodrop => tbl'.nodrop),
         tbl' = NoTbl => tbl = NoTbl,
         \A c \in Contexts : Pending(c)' =>
           Pending(c) /\ loc'[c].n = loc[c].n /\ loc'[c].type = loc[c].type,
         \A c \in Contexts : Resyncing(c) => Resyncing(c)',
         pc'["main"] = "create" => op'.ssn <= low' + PeerWindow /\ op'.ssn <= left.last
  PROVE  OrderInv'
<1>1. PeerWindow \in Nat /\ low \in Nat /\ left.last \in Nat /\ Frames \subseteq Nat
  BY LoadIs DEF TypedInv
<1>2. ASSUME NEW c \in Contexts, Pending(c)'
      PROVE  /\ loc'[c].n \in Frames /\ loc'[c].n < low' + PeerWindow
             /\ loc'[c].type = "bar" => loc'[c].n <= low'
  <2>1. /\ loc'[c].n \in Frames /\ loc'[c].n < low + PeerWindow
        /\ loc'[c].type = "bar" => loc'[c].n <= low
    BY <1>2 DEF OrderInv
  <2>2. loc'[c].n \in Nat
    BY <1>1, <2>1
  <2> QED BY <1>1, <2>1, <2>2
<1>3. ASSUME tbl' # NoTbl
      PROVE  \/ \E v \in Nat : /\ AlignedTo(v, tbl', top', low', left.last, PeerWindow)
                               /\ \A c \in Contexts : Pending(c)' => v <= loc'[c].n + PeerWindow
             \/ Restarted(tbl') /\ \E c \in Contexts : Resyncing(c)'
  <2>1. Aligned \/ (Restarted(tbl) /\ \E c \in Contexts : Resyncing(c))
    BY <1>3 DEF OrderInv
  <2>2. CASE Aligned
    <3>1. PICK v \in Nat : /\ AlignedTo(v, tbl, top, low, left.last, PeerWindow)
                           /\ \A c \in Contexts : Pending(c) => v <= loc[c].n + PeerWindow
      BY <2>2 DEF Aligned
    <3>2. tbl.wsize \in Nat
      BY <1>3 DEF WinInv, WellFormed, IsTable
    <3>3. AlignedTo(v, tbl', top, low', left.last, PeerWindow)
      BY <1>1, <1>3, <3>1, <3>2, SameAligned
    <3> QED BY <3>1, <3>3
  <2>3. CASE Restarted(tbl) /\ \E c \in Contexts : Resyncing(c)
    BY <1>3, <2>3 DEF Restarted
  <2> QED BY <2>1, <2>2, <2>3
<1>4. ASSUME tbl' # NoTbl
      PROVE  LastFits(tbl', low', left.last, PeerWindow) /\ (tbl'.check => top' = -1)
  <2>1. LastFits(tbl, low, left.last, PeerWindow) /\ (tbl.check => top = -1)
    BY <1>4 DEF OrderInv
  <2>2. tbl.last \in Nat
    BY <1>4, Sizes DEF WinInv, WellFormed, DEFAULT_SEQ_NUM
  <2>3. LastFits(tbl', low', left.last, PeerWindow)
    BY <1>1, <1>4, <2>1, <2>2 DEF LastFits
  <2> QED BY <1>4, <2>1, <2>3
<1>5. inorder' /\ (tbl' = NoTbl => top' = -1)
  BY DEF OrderInv
<1> QED BY <1>2, <1>3, <1>4, <1>5, OrderFrom

\* Until the first packet there is nothing to hand up.
LEMMA CheckUp ==
  ASSUME NEW t, WellFormed(t), t.check, NEW u, NEW k, NEW up, Shifted(t, u, k, up)
  PROVE  DOMAIN up = {} /\ \A i \in 0 .. t.wsize - 1 : t.slot[i] = Empty
<1>1. \A i \in 0 .. t.wsize - 1 : t.slot[i] = Empty
  BY DEF WellFormed
<1>2. t.wsize \in Nat
  BY DEF WellFormed, IsTable
<1>3. ASSUME NEW j \in DOMAIN up PROVE FALSE
  <2>1. j \in 0 .. k - 1 /\ k \in 0 .. t.wsize /\ IsFrame(t.slot[j])
    BY DEF Shifted
  <2>2. j \in 0 .. t.wsize - 1
    BY <1>2, <2>1
  <2> QED BY <1>1, <2>1, <2>2, NumbersNat DEF IsFrame
<1> QED BY <1>1, <1>3

\* The last frame handed up lies before what was passed.
LEMMA LastBefore ==
  ASSUME NEW up, NEW k \in Nat, DOMAIN up \subseteq 0 .. k - 1, NEW b \in Int, top \in Int, top < b,
         \A j \in DOMAIN up : up[j] < b
  PROVE  LastUp(up) < b
BY LastUpIs

\* The flush of a window: what is beyond the last packet buffered is next.
LEMMA FlushOrder ==
  ASSUME WellFormed(tbl), NEW v \in Nat, NEW lw \in Nat, NEW la \in Nat, NEW w \in Nat, w > 0,
         AlignedTo(v, tbl, top, lw, la, w), top \in Int, la < MAX_TID_VALUE
  PROVE  /\ \E v2 \in Nat : AlignedTo(v2, TakeFlush(tbl).tbl, LastUp(TakeFlush(tbl).up), lw, la, w)
         /\ inorder /\ StillInOrder(TakeFlush(tbl).up) => inorder'
         /\ tbl.check => LastUp(TakeFlush(tbl).up) = top
<1> DEFINE f == TakeFlush(tbl)
<1>1. tbl.wsize \in Nat /\ tbl.start \in 0 .. MAX_TID_VALUE
      /\ \A i \in 0 .. tbl.wsize - 1 : tbl.slot[i] \in Numbers \cup {Empty, FwDrop}
  BY DEF WellFormed, IsTable
<1>2. /\ Same(tbl, f.tbl)
      /\ \/ /\ Shifted(tbl, f.tbl, 0, f.up) /\ f.tbl.start = tbl.start
         \/ \E m \in 0 .. tbl.wsize - 1 : \E k \in m + 1 .. tbl.wsize :
              /\ tbl.slot[m] # Empty /\ \A i \in m + 1 .. tbl.wsize - 1 : tbl.slot[i] = Empty
              /\ Shifted(tbl, f.tbl, k, f.up)
              /\ f.tbl.start = Mask(tbl.start + m + 1)
  BY FlushShifts
<1> HIDE DEF f
<1>3. \E k : Shifted(tbl, f.tbl, k, f.up)
  BY <1>2
<1>4. PICK k : Shifted(tbl, f.tbl, k, f.up)
  BY <1>3
<1>5. \A j \in DOMAIN f.up : /\ j \in 0 .. tbl.wsize - 1 /\ j < k /\ f.up[j] = v + j
                             /\ tbl.slot[j] # Empty /\ v + j <= la
  BY <1>1, <1>4, UpIs
<1>6. inorder /\ StillInOrder(f.up) => inorder'
  <2>1. DOMAIN f.up \subseteq Nat /\ top < v
    BY <1>5 DEF AlignedTo
  <2> QED BY <1>5, <2>1, StillOrdered
<1>7. tbl.check => LastUp(f.up) = top
  BY <1>4, CheckUp, NothingUp
<1>8. CASE Shifted(tbl, f.tbl, 0, f.up) /\ f.tbl.start = tbl.start
  <2>1. DOMAIN f.up = {}
    BY <1>8 DEF Shifted
  <2>2. LastUp(f.up) = top
    BY <2>1, NothingUp
  <2>3. v = v + 0 /\ v <= lw + w /\ v <= la + w /\ top < v
        /\ (tbl.start = v \/ tbl.start = v - MAX_TID_VALUE)
    BY DEF AlignedTo
  <2>4. AlignedTo(v, f.tbl, top, lw, la, w)
    BY <1>1, <1>8, <2>3, MoveAligned
  <2> QED BY <1>6, <1>7, <2>2, <2>4 DEF f
<1>9. CASE \E m \in 0 .. tbl.wsize - 1 : \E i \in m + 1 .. tbl.wsize :
              /\ tbl.slot[m] # Empty /\ \A j \in m + 1 .. tbl.wsize - 1 : tbl.slot[j] = Empty
              /\ Shifted(tbl, f.tbl, i, f.up)
              /\ f.tbl.start = Mask(tbl.start + m + 1)
  <2>1. PICK m \in 0 .. tbl.wsize - 1 : \E i \in m + 1 .. tbl.wsize :
              /\ tbl.slot[m] # Empty /\ \A j \in m + 1 .. tbl.wsize - 1 : tbl.slot[j] = Empty
              /\ Shifted(tbl, f.tbl, i, f.up)
              /\ f.tbl.start = Mask(tbl.start + m + 1)
    BY <1>9
  <2>2. PICK i \in m + 1 .. tbl.wsize : Shifted(tbl, f.tbl, i, f.up)
    BY <2>1
  <2>3. /\ tbl.slot[m] # Empty /\ \A j \in m + 1 .. tbl.wsize - 1 : tbl.slot[j] = Empty
        /\ f.tbl.start = Mask(tbl.start + m + 1)
    BY <2>1
  <2>4. m \in Nat /\ m < tbl.wsize /\ i \in Nat /\ i > m /\ i <= tbl.wsize
    BY <1>1, <2>2
  <2> DEFINE v2 == v + m + 1
  <2>5. v + m < lw + w /\ v + m <= la /\ v <= lw + w /\ v <= la + w /\ top < v
        /\ (tbl.start = v \/ tbl.start = v - MAX_TID_VALUE)
    BY <2>3, <2>4 DEF AlignedTo
  <2>6. v2 \in Nat /\ v2 <= lw + w /\ v2 <= la + w /\ tbl.start = v /\ v2 <= MAX_TID_VALUE
    BY <1>1, <2>4, <2>5, Sizes
  <2>7. f.tbl.start = v2 \/ f.tbl.start = v2 - MAX_TID_VALUE
    <3>1. tbl.start + m + 1 = v2
      BY <2>6
    <3>2. f.tbl.start = Mask(v2)
      BY <2>3, <3>1
    <3>3. v2 \in 0 .. 2 * MAX_TID_VALUE - 1
      BY <2>6, Sizes
    <3> HIDE DEF v2
    <3>4. Mask(v2) = IF v2 < MAX_TID_VALUE THEN v2 ELSE v2 - MAX_TID_VALUE
      BY <3>3, WrapsOnce
    <3> QED BY <3>2, <3>4
  <2>8. \A j \in 0 .. f.tbl.wsize - 1 : f.tbl.slot[j] = Empty
    <3> TAKE j \in 0 .. f.tbl.wsize - 1
    <3>1. j \in 0 .. tbl.wsize - 1 /\ f.tbl.slot[j] = IF j + i < tbl.wsize THEN tbl.slot[j + i] ELSE Empty
      BY <2>2 DEF Shifted
    <3>2. j + i < tbl.wsize => j + i \in m + 1 .. tbl.wsize - 1
      BY <1>1, <2>4, <3>1
    <3> QED BY <2>3, <3>1, <3>2
  <2>9. LastUp(f.up) < v2
    <3>1. \A j \in DOMAIN f.up : f.up[j] < v2
      <4> TAKE j \in DOMAIN f.up
      <4>1. j \in 0 .. tbl.wsize - 1 /\ f.up[j] = v + j /\ tbl.slot[j] # Empty
        BY <1>5
      <4>2. ~(j \in m + 1 .. tbl.wsize - 1)
        BY <2>3, <4>1
      <4>3. j <= m
        BY <1>1, <2>4, <4>1, <4>2
      <4> QED BY <2>4, <4>1, <4>3
    <3>2. top < v2
      BY <2>4, <2>5
    <3>3. DOMAIN f.up \subseteq 0 .. i - 1
      BY <2>2 DEF Shifted
    <3> HIDE DEF v2
    <3> QED BY <2>4, <2>6, <3>1, <3>2, <3>3, LastBefore
  <2>10. AlignedTo(v2, f.tbl, LastUp(f.up), lw, la, w)
    <3> HIDE DEF v2
    <3> QED BY <1>1, <2>2, <2>6, <2>7, <2>8, <2>9, MoveAligned
  <2> QED BY <1>6, <1>7, <2>6, <2>10 DEF f
<1> QED BY <1>2, <1>8, <1>9

\* The scan of a window: the frames up to the first hole are passed.
LEMMA ScanOrder ==
  ASSUME WellFormed(tbl), NEW v \in Nat, NEW lw \in Nat, NEW la \in Nat, NEW w \in Nat, w > 0,
         AlignedTo(v, tbl, top, lw, la, w), top \in Int, la + w < 2 * MAX_TID_VALUE,
         la < MAX_TID_VALUE
  PROVE  /\ \E v2 \in Nat :
              AlignedTo(v2, ScanAndDispatch(tbl).tbl, LastUp(ScanAndDispatch(tbl).up), lw, la, w)
         /\ inorder /\ StillInOrder(ScanAndDispatch(tbl).up) => inorder'
         /\ tbl.check => LastUp(ScanAndDispatch(tbl).up) = top
<1> DEFINE f == ScanAndDispatch(tbl)
           k == HeadRun(tbl)
           v2 == v + k
<1>1. tbl.wsize \in Nat /\ tbl.start \in 0 .. MAX_TID_VALUE /\ 2 * tbl.wsize < MAX_TID_VALUE
      /\ \A i \in 0 .. tbl.wsize - 1 : tbl.slot[i] \in Numbers \cup {Empty, FwDrop}
  BY DEF WellFormed, IsTable
<1>2. /\ Shifted(tbl, f.tbl, k, f.up) /\ Same(tbl, f.tbl) /\ f.tbl.start = Mask(tbl.start + k)
  BY ScanShifts
<1>3. \A i \in 0 .. k - 1 : tbl.slot[i] # Empty
  BY <1>1, HeadRunFull
<1> HIDE DEF f, k
<1>4. k \in 0 .. tbl.wsize
  BY <1>2 DEF Shifted
<1>5. \A j \in DOMAIN f.up : /\ j \in 0 .. tbl.wsize - 1 /\ j < k /\ f.up[j] = v + j
                             /\ tbl.slot[j] # Empty /\ v + j <= la
  BY <1>1, <1>2, UpIs
<1>6. inorder /\ StillInOrder(f.up) => inorder'
  <2>1. DOMAIN f.up \subseteq Nat /\ top < v
    BY <1>5 DEF AlignedTo
  <2> QED BY <1>5, <2>1, StillOrdered
<1>7. tbl.check => LastUp(f.up) = top
  BY <1>2, CheckUp, NothingUp
<1>8. v <= lw + w /\ v <= la + w /\ top < v
      /\ (tbl.start = v \/ tbl.start = v - MAX_TID_VALUE)
  BY DEF AlignedTo
<1>9. k > 0 => v + (k - 1) < lw + w /\ v + (k - 1) <= la
  <2> SUFFICES ASSUME k > 0 PROVE v + (k - 1) < lw + w /\ v + (k - 1) <= la
    OBVIOUS
  <2>1. k - 1 \in 0 .. k - 1 /\ k - 1 \in 0 .. tbl.wsize - 1
    BY <1>1, <1>4
  <2> QED BY <1>3, <2>1 DEF AlignedTo
<1>10. v2 \in Nat /\ v2 <= lw + w /\ v2 <= la + w
  BY <1>4, <1>8, <1>9
<1>11. f.tbl.start = v2 \/ f.tbl.start = v2 - MAX_TID_VALUE
  <2> DEFINE x == tbl.start + k
  <2>1. x \in 0 .. 2 * MAX_TID_VALUE - 1
    BY <1>1, <1>4, Sizes
  <2>2. f.tbl.start = Mask(x)
    BY <1>2
  <2>3. k > 0 => x = v2
    BY <1>1, <1>4, <1>8, <1>9, Sizes
  <2>4. k = 0 => (x = v2 \/ x = v2 - MAX_TID_VALUE) /\ x <= MAX_TID_VALUE /\ v2 < 2 * MAX_TID_VALUE
    BY <1>1, <1>8, Sizes
  <2> HIDE DEF x, v2
  <2>5. Mask(x) = IF x < MAX_TID_VALUE THEN x ELSE x - MAX_TID_VALUE
    BY <2>1, WrapsOnce
  <2> QED BY <1>4, <1>10, <2>1, <2>2, <2>3, <2>4, <2>5, Sizes
<1>12. LastUp(f.up) < v2
  <2>1. \A j \in DOMAIN f.up : f.up[j] < v2
    <3> TAKE j \in DOMAIN f.up
    <3>1. j \in Nat /\ f.up[j] = v + j /\ j < k
      BY <1>5
    <3> QED BY <1>4, <3>1
  <2>2. top < v2
    BY <1>4, <1>8
  <2>3. DOMAIN f.up \subseteq 0 .. k - 1 /\ k \in Nat
    BY <1>2, <1>4 DEF Shifted
  <2> HIDE DEF v2
  <2> QED BY <1>10, <2>1, <2>2, <2>3, LastBefore
<1>13. AlignedTo(v2, f.tbl, LastUp(f.up), lw, la, w)
  BY <1>1, <1>2, <1>10, <1>11, <1>12, MoveAligned
<1> QED BY <1>6, <1>7, <1>10, <1>13 DEF f

\* The first packet after ADDBA may move the empty window, to where the peer went on.
LEMMA CheckedOrder ==
  ASSUME NEW t, WellFormed(t), NEW q \in 0 .. MAX_TID_VALUE - 1, NEW v \in Nat, NEW tp \in Int,
         NEW lw \in Nat, NEW la \in Nat, NEW w \in Nat, w > 0,
         AlignedTo(v, t, tp, lw, la, w), LastFits(t, lw, la, w), t.check => tp = -1
  PROVE  \E v2 \in Nat : AlignedTo(v2, Checked(t, q), tp, lw, la, w)
<1> DEFINE h == Checked(t, q)
<1>1. IsTable(t) /\ t.wsize \in Nat /\ t.start \in 0 .. MAX_TID_VALUE
      /\ t.last \in 0 .. MAX_TID_VALUE - 1 \cup {DEFAULT_SEQ_NUM}
  BY DEF WellFormed, IsTable
<1>2. CASE ~t.check
  BY <1>2 DEF Checked
<1>3. CASE t.check
  <2>1. h.wsize = t.wsize /\ h.slot = t.slot /\ (h.start = t.start \/ h.start = CheckedStart(t, q))
    BY <1>1, <1>3 DEF Checked, IsTable, Fields
  <2>2. \A i \in 0 .. t.wsize - 1 : t.slot[i] = Empty
    BY <1>3 DEF WellFormed
  <2>3. \/ CheckedStart(t, q) = t.start
        \/ t.last # DEFAULT_SEQ_NUM /\ CheckedStart(t, q) = t.last + 1
    BY DEF CheckedStart
  <2> HIDE DEF h
  <2>4. CASE h.start = t.start
    <3>1. AlignedTo(v, h, tp, lw, la, w)
      BY <1>1, <2>1, <2>4, SameAligned
    <3> QED BY <3>1 DEF h
  <2>5. CASE t.last # DEFAULT_SEQ_NUM /\ h.start = t.last + 1
    <3>1. t.last \in Nat /\ t.last < lw + w /\ t.last <= la
      BY <1>1, <2>5 DEF LastFits
    <3>2. t.last + 1 \in Nat /\ t.last + 1 <= lw + w /\ t.last + 1 <= la + w /\ tp < t.last + 1
      BY <1>3, <3>1
    <3>3. AlignedTo(t.last + 1, h, tp, lw, la, w)
      BY <2>1, <2>2, <2>5, <3>2 DEF AlignedTo
    <3> QED BY <3>2, <3>3 DEF h
  <2> QED BY <2>1, <2>3, <2>4, <2>5
<1> QED BY <1>2, <1>3

\* mlan_11n_rxreorder_pkt up to where it first yields.
LEMMA AdmitOrder ==
  ASSUME ShapeInv, WinInv, TypedInv, OrderInv, NoWrap, [Next]_vars, tbl # NoTbl,
         NEW c \in Contexts, NEW n \in Frames, NEW type,
         NEW pay \in Frames \cup {Empty, FwDrop}, Admit(c, n, type, pay),
         \A d \in Contexts : pc[d] \notin InPktAt,
         low' \in Nat, low <= low', low <= n, n < low' + PeerWindow, type = "bar" => n <= low'
  PROVE  OrderInv'
<1> DEFINE f == TakeFlush(tbl)
           g == [f.tbl EXCEPT !.count = @ + 1, !.last = SeqOf(n)]
           h == Checked(f.tbl, SeqOf(n))
           new == [NoLoc EXCEPT !.n = n, !.type = type, !.pay = pay]
           w == PeerWindow
           la == left.last
<1>1. WellFormed(tbl) /\ IsTable(tbl) /\ tbl.wsize \in Nat /\ loc \in [Contexts -> Locals]
      /\ left \in Load
  BY DEF WinInv, WellFormed, IsTable
<1>2. /\ w \in Nat /\ w > 0 /\ la \in Nat /\ la < MAX_TID_VALUE /\ low \in Nat /\ top \in Int
      /\ n \in Nat /\ n <= la /\ n \in 0 .. MAX_TID_VALUE - 1 /\ SeqOf(n) = n
  <2>1. /\ w \in Nat /\ w > 0 /\ la \in Nat /\ la < MAX_TID_VALUE /\ low \in Nat /\ top \in Int
        /\ n \in Nat /\ n <= la
    BY LoadIs DEF TypedInv, NoWrap, Frames
  <2>2. n \in 0 .. MAX_TID_VALUE - 1
    BY <2>1, Sizes
  <2> QED BY <2>1, <2>2, Wraps DEF SeqOf, Mask
<1>3. PICK v \in Nat : AlignedTo(v, tbl, top, low, la, w)
  <2>1. \A d \in Contexts : ~Resyncing(d)
    BY DEF Resyncing, InPktAt
  <2> QED BY <2>1 DEF OrderInv, Aligned
<1>4. inorder /\ LastFits(tbl, low, la, w) /\ (tbl.check => top = -1)
  BY DEF OrderInv
<1>5. /\ \/ /\ tbl' = f.tbl /\ Goto(c, Return(c)) /\ UNCHANGED loc
         \/ /\ tbl' = g /\ Goto(c, Return(c)) /\ UNCHANGED loc
         \/ /\ tbl' = h /\ Goto(c, "resync") /\ loc' = [loc EXCEPT ![c] = new]
      /\ StillInOrder(f.up) /\ top' = LastUp(f.up) /\ op' = op
  BY <1>2 DEF Admit, HandUp
<1> HIDE DEF w, la
<1>6. /\ \E v2 \in Nat : AlignedTo(v2, f.tbl, LastUp(f.up), low, la, w)
      /\ inorder /\ StillInOrder(f.up) => inorder'
      /\ tbl.check => LastUp(f.up) = top
  BY <1>1, <1>2, <1>3, FlushOrder
<1>7. WellFormed(f.tbl) /\ Same(tbl, f.tbl)
  BY <1>1, FlushWell, FlushShifts
<1> HIDE DEF f
<1>8. PICK v2 \in Nat : AlignedTo(v2, f.tbl, LastUp(f.up), low, la, w)
  BY <1>6
<1>9. inorder' /\ (f.tbl.check => top' = -1) /\ LastFits(f.tbl, low, la, w) /\ top' \in Int
  <2>1. top' \in Int
    <3>1. top' \in -1 .. left.last
      BY AdmitTyped
    <3> QED BY <1>2, <3>1 DEF la
  <2> QED BY <1>4, <1>5, <1>6, <1>7, <2>1 DEF Same, LastFits
<1>10. /\ g.slot = f.tbl.slot /\ g.wsize = f.tbl.wsize /\ g.start = f.tbl.start
       /\ g.last = n /\ g.check = f.tbl.check /\ IsTable(g)
  BY <1>2, <1>7 DEF WellFormed, IsTable, Fields
<1>11. h.last = f.tbl.last /\ ~h.check /\ IsTable(h)
  <2>1. h.last = f.tbl.last
    BY <1>7 DEF Checked, WellFormed, IsTable, Fields
  <2>2. WellFormed(h) /\ ~h.check
    BY <1>2, <1>7, CheckedWell
  <2> QED BY <2>1, <2>2 DEF WellFormed
<1>12. \E v3 \in Nat : AlignedTo(v3, h, LastUp(f.up), low, la, w)
  <2>1. LastUp(f.up) \in Int /\ (f.tbl.check => LastUp(f.up) = -1)
    BY <1>5, <1>9
  <2> QED BY <1>2, <1>7, <1>8, <1>9, <2>1, CheckedOrder
<1>13. new.n = n /\ new.type = type
  BY DEF NoLoc
<1> HIDE DEF g, h, new
<1>14. tbl' # NoTbl
  BY <1>5, <1>7, <1>10, <1>11, TableIsOne DEF WellFormed
<1>15. \E v3 \in Nat : AlignedTo(v3, tbl', top', low, la, w)
  <2>1. f.tbl.wsize \in Nat
    BY <1>7 DEF WellFormed, IsTable
  <2>2. CASE tbl' = f.tbl
    BY <1>5, <1>8, <2>2
  <2>3. CASE tbl' = g
    BY <1>2, <1>5, <1>8, <1>10, <2>1, <2>3, SameAligned
  <2>4. CASE tbl' = h
    BY <1>5, <1>12, <2>4
  <2> QED BY <1>5, <2>2, <2>3, <2>4
<1>16. PICK v3 \in Nat : AlignedTo(v3, tbl', top', low, la, w)
  BY <1>15
<1>17. ASSUME NEW d \in Contexts, Pending(d)'
       PROVE  loc'[d].n = n /\ loc'[d].type = type
  <2>1. CASE Goto(c, Return(c)) /\ UNCHANGED loc
    <3>1. pc'[d] \in {pc[d], "top", "idle"}
      BY <2>1 DEF Goto, Return, ShapeInv
    <3> QED BY <1>17, <3>1 DEF Pending, InPktAt
  <2>2. CASE Goto(c, "resync") /\ loc' = [loc EXCEPT ![c] = new]
    <3>1. d = c
      <4>1. d # c => pc'[d] = pc[d]
        BY <2>2 DEF Goto, ShapeInv
      <4> QED BY <1>17, <4>1 DEF Pending, InPktAt
    <3> QED BY <1>1, <1>13, <2>2, <3>1
  <2> QED BY <1>5, <2>1, <2>2
<1>18. v3 <= n + w /\ AlignedTo(v3, tbl', top', low', la, w)
  <2>1. v3 <= low + w /\ tbl'.wsize \in Nat
    <3>1. tbl'.wsize \in Nat
      BY <1>5, <1>7, <1>10, <1>11 DEF WellFormed, IsTable
    <3> QED BY <1>16, <3>1 DEF AlignedTo
  <2>2. v3 <= n + w
    BY <1>2, <2>1
  <2>3. AlignedTo(v3, tbl', top', low', la, w)
    BY <1>2, <1>16, <2>1, SameAligned
  <2> QED BY <2>2, <2>3
<1>19. LastFits(tbl', low', la, w) /\ (tbl'.check => top' = -1)
  <2>1. CASE tbl' = g
    <3>1. LastFits(g, low', la, w)
      BY <1>2, <1>10 DEF LastFits, w
    <3> QED BY <1>9, <1>10, <2>1, <3>1
  <2>2. CASE tbl' = f.tbl \/ tbl' = h
    <3>1. f.tbl.last \in Nat
      BY <1>7, Sizes DEF WellFormed, DEFAULT_SEQ_NUM
    <3>2. LastFits(f.tbl, low', la, w)
      BY <1>2, <1>9, <3>1 DEF LastFits
    <3> QED BY <1>9, <1>11, <2>2, <3>2 DEF LastFits
  <2> QED BY <1>5, <2>1, <2>2
<1>20. pc'["main"] # "create"
  <2>1. pc["main"] # "create"
    BY DEF ShapeInv
  <2>2. \E l \in {"top", "idle", "resync"} : pc' = [pc EXCEPT ![c] = l]
    BY <1>5 DEF Goto, Return
  <2> QED BY <2>1, <2>2 DEF ShapeInv
<1> QED BY <1>1, <1>9, <1>14, <1>17, <1>18, <1>19, <1>20, OrderFrom DEF w, la

\* Behind an empty window comes an empty window.
LEMMA EmptyStays ==
  ASSUME NEW t, t.wsize \in Nat, \A i \in 0 .. t.wsize - 1 : t.slot[i] = Empty,
         NEW u, NEW k, NEW up, Shifted(t, u, k, up)
  PROVE  DOMAIN up = {} /\ \A i \in 0 .. u.wsize - 1 : u.slot[i] = Empty
<1>1. ASSUME NEW j \in DOMAIN up PROVE FALSE
  <2>1. j \in 0 .. k - 1 /\ k \in 0 .. t.wsize /\ IsFrame(t.slot[j])
    BY DEF Shifted
  <2>2. j \in 0 .. t.wsize - 1
    BY <2>1
  <2> QED BY <2>1, <2>2, NumbersNat DEF IsFrame
<1>2. ASSUME NEW i \in 0 .. u.wsize - 1 PROVE u.slot[i] = Empty
  <2>1. i \in 0 .. t.wsize - 1 /\ k \in Nat
    BY DEF Shifted
  <2>2. u.slot[i] = IF i + k < t.wsize THEN t.slot[i + k] ELSE Empty
    BY <2>1 DEF Shifted
  <2>3. i + k < t.wsize => i + k \in 0 .. t.wsize - 1
    BY <2>1
  <2> QED BY <2>2, <2>3
<1> QED BY <1>1, <1>2

\* The window a packet moves: it stays aligned, and the slot of the packet is that of its
\* number.
LEMMA PlaceMoves ==
  ASSUME WellFormed(tbl), NEW c, tbl.wsize > 1, loc[c].n \in 0 .. MAX_TID_VALUE - 1,
         loc[c].n \in Numbers, NEW lw \in Nat, NEW la \in Nat, NEW w \in Nat, tbl.wsize <= w,
         2 * w < MAX_TID_VALUE, tbl.wsize <= loc[c].n + 1, loc[c].n < lw + w, loc[c].n <= la,
         la < MAX_TID_VALUE, loc[c].type = "bar" => loc[c].n <= lw, top \in Int, ~PlaceOld(c),
         \/ \E v \in Nat : AlignedTo(v, tbl, top, lw, la, w) /\ v <= loc[c].n + w
         \/ Restarted(tbl),
         NEW tp, tp = IF tbl.nodrop THEN -1 ELSE LastUp(PlaceMove(c).up)
  PROVE  \E v2 \in Nat : /\ AlignedTo(v2, PlaceMove(c).tbl, tp, lw, la, w)
                         /\ loc[c].type # "bar" => v2 + PlaceSlot(c) = loc[c].n
<1> DEFINE n == loc[c].n
           z == tbl.wsize
           a == PlaceStart(c)
           b == tbl.start
           q == PlaceSeq(c)
           k == PlaceBy(c)
           m == PlaceMove(c)
           bar == loc[c].type = "bar"
<1>1. /\ z \in Nat /\ z > 1 /\ z <= w /\ 2 * z < MAX_TID_VALUE /\ b \in 0 .. MAX_TID_VALUE
      /\ n \in 0 .. MAX_TID_VALUE - 1 /\ n \in Nat /\ z <= n + 1 /\ MAX_TID_VALUE \in Nat
      /\ \A i \in 0 .. z - 1 : tbl.slot[i] \in Numbers \cup {Empty, FwDrop}
      /\ tbl.nodrop \in BOOLEAN
  <2>1. /\ z \in Nat /\ b \in 0 .. MAX_TID_VALUE /\ MAX_TID_VALUE \in Nat
        /\ 2 * z < MAX_TID_VALUE /\ tbl.nodrop \in BOOLEAN
    BY Sizes DEF WellFormed, IsTable
  <2>2. \A i \in 0 .. z - 1 : tbl.slot[i] \in Numbers \cup {Empty, FwDrop}
    BY DEF WellFormed, IsTable
  <2>3. n \in Nat /\ z > 1 /\ z <= w /\ z <= n + 1 /\ n \in 0 .. MAX_TID_VALUE - 1
    BY <2>1
  <2> QED BY <2>1, <2>2, <2>3
<1>2. SeqOf(n) = n
  BY Wraps DEF SeqOf, Mask
<1>3. /\ q = IF bar THEN Mask(n + z - 1) ELSE n
      /\ PlaceAhead(c) <=> Ahead(b, Mask(b + z - 1), q)
      /\ a = IF PlaceAhead(c) THEN StartFor(q, z) ELSE b
      /\ k = IF PlaceAhead(c) THEN NoPktToSend(tbl, a) ELSE 0
      /\ PlaceSlot(c) = SlotOf(a, q)
  BY <1>2 DEF PlaceSeq, PlaceAhead, PlaceStart, PlaceBy, PlaceSlot
<1>4. /\ PlaceSlot(c) \in 0 .. z - 1 /\ m.tbl.start = a /\ Shifted(tbl, m.tbl, k, m.up)
  BY PlaceWindow
<1>5. ~tbl.nodrop => ~Old(b, n)
  BY <1>2 DEF PlaceOld
<1>6. m.tbl.wsize = z /\ k \in 0 .. z
  BY <1>4 DEF Shifted
<1>7. tbl.nodrop => tp = -1
  OBVIOUS
<1>8. ~tbl.nodrop => tp = LastUp(m.up)
  OBVIOUS
<1>9. \/ \E v \in Nat : AlignedTo(v, tbl, top, lw, la, w) /\ v <= n + w
      \/ Restarted(tbl)
  OBVIOUS
<1> HIDE DEF m, k, q, a
<1>10. CASE PlaceAhead(c)
  <2>1. a \in Nat /\ a <= n /\ (~bar => a + PlaceSlot(c) = n) /\ (a = IF bar THEN n ELSE n - z + 1)
    <3>1. CASE bar
      <4>1. a = n
        BY <1>1, <1>3, <1>10, <3>1, BarStart
      <4> QED BY <1>1, <3>1, <4>1
    <3>2. CASE ~bar
      <4>1. StartFor(n, z) = n - z + 1 /\ SlotOf(n - z + 1, n) = z - 1
        BY <1>1, DataAhead
      <4>2. q = n /\ a = n - z + 1
        BY <1>3, <1>10, <3>2, <4>1
      <4>3. PlaceSlot(c) = z - 1
        BY <1>3, <4>1, <4>2
      <4> HIDE DEF z, n
      <4> QED BY <1>1, <3>2, <4>2, <4>3
    <3> QED BY <3>1, <3>2
  <2>2. a <= lw + w /\ a <= la + w
    BY <1>1, <2>1
  <2>3. CASE Restarted(tbl)
    <3>1. tp = -1 /\ \A i \in 0 .. m.tbl.wsize - 1 : m.tbl.slot[i] = Empty
      BY <1>1, <1>4, <1>7, <2>3, EmptyStays DEF Restarted
    <3>2. AlignedTo(a, m.tbl, tp, lw, la, w)
      BY <1>4, <2>1, <2>2, <3>1 DEF AlignedTo
    <3> QED BY <2>1, <3>2 DEF m
  <2>4. ASSUME NEW v \in Nat, AlignedTo(v, tbl, top, lw, la, w), v <= n + w
        PROVE  AlignedTo(a, m.tbl, tp, lw, la, w)
    <3>1. (b = v \/ b = v - MAX_TID_VALUE) /\ top < v
      BY <2>4 DEF AlignedTo
    <3>2. k = NoPktToSend(tbl, a)
      BY <1>3, <1>10
    <3>3. k = IF a > b THEN IF a - b < z THEN a - b ELSE z ELSE z
      BY <3>2 DEF NoPktToSend
    <3>4. tp < a
      <4>1. CASE tbl.nodrop
        BY <1>7, <2>1, <4>1
      <4>2. CASE ~tbl.nodrop
        <5>1. b = v /\ v <= n
          BY <1>1, <1>5, <2>4, <3>1, <4>2, NotOld
        <5>2. a > v
          <6>1. CASE bar
            BY <1>1, <1>3, <1>5, <1>10, <2>1, <4>2, <5>1, <6>1, BarAhead
          <6>2. CASE ~bar
            <7>1. Ahead(v, Mask(v + z - 1), n)
              BY <1>3, <1>10, <5>1, <6>2
            <7>2. n - z + 1 > v
              BY <1>1, <5>1, <7>1, DataAheadUp
            <7> QED BY <2>1, <6>2, <7>2
          <6> QED BY <6>1, <6>2
        <5>3. k <= a - v
          BY <1>1, <2>1, <3>3, <5>1, <5>2
        <5>4. \A j \in DOMAIN m.up : m.up[j] < a
          <6> TAKE j \in DOMAIN m.up
          <6>1. j \in 0 .. z - 1 /\ j < k /\ m.up[j] = v + j
            BY <1>1, <1>4, <2>4, UpIs
          <6> QED BY <1>6, <2>1, <5>3, <6>1
        <5>5. DOMAIN m.up \subseteq 0 .. k - 1
          BY <1>4 DEF Shifted
        <5>6. LastUp(m.up) < a
          BY <1>6, <2>1, <3>1, <5>2, <5>4, <5>5, LastBefore
        <5> QED BY <1>8, <4>2, <5>6
      <4> QED BY <1>1, <4>1, <4>2
    <3>5. a = v + k \/ \A i \in 0 .. m.tbl.wsize - 1 : m.tbl.slot[i] = Empty
      <4>1. CASE \A i \in 0 .. z - 1 : tbl.slot[i] = Empty
        BY <1>1, <1>4, <4>1, EmptyStays
      <4>2. CASE \E i \in 0 .. z - 1 : tbl.slot[i] # Empty
        <5>1. b = v
          <6>1. PICK i \in 0 .. z - 1 : tbl.slot[i] # Empty
            BY <4>2
          <6>2. v + i <= la
            BY <2>4, <6>1 DEF AlignedTo
          <6> QED BY <1>1, <3>1, <6>2
        <5>2. CASE a > b /\ a - b < z
          BY <1>1, <2>1, <3>3, <5>1, <5>2
        <5>3. CASE ~(a > b /\ a - b < z)
          <6>1. k = z
            BY <3>3, <5>3
          <6>2. \A i \in 0 .. m.tbl.wsize - 1 : m.tbl.slot[i] = Empty
            <7> TAKE i \in 0 .. m.tbl.wsize - 1
            <7>1. i \in 0 .. z - 1 /\ m.tbl.slot[i] = IF i + k < z THEN tbl.slot[i + k] ELSE Empty
              BY <1>4, <1>6 DEF Shifted
            <7>2. ~(i + k < z)
              BY <1>1, <6>1, <7>1
            <7> QED BY <7>1, <7>2
          <6> QED BY <6>2
        <5> QED BY <5>2, <5>3
      <4> QED BY <4>1, <4>2
    <3> QED BY <1>1, <1>4, <2>1, <2>2, <2>4, <3>4, <3>5, MoveAligned
  <2> QED BY <1>9, <2>1, <2>3, <2>4 DEF m
<1>11. CASE ~PlaceAhead(c)
  <2>1. a = b /\ k = 0 /\ m.tbl.start = b
    BY <1>3, <1>4, <1>11
  <2>2. DOMAIN m.up = {}
    BY <1>4, <2>1 DEF Shifted
  <2>3. ~tbl.nodrop => tp = top
    BY <1>8, <2>2, NothingUp
  <2>4. ASSUME NEW v \in Nat, AlignedTo(v, tbl, top, lw, la, w), v <= n + w
        PROVE  AlignedTo(v, m.tbl, tp, lw, la, w) /\ (~bar => v + PlaceSlot(c) = n)
    <3>1. /\ (b = v \/ b = v - MAX_TID_VALUE) /\ top < v /\ v <= lw + w /\ v <= la + w
      BY <2>4 DEF AlignedTo
    <3>2. tp < v
      BY <1>1, <1>7, <2>3, <3>1
    <3>3. v = v + k
      BY <2>1
    <3>4. AlignedTo(v, m.tbl, tp, lw, la, w)
      BY <1>1, <1>4, <2>1, <2>4, <3>1, <3>2, <3>3, MoveAligned
    <3>5. ASSUME ~bar PROVE v + PlaceSlot(c) = n
      <4>1. ~Ahead(b, Mask(b + z - 1), n) /\ PlaceSlot(c) = SlotOf(b, n)
        BY <1>3, <1>11, <2>1, <3>5
      <4>2. SlotOf(b, n) = n - v
        <5>1. /\ v \in Nat /\ b \in 0 .. MAX_TID_VALUE /\ n \in 0 .. MAX_TID_VALUE - 1
              /\ z \in Nat /\ z > 1 /\ w \in Nat /\ z <= w /\ 2 * w < MAX_TID_VALUE
              /\ v <= n + w /\ ~Ahead(b, Mask(b + z - 1), n)
              /\ (b = v \/ b = v - MAX_TID_VALUE)
          BY <1>1, <2>4, <3>1, <4>1
        <5> HIDE DEF b, n, z
        <5> QED BY ONLY <5>1, DataWithin
      <4> QED BY <1>1, <4>1, <4>2
    <3> QED BY <3>4, <3>5
  <2>5. CASE Restarted(tbl)
    <3>1. /\ tp = -1 /\ \A i \in 0 .. m.tbl.wsize - 1 : m.tbl.slot[i] = Empty
          /\ b \in 0 .. MAX_TID_VALUE - 1
      <4>1. /\ tbl.nodrop /\ b < MAX_TID_VALUE
            /\ \A i \in 0 .. z - 1 : tbl.slot[i] = Empty
        BY <2>5 DEF Restarted
      <4>2. \A i \in 0 .. m.tbl.wsize - 1 : m.tbl.slot[i] = Empty
        BY <1>1, <1>4, <4>1, EmptyStays
      <4>3. b \in 0 .. MAX_TID_VALUE - 1
        BY <1>1, <4>1
      <4> QED BY <1>7, <4>1, <4>2, <4>3
    <3>2. CASE bar
      <4>1. PICK v \in Nat : v <= n + z - 1 /\ (b = v \/ b = v - MAX_TID_VALUE)
        <5>1. SlotOf(b, Mask(n + z - 1)) \in 0 .. z - 1
          BY <1>3, <1>4, <2>1, <3>2
        <5> QED BY <1>1, <3>1, <5>1, BarRestarts
      <4>2. v <= lw + w /\ v <= la + w /\ tp < v
        BY <1>1, <3>1, <3>2, <4>1
      <4>3. AlignedTo(v, m.tbl, tp, lw, la, w)
        BY <2>1, <3>1, <4>1, <4>2 DEF AlignedTo
      <4> QED BY <3>2, <4>3 DEF m
    <3>3. CASE ~bar
      <4>1. SlotOf(b, n) \in 0 .. z - 1 /\ PlaceSlot(c) = SlotOf(b, n)
        BY <1>3, <1>4, <2>1, <3>3
      <4>2. b = n - SlotOf(b, n)
        BY <1>1, <3>1, <4>1, DataRestarts
      <4>3. b \in Nat /\ b + PlaceSlot(c) = n /\ b <= lw + w /\ b <= la + w /\ tp < b
        BY <1>1, <3>1, <4>1, <4>2
      <4>4. AlignedTo(b, m.tbl, tp, lw, la, w)
        BY <2>1, <3>1, <4>3 DEF AlignedTo
      <4> QED BY <4>3, <4>4 DEF m
    <3> QED BY <3>2, <3>3
  <2> QED BY <1>9, <2>4, <2>5 DEF m
<1> QED BY <1>10, <1>11

\* The packet finds its place.
LEMMA PlaceOrder ==
  ASSUME ShapeInv, WinInv, TypedInv, OrderInv, NoWrap, [Next]_vars, tbl # NoTbl,
         NEW c \in Contexts, Place(c), \A d \in Contexts \ {c} : pc[d] \notin InPktAt
  PROVE  OrderInv'
<1> DEFINE m == PlaceMove(c)
           s == PlaceSlot(c)
           n == loc[c].n
           w == PeerWindow
           la == left.last
<1>1. /\ pc[c] = "place" /\ Pending(c) /\ WellFormed(tbl) /\ tbl.wsize \in Nat
      /\ loc \in [Contexts -> Locals] /\ left \in Load
  BY DEF Place, Pending, WinInv, WellFormed, IsTable
<1>2. /\ tbl.wsize > 1 /\ loc[c].n \in Numbers /\ loc[c].prev = tbl.start /\ ~tbl.check
      /\ loc[c].type # "bar" => loc[c].pay \in {n, FwDrop}
  BY <1>1 DEF WinInv, PacketFits
<1>3. /\ w \in Nat /\ w > 0 /\ la \in Nat /\ la < MAX_TID_VALUE /\ low \in Nat /\ top \in Int
      /\ 2 * w < MAX_TID_VALUE /\ tbl.wsize <= w /\ left.first \in Nat /\ w <= left.first + 1
  BY LoadIs DEF TypedInv, TblTyped, NoWrap
<1>4. /\ n \in Frames /\ n < low + w /\ (loc[c].type = "bar" => n <= low) /\ inorder
      /\ LastFits(tbl, low, la, w)
  BY <1>1 DEF OrderInv
<1>5. /\ n \in Nat /\ n \in 0 .. MAX_TID_VALUE - 1 /\ n <= la /\ tbl.wsize <= n + 1
  <2>1. n \in left.first .. left.last
    BY <1>4 DEF Frames
  <2> QED BY <1>1, <1>3, <2>1, Sizes
<1>6. \/ \E v \in Nat : AlignedTo(v, tbl, top, low, la, w) /\ v <= n + w
      \/ Restarted(tbl)
  BY <1>1 DEF OrderInv, Aligned
<1>7. low' = low /\ op' = op /\ \E l \in {"scan", "settle"} : pc' = [pc EXCEPT ![c] = l]
  BY DEF Place, Gone, Goto
<1>8. \A d \in Contexts : ~Pending(d)'
  <2> TAKE d \in Contexts
  <2>1. pc'[d] \in {"scan", "settle"} \/ (d # c /\ pc'[d] = pc[d])
    BY <1>7 DEF ShapeInv
  <2> QED BY <2>1 DEF Pending, InPktAt
<1>9. pc'["main"] # "create"
  <2>1. "main" \in Contexts /\ pc["main"] # "create"
    BY DEF ShapeInv, Contexts
  <2> QED BY <1>7, <2>1 DEF ShapeInv
<1>10. CASE PlaceOld(c)
  <2>1. UNCHANGED <<tbl, top, inorder>>
    BY <1>2, <1>10, PlaceDrops
  <2>2. \E v \in Nat : AlignedTo(v, tbl, top, low, la, w)
    BY <1>6, <1>10 DEF PlaceOld, Restarted
  <2> HIDE DEF w, la
  <2> QED BY <1>1, <1>2, <1>4, <1>7, <1>8, <1>9, <2>1, <2>2, OrderFrom DEF w, la
<1>11. CASE ~PlaceOld(c)
  <2> DEFINE tp == IF tbl.nodrop THEN -1 ELSE LastUp(m.up)
  <2>1. /\ StillInOrder(m.up) /\ top' = tp
        /\ \/ tbl' = m.tbl
           \/ loc[c].type # "bar" /\ \E b : tbl' = [m.tbl EXCEPT !.slot[s] = loc[c].pay, !.bits = b]
    BY <1>2, <1>11, PlaceTakes
  <2>2. /\ s \in 0 .. tbl.wsize - 1 /\ WellFormed(m.tbl) /\ m.tbl.wsize = tbl.wsize
        /\ Shifted(tbl, m.tbl, PlaceBy(c), m.up)
        /\ m.tbl.last = tbl.last /\ m.tbl.check = tbl.check
    BY <1>1, <1>2, PlaceWindow DEF Shifted
  <2>3. \E v2 \in Nat : /\ AlignedTo(v2, m.tbl, tp, low, la, w)
                        /\ loc[c].type # "bar" => v2 + s = n
    <3> HIDE DEF w, la
    <3> QED BY <1>1, <1>2, <1>3, <1>4, <1>5, <1>6, <1>11, PlaceMoves
  <2>4. inorder'
    <3>1. CASE Restarted(tbl)
      <4>1. \A i \in 0 .. tbl.wsize - 1 : tbl.slot[i] = Empty
        BY <3>1 DEF Restarted
      <4>2. DOMAIN m.up = {}
        <5> HIDE DEF m
        <5> QED BY <1>1, <2>2, <4>1, EmptyStays
      <4> HIDE DEF m
      <4> QED BY <1>4, <2>1, <4>2, NothingUp
    <3>2. ASSUME NEW v \in Nat, AlignedTo(v, tbl, top, low, la, w) PROVE inorder'
      <4>1. \A i \in 0 .. tbl.wsize - 1 : tbl.slot[i] \in Numbers \cup {Empty, FwDrop}
        BY <1>1 DEF WellFormed
      <4> HIDE DEF m, w, la
      <4>2. \A j \in DOMAIN m.up : j \in 0 .. tbl.wsize - 1 /\ m.up[j] = v + j
        BY <1>1, <2>2, <3>2, <4>1, UpIs
      <4>3. DOMAIN m.up \subseteq Nat /\ top < v
        BY <3>2, <4>2 DEF AlignedTo
      <4>4. inorder /\ StillInOrder(m.up) /\ top \in Int /\ \A j \in DOMAIN m.up : m.up[j] = v + j
        BY <1>3, <1>4, <2>1, <4>2
      <4> QED BY <3>2, <4>3, <4>4, StillOrdered
    <3> QED BY <1>6, <3>1, <3>2
  <2> HIDE DEF m, s, w, la, tp
  <2>5. PICK v2 \in Nat : /\ AlignedTo(v2, m.tbl, tp, low, la, w)
                          /\ loc[c].type # "bar" => v2 + s = n
    BY <2>3
  <2>6. AlignedTo(v2, tbl', tp, low, la, w) /\ tbl'.last = tbl.last /\ tbl'.check = tbl.check
        /\ tbl' # NoTbl
    <3>1. CASE tbl' = m.tbl
      BY <2>2, <2>5, <3>1, TableIsOne DEF WellFormed
    <3>2. ASSUME loc[c].type # "bar", NEW b,
                 tbl' = [m.tbl EXCEPT !.slot[s] = loc[c].pay, !.bits = b]
          PROVE  AlignedTo(v2, tbl', tp, low, la, w) /\ tbl'.last = tbl.last
                 /\ tbl'.check = tbl.check /\ tbl' # NoTbl
      <4>1. /\ s \in 0 .. m.tbl.wsize - 1 /\ v2 + s = n /\ loc[c].pay \in {n, FwDrop}
        BY <1>2, <2>2, <2>5, <3>2
      <4>2. IsTable(m.tbl)
        BY <2>2 DEF WellFormed
      <4>3. /\ tbl'.start = m.tbl.start /\ tbl'.wsize = m.tbl.wsize
            /\ tbl'.slot = [m.tbl.slot EXCEPT ![s] = loc[c].pay]
            /\ tbl'.last = m.tbl.last /\ tbl'.check = m.tbl.check /\ IsTable(tbl')
        BY <3>2, <4>2 DEF IsTable, Fields
      <4>4. m.tbl.slot \in [0 .. m.tbl.wsize - 1 -> Numbers \cup {Empty, FwDrop}]
        BY <2>2 DEF WellFormed
      <4>5. ASSUME NEW i \in 0 .. tbl'.wsize - 1, tbl'.slot[i] # Empty
            PROVE  /\ v2 + i < low + w /\ v2 + i <= la
                   /\ IsFrame(tbl'.slot[i]) => tbl'.slot[i] = v2 + i
        <5>1. CASE i = s
          <6>1. tbl'.slot[i] = loc[c].pay /\ ~IsFrame(FwDrop)
            BY <4>1, <4>3, <4>4, <5>1, NumbersNat DEF IsFrame
          <6> QED BY <1>4, <1>5, <4>1, <5>1, <6>1
        <5>2. CASE i # s
          <6>1. i \in 0 .. m.tbl.wsize - 1 /\ tbl'.slot[i] = m.tbl.slot[i]
            BY <4>3, <4>4, <4>5, <5>2
          <6> QED BY <2>5, <4>5, <6>1 DEF AlignedTo
        <5> QED BY <5>1, <5>2
      <4>6. AlignedTo(v2, tbl', tp, low, la, w)
        BY <2>5, <4>3, <4>5 DEF AlignedTo
      <4> QED BY <2>2, <4>3, <4>6, TableIsOne
    <3> QED BY <2>1, <3>1, <3>2
  <2>7. LastFits(tbl', low, la, w) /\ ~tbl'.check
    BY <1>2, <1>4, <2>6 DEF LastFits
  <2> QED BY <1>1, <1>7, <1>8, <1>9, <2>1, <2>4, <2>6, <2>7, OrderFrom DEF w, la
<1> QED BY <1>10, <1>11

\* The whole window is handed up in order.
LEMMA WholeOrder ==
  ASSUME WellFormed(tbl), inorder, top \in Int, NEW v \in Nat, NEW lw, NEW la, NEW w,
         AlignedTo(v, tbl, top, lw, la, w),
         NEW up, NEW u, Shifted(tbl, u, tbl.wsize, up), StillInOrder(up)
  PROVE  inorder'
<1>1. /\ tbl.wsize \in Nat
      /\ \A i \in 0 .. tbl.wsize - 1 : tbl.slot[i] \in Numbers \cup {Empty, FwDrop}
  BY DEF WellFormed, IsTable
<1>2. \A j \in DOMAIN up : j \in 0 .. tbl.wsize - 1 /\ up[j] = v + j
  BY <1>1, UpIs
<1>3. DOMAIN up \subseteq Nat /\ top < v
  BY <1>2 DEF AlignedTo
<1> QED BY <1>2, <1>3, StillOrdered

\* So are the frames of a table that is deleted.
LEMMA DeleteOrder ==
  ASSUME ShapeInv, WinInv, TypedInv, OrderInv, NoWrap, DeleteTbl, pc["main"] = "idle"
  PROVE  inorder' /\ tbl' = NoTbl /\ top' = -1
<1> DEFINE d == DispatchUntil(tbl, Mask(tbl.start + tbl.wsize))
<1>1. /\ tbl # NoTbl /\ pc["rx"] = "idle" /\ StillInOrder(d.up) /\ tbl' = NoTbl /\ top' = -1
  BY DEF DeleteTbl, RxBlocked
<1>2. \A c \in Contexts : ~Resyncing(c)
  BY <1>1 DEF Resyncing, Contexts
<1>3. PICK v \in Nat : AlignedTo(v, tbl, top, low, left.last, PeerWindow)
  BY <1>1, <1>2 DEF OrderInv, Aligned
<1>4. WellFormed(tbl) /\ inorder /\ top \in Int
  BY <1>1, LoadIs DEF WinInv, OrderInv, TypedInv
<1>5. Shifted(tbl, d.tbl, tbl.wsize, d.up)
  BY <1>4, WholeShifts
<1> HIDE DEF d
<1> QED BY <1>1, <1>3, <1>4, <1>5, WholeOrder

\* The buffer that force_no_drop empties is handed up in order, and may start anywhere.
LEMMA ResyncOrder ==
  ASSUME ShapeInv, WinInv, TypedInv, OrderInv, NoWrap, [Next]_vars, tbl # NoTbl,
         NEW c \in Contexts, Resync(c), \A d \in Contexts \ {c} : pc[d] \notin InPktAt,
         tbl.nodrop
  PROVE  OrderInv'
<1> DEFINE d == DispatchUntil(tbl, Mask(tbl.start + tbl.wsize))
           e == [d.tbl EXCEPT !.start = SeqOf(loc[c].n)]
<1>1. /\ pc[c] = "resync" /\ Pending(c) /\ WellFormed(tbl) /\ tbl.wsize \in Nat
      /\ loc \in [Contexts -> Locals] /\ left \in Load
  BY DEF Resync, Pending, WinInv, WellFormed, IsTable
<1>2. /\ (tbl' = d.tbl \/ tbl' = e) /\ StillInOrder(d.up) /\ UNCHANGED <<op, low>>
      /\ loc' = [loc EXCEPT ![c].back = "place"] /\ pc' = [pc EXCEPT ![c] = "stop"]
  BY DEF Resync, HandUp, Goto
<1>3. ~tbl.check /\ loc[c].n \in Numbers
  BY <1>1 DEF WinInv, PacketFits
<1>4. /\ Shifted(tbl, d.tbl, tbl.wsize, d.up) /\ Same(tbl, d.tbl) /\ IsTable(d.tbl)
      /\ d.tbl.start \in 0 .. MAX_TID_VALUE - 1
      /\ \A i \in 0 .. tbl.wsize - 1 : d.tbl.slot[i] = Empty
  BY <1>1, WholeShifts
<1> HIDE DEF d
<1>5. \A b \in Contexts : ~Resyncing(b)
  BY <1>1 DEF Resyncing, InPktAt
<1>6. PICK v \in Nat : AlignedTo(v, tbl, top, low, left.last, PeerWindow)
  BY <1>5 DEF OrderInv, Aligned
<1>7. inorder /\ top \in Int /\ LastFits(tbl, low, left.last, PeerWindow)
  BY LoadIs DEF OrderInv, TypedInv
<1>8. inorder'
  BY <1>1, <1>2, <1>4, <1>6, <1>7, WholeOrder
<1>9. SeqOf(loc[c].n) \in 0 .. MAX_TID_VALUE - 1
  BY <1>3, NumbersNat
<1>10. /\ IsTable(tbl') /\ tbl'.wsize = tbl.wsize /\ tbl'.slot = d.tbl.slot
       /\ tbl'.start \in 0 .. MAX_TID_VALUE - 1
       /\ tbl'.last = tbl.last /\ tbl'.check = tbl.check /\ tbl'.nodrop
  BY <1>2, <1>4, <1>9 DEF Shifted, Same, IsTable, Fields
<1>11. tbl' # NoTbl
  BY <1>10, TableIsOne
<1>12. Restarted(tbl')
  BY <1>4, <1>10, Sizes DEF Restarted
<1>13. Resyncing(c)'
  <2>1. loc'[c].back = "place" /\ pc'[c] = "stop"
    BY <1>1, <1>2 DEF Locals, ShapeInv
  <2> QED BY <2>1 DEF Resyncing
<1>14. ASSUME NEW b \in Contexts, Pending(b)'
       PROVE  /\ loc'[b].n \in Frames /\ loc'[b].n < low' + PeerWindow
              /\ loc'[b].type = "bar" => loc'[b].n <= low'
  <2>1. b = c
    <3>1. b # c => pc'[b] = pc[b]
      BY <1>2 DEF ShapeInv
    <3> QED BY <1>14, <3>1 DEF Pending, InPktAt
  <2>2. loc'[b].n = loc[c].n /\ loc'[b].type = loc[c].type
    BY <1>1, <1>2, <2>1 DEF Locals
  <2> QED BY <1>1, <1>2, <2>2 DEF OrderInv
<1>15. pc'["main"] # "create"
  <2>1. "main" \in Contexts /\ pc["main"] # "create"
    BY DEF ShapeInv, Contexts
  <2> QED BY <1>2, <2>1 DEF ShapeInv
<1>16. LastFits(tbl', low', left.last, PeerWindow) /\ ~tbl'.check
  BY <1>2, <1>3, <1>7, <1>10 DEF LastFits
<1> QED BY <1>1, <1>8, <1>11, <1>12, <1>13, <1>14, <1>15, <1>16, OrderFrom

\* A new table starts at the number of the request.
LEMMA CreateOrder ==
  ASSUME ShapeInv, WinInv, TypedInv, OrderInv, NoWrap, [Next]_vars,
         NEW last \in LastSeqs, Create(last)
  PROVE  OrderInv'
<1> DEFINE w == PeerWindow
           la == left.last
<1>1. /\ pc["main"] = "create" /\ pc["rx"] = "idle" /\ tbl' = NewTbl(op.ssn, op.win, last)
      /\ pc' = [pc EXCEPT !["main"] = "idle"] /\ UNCHANGED <<loc, op, low, top, inorder>>
  BY DEF Create, RxBlocked, Goto, history
<1>2. /\ tbl = NoTbl /\ op.ssn \in Nat /\ op.win \in Nat \ {0} /\ left \in Load
  BY <1>1, Sizes DEF ShapeInv, WinInv
<1>3. inorder /\ top = -1 /\ op.ssn <= low + w /\ op.ssn <= la
  BY <1>1, <1>2 DEF OrderInv
<1>4. /\ w \in Nat /\ low \in Nat /\ la \in Nat /\ la < MAX_TID_VALUE /\ Frames \subseteq Nat
  BY LoadIs DEF TypedInv, NoWrap
<1>5. /\ tbl'.start = op.ssn /\ tbl'.wsize = op.win /\ tbl'.last = last
      /\ tbl'.slot = [i \in 0 .. op.win - 1 |-> Empty] /\ tbl'.check
      /\ DOMAIN tbl' = Fields
  BY <1>1 DEF NewTbl, Fields
<1>6. tbl' # NoTbl
  BY <1>5 DEF NoTbl, Fields
<1>7. AlignedTo(op.ssn, tbl', top', low', la, w)
  <2>1. \A i \in 0 .. tbl'.wsize - 1 : tbl'.slot[i] = Empty
    BY <1>5
  <2>2. op.ssn <= la + w /\ -1 < op.ssn
    BY <1>2, <1>3, <1>4
  <2> QED BY <1>1, <1>3, <1>5, <2>1, <2>2 DEF AlignedTo
<1>8. LastFits(tbl', low', la, w)
  <2>1. SUFFICES ASSUME last # DEFAULT_SEQ_NUM PROVE last < low + w /\ last <= la
    BY <1>1, <1>5 DEF LastFits
  <2>2. PICK m \in Frames : m >= low /\ m < low + PeerWindow /\ last = SeqOf(m)
    BY <2>1 DEF LastSeqs
  <2>3. m \in Nat /\ m <= la /\ m \in 0 .. MAX_TID_VALUE - 1
    BY <1>4, Sizes DEF Frames
  <2>4. last = m
    BY <2>2, <2>3, Wraps DEF SeqOf, Mask
  <2> QED BY <2>2, <2>3, <2>4
<1>9. \A c \in Contexts : ~Pending(c)'
  <2>1. pc'["rx"] = "idle" /\ pc'["main"] = "idle"
    BY <1>1 DEF ShapeInv, Contexts
  <2> QED BY <2>1 DEF Pending, Contexts
<1>10. pc'["main"] # "create"
  BY <1>1 DEF ShapeInv, Contexts
<1>11. inorder' /\ top' = -1
  BY <1>1, <1>3
<1> HIDE DEF w, la
<1> QED BY <1>2, <1>6, <1>7, <1>8, <1>9, <1>10, <1>11, OrderFrom DEF w, la

\* Every step keeps the order.
LEMMA OrderKept ==
  ASSUME WinsFit, ~SyncRaces, ShapeInv, WinInv, TypedInv, OrderInv, [Next]_vars
  PROVE  OrderInv'
<1>0. /\ left \in Load /\ loc \in [Contexts -> Locals] /\ pc \in [Contexts -> Places]
      /\ "rx" \in Contexts /\ "main" \in Contexts /\ Contexts = {"rx", "main"}
      /\ tbl # NoTbl => WellFormed(tbl) /\ IsTable(tbl) /\ DOMAIN tbl = Fields
  BY DEF WinInv, ShapeInv, Contexts, WellFormed, IsTable
<1>n. CASE ~NoWrap
  <2>1. ~NoWrap'
    BY <1>0, <1>n, LeftKept DEF NoWrap
  <2> QED BY <2>1 DEF OrderInv
<1>o. CASE NoWrap
<2>0. /\ PeerWindow \in Nat /\ low \in Nat /\ left.last \in Nat /\ left.last < MAX_TID_VALUE
      /\ Frames \subseteq Nat /\ PeerWindow > 0 /\ 2 * PeerWindow < MAX_TID_VALUE /\ top \in Int
      /\ inorder
  BY <1>o, LoadIs DEF TypedInv, NoWrap, OrderInv
<2>a. ASSUME NEW c \in Contexts, pc[c] \in InPktAt
      PROVE  tbl # NoTbl /\ \A d \in Contexts \ {c} : pc[d] \notin InPktAt
  <3>1. InPkt(c)
    BY <2>a DEF InPktAt, InPkt
  <3>2. \A d \in Contexts \ {c} : ~InPkt(d)
    BY <3>1, OnePacket
  <3> QED BY <3>1, <3>2 DEF ShapeInv, InPkt, InPktAt
<2>b. ASSUME UNCHANGED <<top, inorder, low, op>>,
             tbl' # NoTbl =>
               /\ tbl # NoTbl /\ tbl'.start = tbl.start /\ tbl'.wsize = tbl.wsize
               /\ tbl'.slot = tbl.slot /\ tbl'.last = tbl.last /\ (tbl'.check => tbl.check)
               /\ (tbl.nodrop => tbl'.nodrop),
             tbl' = NoTbl => tbl = NoTbl,
             \A c \in Contexts : Pending(c)' =>
               Pending(c) /\ loc'[c].n = loc[c].n /\ loc'[c].type = loc[c].type,
             \A c \in Contexts : Resyncing(c) => Resyncing(c)',
             pc'["main"] = "create" => pc["main"] = "create"
      PROVE  OrderInv'
  <3>1. pc'["main"] = "create" => op'.ssn <= low' + PeerWindow /\ op'.ssn <= left.last
    BY <1>o, <2>b DEF OrderInv
  <3>2. low' \in Nat /\ low <= low'
    BY <2>0, <2>b
  <3> QED BY <1>0, <1>o, <2>b, <3>1, <3>2, OrderStill
<2>c. ASSUME UNCHANGED <<top, inorder, low, op, loc, pc>>,
             tbl' = tbl \/ (/\ tbl # NoTbl
                            /\ \/ tbl' = [tbl EXCEPT !.flush = TRUE]
                               \/ tbl' = [tbl EXCEPT !.isset = FALSE]
                               \/ tbl' = [tbl EXCEPT !.nodrop = TRUE]
                               \/ \E a : tbl' = [tbl EXCEPT !.ba = "complete", !.amsdu = a])
      PROVE  OrderInv'
  <3>1. tbl # NoTbl => /\ tbl'.start = tbl.start /\ tbl'.wsize = tbl.wsize
                       /\ tbl'.slot = tbl.slot /\ tbl'.last = tbl.last /\ tbl'.check = tbl.check
                       /\ (tbl.nodrop => tbl'.nodrop)
    BY <1>0, <2>c DEF Fields
  <3>2. tbl # NoTbl => DOMAIN tbl' = Fields
    BY <1>0, <2>c
  <3>3. tbl' = NoTbl <=> tbl = NoTbl
    BY <2>c, <3>2 DEF NoTbl, Fields
  <3>4. \A c \in Contexts : (Pending(c)' <=> Pending(c)) /\ (Resyncing(c)' <=> Resyncing(c))
    BY <2>c DEF Pending, Resyncing
  <3> QED BY <2>b, <2>c, <3>1, <3>3, <3>4
<2>d. ASSUME NEW c \in Contexts, NEW l, pc' = [pc EXCEPT ![c] = l], pc[c] \notin InPktAt,
             l \notin InPktAt, UNCHANGED loc
      PROVE  \A d \in Contexts : (Pending(d)' <=> Pending(d)) /\ (Resyncing(d)' <=> Resyncing(d))
  <3> TAKE d \in Contexts
  <3>1. CASE d = c
    <4>1. pc'[d] = l
      BY <1>0, <2>d, <3>1
    <4> QED BY <2>d, <3>1, <4>1 DEF Pending, Resyncing, InPktAt
  <3>2. CASE d # c
    <4>1. pc'[d] = pc[d]
      BY <1>0, <2>d, <3>2
    <4> QED BY <2>d, <4>1 DEF Pending, Resyncing
  <3> QED BY <3>1, <3>2
<2>e. ASSUME NEW c \in Contexts, NEW l, pc' = [pc EXCEPT ![c] = l], pc[c] \notin InPktAt,
             l \notin InPktAt, l # "create", UNCHANGED <<tbl, loc, op, low, top, inorder>>
      PROVE  OrderInv'
  <3>1. pc'["main"] = "create" => pc["main"] = "create"
    BY <1>0, <2>e
  <3> QED BY <2>b, <2>d, <2>e, <3>1
<2>1. ASSUME NEW c \in Contexts, Resync(c) PROVE OrderInv'
  <3>1. /\ pc[c] = "resync" /\ pc[c] \in InPktAt
    BY <2>1 DEF Resync, InPktAt
  <3>2. tbl # NoTbl /\ \A d \in Contexts \ {c} : pc[d] \notin InPktAt
    BY <2>a, <3>1
  <3>3. CASE tbl.nodrop
    BY <1>o, <2>1, <3>2, <3>3, ResyncOrder
  <3>4. CASE ~tbl.nodrop
    <4>1. /\ loc' = [loc EXCEPT ![c].prev = tbl.start] /\ pc' = [pc EXCEPT ![c] = "place"]
          /\ UNCHANGED <<tbl, op, low, top, inorder>>
      BY <2>1, <3>4 DEF Resync, Goto, history
    <4>2. \A d \in Contexts : Pending(d)' =>
            Pending(d) /\ loc'[d].n = loc[d].n /\ loc'[d].type = loc[d].type
      <5> TAKE d \in Contexts
      <5>1. CASE d = c
        BY <1>0, <3>1, <4>1, <5>1 DEF Pending, Locals
      <5>2. CASE d # c
        BY <1>0, <3>2, <4>1, <5>2 DEF Pending, InPktAt
      <5> QED BY <5>1, <5>2
    <4>3. \A d \in Contexts : ~Resyncing(d)
      BY <3>1, <3>2 DEF Resyncing, InPktAt
    <4>4. pc'["main"] = "create" => pc["main"] = "create"
      BY <1>0, <4>1
    <4> QED BY <2>b, <3>2, <4>1, <4>2, <4>3, <4>4
  <3> QED BY <3>3, <3>4
<2>2. ASSUME NEW c \in Contexts, TimerStop(c) PROVE OrderInv'
  <3>1. /\ pc[c] = "stop" /\ pc' = [pc EXCEPT ![c] = "start"]
        /\ UNCHANGED <<tbl, loc, op, low, top, inorder>>
    BY <2>2 DEF TimerStop, Goto, history
  <3>2. \A d \in Contexts : (Pending(d)' <=> Pending(d)) /\ (Resyncing(d)' <=> Resyncing(d))
    <4> TAKE d \in Contexts
    <4>1. CASE d = c
      BY <1>0, <3>1, <4>1 DEF Pending, Resyncing
    <4>2. CASE d # c
      <5>1. pc'[d] = pc[d]
        BY <1>0, <3>1, <4>2
      <5> QED BY <3>1, <5>1 DEF Pending, Resyncing
    <4> QED BY <4>1, <4>2
  <3>3. pc'["main"] = "create" => pc["main"] = "create"
    BY <1>0, <3>1
  <3> QED BY <2>b, <3>1, <3>2, <3>3
<2>3. ASSUME NEW c \in Contexts, TimerStart(c) PROVE OrderInv'
  <3>1. /\ pc[c] = "start" /\ tbl' = [tbl EXCEPT !.isset = TRUE]
        /\ UNCHANGED <<op, low, top, inorder>>
        /\ \/ loc[c].back = "place" /\ loc' = [loc EXCEPT ![c].prev = tbl.start]
              /\ pc' = [pc EXCEPT ![c] = "place"]
           \/ loc[c].back # "place" /\ loc' = [loc EXCEPT ![c] = NoLoc]
              /\ pc' = [pc EXCEPT ![c] = Return(c)]
    BY <2>3 DEF TimerStart, Goto, history
  <3>2. tbl # NoTbl /\ \A d \in Contexts \ {c} : pc[d] \notin InPktAt
    BY <2>a, <3>1 DEF InPktAt
  <3>3. /\ tbl'.start = tbl.start /\ tbl'.wsize = tbl.wsize /\ tbl'.slot = tbl.slot
        /\ tbl'.last = tbl.last /\ tbl'.check = tbl.check /\ tbl'.nodrop = tbl.nodrop
        /\ IsTable(tbl')
    BY <1>0, <3>1, <3>2 DEF Fields, IsTable
  <3>4. \A d \in Contexts :
          /\ Pending(d)' => Pending(d) /\ loc'[d].n = loc[d].n /\ loc'[d].type = loc[d].type
          /\ Resyncing(d) => Resyncing(d)'
    <4> TAKE d \in Contexts
    <4>1. CASE d = c /\ loc[c].back = "place"
      BY <1>0, <3>1, <4>1 DEF Pending, Resyncing, Locals
    <4>2. CASE d = c /\ loc[c].back # "place"
      BY <1>0, <3>1, <4>2 DEF Pending, Resyncing, Return
    <4>3. CASE d # c
      <5>1. pc'[d] = pc[d] /\ pc[d] \notin InPktAt
        BY <1>0, <3>1, <3>2, <4>3
      <5> QED BY <5>1 DEF Pending, Resyncing, InPktAt
    <4> QED BY <4>1, <4>2, <4>3
  <3>5. pc'["main"] = "create" => pc["main"] = "create"
    BY <1>0, <3>1 DEF Return
  <3> QED BY <2>b, <3>1, <3>2, <3>3, <3>4, <3>5, TableIsOne
<2>4. ASSUME NEW c \in Contexts, Place(c) PROVE OrderInv'
  <3>1. pc[c] \in InPktAt
    BY <2>4 DEF Place, InPktAt
  <3> QED BY <1>o, <2>4, <2>a, <3>1, PlaceOrder
<2>5. ASSUME NEW c \in Contexts, Scan(c) PROVE OrderInv'
  <3> DEFINE s == ScanAndDispatch(tbl)
  <3>1. /\ pc[c] = "scan" /\ tbl' = s.tbl /\ pc' = [pc EXCEPT ![c] = "settle"]
        /\ StillInOrder(s.up) /\ top' = LastUp(s.up) /\ UNCHANGED <<loc, op, low>>
    BY <2>5 DEF Scan, Goto, HandUp
  <3>2. tbl # NoTbl /\ WellFormed(tbl) /\ \A d \in Contexts \ {c} : pc[d] \notin InPktAt
    BY <1>0, <2>a, <3>1 DEF InPktAt
  <3>3. \A d \in Contexts : ~Resyncing(d)
    BY <3>1, <3>2 DEF Resyncing, InPktAt
  <3>4. PICK v \in Nat : AlignedTo(v, tbl, top, low, left.last, PeerWindow)
    BY <1>o, <3>2, <3>3 DEF OrderInv, Aligned
  <3>5. LastFits(tbl, low, left.last, PeerWindow) /\ (tbl.check => top = -1)
    BY <1>o, <3>2 DEF OrderInv
  <3>6. /\ \E v2 \in Nat : AlignedTo(v2, s.tbl, LastUp(s.up), low, left.last, PeerWindow)
        /\ inorder /\ StillInOrder(s.up) => inorder'
        /\ tbl.check => LastUp(s.up) = top
    <4>1. left.last + PeerWindow < 2 * MAX_TID_VALUE
      BY <2>0, Sizes
    <4> QED BY <2>0, <3>2, <3>4, <4>1, ScanOrder
  <3>7. Same(tbl, s.tbl) /\ IsTable(s.tbl)
    BY <3>2, ScanShifts, ScanKeeps DEF Kept, WellFormed
  <3> HIDE DEF s
  <3>8. tbl' # NoTbl /\ tbl'.last = tbl.last /\ tbl'.check = tbl.check
    BY <3>1, <3>7, TableIsOne DEF Same
  <3>9. \A d \in Contexts : ~Pending(d)'
    <4> TAKE d \in Contexts
    <4>1. pc'[d] = "settle" \/ (d # c /\ pc'[d] = pc[d])
      BY <1>0, <3>1
    <4> QED BY <3>2, <4>1 DEF Pending, InPktAt
  <3>10. pc'["main"] # "create"
    BY <1>0, <3>1, <3>2 DEF ShapeInv
  <3>11. inorder' /\ (tbl'.check => top' = -1) /\ LastFits(tbl', low', left.last, PeerWindow)
    BY <2>0, <3>1, <3>5, <3>6, <3>8 DEF LastFits
  <3> QED BY <1>0, <3>1, <3>6, <3>8, <3>9, <3>10, <3>11, OrderFrom
<2>6. ASSUME NEW c \in Contexts, Settle(c) PROVE OrderInv'
  <3>1. /\ pc[c] = "settle" /\ (tbl' = tbl \/ tbl' = [tbl EXCEPT !.isset = FALSE])
        /\ UNCHANGED <<op, low, top, inorder>>
        /\ \/ loc' = [loc EXCEPT ![c].back = "return"] /\ pc' = [pc EXCEPT ![c] = "stop"]
           \/ loc' = [loc EXCEPT ![c] = NoLoc] /\ pc' = [pc EXCEPT ![c] = Return(c)]
    BY <2>6 DEF Settle, Goto, history
  <3>2. tbl # NoTbl /\ \A d \in Contexts \ {c} : pc[d] \notin InPktAt
    BY <2>a, <3>1 DEF InPktAt
  <3>3. /\ tbl'.start = tbl.start /\ tbl'.wsize = tbl.wsize /\ tbl'.slot = tbl.slot
        /\ tbl'.last = tbl.last /\ tbl'.check = tbl.check /\ tbl'.nodrop = tbl.nodrop
        /\ IsTable(tbl')
    BY <1>0, <3>1, <3>2 DEF Fields, IsTable
  <3>4. \A d \in Contexts : ~Pending(d)' /\ ~Resyncing(d)
    <4> TAKE d \in Contexts
    <4>1. CASE d = c
      BY <1>0, <3>1, <4>1 DEF Pending, Resyncing, Return, Locals
    <4>2. CASE d # c
      <5>1. pc'[d] = pc[d] /\ pc[d] \notin InPktAt
        BY <1>0, <3>1, <3>2, <4>2
      <5> QED BY <5>1 DEF Pending, Resyncing, InPktAt
    <4> QED BY <4>1, <4>2
  <3>5. pc'["main"] = "create" => pc["main"] = "create"
    BY <1>0, <3>1 DEF Return
  <3> QED BY <2>b, <3>1, <3>2, <3>3, <3>4, <3>5, TableIsOne
<2>7. CASE TimerFires \/ HandlerEnters \/ HandlerFlags \/ HandlerUnsets \/ HandlerEnds \/ Arrive
  <3>1. /\ UNCHANGED <<top, inorder, low, op, loc, pc>>
        /\ \/ tbl' = tbl
           \/ tbl # NoTbl /\ tbl' = [tbl EXCEPT !.flush = TRUE]
           \/ tbl # NoTbl /\ tbl' = [tbl EXCEPT !.isset = FALSE]
    BY <2>7 DEF TimerFires, HandlerEnters, HandlerFlags, HandlerUnsets, HandlerEnds, Arrive, history
  <3> QED BY <2>c, <3>1
<2>13. CASE RxStart
  <3>1. /\ pc["rx"] = "idle" /\ pc' = [pc EXCEPT !["rx"] = "top"]
        /\ UNCHANGED <<tbl, loc, op, low, top, inorder>>
    BY <2>13 DEF RxStart, Goto, history
  <3>2. "idle" \notin InPktAt /\ "top" \notin InPktAt
    BY DEF InPktAt
  <3> QED BY <1>0, <2>e, <3>1, <3>2
<2>14. CASE RxFlush
  <3>1. /\ pc["rx"] = "top" /\ pc' = [pc EXCEPT !["rx"] = "dequeue"] /\ UNCHANGED <<loc, op, low>>
    BY <2>14 DEF RxFlush, Goto
  <3>2. "top" \notin InPktAt /\ "dequeue" \notin InPktAt
    BY DEF InPktAt
  <3>3. CASE aflush /\ tbl # NoTbl
    <4> DEFINE f == TakeFlush(tbl)
    <4>1. tbl' = f.tbl /\ StillInOrder(f.up) /\ top' = LastUp(f.up) /\ WellFormed(tbl)
      BY <1>0, <2>14, <3>3 DEF RxFlush, HandUp
    <4>2. \A d \in Contexts : ~Resyncing(d) /\ ~Pending(d)'
      <5>1. \A d \in Contexts : pc[d] \notin InPktAt
        <6>1. pc["rx"] \notin InPktAt /\ pc["rx"] # "idle"
          BY <3>1, <3>2
        <6> QED BY <1>0, <6>1 DEF ShapeInv, InPkt, InPktAt
      <5>2. \A d \in Contexts : pc'[d] \notin InPktAt
        BY <1>0, <3>1, <3>2, <5>1
      <5> QED BY <5>1, <5>2 DEF Resyncing, Pending, InPktAt
    <4>3. PICK v \in Nat : AlignedTo(v, tbl, top, low, left.last, PeerWindow)
      BY <1>o, <3>3, <4>2 DEF OrderInv, Aligned
    <4>4. LastFits(tbl, low, left.last, PeerWindow) /\ (tbl.check => top = -1)
      BY <1>o, <3>3 DEF OrderInv
    <4>5. /\ \E v2 \in Nat : AlignedTo(v2, f.tbl, LastUp(f.up), low, left.last, PeerWindow)
          /\ inorder /\ StillInOrder(f.up) => inorder'
          /\ tbl.check => LastUp(f.up) = top
      BY <2>0, <4>1, <4>3, FlushOrder
    <4>6. Same(tbl, f.tbl) /\ IsTable(f.tbl)
      BY <1>0, <3>3, FlushShifts, FlushKeeps DEF Kept
    <4> HIDE DEF f
    <4>7. tbl' # NoTbl /\ tbl'.last = tbl.last /\ tbl'.check = tbl.check
      BY <4>1, <4>6, TableIsOne DEF Same
    <4>8. pc'["main"] = "create" => op'.ssn <= low' + PeerWindow /\ op'.ssn <= left.last
      BY <1>0, <1>o, <3>1 DEF OrderInv
    <4>9. inorder' /\ (tbl'.check => top' = -1) /\ LastFits(tbl', low', left.last, PeerWindow)
      BY <2>0, <3>1, <4>1, <4>4, <4>5, <4>7 DEF LastFits
    <4> QED BY <1>0, <3>1, <4>1, <4>2, <4>5, <4>7, <4>8, <4>9, OrderFrom
  <3>4. CASE ~(aflush /\ tbl # NoTbl)
    <4>1. UNCHANGED <<tbl, top, inorder>>
      BY <2>14, <3>4 DEF RxFlush, history
    <4> QED BY <1>0, <2>e, <3>1, <3>2, <4>1
  <3> QED BY <3>3, <3>4
<2>15. CASE RxEmpty
  <3>1. /\ pc["rx"] = "dequeue" /\ pc' = [pc EXCEPT !["rx"] = "idle"]
        /\ UNCHANGED <<tbl, loc, op, low, top, inorder>>
    BY <2>15 DEF RxEmpty, Goto, history
  <3>2. "idle" \notin InPktAt /\ "dequeue" \notin InPktAt
    BY DEF InPktAt
  <3> QED BY <1>0, <2>e, <3>1, <3>2
<2>16. ASSUME NEW n \in Numbers, NEW type \in {"data", "amsdu", "bar"}, RxPacket(n, type)
       PROVE  OrderInv'
  <3>1. /\ n \in Frames /\ low <= n /\ n \in Nat /\ pc["rx"] = "dequeue" /\ left' = left
        /\ low' = IF type = "bar" THEN n ELSE Higher(low, n - PeerWindow + 1)
    BY <2>0, <2>16 DEF RxPacket, Transmittable
  <3>2. /\ low' \in Nat /\ low <= low' /\ n < low' + PeerWindow /\ (type = "bar" => n <= low')
    BY <2>0, <3>1, LowKept
  <3>3. CASE tbl = NoTbl \/ tbl.wsize <= 1
    <4>1. /\ UNCHANGED <<tbl, loc, op, top, inorder>> /\ pc' = [pc EXCEPT !["rx"] = "top"]
      BY <2>16, <3>3 DEF RxPacket, Goto, history
    <4>2. \A d \in Contexts : (Pending(d)' <=> Pending(d)) /\ (Resyncing(d)' <=> Resyncing(d))
      BY <1>0, <2>d, <3>1, <4>1 DEF InPktAt
    <4>3. pc'["main"] = "create" => op'.ssn <= low' + PeerWindow /\ op'.ssn <= left.last
      <5>1. SUFFICES ASSUME pc["main"] = "create"
                     PROVE  op.ssn <= low' + PeerWindow /\ op.ssn <= left.last
        BY <1>0, <4>1
      <5>2. op.ssn <= low + PeerWindow /\ op.ssn <= left.last /\ op.ssn \in Nat
        BY <1>o, <5>1, Sizes DEF OrderInv, WinInv
      <5> QED BY <2>0, <3>2, <5>2
    <4> QED BY <1>0, <1>o, <3>2, <4>1, <4>2, <4>3, OrderStill
  <3>4. CASE ~(tbl = NoTbl \/ tbl.wsize <= 1)
    <4> DEFINE pay == IF type = "bar" THEN Empty ELSE n
    <4>1. Admit("rx", n, type, pay) /\ pay \in Frames \cup {Empty, FwDrop}
      BY <2>16, <3>1, <3>4 DEF RxPacket
    <4>2. \A d \in Contexts : pc[d] \notin InPktAt
      <5>1. pc["rx"] \notin InPktAt /\ pc["rx"] # "idle"
        BY <3>1 DEF InPktAt
      <5> QED BY <1>0, <5>1 DEF ShapeInv, InPkt, InPktAt
    <4> HIDE DEF pay
    <4> QED BY <1>0, <1>o, <3>1, <3>2, <3>4, <4>1, <4>2, AdmitOrder
  <3> QED BY <3>3, <3>4
<2>17. ASSUME NEW n \in Numbers, NEW win \in UNION {l.wins : l \in Loads}, AddBa(n, win)
       PROVE  OrderInv'
  <3>1. /\ pc["main"] = "idle" /\ pc' = [pc EXCEPT !["main"] = "create"] /\ UNCHANGED <<loc, low>>
        /\ n \in Frames /\ n <= low + PeerWindow /\ op'.ssn = SeqOf(n)
        /\ (UNCHANGED <<tbl, top, inorder>> /\ tbl = NoTbl) \/ DeleteTbl
    BY <2>17 DEF AddBa, MainFree, Goto, history
  <3>2. op'.ssn <= low' + PeerWindow /\ op'.ssn <= left.last
    <4>1. n \in Nat /\ n <= left.last /\ n \in 0 .. MAX_TID_VALUE - 1
      BY <2>0, <3>1, Sizes DEF Frames
    <4>2. SeqOf(n) = n
      BY <4>1, Wraps DEF SeqOf, Mask
    <4> QED BY <3>1, <4>1, <4>2
  <3>3. inorder' /\ tbl' = NoTbl /\ top' = -1
    <4>1. CASE DeleteTbl
      BY <1>o, <3>1, <4>1, DeleteOrder
    <4>2. CASE UNCHANGED <<tbl, top, inorder>> /\ tbl = NoTbl
      BY <1>o, <4>2 DEF OrderInv
    <4> QED BY <3>1, <4>1, <4>2
  <3>4. \A d \in Contexts : ~Pending(d)'
    <4>1. ~InPkt("rx")
      <5>1. CASE DeleteTbl
        BY <5>1 DEF DeleteTbl, RxBlocked, InPkt
      <5>2. CASE tbl = NoTbl
        BY <1>0, <5>2 DEF ShapeInv
      <5> QED BY <3>1, <5>1, <5>2
    <4>2. pc'["main"] = "create" /\ pc'["rx"] = pc["rx"]
      BY <1>0, <3>1
    <4> QED BY <1>0, <4>1, <4>2 DEF Pending, InPkt
  <3> QED BY <1>0, <3>2, <3>3, <3>4, OrderFrom
<2>18. ASSUME NEW last \in LastSeqs, Create(last) PROVE OrderInv'
  BY <1>o, <2>18, CreateOrder
<2>19. CASE CreateFails
  <3>1. /\ pc["main"] = "create" /\ pc' = [pc EXCEPT !["main"] = "idle"]
        /\ UNCHANGED <<tbl, loc, op, low, top, inorder>>
    BY <2>19 DEF CreateFails, Goto, history
  <3>2. "idle" \notin InPktAt /\ "create" \notin InPktAt
    BY DEF InPktAt
  <3> QED BY <1>0, <2>e, <3>1, <3>2
<2>20. CASE (\E amsdu \in BOOLEAN : AddbaResp(amsdu)) \/ SetNoDrop
  <3>1. /\ UNCHANGED <<top, inorder, low, op, loc, pc>> /\ tbl # NoTbl
        /\ \/ tbl' = [tbl EXCEPT !.nodrop = TRUE]
           \/ \E a : tbl' = [tbl EXCEPT !.ba = "complete", !.amsdu = a]
    BY <2>20 DEF AddbaResp, SetNoDrop, history
  <3> QED BY <2>c, <3>1
<2>21. CASE Delba
  <3>1. UNCHANGED <<pc, loc, op, low>> /\ DeleteTbl /\ pc["main"] = "idle" /\ pc["rx"] = "idle"
    BY <2>21 DEF Delba, DeleteTbl, MainFree, RxBlocked
  <3>2. inorder' /\ tbl' = NoTbl /\ top' = -1
    BY <1>o, <3>1, DeleteOrder
  <3>3. \A d \in Contexts : ~Pending(d)'
    BY <1>0, <3>1 DEF Pending
  <3>4. pc'["main"] # "create"
    BY <3>1
  <3> QED BY <1>0, <3>2, <3>3, <3>4, OrderFrom
<2>23. ASSUME NEW n \in Numbers, SyncPacket(n) PROVE OrderInv'
  <3>1. /\ pc["main"] = "idle" /\ pc["rx"] = "idle" /\ tbl # NoTbl
        /\ Admit("main", n, "data", FwDrop) /\ n \in Frames /\ low <= n
        /\ low' = Higher(low, n - PeerWindow + 1)
    BY <2>23 DEF SyncPacket, MainFree, RxBlocked, Transmittable
  <3>2. \A d \in Contexts : pc[d] \notin InPktAt
    BY <1>0, <3>1 DEF InPktAt
  <3>3. low' \in Nat /\ low <= low' /\ n < low' + PeerWindow
    BY <2>0, <3>1, LowKept
  <3> QED BY <1>0, <1>o, <3>1, <3>2, <3>3, AdmitOrder
<2>24. CASE UNCHANGED vars
  BY <2>24, <2>c DEF vars
<2> QED BY <2>1, <2>2, <2>3, <2>4, <2>5, <2>6, <2>7, <2>13, <2>14, <2>15, <2>16, <2>17, <2>18,
   <2>19, <2>20, <2>21, <2>23, <2>24
    DEF Next, PktStep, Handler
<1> QED BY <1>n, <1>o

\* Initially nothing was handed up.
LEMMA InitiallyOrdered == Init => OrderInv
<1> SUFFICES ASSUME Init PROVE OrderInv
  OBVIOUS
<1>1. tbl = NoTbl /\ top = -1 /\ inorder = TRUE /\ \A c \in Contexts : pc[c] = "idle"
  BY DEF Init
<1>2. pc["main"] = "idle" /\ \A c \in Contexts : ~Pending(c)
  BY <1>1 DEF Pending, Contexts
<1> QED BY <1>1, <1>2 DEF OrderInv

\* Frames leave the buffer in the order of their numbers while nothing wraps, whatever is
\* lost, repeated, flushed by the timer, announced by a BAR or dropped in the firmware.
THEOREM InOrderHolds ==
  ASSUME WinsFit, ~SyncRaces PROVE Spec => []InOrder
<1> DEFINE Inv == ShapeInv /\ WinInv /\ TypedInv /\ OrderInv
<1>1. Init => Inv
  BY Initially, InitiallyTyped, InitiallyOrdered
<1>2. Inv /\ [Next]_vars => Inv'
  BY ShapeKept, WinKept, TypedKept, OrderKept
<1>3. Inv => InOrder
  BY DEF OrderInv, InOrder
<1> QED BY <1>1, <1>2, <1>3, PTL DEF Spec
============================================================================
