------------------------------- MODULE RxReorder -------------------------------
(***************************************************************************)
(* Receive reordering of one Block Ack stream (mlan_11n_rxreorder.c): one  *)
(* RxReorderTbl, the contexts that use it and its flush timer.             *)
(*                                                                         *)
(* The receive worker takes packets one after the other and runs           *)
(* mlan_11n_rxreorder_pkt on each.  The main process creates the table     *)
(* (ADDBA), deletes it (DELBA), sets force_no_drop (host sleep) and, on an *)
(* RXBA_SYNC event, runs mlan_11n_rxreorder_pkt itself for every packet    *)
(* the firmware dropped; only creation and deletion keep the worker out    *)
(* (mlan_block_rx_process: module MlanMain).  The timer handler            *)
(* (wlan_flush_data, called by woal_timer_handler) runs at any time.       *)
(*                                                                         *)
(* The peer numbers its frames 0, 1, 2 ...; the code sees a number modulo  *)
(* MAX_TID_VALUE.  `low' is the peer's transmit window: it never again     *)
(* transmits a frame below it.                                             *)
(***************************************************************************)
EXTENDS Integers, Sequences, FiniteSets

CONSTANTS
  MAX_TID_VALUE,  \* size of the sequence number space: 4096 in the code
  Bits,           \* width of the bitmap: 64 in the code
  Empty,          \* MNULL in rx_reorder_ptr
  FwDrop,         \* RX_PKT_DROPPED_IN_FW
  Napi,           \* TRUE: the worker is a softirq (EXT_NAPI); FALSE: a work item
  SyncRaces,      \* FALSE: RXBA_SYNC comes only while the worker is idle
  Loads           \* bound: what the peer and the host may do, see Load

Load == [wins : SUBSET Nat,  \* window sizes an ADDBA request may negotiate
         first : Nat, last : Nat,  \* the frames the peer sends
         jump : Nat,         \* frames it may give up at once
         ba : Nat,           \* ADDBA requests
         nodrop : Nat,       \* host sleep activations
         sync : Nat]         \* packets reported by RXBA_SYNC

ASSUME ParamsAssumption ==
  /\ MAX_TID_VALUE \in Nat /\ MAX_TID_VALUE % 2 = 0
  /\ Bits \in Nat \ {0}
  /\ Empty # FwDrop /\ Empty \notin Nat /\ FwDrop \notin Nat
  /\ Loads # {}
  /\ \A l \in Loads : /\ l \in Load /\ l.wins # {}
                      /\ l.wins \subseteq 1 .. (MAX_TID_VALUE \div 2 - 1)
  /\ Napi \in BOOLEAN /\ SyncRaces \in BOOLEAN

TWOPOW11 == MAX_TID_VALUE \div 2
DEFAULT_SEQ_NUM == MAX_TID_VALUE + 1      \* 0xffff: no sequence number

\* No table for this peer and TID: a window of no size.
NoTbl == [wsize |-> 0]

Numbers == UNION {l.first .. l.last : l \in Loads}
SeqOf(n) == n % MAX_TID_VALUE
Mask(x) == x % MAX_TID_VALUE              \* & (MAX_TID_VALUE - 1)

VARIABLES
  tbl,      \* the RxReorderTbl, or NoTbl
  timer,    \* the kernel timer and the fields of moal_drv_timer
  hand,     \* where the timer handler is
  aflush,   \* pmadapter->flush_data
  rxwork,   \* the receive work item is queued
  pc,       \* where each context is
  loc,      \* the locals of mlan_11n_rxreorder_pkt in each context
  op,       \* the ADDBA request whose old table is being deleted
  low,      \* the peer's window
  left,     \* the member of Loads of this behaviour, what remains of it
  owed,     \* history: buffers of each frame received and not yet disposed of
  top,      \* history: last frame handed up from the buffer, -1 if none
  inorder,  \* history: frames left the buffer in increasing order
  raced     \* history: the worker ran inside the handler since the timer was armed

vars == <<tbl, timer, hand, aflush, rxwork, pc, loc, op, low, left, owed, top,
          inorder, raced>>
history == <<owed, top, inorder>>

Contexts == {"rx", "main"}
NoLoc == [n |-> 0, type |-> "data", pay |-> Empty, prev |-> 0, back |-> "settle"]
InPkt(c) == pc[c] \in {"resync", "stop", "start", "place", "scan", "settle"}

(***************************************************************************)
(* The table                                                               *)
(***************************************************************************)
NewTbl(ssn, win, last) ==
  [start |-> ssn, wsize |-> win, slot |-> [i \in 0 .. win - 1 |-> Empty],
   bits |-> {}, isset |-> FALSE, flush |-> FALSE, amsdu |-> FALSE,
   nodrop |-> FALSE, check |-> TRUE, count |-> 0, last |-> last,
   ba |-> "inprogress"]

Frames == left.first .. left.last
PeerWindow == CHOOSE w \in left.wins : \A v \in left.wins : v <= w

IsFrame(p) == p \in Numbers

\* The frames in the first k slots, which a dispatch hands up slot by slot.
FramesIn(t, k) == [i \in {j \in 0 .. k - 1 : IsFrame(t.slot[j])} |-> t.slot[i]]

\* Faults (operators named after the one they replace) only show what the
\* properties detect.  Here: the bitmap is not shifted.
Rotate_KeepBits(t, k) ==
  [t EXCEPT !.slot = [i \in 0 .. t.wsize - 1 |->
                        IF i + k < t.wsize THEN t.slot[i + k] ELSE Empty]]

\* Both dispatch functions end by rotating the buffer and the bitmap.
Rotate(t, k) ==
  [t EXCEPT !.slot = [i \in 0 .. t.wsize - 1 |->
                        IF i + k < t.wsize THEN t.slot[i + k] ELSE Empty],
            !.bits = {b - k : b \in {x \in t.bits : x >= k}}]

\* wlan_11n_dispatch_pkt_until_start_win: k is no_pkt_to_send.
NoPktToSend(t, new) ==
  IF new > t.start
  THEN IF new - t.start < t.wsize THEN new - t.start ELSE t.wsize
  ELSE t.wsize
DispatchUntil(t, new) ==
  [tbl |-> [Rotate(t, NoPktToSend(t, new)) EXCEPT !.start = new],
   up  |-> FramesIn(t, NoPktToSend(t, new))]

\* wlan_11n_scan_and_dispatch: up to the first hole.
HeadRun(t) ==
  CHOOSE k \in 0 .. t.wsize :
    /\ \A i \in 0 .. k - 1 : t.slot[i] # Empty
    /\ k < t.wsize => t.slot[k] = Empty
ScanAndDispatch(t) ==
  [tbl |-> [Rotate(t, HeadRun(t)) EXCEPT !.start = Mask(t.start + HeadRun(t))],
   up  |-> FramesIn(t, HeadRun(t))]

\* wlan_start_flush_data: everything up to the last packet buffered.
StartFlush(t) ==
  LET full == {i \in 0 .. t.wsize - 1 : t.slot[i] # Empty}
      last == CHOOSE i \in full : \A j \in full : j <= i
  IN IF full = {} THEN [tbl |-> t, up |-> <<>>]
     ELSE DispatchUntil(t, Mask(t.start + last + 1))

\* The flush_data flag of the table is taken and obeyed.
TakeFlush(t) ==
  IF t.flush THEN StartFlush([t EXCEPT !.flush = FALSE])
  ELSE [tbl |-> t, up |-> <<>>]

\* MLAN_SET_BIT shifts 1UL: beyond the width the shift is undefined; the count
\* is taken modulo the width or the bit is lost.
SetBit(bits, i) ==
  IF i < Bits THEN {bits \cup {i}} ELSE {bits, bits \cup {i % Bits}}

(***************************************************************************)
(* History of what happened to the frames                                  *)
(***************************************************************************)
Increasing(up) == \A i, j \in DOMAIN up : i < j => up[i] < up[j]
CountIn(s, n) == Cardinality({i \in DOMAIN s : s[i] = n})

\* Frames `up' leave the buffer, after the frame `top'.
LastUp(up) ==
  IF DOMAIN up = {} THEN top
  ELSE up[CHOOSE i \in DOMAIN up : \A j \in DOMAIN up : j <= i]
StillInOrder(up) ==
  inorder' = (inorder /\ Increasing(up) /\ \A i \in DOMAIN up : top < up[i])
HandUp(up) == StillInOrder(up) /\ top' = LastUp(up)

\* Received, handed up, and dropped or handed up around the buffer.
Account(in, up, gone) ==
  owed' = [n \in Frames |->
             owed[n] + CountIn(in, n) - CountIn(up, n) - CountIn(gone, n)]

(***************************************************************************)
(* Initial state                                                           *)
(***************************************************************************)
TypeOK ==
  /\ tbl = NoTbl \/
       /\ tbl.wsize \in left.wins
       /\ tbl.start \in 0 .. MAX_TID_VALUE
       /\ tbl.slot \in [0 .. tbl.wsize - 1 -> Frames \cup {Empty, FwDrop}]
       /\ tbl.bits \subseteq 0 .. Bits - 1
       /\ {tbl.isset, tbl.flush, tbl.amsdu, tbl.nodrop, tbl.check} \subseteq BOOLEAN
       /\ tbl.last \in 0 .. DEFAULT_SEQ_NUM
       /\ tbl.ba \in {"inprogress", "complete"}
  /\ timer \in [armed : BOOLEAN, canceled : BOOLEAN, period : BOOLEAN]
  /\ hand \in {"idle", "fired", "table", "unset", "tail"}
  /\ aflush \in BOOLEAN /\ rxwork \in BOOLEAN
  /\ pc["rx"] \in {"idle", "top", "dequeue", "resync", "stop", "start", "place",
                   "scan", "settle"}
  /\ pc["main"] \in {"idle", "create", "resync", "stop", "start", "place", "scan",
                     "settle"}
  /\ low \in Nat /\ owed \in [Frames -> Nat] /\ top \in -1 .. left.last

Init ==
  /\ tbl = NoTbl
  /\ timer = [armed |-> FALSE, canceled |-> TRUE, period |-> FALSE]
  /\ hand = "idle" /\ aflush = FALSE /\ rxwork = FALSE
  /\ pc = [c \in Contexts |-> "idle"]
  /\ loc = [c \in Contexts |-> NoLoc]
  /\ op = [ssn |-> 0, win |-> 0]
  /\ left \in Loads /\ low = left.first
  /\ owed = [n \in Frames |-> 0] /\ top = -1 /\ inorder = TRUE /\ raced = FALSE

(***************************************************************************)
(* mlan_11n_rxreorder_pkt, in context c, up to the test of force_no_drop:  *)
(* flush what the timer asked for, pass A-MSDUs of a stream that did not   *)
(* negotiate them, and adapt start_win to the first packets after ADDBA.   *)
(***************************************************************************)
Return(c) == IF c = "rx" THEN "top" ELSE "idle"
Goto(c, l) == pc' = [pc EXCEPT ![c] = l]

\* 893-937: the peer did not start at the sequence number of its request.
CheckedStart(t, seq) ==
  LET end == Mask(t.start + t.wsize - 1)
      lastInWindow == IF end > t.start THEN t.last >= t.start /\ t.last < end
                      ELSE end < t.start /\ (t.last >= t.start \/ t.last < end)
  IN IF t.last # DEFAULT_SEQ_NUM /\ (lastInWindow \/ (seq < t.start /\ seq > t.last))
     THEN t.last + 1 ELSE t.start

Bypasses(t, type) == type = "amsdu" /\ ~t.amsdu
Early(t, seq) ==
  t.check /\ seq # t.start /\ t.count + 1 < t.wsize \div 2
Checked(t, seq) ==
  IF t.check
  THEN [t EXCEPT !.check = FALSE,
                 !.count = IF seq = t.start THEN @ ELSE @ + 1,
                 !.start = IF seq = t.start THEN @ ELSE CheckedStart(t, seq)]
  ELSE t
BufferOf(pay) == IF IsFrame(pay) THEN <<pay>> ELSE <<>>

Admit(c, n, type, pay) ==
  LET f == TakeFlush(tbl)
      seq == SeqOf(n)
  IN /\ HandUp(f.up)
     /\ \/ /\ Bypasses(f.tbl, type)
           /\ tbl' = f.tbl /\ Goto(c, Return(c)) /\ UNCHANGED loc
           /\ Account(<<>>, f.up, <<>>)
        \/ /\ ~Bypasses(f.tbl, type) /\ Early(f.tbl, seq)
           /\ tbl' = [f.tbl EXCEPT !.count = @ + 1, !.last = seq]
           /\ Goto(c, Return(c)) /\ UNCHANGED loc
           /\ Account(<<>>, f.up, <<>>)
        \/ /\ ~Bypasses(f.tbl, type) /\ ~Early(f.tbl, seq)
           /\ tbl' = Checked(f.tbl, seq) /\ Goto(c, "resync")
           /\ loc' = [loc EXCEPT ![c] = [NoLoc EXCEPT !.n = n, !.type = type,
                                                      !.pay = pay]]
           /\ Account(BufferOf(pay), f.up, <<>>)
     /\ UNCHANGED <<timer, hand, aflush, rxwork, op, raced>>

\* 940-950: after host sleep everything buffered goes up and the window starts
\* at this packet.
Resync(c) ==
  /\ pc[c] = "resync"
  /\ IF tbl.nodrop
     THEN LET d == DispatchUntil(tbl, Mask(tbl.start + tbl.wsize))
          IN /\ tbl' = IF loc[c].type = "bar" THEN d.tbl
                       ELSE [d.tbl EXCEPT !.start = SeqOf(loc[c].n)]
             /\ HandUp(d.up) /\ Account(<<>>, d.up, <<>>)
             /\ loc' = [loc EXCEPT ![c].back = "place"]
             /\ Goto(c, "stop")
     ELSE /\ loc' = [loc EXCEPT ![c].prev = tbl.start]
          /\ Goto(c, "place") /\ UNCHANGED <<tbl, history>>
  /\ UNCHANGED <<timer, hand, aflush, rxwork, op, low, left, raced>>

(***************************************************************************)
(* The timer, as mlan and MOAL handle it                                   *)
(***************************************************************************)
\* Fault: nobody waits for the handler.
MayCancel_NoWait(c) == TRUE

\* woal_cancel_timer waits for a handler that runs, except in a softirq.
MayCancel(c) == (c = "rx" /\ Napi) \/ hand = "idle"
Canceled == [armed |-> FALSE, canceled |-> TRUE, period |-> FALSE]

\* mlan_11n_rxreorder_timer_restart: moal_stop_timer only if timer_is_set ...
TimerStop(c) ==
  /\ pc[c] = "stop"
  /\ IF tbl.isset THEN MayCancel(c) /\ timer' = Canceled ELSE UNCHANGED timer
  /\ Goto(c, "start")
  /\ UNCHANGED <<tbl, hand, aflush, rxwork, loc, op, low, left, history, raced>>

\* ... then moal_start_timer.
TimerStart(c) ==
  /\ pc[c] = "start"
  /\ timer' = [armed |-> TRUE, canceled |-> FALSE, period |-> TRUE]
  /\ tbl' = [tbl EXCEPT !.isset = TRUE]
  /\ raced' = (hand # "idle")
  /\ IF loc[c].back = "place"
     THEN loc' = [loc EXCEPT ![c].prev = tbl.start] /\ Goto(c, "place")
     ELSE loc' = [loc EXCEPT ![c] = NoLoc] /\ Goto(c, Return(c))
  /\ UNCHANGED <<hand, aflush, rxwork, op, low, left, history>>

TimerFires ==
  /\ timer.armed /\ hand = "idle"
  /\ timer' = [timer EXCEPT !.armed = FALSE] /\ hand' = "fired"
  /\ UNCHANGED <<tbl, aflush, rxwork, pc, loc, op, low, left, history, raced>>

\* woal_timer_handler tests timer_is_canceled; wlan_flush_data sets the flag of
\* the adapter ...
HandlerEnters ==
  /\ hand = "fired"
  /\ IF timer.canceled THEN hand' = "tail" /\ UNCHANGED aflush
     ELSE hand' = "table" /\ aflush' = TRUE
  /\ UNCHANGED <<tbl, timer, rxwork, pc, loc, op, low, left, history, raced>>

\* ... then the flag of the table ...
HandlerFlags ==
  /\ hand = "table" /\ tbl # NoTbl
  /\ tbl' = [tbl EXCEPT !.flush = TRUE] /\ hand' = "unset"
  /\ UNCHANGED <<timer, aflush, rxwork, pc, loc, op, low, left, history, raced>>

\* Fault: no receive work is asked for.
HandlerUnsets_NoEvent ==
  /\ hand = "unset" /\ tbl # NoTbl
  /\ tbl' = [tbl EXCEPT !.isset = FALSE]
  /\ hand' = "tail"
  /\ UNCHANGED <<timer, aflush, rxwork, pc, loc, op, low, left, history, raced>>

\* ... then timer_is_set, and asks for receive work.
HandlerUnsets ==
  /\ hand = "unset" /\ tbl # NoTbl
  /\ tbl' = [tbl EXCEPT !.isset = FALSE]
  /\ rxwork' = TRUE /\ hand' = "tail"
  /\ UNCHANGED <<timer, aflush, pc, loc, op, low, left, history, raced>>

HandlerEnds ==
  /\ hand = "tail"
  /\ timer' = [timer EXCEPT !.period = FALSE] /\ hand' = "idle"
  /\ UNCHANGED <<tbl, aflush, rxwork, pc, loc, op, low, left, history, raced>>

(***************************************************************************)
(* The window                                                              *)
(***************************************************************************)
\* Fault: a packet behind the window is taken.
Old_OnlyFar(start, seq) ==
  start + TWOPOW11 <= MAX_TID_VALUE - 1 /\ seq >= start + TWOPOW11

\* 968-989: behind the window, by less than half the number space.
Old(start, seq) ==
  IF start + TWOPOW11 > MAX_TID_VALUE - 1
  THEN seq >= Mask(start + TWOPOW11) /\ seq < start
  ELSE seq < start \/ seq >= start + TWOPOW11

\* 1004-1007: ahead of the window.
Ahead(start, end, seq) ==
  \/ end < start /\ seq < start /\ seq > end
  \/ end > start /\ (seq > end \/ seq < start)

\* Fault: the start of a window across the wrap is not brought back.
StartFor_NoWrap(seq, win) == seq - win + 1

\* 1009-1014: the window that ends at seq.
StartFor(seq, win) ==
  IF seq - win + 1 >= 0 THEN seq - win + 1 ELSE MAX_TID_VALUE - (win - seq) + 1

\* 1026-1054: the slot of seq in a window that starts at start.
SlotOf(start, seq) == IF seq >= start THEN seq - start ELSE seq + MAX_TID_VALUE - start

\* Fault: a packet is stored over another.
Duplicate_Unseen(t, i) == FALSE

Duplicate(t, i) == t.slot[i] # Empty

Gone(c) ==
  /\ Goto(c, "settle") /\ loc' = [loc EXCEPT ![c].pay = Empty]

\* 952-1055: drop an old packet, move the window for a packet ahead of it or a
\* BAR, drop a duplicate, store the others.  start_win is the one read before.
Place(c) ==
  /\ pc[c] = "place"
  /\ LET l == loc[c]
         win == tbl.wsize
         t == [tbl EXCEPT !.nodrop = FALSE]
         end == Mask(l.prev + win - 1)
         seq == IF l.type = "bar" THEN Mask(SeqOf(l.n) + win - 1) ELSE SeqOf(l.n)
         ahead == Ahead(l.prev, end, seq)
         start == IF ahead THEN StartFor(seq, win) ELSE l.prev
         d == IF ahead THEN DispatchUntil(t, start) ELSE [tbl |-> t, up |-> <<>>]
         slot == SlotOf(start, seq)
     IN IF ~tbl.nodrop /\ Old(l.prev, SeqOf(l.n))
        THEN /\ Account(<<>>, <<>>, BufferOf(l.pay)) /\ Gone(c)
             /\ UNCHANGED <<tbl, top, inorder>>
        ELSE /\ StillInOrder(d.up)
             /\ top' = IF tbl.nodrop THEN -1 ELSE LastUp(d.up)
             /\ \/ /\ l.type = "bar"
                   /\ tbl' = d.tbl /\ Account(<<>>, d.up, <<>>)
                   /\ Goto(c, "scan") /\ UNCHANGED loc
                \/ /\ l.type # "bar" /\ Duplicate(d.tbl, slot)
                   /\ tbl' = d.tbl /\ Account(<<>>, d.up, BufferOf(l.pay))
                   /\ Gone(c)
                \/ /\ l.type # "bar" /\ ~Duplicate(d.tbl, slot)
                   /\ \E b \in SetBit(d.tbl.bits, slot) :
                        tbl' = [d.tbl EXCEPT !.slot[slot] = l.pay, !.bits = b]
                   /\ Account(<<>>, d.up, <<>>)
                   /\ loc' = [loc EXCEPT ![c].pay = Empty]
                   /\ Goto(c, "scan")
  /\ UNCHANGED <<timer, hand, aflush, rxwork, op, low, left, raced>>

Scan(c) ==
  /\ pc[c] = "scan"
  /\ LET s == ScanAndDispatch(tbl)
     IN tbl' = s.tbl /\ HandUp(s.up) /\ Account(<<>>, s.up, <<>>)
  /\ Goto(c, "settle")
  /\ UNCHANGED <<timer, hand, aflush, rxwork, loc, op, low, left, raced>>

\* Fault: the timer is started only when the window moved.
NeedsRestart_MovedOnly(c) == loc[c].prev # tbl.start

\* 1069-1082: no timer for an empty buffer, a new period when the window moved.
NeedsRestart(c) == ~tbl.isset \/ loc[c].prev # tbl.start
Settle(c) ==
  /\ pc[c] = "settle"
  /\ IF tbl.bits # {} /\ NeedsRestart(c)
     THEN /\ loc' = [loc EXCEPT ![c].back = "return"] /\ Goto(c, "stop")
          /\ UNCHANGED <<tbl, timer, raced>>
     ELSE /\ loc' = [loc EXCEPT ![c] = NoLoc] /\ Goto(c, Return(c))
          /\ IF tbl.bits = {} /\ tbl.isset
             THEN MayCancel(c) /\ timer' = Canceled
                  /\ tbl' = [tbl EXCEPT !.isset = FALSE]
             ELSE UNCHANGED <<tbl, timer>>
          /\ raced' = (raced \/ (tbl.bits # {} /\ hand = "unset" /\ ~tbl.flush))
  /\ UNCHANGED <<hand, aflush, rxwork, op, low, left, history>>

(***************************************************************************)
(* The receive worker: mlan_rx_process around the table                    *)
(***************************************************************************)
\* A packet of any stream has been queued.
Arrive ==
  /\ ~rxwork /\ rxwork' = TRUE
  /\ UNCHANGED <<tbl, timer, hand, aflush, pc, loc, op, low, left, history, raced>>

RxStart ==
  /\ pc["rx"] = "idle" /\ rxwork
  /\ SyncRaces \/ ~InPkt("main")
  /\ rxwork' = FALSE /\ Goto("rx", "top")
  /\ UNCHANGED <<tbl, timer, hand, aflush, loc, op, low, left, history, raced>>

\* The adapter's flag is taken, then wlan_flush_rxreorder_tbl looks at the table's.
RxFlush ==
  /\ pc["rx"] = "top"
  /\ Goto("rx", "dequeue")
  /\ IF aflush /\ tbl # NoTbl
     THEN LET f == TakeFlush(tbl)
          IN /\ tbl' = f.tbl /\ HandUp(f.up) /\ Account(<<>>, f.up, <<>>)
             /\ raced' = (raced \/ hand = "table")
     ELSE UNCHANGED <<tbl, history, raced>>
  /\ aflush' = FALSE
  /\ UNCHANGED <<timer, hand, rxwork, loc, op, low, left>>

RxEmpty ==
  /\ pc["rx"] = "dequeue" /\ Goto("rx", "idle")
  /\ UNCHANGED <<tbl, timer, hand, aflush, rxwork, loc, op, low, left, history, raced>>

Higher(x, y) == IF x > y THEN x ELSE y
Transmittable == {n \in Frames : n >= low /\ n < low + PeerWindow + left.jump}

\* A data frame, an A-MSDU or a BAR of this stream is handled.
RxPacket(n, type) ==
  /\ pc["rx"] = "dequeue" /\ n \in Transmittable
  /\ low' = IF type = "bar" THEN n ELSE Higher(low, n - PeerWindow + 1)
  /\ IF tbl = NoTbl \/ tbl.wsize <= 1
     THEN /\ Goto("rx", "top")
          /\ UNCHANGED <<tbl, timer, hand, aflush, rxwork, loc, op, history, raced>>
     ELSE Admit("rx", n, type, IF type = "bar" THEN Empty ELSE n)
  /\ UNCHANGED left

(***************************************************************************)
(* The main process                                                        *)
(***************************************************************************)
MainFree == pc["main"] = "idle"
RxBlocked == pc["rx"] = "idle"      \* mlan_block_rx_process: MlanMain!TableQuiet

\* wlan_11n_delete_rxreorder_tbl_entry and moal_free_timer, which cancels a
\* timer that is neither cancelled nor expired.
FreeCancels == ~timer.canceled /\ timer.period
DeleteTbl ==
  /\ tbl # NoTbl /\ RxBlocked
  /\ LET d == DispatchUntil(tbl, Mask(tbl.start + tbl.wsize))
     IN /\ StillInOrder(d.up)
        /\ Account(<<>>, d.up, <<>>)
  /\ IF tbl.isset \/ FreeCancels THEN MayCancel("main") /\ timer' = Canceled
     ELSE UNCHANGED timer
  /\ tbl' = NoTbl /\ top' = -1 /\ raced' = FALSE

\* wlan_11n_add_bastream and wlan_cmd_11n_addba_rspgen: an ADDBA request; a
\* table whose setup is complete is deleted first.
AddBa(n, win) ==
  /\ MainFree /\ left.ba > 0
  /\ n \in Frames /\ n >= low /\ n <= low + PeerWindow /\ win \in left.wins
  /\ left' = [left EXCEPT !.ba = @ - 1]
  /\ op' = [ssn |-> SeqOf(n), win |-> win] /\ Goto("main", "create")
  /\ \/ tbl = NoTbl /\ UNCHANGED <<tbl, timer, history, raced>>
     \/ /\ tbl # NoTbl /\ tbl.ba = "complete" /\ DeleteTbl
  /\ UNCHANGED <<hand, aflush, rxwork, loc, low>>

\* wlan_11n_create_rxreorder_tbl.  last_seq is the number of the last frame
\* received from the peer, which lies in the peer's window.
LastSeqs == {DEFAULT_SEQ_NUM} \cup
            {SeqOf(n) : n \in {m \in Frames : m >= low /\ m < low + PeerWindow}}
Create(last) ==
  /\ pc["main"] = "create" /\ RxBlocked
  /\ tbl' = NewTbl(op.ssn, op.win, last)
  /\ timer' = Canceled
  /\ Goto("main", "idle")
  /\ UNCHANGED <<hand, aflush, rxwork, loc, op, low, left, history, raced>>
CreateFails ==
  /\ pc["main"] = "create" /\ RxBlocked /\ Goto("main", "idle")
  /\ UNCHANGED <<tbl, timer, hand, aflush, rxwork, loc, op, low, left, history, raced>>

\* wlan_ret_11n_addba_resp, success: the A-MSDU bit is what was negotiated.
AddbaResp(amsdu) ==
  /\ MainFree /\ tbl # NoTbl /\ tbl.ba = "inprogress"
  /\ tbl' = [tbl EXCEPT !.ba = "complete", !.amsdu = amsdu]
  /\ UNCHANGED <<timer, hand, aflush, rxwork, pc, loc, op, low, left, history, raced>>

\* A DELBA event or response, a refused ADDBA response, the end of the link.
Delba ==
  /\ MainFree /\ DeleteTbl
  /\ UNCHANGED <<hand, aflush, rxwork, pc, loc, op, low, left>>

\* wlan_host_sleep_activated_event
SetNoDrop ==
  /\ MainFree /\ tbl # NoTbl /\ left.nodrop > 0
  /\ left' = [left EXCEPT !.nodrop = @ - 1]
  /\ tbl' = [tbl EXCEPT !.nodrop = TRUE]
  /\ UNCHANGED <<timer, hand, aflush, rxwork, pc, loc, op, low, history, raced>>

\* wlan_11n_rxba_sync_event: one packet the firmware dropped.
SyncPacket(n) ==
  /\ MainFree /\ left.sync > 0 /\ n \in Transmittable
  /\ SyncRaces \/ RxBlocked
  /\ tbl # NoTbl /\ ~tbl.nodrop /\ tbl.wsize > 1
  /\ left' = [left EXCEPT !.sync = @ - 1]
  /\ low' = Higher(low, n - PeerWindow + 1)
  /\ Admit("main", n, "data", FwDrop)

Handler == HandlerEnters \/ HandlerFlags \/ HandlerUnsets \/ HandlerEnds
PktStep(c) ==
  \/ Resync(c) \/ TimerStop(c) \/ TimerStart(c) \/ Place(c) \/ Scan(c) \/ Settle(c)
Next ==
  \/ \E c \in Contexts : PktStep(c)
  \/ TimerFires \/ Handler
  \/ Arrive \/ RxStart \/ RxFlush \/ RxEmpty
  \/ \E n \in Numbers, type \in {"data", "amsdu", "bar"} : RxPacket(n, type)
  \/ \E n \in Numbers, win \in UNION {l.wins : l \in Loads} : AddBa(n, win)
  \/ \E last \in LastSeqs : Create(last)
  \/ CreateFails
  \/ \E amsdu \in BOOLEAN : AddbaResp(amsdu)
  \/ Delba \/ SetNoDrop
  \/ \E n \in Numbers : SyncPacket(n)

\* The kernel runs the worker, the handler and the timer; the main process
\* finishes what it began.
Fairness ==
  /\ \A c \in Contexts : WF_vars(PktStep(c))
  /\ WF_vars(TimerFires) /\ WF_vars(Handler)
  /\ WF_vars(RxStart) /\ WF_vars(RxFlush) /\ WF_vars(RxEmpty)

Spec == Init /\ [][Next]_vars
FairSpec == Spec /\ Fairness

(***************************************************************************)
(* Properties                                                              *)
(***************************************************************************)
Busy == InPkt("rx") \/ InPkt("main")
Buffered == IF tbl = NoTbl THEN {} ELSE {i \in DOMAIN tbl.slot : tbl.slot[i] # Empty}

\* Frames leave the buffer in the order the peer numbered them, each at most
\* once, whatever is lost, repeated, flushed or announced by a BAR; a new table
\* or a host sleep begins a new order.
InOrderAcrossWrap == inorder

\* It is so as long as neither the sequence numbers nor a window that ends at one
\* of them wrap.
NoWrap == left.last < MAX_TID_VALUE /\ PeerWindow <= left.first + 1
InOrder == NoWrap => inorder

\* A frame lies in the slot of its sequence number, or its successors are
\* delivered at the wrong time; and the bitmap, which decides about the timer,
\* has a bit exactly where the buffer has a packet.
SlotsAgree ==
  \A i \in Buffered : IsFrame(tbl.slot[i]) => SeqOf(tbl.slot[i]) = Mask(tbl.start + i)
BitmapAgrees == tbl # NoTbl => tbl.bits = Buffered
WindowAgrees == SlotsAgree /\ BitmapAgrees

\* Every buffer received is in exactly one place until it is handed up or freed:
\* none is lost when two packets meet in a slot.
OneFate ==
  \A n \in Frames :
    owed[n] = Cardinality({i \in Buffered : tbl.slot[i] = n})
              + Cardinality({c \in Contexts : InPkt(c) /\ loc[c].pay = n})

\* Buffered packets have something that will release them: the timer, its
\* handler, or a flush the worker is going to see.
HasExit ==
  \/ timer.armed \/ hand \in {"fired", "table"}
  \/ aflush /\ tbl.flush
Stuck == Buffered # {} /\ ~Busy /\ ~HasExit
\* Packets get stuck only when the worker ran between two instructions of the
\* handler.
BufferedHasExit == Stuck => raced

\* A table is freed only when its timer cannot fire any more and a handler that
\* has fired is past its stores to the table (wlan_flush_data).
FreedTableUntouched == tbl = NoTbl => ~timer.armed /\ hand \in {"idle", "tail"}

\* moal_free_timer's test that the timer was stopped is enough: its handler does
\* not run any more either.
FreedTimerStopped == tbl = NoTbl => ~timer.armed /\ hand = "idle"

\* Whatever is buffered leaves the buffer, unless the worker met the handler.
BufferedReleased == \A n \in Numbers :
  (\E i \in Buffered : tbl.slot[i] = n)
    ~> ((\A i \in Buffered : tbl.slot[i] # n) \/ raced)
================================================================================
