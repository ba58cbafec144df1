------------------------------ MODULE Pcie_proof -------------------------------
(***************************************************************************)
(* Proofs about Pcie, for every size of the rings, every load and every    *)
(* interleaving: the transmit ring is a bounded queue and its count of     *)
(* pending buffers is right; in all three rings the slots the card may use *)
(* have their buffers, packets and events are handed in in order, and      *)
(* every variable keeps its type, the count of what is pending among them. *)
(*                                                                         *)
(* The argument for the transmit ring: the driver's read pointer, the      *)
(* pointer the completion run read, the card's pointer and the driver's    *)
(* write pointer stand in this order on the ring, and never more than N    *)
(* slots apart (PointersInv).  So the slots between the two pointers of    *)
(* the driver, and no others, hold packets (SlotsInv), in the order in     *)
(* which they were posted.  In the receive ring the two pointers of the    *)
(* driver are always N apart, and the slots the card has filled hold the   *)
(* packets that follow those in rx_data_queue (RxInv).                     *)
(*                                                                         *)
(* The argument for the event ring: of the NEvt slots from the driver's    *)
(* read pointer on, the first EvtFilled hold events the card has written   *)
(* and the next ones, up to EvtPosted, empty buffers (EvtPointersInv,      *)
(* EvtBuffersInv).  At most one event is out of the ring, published or     *)
(* about to be, and the cause in event_cause is the next one to handle     *)
(* (EvtThreadsInv, EvtOrderInv).                                           *)
(***************************************************************************)
EXTENDS Pcie, TLAPS, FiniteSetTheorems, SequenceTheorems

--------------------------------------------------------------------------------
(* Division with remainder *)

\* Division with remainder, and that it is unique.
LEMMA Remainder ==
  ASSUME NEW n \in Nat \ {0}, NEW x \in Nat
  PROVE  x \div n \in Nat /\ x % n \in 0 .. n - 1 /\ x = n * (x \div n) + (x % n)
<1>1. x % n \in 0 .. n - 1
  OBVIOUS
<1>2. x \div n \in Nat
  OBVIOUS
<1>3. x = n * (x \div n) + (x % n)
  OBVIOUS
<1> QED BY <1>1, <1>2, <1>3

\* The other way round.
LEMMA RemainderUnique ==
  ASSUME NEW n \in Nat \ {0}, NEW q \in Nat, NEW r \in 0 .. n - 1
  PROVE  (n * q + r) % n = r
  OBVIOUS

\* Multiples of n, one after the other.
LEMMA NextMultiple == ASSUME NEW n \in Nat, NEW q \in Nat PROVE n * (q + 1) = n * q + n
  OBVIOUS

\* Less than n further on, the remainder grows by as much or passes n once.
LEMMA RemainderPlus ==
  ASSUME NEW n \in Nat \ {0}, NEW x \in Nat, NEW i \in 0 .. n - 1
  PROVE  (x + i) % n = IF (x % n) + i < n THEN (x % n) + i ELSE (x % n) + i - n
<1> DEFINE q == x \div n
           r == x % n
<1>1. x = n * q + r /\ r \in 0 .. n - 1 /\ q \in Nat
  BY Remainder
<1> HIDE DEF q, r
<1>2. n * (q + 1) = n * q + n /\ n * q \in Nat
  BY <1>1, NextMultiple
<1>3. CASE r + i < n
  <2>1. x + i = n * q + (r + i)
    BY <1>1, <1>2
  <2>2. (n * q + (r + i)) % n = r + i
    BY <1>3, <1>1, RemainderUnique
  <2> QED BY <2>1, <2>2, <1>3 DEF r
<1>4. CASE ~(r + i < n)
  <2>1. x + i = n * (q + 1) + (r + i - n)
    BY <1>1, <1>2
  <2>2. q + 1 \in Nat /\ r + i - n \in 0 .. n - 1
    BY <1>4, <1>1
  <2>3. (n * (q + 1) + (r + i - n)) % n = r + i - n
    BY <2>2, RemainderUnique
  <2> QED BY <2>1, <2>3, <1>4 DEF r
<1> QED BY <1>3, <1>4

\* n further on, it is the same.
LEMMA RemainderPeriod ==
  ASSUME NEW n \in Nat \ {0}, NEW x \in Nat PROVE (x + n) % n = x % n
<1> DEFINE q == x \div n
           r == x % n
<1>1. x = n * q + r /\ r \in 0 .. n - 1 /\ q \in Nat
  BY Remainder
<1> HIDE DEF q, r
<1>2. n * (q + 1) = n * q + n /\ n * q \in Nat
  BY <1>1, NextMultiple
<1>3. x + n = n * (q + 1) + r
  BY <1>1, <1>2
<1>4. (n * (q + 1) + r) % n = r
  BY <1>1, RemainderUnique
<1> QED BY <1>3, <1>4 DEF r

--------------------------------------------------------------------------------
(* The pointers of a ring of n slots, which count modulo s *)

\* One further, and how far b is ahead of a.
Turn(s, a) == (a + 1) % s
Ahead(s, a, b) == (b + s - a) % s

\* One further on, in cases.
LEMMA TurnIs ==
  ASSUME NEW s \in Nat, s > 1, NEW a \in 0 .. s - 1
  PROVE  Turn(s, a) = IF a = s - 1 THEN 0 ELSE a + 1
<1>1. CASE a = s - 1
  <2>1. a + 1 = s
    BY <1>1
  <2>2. s % s = 0
    OBVIOUS
  <2> QED BY <2>1, <2>2, <1>1 DEF Turn
<1>2. CASE a # s - 1
  <2>1. a + 1 \in 0 .. s - 1
    BY <1>2
  <2>2. \A x \in 0 .. s - 1 : x % s = x
    OBVIOUS
  <2>3. (a + 1) % s = a + 1
    BY <2>1, <2>2
  <2> QED BY <2>3, <1>2 DEF Turn
<1> QED BY <1>1, <1>2

\* How far one pointer is behind another, in cases.
LEMMA AheadIs ==
  ASSUME NEW s \in Nat, s > 1, NEW a \in 0 .. s - 1, NEW b \in 0 .. s - 1
  PROVE  Ahead(s, a, b) = IF b >= a THEN b - a ELSE b + s - a
<1> DEFINE x == b + s - a
<1>1. x \in Nat /\ x < 2 * s /\ (b >= a <=> x >= s)
  OBVIOUS
<1> HIDE DEF x
<1>2. x % s = IF x >= s THEN x - s ELSE x
  BY <1>1
<1>3. (IF x >= s THEN x - s ELSE x) = IF b >= a THEN b - a ELSE b + s - a
  BY <1>1 DEF x
<1> QED BY <1>2, <1>3 DEF Ahead, x

\* What the pointers may do to each other in one step.
LEMMA AheadFacts ==
  ASSUME NEW s \in Nat, s > 1, NEW a \in 0 .. s - 1, NEW b \in 0 .. s - 1
  PROVE  /\ Ahead(s, a, b) \in 0 .. s - 1
         /\ Ahead(s, a, b) = 0 <=> a = b
         /\ Turn(s, a) \in 0 .. s - 1
         /\ a # b => Ahead(s, Turn(s, a), b) = Ahead(s, a, b) - 1
         /\ Ahead(s, a, b) < s - 1 => Ahead(s, a, Turn(s, b)) = Ahead(s, a, b) + 1
<1> DEFINE c == Turn(s, a)
           d == Turn(s, b)
<1>1. /\ c = IF a = s - 1 THEN 0 ELSE a + 1
      /\ d = IF b = s - 1 THEN 0 ELSE b + 1
  BY TurnIs
<1> HIDE DEF c, d
<1>2. c \in 0 .. s - 1 /\ d \in 0 .. s - 1
  BY <1>1
<1>3. /\ Ahead(s, a, b) = IF b >= a THEN b - a ELSE b + s - a
      /\ Ahead(s, c, b) = IF b >= c THEN b - c ELSE b + s - c
      /\ Ahead(s, a, d) = IF d >= a THEN d - a ELSE d + s - a
  BY <1>2, AheadIs
<1>4. /\ Ahead(s, a, b) \in 0 .. s - 1
      /\ Ahead(s, a, b) = 0 <=> a = b
      /\ a # b => Ahead(s, c, b) = Ahead(s, a, b) - 1
      /\ Ahead(s, a, b) < s - 1 => Ahead(s, a, d) = Ahead(s, a, b) + 1
  BY <1>1, <1>2, <1>3
<1> QED BY <1>2, <1>4 DEF c, d

\* Two pointers as far from the same one are the same.
LEMMA AheadInjective ==
  ASSUME NEW s \in Nat, s > 1, NEW a \in 0 .. s - 1, NEW b \in 0 .. s - 1,
         NEW c \in 0 .. s - 1, Ahead(s, a, b) = Ahead(s, a, c)
  PROVE  b = c
<1>1. (IF b >= a THEN b - a ELSE b + s - a) = (IF c >= a THEN c - a ELSE c + s - a)
  BY AheadIs
<1> QED BY <1>1

\* The slot of a pointer does not depend on its lap, and n successive ones differ.
LEMMA SlotFacts ==
  ASSUME NEW n \in Nat \ {0}, NEW s \in {2 * n, 4 * n}, NEW x \in Nat
  PROVE  /\ x % n \in 0 .. n - 1
         /\ (x + s) % n = x % n /\ (x + n) % n = x % n
         /\ \A j, k \in 0 .. n - 1 : (x + j) % n = (x + k) % n => j = k
<1>1. \A y \in Nat : (y + n) % n = y % n
  BY RemainderPeriod
<1>2. (x + s) % n = x % n
  <2>1. (x + n + n) % n = x % n
    <3> DEFINE y == x + n
    <3>1. y % n = x % n
      BY RemainderPeriod
    <3>. y \in Nat
      OBVIOUS
    <3> HIDE DEF y
    <3>2. (y + n) % n = y % n
      BY <1>1
    <3> QED BY <3>1, <3>2 DEF y
  <2>2. (x + n + n + n + n) % n = (x + n + n) % n
    <3> DEFINE y == x + n + n
    <3>1. y \in Nat /\ y + n \in Nat
      OBVIOUS
    <3> HIDE DEF y
    <3>2. (y + n + n) % n = y % n
      BY <1>1, <3>1
    <3> QED BY <3>2 DEF y
  <2>3. x + 2 * n = x + n + n /\ x + 4 * n = x + n + n + n + n
    OBVIOUS
  <2> QED BY <2>1, <2>2, <2>3
<1>3. ASSUME NEW j \in 0 .. n - 1, NEW k \in 0 .. n - 1, (x + j) % n = (x + k) % n
      PROVE  j = k
  <2> DEFINE r == x % n
  <2>1. r \in 0 .. n - 1
    BY Remainder
  <2>2. (x + j) % n = IF r + j < n THEN r + j ELSE r + j - n
    BY RemainderPlus
  <2>3. (x + k) % n = IF r + k < n THEN r + k ELSE r + k - n
    BY RemainderPlus
  <2> HIDE DEF r
  <2>4. (IF r + j < n THEN r + j ELSE r + j - n) = (IF r + k < n THEN r + k ELSE r + k - n)
    BY <1>3, <2>2, <2>3
  <2> QED BY <2>1, <2>4
<1>4. x % n \in 0 .. n - 1
  BY Remainder
<1> QED BY <1>1, <1>2, <1>3, <1>4

\* The slot of b, counted from a.
LEMMA SlotFrom ==
  ASSUME NEW n \in Nat \ {0}, NEW s \in {2 * n, 4 * n},
         NEW a \in 0 .. s - 1, NEW b \in 0 .. s - 1
  PROVE  b % n = (a + Ahead(s, a, b)) % n
<1>1. s \in Nat /\ s > 1
  OBVIOUS
<1>2. a + Ahead(s, a, b) = b \/ a + Ahead(s, a, b) = b + s
  BY <1>1, AheadIs
<1>3. (b + s) % n = b % n
  <2>1. b \in Nat
    OBVIOUS
  <2> QED BY <2>1, SlotFacts
<1> QED BY <1>2, <1>3

\* One slot further on.
LEMMA SlotTurn ==
  ASSUME NEW n \in Nat \ {0}, NEW s \in {2 * n, 4 * n}, NEW a \in 0 .. s - 1, NEW k \in Nat
  PROVE  (Turn(s, a) + k) % n = (a + (k + 1)) % n
<1>1. s \in Nat /\ s > 1
  OBVIOUS
<1>2. CASE a = s - 1
  <2>1. Turn(s, a) + k = k /\ a + (k + 1) = k + s
    BY <1>1, <1>2, TurnIs
  <2>2. (k + s) % n = k % n
    BY SlotFacts
  <2> QED BY <2>1, <2>2
<1>3. CASE a # s - 1
  <2>1. Turn(s, a) + k = a + (k + 1)
    BY <1>1, <1>3, TurnIs
  <2> QED BY <2>1
<1> QED BY <1>2, <1>3

--------------------------------------------------------------------------------
(* The invariant of the event ring *)

\* The buffers of the ring, from the read pointer on; how many the card has filled and
\* how many the driver has posted.
EvtRing == [k \in 0 .. NEvt - 1 |-> evt_buf_list[EvtIndex(evtbd_rdptr + k)]]
EvtFilled == Ahead(EvtSpan, evtbd_rdptr, fw_evt)
EvtPosted == Ahead(EvtSpan, evtbd_rdptr, evtbd_wrptr)

\* The reader has taken a buffer out and not yet told where it is.
Publishing == reader.pc = "publish"

\* The card is between the two pointers of the driver.  While a buffer is out there is
\* room for it.
EvtPointersInv ==
  /\ {evtbd_rdptr, evtbd_wrptr, fw_evt} \subseteq 0 .. EvtSpan - 1
  /\ EvtFilled <= EvtPosted /\ EvtPosted <= NEvt
  /\ Publishing => EvtFilled > 0
  /\ evtmain.buf # None \/ pmlan_buffer_event # None => EvtPosted < NEvt

\* One thread reads, and only when no event is waiting or being handled.
EvtThreadsInv ==
  /\ reader \in [pc : {"none", "ready", "publish", "check"}, by : {Main, EventWork, None},
                 buf : Buffer \union {None}]
  /\ evtmain \in [pc : {"idle", "handle", "again", "read"}, cause : Nat,
                  buf : Buffer \union {None}]
  /\ pmlan_buffer_event \in Buffer \union {None} /\ event_cause \in Nat
  /\ event_received \in BOOLEAN /\ overtaken \in BOOLEAN /\ pcie_event_processing \in BOOLEAN
  /\ pcie_event_processing \/ reader.pc = "none"
  /\ Publishing <=> reader.buf # None
  /\ evtmain.buf # None => evtmain.pc = "handle"
  /\ reader.pc = "ready" => event_cause = 0 /\ ~event_received
  /\ event_received => event_cause # 0
  /\ evtmain.pc = "handle" => event_cause = evtmain.cause /\ event_cause # 0 /\ ~event_received
  /\ ~overtaken =>
       /\ Publishing => event_received
       /\ pmlan_buffer_event # None <=> event_cause # 0 /\ ~Publishing
       /\ evtmain.pc = "handle" => evtmain.buf = pmlan_buffer_event

\* A buffer is in one place.
EvtBuffersInv ==
  /\ evt_buf_list \in [EvtSlots -> Buffer \union {None}] /\ evtlost \subseteq Buffer
  /\ \A k \in 0 .. NEvt - 1 : EvtRing[k] # None <=> k < EvtPosted /\ ~(k = 0 /\ Publishing)
  /\ \A i, j \in EvtSlots :
       evt_buf_list[i] = evt_buf_list[j] /\ evt_buf_list[i] # None => i = j
  /\ \A i \in EvtSlots : evt_buf_list[i] # None =>
       evt_buf_list[i] \notin {reader.buf, evtmain.buf, pmlan_buffer_event} \union evtlost
  /\ reader.buf # None =>
       reader.buf \notin {evtmain.buf, pmlan_buffer_event} \union evtlost
  /\ {evtmain.buf, pmlan_buffer_event} \intersect evtlost = {}
  /\ ~overtaken =>
       \A b \in Buffer : b \in {reader.buf, evtmain.buf, pmlan_buffer_event} \union evtlost
                          \/ \E i \in EvtSlots : evt_buf_list[i] = b

\* The events in the ring follow those handled.
EvtOrderInv ==
  /\ content \in [Buffer -> Nat] /\ raised \in Nat /\ handled \in Seq(Nat)
  /\ \A k \in 1 .. Len(handled) : handled[k] = k
  /\ Len(handled) + EvtFilled + (IF event_received THEN 1 ELSE 0)
       = raised + (IF Publishing THEN 1 ELSE 0)
  /\ event_received => event_cause = Len(handled) + 1
  /\ \A k \in 0 .. NEvt - 1 : k < EvtFilled /\ EvtRing[k] # None =>
       content[EvtRing[k]] + EvtFilled = raised + 1 + k
  /\ ~overtaken =>
       /\ Publishing => content[reader.buf] = event_cause
       /\ pmlan_buffer_event # None => content[pmlan_buffer_event] = event_cause

EvtInv == EvtPointersInv /\ EvtThreadsInv /\ EvtBuffersInv /\ EvtOrderInv

--------------------------------------------------------------------------------
(* The steps of the event ring *)

\* What is known of it in every step.
LEMMA EvtFacts ==
  ASSUME EvtInv
  PROVE  /\ NEvt \in Nat \ {0} /\ EvtSpan \in {2 * NEvt, 4 * NEvt}
         /\ EvtSpan \in Nat /\ EvtSpan > 1 /\ NEvt < EvtSpan
         /\ None \notin Nat /\ None \notin Buffer
         /\ evtbd_rdptr \in 0 .. EvtSpan - 1 /\ evtbd_wrptr \in 0 .. EvtSpan - 1
         /\ fw_evt \in 0 .. EvtSpan - 1 /\ evtbd_rdptr \in Nat
         /\ EvtFilled \in 0 .. NEvt /\ EvtPosted \in 0 .. NEvt /\ EvtFilled <= EvtPosted
<1>1. /\ NEvt \in Nat \ {0} /\ EvtSpan = 2 * NEvt /\ None \notin Nat
  BY EvtAssumption DEF EvtSpan
<1>2. EvtSpan \in Nat /\ EvtSpan > 1 /\ NEvt < EvtSpan /\ None \notin Buffer
  BY <1>1 DEF Buffer
<1>3. /\ evtbd_rdptr \in 0 .. EvtSpan - 1 /\ evtbd_wrptr \in 0 .. EvtSpan - 1
      /\ fw_evt \in 0 .. EvtSpan - 1
      /\ EvtFilled <= EvtPosted /\ EvtPosted <= NEvt
  BY DEF EvtInv, EvtPointersInv
<1>4. EvtFilled \in 0 .. EvtSpan - 1 /\ EvtPosted \in 0 .. EvtSpan - 1
  BY <1>2, <1>3, AheadFacts DEF EvtFilled, EvtPosted
<1> QED BY <1>1, <1>2, <1>3, <1>4

\* Its slots.
LEMMA EvtSlotFacts ==
  ASSUME EvtInv
  PROVE  /\ \A k \in 0 .. NEvt - 1 :
              EvtIndex(evtbd_rdptr + k) \in EvtSlots
              /\ EvtRing[k] = evt_buf_list[EvtIndex(evtbd_rdptr + k)]
         /\ \A j, k \in 0 .. NEvt - 1 :
              EvtIndex(evtbd_rdptr + j) = EvtIndex(evtbd_rdptr + k) => j = k
         /\ EvtIndex(evtbd_rdptr) = EvtIndex(evtbd_rdptr + 0) /\ 0 \in 0 .. NEvt - 1
         /\ EvtIndex(fw_evt) = EvtIndex(evtbd_rdptr + EvtFilled)
         /\ EvtIndex(evtbd_wrptr) = EvtIndex(evtbd_rdptr + EvtPosted)
         /\ EvtIndex(evtbd_rdptr + NEvt) = EvtIndex(evtbd_rdptr)
<1> DEFINE r == evtbd_rdptr
<1>1. /\ NEvt \in Nat \ {0} /\ EvtSpan \in {2 * NEvt, 4 * NEvt} /\ r \in Nat
      /\ r \in 0 .. EvtSpan - 1
      /\ fw_evt \in 0 .. EvtSpan - 1 /\ evtbd_wrptr \in 0 .. EvtSpan - 1
  BY EvtFacts
<1> HIDE DEF r
<1>2. \A k \in 0 .. NEvt - 1 : (r + k) % NEvt \in 0 .. NEvt - 1
  <2>1. \A k \in 0 .. NEvt - 1 : r + k \in Nat
    BY <1>1
  <2> QED BY <1>1, <2>1, SlotFacts
<1>3. \A j, k \in 0 .. NEvt - 1 : (r + j) % NEvt = (r + k) % NEvt => j = k
  BY <1>1, SlotFacts
<1>4. (r + NEvt) % NEvt = r % NEvt /\ r + 0 = r /\ 0 \in 0 .. NEvt - 1
  <2>1. (r + NEvt) % NEvt = r % NEvt
    BY <1>1, SlotFacts
  <2> QED BY <1>1, <2>1
<1>5. /\ fw_evt % NEvt = (r + EvtFilled) % NEvt
      /\ evtbd_wrptr % NEvt = (r + EvtPosted) % NEvt
  BY <1>1, SlotFrom DEF EvtFilled, EvtPosted, r
<1> QED BY <1>2, <1>3, <1>4, <1>5 DEF EvtIndex, EvtSlots, EvtRing, r

\* A step that moves only the two threads.
LEMMA EvtKept ==
  ASSUME EvtInv, EvtThreadsInv',
         UNCHANGED <<evtbd_rdptr, evtbd_wrptr, fw_evt, evt_buf_list, event_cause,
                     event_received, pmlan_buffer_event, overtaken, evtlost, handled,
                     content, raised>>,
         reader'.buf = reader.buf, evtmain'.buf = evtmain.buf
  PROVE  EvtInv'
<1>1. EvtFilled' = EvtFilled /\ EvtPosted' = EvtPosted /\ EvtRing' = EvtRing
  BY DEF EvtFilled, EvtPosted, EvtRing
<1>2. Publishing' <=> Publishing
  BY DEF EvtInv, EvtThreadsInv
<1>3. EvtPointersInv'
  BY <1>1, <1>2 DEF EvtInv, EvtPointersInv
<1>4. EvtBuffersInv'
  BY <1>1, <1>2 DEF EvtInv, EvtBuffersInv
<1>5. EvtOrderInv'
  BY <1>1, <1>2 DEF EvtInv, EvtOrderInv
<1> QED BY <1>3, <1>4, <1>5 DEF EvtInv

\* wlan_pcie_process_event starts a run or leaves a note.
LEMMA EnterEventKeeps ==
  ASSUME EvtInv, NEW t \in {Main, EventWork}, EnterEvent(t)
  PROVE  /\ reader' \in [pc : {"none", "ready", "publish", "check"},
                         by : {Main, EventWork, None}, buf : Buffer \union {None}]
         /\ reader'.buf = reader.buf
         /\ pcie_event_processing' \in BOOLEAN /\ (pcie_event_processing' \/ reader'.pc = "none")
         /\ reader'.pc = "publish" <=> reader.pc = "publish"
         /\ reader'.pc = "ready" => event_cause = 0 /\ ~event_received
<1>1. CASE pcie_event_processing \/ event_received \/ event_cause # 0
  BY <1>1 DEF EnterEvent, EvtInv, EvtThreadsInv
<1>2. CASE ~(pcie_event_processing \/ event_received \/ event_cause # 0)
  <2>1. /\ reader' = [NoReader EXCEPT !.pc = "ready", !.by = t] /\ pcie_event_processing' = TRUE
    BY <1>2 DEF EnterEvent
  <2>2. /\ reader' = [pc |-> "ready", by |-> t, buf |-> None]
    BY <2>1 DEF NoReader
  <2>3. reader.pc = "none" /\ reader.buf = None
    BY <1>2 DEF EvtInv, EvtThreadsInv, Publishing
  <2>4. /\ reader' \in [pc : {"none", "ready", "publish", "check"},
                        by : {Main, EventWork, None}, buf : Buffer \union {None}]
        /\ reader'.pc = "ready" /\ reader'.buf = None
    BY <2>2
  <2> QED BY <1>2, <2>1, <2>3, <2>4 DEF EvtInv, EvtThreadsInv
<1> QED BY <1>1, <1>2

\* The steps that only move a thread.
LEMMA EvtQuietSteps ==
  ASSUME EvtInv, EventWorkRun \/ EvtNone \/ EvtCheck \/ AgainEvent \/ DoneEvent
  PROVE  EvtInv'
<1>1. /\ UNCHANGED <<evtbd_rdptr, evtbd_wrptr, fw_evt, evt_buf_list, event_cause,
                     event_received, pmlan_buffer_event, overtaken, evtlost, handled,
                     content, raised>>
  BY DEF EventWorkRun, EvtNone, EvtCheck, AgainEvent, DoneEvent
<1>2. /\ reader \in [pc : {"none", "ready", "publish", "check"}, by : {Main, EventWork, None},
                     buf : Buffer \union {None}]
      /\ evtmain \in [pc : {"idle", "handle", "again", "read"}, cause : Nat,
                      buf : Buffer \union {None}]
      /\ reader.buf # None <=> reader.pc = "publish"
      /\ evtmain.buf # None => evtmain.pc = "handle"
  BY DEF EvtInv, EvtThreadsInv, Publishing
<1>3. CASE EventWorkRun
  <2>1. evtmain' = evtmain /\ EnterEvent(EventWork)
    BY <1>3 DEF EventWorkRun
  <2>2. EvtThreadsInv'
    BY <1>1, <2>1, EnterEventKeeps DEF EvtInv, EvtThreadsInv, Publishing
  <2> QED BY <1>1, <2>1, <2>2, EnterEventKeeps, EvtKept
<1>4. CASE AgainEvent
  <2>1. evtmain' = [evtmain EXCEPT !.pc = "read"] /\ EnterEvent(Main) /\ evtmain.pc = "again"
    BY <1>4 DEF AgainEvent
  <2>2. EvtThreadsInv'
    BY <1>1, <2>1, EnterEventKeeps DEF EvtInv, EvtThreadsInv, Publishing
  <2>3. evtmain'.buf = evtmain.buf
    BY <1>2, <2>1
  <2> QED BY <1>1, <2>1, <2>2, <2>3, EnterEventKeeps, EvtKept
<1>5. CASE DoneEvent
  <2>1. /\ evtmain' = NoEvent /\ evtmain.pc = "read"
        /\ UNCHANGED <<reader, pcie_event_processing>>
    BY <1>5 DEF DoneEvent
  <2>2. evtmain' = [pc |-> "idle", cause |-> 0, buf |-> None] /\ evtmain.buf = None
    BY <1>2, <2>1 DEF NoEvent
  <2>3. EvtThreadsInv'
    BY <1>1, <2>1, <2>2 DEF EvtInv, EvtThreadsInv, Publishing
  <2> QED BY <1>1, <2>1, <2>2, <2>3, EvtKept
<1>6. CASE EvtNone
  <2>1. /\ reader' = [reader EXCEPT !.pc = "check"] /\ reader.pc = "ready"
        /\ UNCHANGED <<evtmain, pcie_event_processing>>
    BY <1>6 DEF EvtNone
  <2>2. EvtThreadsInv'
    BY <1>1, <2>1 DEF EvtInv, EvtThreadsInv, Publishing
  <2>3. reader'.buf = reader.buf
    BY <1>2, <2>1
  <2> QED BY <1>1, <2>1, <2>2, <2>3, EvtKept
<1>7. CASE EvtCheck
  <2>1. evtmain' = evtmain /\ reader.pc = "check" /\ reader.buf = None
    BY <1>2, <1>7 DEF EvtCheck
  <2>2. CASE more_event_flag /\ event_cause = 0
    <3>1. reader' = [reader EXCEPT !.pc = "ready"] /\ UNCHANGED pcie_event_processing
      BY <1>7, <2>2 DEF EvtCheck
    <3>2. EvtThreadsInv'
      BY <1>1, <2>1, <2>2, <3>1 DEF EvtInv, EvtThreadsInv, Publishing
    <3>3. reader'.buf = reader.buf
      BY <1>2, <3>1
    <3> QED BY <1>1, <2>1, <3>2, <3>3, EvtKept
  <2>3. CASE ~(more_event_flag /\ event_cause = 0)
    <3>1. reader' = NoReader /\ pcie_event_processing' = FALSE
      BY <1>7, <2>3 DEF EvtCheck
    <3>2. reader' = [pc |-> "none", by |-> None, buf |-> None]
      BY <3>1 DEF NoReader
    <3>3. EvtThreadsInv'
      <4>1. /\ reader' \in [pc : {"none", "ready", "publish", "check"},
                            by : {Main, EventWork, None}, buf : Buffer \union {None}]
            /\ reader'.pc = "none" /\ reader'.buf = None
        BY <3>2
      <4> QED BY <1>1, <2>1, <3>1, <4>1 DEF EvtInv, EvtThreadsInv, Publishing
    <3> QED BY <1>1, <2>1, <3>2, <3>3, EvtKept
  <2> QED BY <2>2, <2>3
<1> QED BY <1>3, <1>4, <1>5, <1>6, <1>7

\* The oldest buffer leaves its slot; its event is published.
LEMMA EvtReadyKeeps == ASSUME EvtInv, EvtReady PROVE EvtInv'
<1> DEFINE i == EvtIndex(evtbd_rdptr)
           b == evt_buf_list[i]
<1>1. /\ NEvt \in Nat \ {0} /\ None \notin Nat /\ None \notin Buffer
      /\ EvtFilled \in 0 .. NEvt /\ EvtPosted \in 0 .. NEvt /\ EvtFilled <= EvtPosted
      /\ evtbd_rdptr \in 0 .. EvtSpan - 1 /\ fw_evt \in 0 .. EvtSpan - 1
      /\ EvtSpan \in Nat /\ EvtSpan > 1
  BY EvtFacts
<1>2. /\ UNCHANGED <<pmlan_buffer_event, evtbd_rdptr, evtbd_wrptr, pcie_event_processing,
                     evtmain, overtaken, evtlost, handled, fw_evt, content, raised>>
      /\ reader.pc = "ready" /\ evtbd_rdptr # fw_evt
      /\ evt_buf_list' = [evt_buf_list EXCEPT ![i] = None]
      /\ event_cause' = content[b] /\ event_received' = TRUE
      /\ reader' = [reader EXCEPT !.pc = "publish", !.buf = b]
  BY DEF EvtReady
<1>3. /\ ~Publishing /\ reader.buf = None /\ ~event_received /\ event_cause = 0
      /\ evtmain.pc # "handle" /\ evtmain.buf = None
      /\ ~overtaken => pmlan_buffer_event = None
  BY <1>2 DEF EvtInv, EvtThreadsInv, Publishing
<1>4. EvtFilled > 0
  BY <1>1, <1>2, AheadFacts DEF EvtFilled
<1>5. /\ i \in EvtSlots /\ 0 \in 0 .. NEvt - 1 /\ EvtRing[0] = b
      /\ \A k \in 0 .. NEvt - 1 :
           /\ EvtIndex(evtbd_rdptr + k) \in EvtSlots
           /\ EvtRing[k] = evt_buf_list[EvtIndex(evtbd_rdptr + k)]
           /\ EvtIndex(evtbd_rdptr + k) = i <=> k = 0
  BY EvtSlotFacts
<1>6. b \in Buffer /\ b # None
  BY <1>1, <1>3, <1>4, <1>5 DEF EvtInv, EvtBuffersInv
<1>7. /\ EvtFilled' = EvtFilled /\ EvtPosted' = EvtPosted
      /\ \A k \in 0 .. NEvt - 1 : EvtRing'[k] = IF k = 0 THEN None ELSE EvtRing[k]
  <2>1. EvtRing' = [k \in 0 .. NEvt - 1 |-> evt_buf_list'[EvtIndex(evtbd_rdptr + k)]]
    BY <1>2 DEF EvtRing
  <2>2. evt_buf_list \in [EvtSlots -> Buffer \union {None}]
    BY DEF EvtInv, EvtBuffersInv
  <2> HIDE DEF i
  <2>3. \A k \in 0 .. NEvt - 1 : EvtRing'[k] = IF k = 0 THEN None ELSE EvtRing[k]
    BY <1>2, <1>5, <2>1, <2>2
  <2> QED BY <1>2, <2>3 DEF EvtFilled, EvtPosted
<1>8. content[b] = Len(handled) + 1 /\ content[b] \in Nat \ {0}
  <2>1. content[b] + EvtFilled = raised + 1 + 0
    BY <1>4, <1>5, <1>6 DEF EvtInv, EvtOrderInv
  <2>2. Len(handled) + EvtFilled = raised /\ Len(handled) \in Nat /\ raised \in Nat
    BY <1>1, <1>3 DEF EvtInv, EvtOrderInv
  <2>3. content[b] \in Nat
    BY <1>6 DEF EvtInv, EvtOrderInv
  <2> QED BY <1>1, <2>1, <2>2, <2>3
<1>9. Publishing' /\ reader'.buf = b
      /\ reader' \in [pc : {"none", "ready", "publish", "check"}, by : {Main, EventWork, None},
                      buf : Buffer \union {None}]
  BY <1>2, <1>6 DEF EvtInv, EvtThreadsInv, Publishing
<1> HIDE DEF b
<1>10. EvtPointersInv'
  BY <1>1, <1>2, <1>4, <1>7 DEF EvtInv, EvtPointersInv
<1>11. EvtThreadsInv'
  BY <1>2, <1>3, <1>6, <1>8, <1>9 DEF EvtInv, EvtThreadsInv, Publishing
<1>12. EvtBuffersInv'
  <2>1. evt_buf_list \in [EvtSlots -> Buffer \union {None}]
    BY DEF EvtInv, EvtBuffersInv
  <2>2. \A j \in EvtSlots : evt_buf_list'[j] = IF j = i THEN None ELSE evt_buf_list[j]
    BY <1>2, <2>1
  <2>3. evt_buf_list[i] = b
    BY DEF b
  <2> HIDE DEF i
  <2>4. evt_buf_list' \in [EvtSlots -> Buffer \union {None}] /\ evtlost' \subseteq Buffer
    BY <1>2, <2>1 DEF EvtInv, EvtBuffersInv
  <2>5. \A k \in 0 .. NEvt - 1 :
          EvtRing'[k] # None <=> k < EvtPosted' /\ ~(k = 0 /\ Publishing')
    BY <1>3, <1>7, <1>9 DEF EvtInv, EvtBuffersInv
  <2>6. \A j, k \in EvtSlots :
          evt_buf_list'[j] = evt_buf_list'[k] /\ evt_buf_list'[j] # None => j = k
    BY <2>2 DEF EvtInv, EvtBuffersInv
  <2>7. \A j \in EvtSlots : evt_buf_list'[j] # None =>
          evt_buf_list'[j] \notin {reader'.buf, evtmain'.buf, pmlan_buffer_event'} \union evtlost'
    BY <1>2, <1>5, <1>6, <1>9, <2>2, <2>3 DEF EvtInv, EvtBuffersInv
  <2>8. /\ b \notin {evtmain'.buf, pmlan_buffer_event'} \union evtlost'
        /\ {evtmain'.buf, pmlan_buffer_event'} \intersect evtlost' = {}
    BY <1>2, <1>5, <1>6, <2>3 DEF EvtInv, EvtBuffersInv
  <2>9. ~overtaken' =>
          \A c \in Buffer : c \in {reader'.buf, evtmain'.buf, pmlan_buffer_event'} \union evtlost'
                             \/ \E j \in EvtSlots : evt_buf_list'[j] = c
    <3> SUFFICES ASSUME ~overtaken', NEW c \in Buffer, c # b
                 PROVE  c \in {reader'.buf, evtmain'.buf, pmlan_buffer_event'} \union evtlost'
                          \/ \E j \in EvtSlots : evt_buf_list'[j] = c
      BY <1>9
    <3>1. CASE \E j \in EvtSlots : evt_buf_list[j] = c
      BY <2>2, <2>3, <3>1
    <3>2. CASE c \in {reader.buf, evtmain.buf, pmlan_buffer_event} \union evtlost
      BY <1>1, <1>2, <1>3, <3>2
    <3> QED BY <1>2, <3>1, <3>2 DEF EvtInv, EvtBuffersInv
  <2> QED BY <1>9, <2>4, <2>5, <2>6, <2>7, <2>8, <2>9 DEF EvtBuffersInv
<1>13. EvtOrderInv'
  <2>1. Len(handled) + EvtFilled + 1 = raised + 1 /\ Len(handled) \in Nat /\ raised \in Nat
    BY <1>1, <1>3 DEF EvtInv, EvtOrderInv
  <2>2. \A k \in 0 .. NEvt - 1 : k < EvtFilled' /\ EvtRing'[k] # None =>
          content'[EvtRing'[k]] + EvtFilled' = raised' + 1 + k
    BY <1>2, <1>7 DEF EvtInv, EvtOrderInv
  <2>3. ~overtaken' =>
          /\ Publishing' => content'[reader'.buf] = event_cause'
          /\ pmlan_buffer_event' # None => content'[pmlan_buffer_event'] = event_cause'
    BY <1>2, <1>3, <1>9
  <2>4. /\ content' \in [Buffer -> Nat] /\ raised' \in Nat /\ handled' \in Seq(Nat)
        /\ \A k \in 1 .. Len(handled') : handled'[k] = k
    BY <1>2 DEF EvtInv, EvtOrderInv
  <2> QED BY <1>2, <1>7, <1>8, <1>9, <2>1, <2>2, <2>3, <2>4 DEF EvtOrderInv
<1> QED BY <1>10, <1>11, <1>12, <1>13 DEF EvtInv

\* The reader says where the buffer is and moves on.
LEMMA EvtPublishKeeps == ASSUME EvtInv, EvtPublish PROVE EvtInv'
<1> DEFINE r == evtbd_rdptr
           b == reader.buf
<1>1. /\ NEvt \in Nat \ {0} /\ EvtSpan \in {2 * NEvt, 4 * NEvt}
      /\ None \notin Nat /\ None \notin Buffer
      /\ EvtFilled \in 0 .. NEvt /\ EvtPosted \in 0 .. NEvt /\ EvtFilled <= EvtPosted
      /\ r \in 0 .. EvtSpan - 1 /\ fw_evt \in 0 .. EvtSpan - 1 /\ r \in Nat
      /\ evtbd_wrptr \in 0 .. EvtSpan - 1 /\ EvtSpan \in Nat /\ EvtSpan > 1
  BY EvtFacts
<1>2. /\ UNCHANGED <<evtbd_wrptr, evt_buf_list, event_cause, event_received,
                     pcie_event_processing, evtmain, overtaken, evtlost, handled, fw_evt,
                     content, raised>>
      /\ reader.pc = "publish" /\ pmlan_buffer_event' = b
      /\ evtbd_rdptr' = EvtStep(r)
      /\ reader' = [reader EXCEPT !.pc = "check", !.buf = None]
  BY DEF EvtPublish
<1>3. /\ Publishing /\ b \in Buffer /\ b # None /\ EvtFilled > 0 /\ EvtPosted > 0
      /\ ~overtaken => event_received /\ pmlan_buffer_event = None
      /\ EvtStep(r) = Turn(EvtSpan, r)
  BY <1>1, <1>2 DEF EvtInv, EvtThreadsInv, EvtPointersInv, Publishing, EvtStep, Turn
<1>4. /\ ~Publishing' /\ reader'.buf = None
      /\ reader' \in [pc : {"none", "ready", "publish", "check"}, by : {Main, EventWork, None},
                      buf : Buffer \union {None}]
      /\ reader'.pc = "check"
  BY <1>2 DEF EvtInv, EvtThreadsInv, Publishing
<1>5. EvtFilled' = EvtFilled - 1 /\ EvtPosted' = EvtPosted - 1 /\ EvtStep(r) \in 0 .. EvtSpan - 1
  <2>1. r # fw_evt /\ r # evtbd_wrptr
    <3>1. Ahead(EvtSpan, r, fw_evt) # 0 /\ Ahead(EvtSpan, r, evtbd_wrptr) # 0
      BY <1>3 DEF EvtFilled, EvtPosted
    <3> HIDE DEF r
    <3> QED BY <1>1, <3>1, AheadFacts
  <2>2. /\ Ahead(EvtSpan, Turn(EvtSpan, r), fw_evt) = Ahead(EvtSpan, r, fw_evt) - 1
        /\ Ahead(EvtSpan, Turn(EvtSpan, r), evtbd_wrptr) = Ahead(EvtSpan, r, evtbd_wrptr) - 1
        /\ Turn(EvtSpan, r) \in 0 .. EvtSpan - 1
    BY <1>1, <2>1, AheadFacts
  <2> QED BY <1>2, <1>3, <2>2 DEF EvtFilled, EvtPosted
<1>6. \A k \in 0 .. NEvt - 1 :
        /\ k < NEvt - 1 => k + 1 \in 0 .. NEvt - 1 /\ EvtRing'[k] = EvtRing[k + 1]
        /\ k = NEvt - 1 => EvtRing'[k] = None
  <2> SUFFICES ASSUME NEW k \in 0 .. NEvt - 1
               PROVE  /\ k < NEvt - 1 => k + 1 \in 0 .. NEvt - 1 /\ EvtRing'[k] = EvtRing[k + 1]
                      /\ k = NEvt - 1 => EvtRing'[k] = None
    OBVIOUS
  <2>1. EvtRing'[k] = evt_buf_list[EvtIndex(r + (k + 1))]
    <3>1. EvtIndex(EvtStep(r) + k) = EvtIndex(r + (k + 1))
      <4>1. k \in Nat
        BY <1>1
      <4> HIDE DEF r
      <4>2. (Turn(EvtSpan, r) + k) % NEvt = (r + (k + 1)) % NEvt
        BY <1>1, <4>1, SlotTurn
      <4> QED BY <1>3, <4>2 DEF EvtIndex
    <3>2. EvtRing' = [j \in 0 .. NEvt - 1 |-> evt_buf_list[EvtIndex(EvtStep(r) + j)]]
      BY <1>2 DEF EvtRing
    <3> HIDE DEF r
    <3> QED BY <3>1, <3>2
  <2>2. CASE k < NEvt - 1
    BY <1>1, <2>1, <2>2, EvtSlotFacts
  <2>3. CASE k = NEvt - 1
    <3>1. EvtRing'[k] = EvtRing[0] /\ 0 \in 0 .. NEvt - 1
      <4>1. k + 1 = NEvt
        BY <1>1, <2>3
      <4> QED BY <2>1, <4>1, EvtSlotFacts
    <3>2. EvtRing[0] = None
      BY <1>3, <3>1 DEF EvtInv, EvtBuffersInv
    <3> QED BY <1>1, <2>3, <3>1, <3>2
  <2> QED BY <1>1, <2>2, <2>3
<1>7. EvtPointersInv'
  BY <1>1, <1>2, <1>4, <1>5 DEF EvtInv, EvtPointersInv
<1>8. EvtThreadsInv'
  BY <1>2, <1>3, <1>4 DEF EvtInv, EvtThreadsInv, Publishing
<1>9. EvtBuffersInv'
  <2>1. \A k \in 0 .. NEvt - 1 :
          EvtRing'[k] # None <=> k < EvtPosted' /\ ~(k = 0 /\ Publishing')
    <3> SUFFICES ASSUME NEW k \in 0 .. NEvt - 1
                 PROVE  EvtRing'[k] # None <=> k < EvtPosted - 1
      BY <1>4, <1>5
    <3>1. CASE k < NEvt - 1
      <4>1. EvtRing[k + 1] # None <=> k + 1 < EvtPosted
        BY <1>6, <3>1 DEF EvtInv, EvtBuffersInv
      <4> QED BY <1>1, <1>6, <3>1, <4>1
    <3>2. CASE k = NEvt - 1
      BY <1>1, <1>6, <3>2
    <3> QED BY <1>1, <3>1, <3>2
  <2>2. \A j \in EvtSlots : evt_buf_list'[j] # None =>
          evt_buf_list'[j] \notin {reader'.buf, evtmain'.buf, pmlan_buffer_event'} \union evtlost'
    BY <1>2, <1>4 DEF EvtInv, EvtBuffersInv
  <2>3. {evtmain'.buf, pmlan_buffer_event'} \intersect evtlost' = {}
    BY <1>2, <1>3 DEF EvtInv, EvtBuffersInv
  <2>4. ~overtaken' =>
          \A c \in Buffer : c \in {reader'.buf, evtmain'.buf, pmlan_buffer_event'} \union evtlost'
                             \/ \E j \in EvtSlots : evt_buf_list'[j] = c
    BY <1>1, <1>2, <1>3 DEF EvtInv, EvtBuffersInv
  <2>5. /\ evt_buf_list' \in [EvtSlots -> Buffer \union {None}] /\ evtlost' \subseteq Buffer
        /\ \A i, j \in EvtSlots :
             evt_buf_list'[i] = evt_buf_list'[j] /\ evt_buf_list'[i] # None => i = j
    BY <1>2 DEF EvtInv, EvtBuffersInv
  <2> QED BY <1>4, <2>1, <2>2, <2>3, <2>4, <2>5 DEF EvtBuffersInv
<1>10. EvtOrderInv'
  <2>1. /\ content \in [Buffer -> Nat] /\ raised \in Nat /\ handled \in Seq(Nat)
        /\ \A k \in 1 .. Len(handled) : handled[k] = k
        /\ Len(handled) + EvtFilled + (IF event_received THEN 1 ELSE 0) = raised + 1
        /\ event_received => event_cause = Len(handled) + 1
        /\ ~overtaken => content[b] = event_cause
    BY <1>3 DEF EvtInv, EvtOrderInv
  <2>2. Len(handled) + EvtFilled' + (IF event_received THEN 1 ELSE 0) = raised
    <3>1. Len(handled) \in Nat
      BY <2>1
    <3> QED BY <1>1, <1>5, <2>1, <3>1
  <2>3. \A k \in 0 .. NEvt - 1 : k < EvtFilled' /\ EvtRing'[k] # None =>
          content'[EvtRing'[k]] + EvtFilled' = raised' + 1 + k
    <3> SUFFICES ASSUME NEW k \in 0 .. NEvt - 1, k < EvtFilled', EvtRing'[k] # None
                 PROVE  content[EvtRing'[k]] + EvtFilled' = raised + 1 + k
      BY <1>2
    <3>1. k < NEvt - 1 /\ k + 1 < EvtFilled
      BY <1>1, <1>5
    <3>2. EvtRing'[k] = EvtRing[k + 1] /\ k + 1 \in 0 .. NEvt - 1
      BY <1>6, <3>1
    <3>3. content[EvtRing[k + 1]] + EvtFilled = raised + 1 + (k + 1)
      BY <3>1, <3>2 DEF EvtInv, EvtOrderInv
    <3>4. content[EvtRing[k + 1]] \in Nat
      <4>1. EvtRing[k + 1] \in Buffer
        BY <1>1, <3>2, EvtSlotFacts DEF EvtInv, EvtBuffersInv
      <4> QED BY <2>1, <4>1
    <3>5. raised \in Nat /\ k \in Nat /\ EvtFilled \in Nat
      BY <1>1, <2>1
    <3> QED BY <1>5, <3>2, <3>3, <3>4, <3>5
  <2> QED BY <1>2, <1>4, <2>1, <2>2, <2>3 DEF EvtOrderInv
<1> QED BY <1>7, <1>8, <1>9, <1>10 DEF EvtInv

\* The main process takes the event, perhaps without its buffer.
LEMMA TakeEventKeeps == ASSUME EvtInv, TakeEvent PROVE EvtInv'
<1>1. /\ UNCHANGED <<evtbd_rdptr, evtbd_wrptr, evt_buf_list, event_cause,
                     pmlan_buffer_event, pcie_event_processing, reader, evtlost, fw_evt,
                     content, raised>>
      /\ evtmain.pc = "idle" /\ event_received /\ event_received' = FALSE
      /\ evtmain' = [pc |-> "handle", cause |-> event_cause, buf |-> pmlan_buffer_event]
      /\ handled' = Append(handled, event_cause)
      /\ overtaken' = (overtaken \/ Publishing)
  BY DEF TakeEvent, Publishing
<1>2. /\ event_received = TRUE /\ evtmain.buf = None /\ event_cause # 0 /\ event_cause \in Nat
      /\ pmlan_buffer_event \in Buffer \union {None}
      /\ overtaken \in BOOLEAN /\ overtaken' \in BOOLEAN
      /\ ~overtaken' => ~overtaken /\ ~Publishing
  BY <1>1 DEF EvtInv, EvtThreadsInv
<1>3. /\ EvtFilled' = EvtFilled /\ EvtPosted' = EvtPosted /\ EvtRing' = EvtRing
      /\ Publishing' = Publishing
  BY <1>1 DEF EvtFilled, EvtPosted, EvtRing, Publishing
<1>4. /\ evtmain'.pc = "handle" /\ evtmain'.cause = event_cause
      /\ evtmain'.buf = pmlan_buffer_event
      /\ evtmain' \in [pc : {"idle", "handle", "again", "read"}, cause : Nat,
                       buf : Buffer \union {None}]
  BY <1>1, <1>2
<1>5. EvtPointersInv'
  BY <1>1, <1>3, <1>4 DEF EvtInv, EvtPointersInv
<1>6. EvtThreadsInv'
  BY <1>1, <1>2, <1>3, <1>4 DEF EvtInv, EvtThreadsInv, Publishing
<1>7. EvtBuffersInv'
  <2>1. /\ evt_buf_list' = evt_buf_list /\ evtlost' = evtlost /\ reader' = reader
        /\ pmlan_buffer_event' = pmlan_buffer_event /\ evtmain'.buf = pmlan_buffer_event
    BY <1>1, <1>4
  <2>2. \A i \in EvtSlots : evt_buf_list[i] # None =>
          evt_buf_list[i] \notin {reader.buf, pmlan_buffer_event} \union evtlost
    BY DEF EvtInv, EvtBuffersInv
  <2>3. /\ reader.buf # None => reader.buf \notin {pmlan_buffer_event} \union evtlost
        /\ {pmlan_buffer_event} \intersect evtlost = {}
    BY DEF EvtInv, EvtBuffersInv
  <2>4. ~overtaken' => \A b \in Buffer : b \in {reader.buf, pmlan_buffer_event} \union evtlost
                                            \/ \E i \in EvtSlots : evt_buf_list[i] = b
    <3>1. None \notin Buffer
      BY EvtFacts
    <3> QED BY <1>2, <3>1 DEF EvtInv, EvtBuffersInv
  <2>5. /\ evt_buf_list \in [EvtSlots -> Buffer \union {None}] /\ evtlost \subseteq Buffer
        /\ \A k \in 0 .. NEvt - 1 :
             EvtRing'[k] # None <=> k < EvtPosted' /\ ~(k = 0 /\ Publishing')
        /\ \A i, j \in EvtSlots :
             evt_buf_list[i] = evt_buf_list[j] /\ evt_buf_list[i] # None => i = j
    BY <1>3 DEF EvtInv, EvtBuffersInv
  <2> QED BY <2>1, <2>2, <2>3, <2>4, <2>5 DEF EvtBuffersInv
<1>8. EvtOrderInv'
  <2>1. /\ content \in [Buffer -> Nat] /\ raised \in Nat /\ handled \in Seq(Nat)
        /\ \A k \in 1 .. Len(handled) : handled[k] = k
        /\ Len(handled) + EvtFilled + 1 = raised + (IF Publishing THEN 1 ELSE 0)
        /\ event_cause = Len(handled) + 1
    BY <1>2 DEF EvtInv, EvtOrderInv
  <2>2. /\ handled' \in Seq(Nat) /\ Len(handled') = Len(handled) + 1
        /\ \A k \in 1 .. Len(handled) : handled'[k] = handled[k]
        /\ handled'[Len(handled) + 1] = event_cause
        /\ Len(handled) \in Nat
    BY <1>1, <1>2, <2>1
  <2>3. \A k \in 1 .. Len(handled') : handled'[k] = k
    <3>1. \A k \in 1 .. Len(handled') : k \in 1 .. Len(handled) \/ k = Len(handled) + 1
      BY <2>2
    <3> QED BY <2>1, <2>2, <3>1
  <2>4. Len(handled') + EvtFilled' + (IF event_received' THEN 1 ELSE 0)
          = raised' + (IF Publishing' THEN 1 ELSE 0)
    <3>1. EvtFilled \in Nat
      BY EvtFacts
    <3> QED BY <1>1, <1>3, <2>1, <2>2, <3>1
  <2> QED BY <1>1, <1>2, <1>3, <2>1, <2>2, <2>3, <2>4 DEF EvtInv, EvtOrderInv
<1> QED BY <1>5, <1>6, <1>7, <1>8 DEF EvtInv

\* The card fills a buffer the driver has posted.
LEMMA CardEventKeeps == ASSUME EvtInv, CardEvent PROVE EvtInv'
<1> DEFINE b == evt_buf_list[EvtIndex(fw_evt)]
           f == fw_evt
<1>1. /\ NEvt \in Nat \ {0} /\ EvtSpan \in Nat /\ EvtSpan > 1 /\ NEvt < EvtSpan
      /\ EvtFilled \in 0 .. NEvt /\ EvtPosted \in 0 .. NEvt /\ EvtFilled <= EvtPosted
      /\ evtbd_rdptr \in 0 .. EvtSpan - 1 /\ f \in 0 .. EvtSpan - 1
      /\ evtbd_wrptr \in 0 .. EvtSpan - 1
  BY EvtFacts
<1>2. /\ UNCHANGED <<evtbd_rdptr, evtbd_wrptr, evt_buf_list, event_cause, event_received,
                     pmlan_buffer_event, pcie_event_processing, reader, evtmain, evtlost,
                     handled, overtaken>>
      /\ f # evtbd_wrptr
      /\ content' = IF b = None THEN content ELSE [content EXCEPT ![b] = raised + 1]
      /\ fw_evt' = Turn(EvtSpan, f) /\ raised' = raised + 1
  BY DEF CardEvent, EvtStep, Turn
<1>3. EvtFilled < EvtPosted
  <2>1. Ahead(EvtSpan, evtbd_rdptr, f) # Ahead(EvtSpan, evtbd_rdptr, evtbd_wrptr)
    <3> HIDE DEF f
    <3> QED BY <1>1, <1>2, AheadInjective
  <2> QED BY <1>1, <2>1 DEF EvtFilled, EvtPosted
<1>4. EvtFilled' = EvtFilled + 1 /\ Turn(EvtSpan, f) \in 0 .. EvtSpan - 1
  <2>1. Ahead(EvtSpan, evtbd_rdptr, f) < EvtSpan - 1
    BY <1>1, <1>3 DEF EvtFilled
  <2>2. Ahead(EvtSpan, evtbd_rdptr, Turn(EvtSpan, f)) = Ahead(EvtSpan, evtbd_rdptr, f) + 1
    BY <1>1, <2>1, AheadFacts
  <2>3. Turn(EvtSpan, f) \in 0 .. EvtSpan - 1
    BY <1>1, AheadFacts
  <2> QED BY <1>2, <2>2, <2>3 DEF EvtFilled
<1>5. EvtPosted' = EvtPosted /\ EvtRing' = EvtRing /\ Publishing' = Publishing
  BY <1>2 DEF EvtPosted, EvtRing, Publishing
<1>6. /\ EvtFilled \in 0 .. NEvt - 1 /\ EvtRing[EvtFilled] = b /\ b # None /\ b \in Buffer
  <2>1. EvtFilled \in 0 .. NEvt - 1
    BY <1>1, <1>3
  <2>2. EvtRing[EvtFilled] = b /\ EvtIndex(evtbd_rdptr + EvtFilled) \in EvtSlots
        /\ b = evt_buf_list[EvtIndex(evtbd_rdptr + EvtFilled)]
    BY <2>1, EvtSlotFacts
  <2>3. ~(EvtFilled = 0 /\ Publishing)
    BY DEF EvtInv, EvtPointersInv
  <2>4. b # None
    BY <1>3, <2>1, <2>2, <2>3 DEF EvtInv, EvtBuffersInv
  <2> HIDE DEF b
  <2> QED BY <2>1, <2>2, <2>4 DEF EvtInv, EvtBuffersInv
<1> HIDE DEF b
<1>7. content' = [content EXCEPT ![b] = raised + 1]
  BY <1>2, <1>6
<1>8. EvtPointersInv'
  BY <1>1, <1>2, <1>3, <1>4, <1>5 DEF EvtInv, EvtPointersInv
<1>9. EvtThreadsInv'
  BY <1>2 DEF EvtInv, EvtThreadsInv, Publishing
<1>10. EvtBuffersInv'
  BY <1>2, <1>5 DEF EvtInv, EvtBuffersInv
<1>11. EvtOrderInv'
  <2>1. /\ content \in [Buffer -> Nat] /\ raised \in Nat /\ handled \in Seq(Nat)
        /\ \A k \in 1 .. Len(handled) : handled[k] = k
        /\ Len(handled) + EvtFilled + (IF event_received THEN 1 ELSE 0)
             = raised + (IF Publishing THEN 1 ELSE 0)
        /\ Len(handled) \in Nat
    BY DEF EvtInv, EvtOrderInv
  <2>2. content' \in [Buffer -> Nat] /\ content'[b] = raised + 1
        /\ \A c \in Buffer : c # b => content'[c] = content[c]
    BY <1>6, <1>7, <2>1
  <2>3. \A k \in 0 .. NEvt - 1 : k # EvtFilled => EvtRing[k] # b
    <3> SUFFICES ASSUME NEW k \in 0 .. NEvt - 1, EvtRing[k] = b
                 PROVE  k = EvtFilled
      OBVIOUS
    <3>1. /\ EvtIndex(evtbd_rdptr + k) \in EvtSlots
          /\ EvtIndex(evtbd_rdptr + EvtFilled) \in EvtSlots
          /\ evt_buf_list[EvtIndex(evtbd_rdptr + k)] = b
          /\ evt_buf_list[EvtIndex(evtbd_rdptr + EvtFilled)] = b
      BY <1>6, EvtSlotFacts
    <3>2. EvtIndex(evtbd_rdptr + k) = EvtIndex(evtbd_rdptr + EvtFilled)
      BY <1>6, <3>1 DEF EvtInv, EvtBuffersInv
    <3> QED BY <1>6, <3>2, EvtSlotFacts
  <2>4. \A k \in 0 .. NEvt - 1 : EvtRing[k] \in Buffer \union {None}
    BY EvtSlotFacts DEF EvtInv, EvtBuffersInv
  <2>5. ASSUME NEW k \in 0 .. NEvt - 1, k < EvtFilled + 1, EvtRing[k] # None
        PROVE  content'[EvtRing[k]] + (EvtFilled + 1) = raised + 1 + 1 + k
    <3>1. CASE k = EvtFilled
      BY SMTT(30), <1>1, <1>6, <2>1, <2>2, <3>1
    <3>2. CASE k # EvtFilled
      <4>1. k < EvtFilled
        BY <1>1, <2>5, <3>2
      <4>2. content[EvtRing[k]] + EvtFilled = raised + 1 + k
        BY <2>5, <4>1 DEF EvtInv, EvtOrderInv
      <4>3. content'[EvtRing[k]] = content[EvtRing[k]] /\ content[EvtRing[k]] \in Nat
        BY <2>1, <2>2, <2>3, <2>4, <2>5, <3>2
      <4>4. raised \in Nat /\ EvtFilled \in Nat
        BY <1>1, <2>1
      <4> QED BY <4>2, <4>3, <4>4
    <3> QED BY <3>1, <3>2
  <2>6. b \notin {reader.buf, evtmain.buf, pmlan_buffer_event}
    <3>1. EvtIndex(evtbd_rdptr + EvtFilled) \in EvtSlots
          /\ evt_buf_list[EvtIndex(evtbd_rdptr + EvtFilled)] = b
      BY <1>6, EvtSlotFacts
    <3> QED BY <1>6, <3>1 DEF EvtInv, EvtBuffersInv
  <2>7. ~overtaken =>
          /\ Publishing => content'[reader.buf] = event_cause
          /\ pmlan_buffer_event # None => content'[pmlan_buffer_event] = event_cause
    <3>1. Publishing => reader.buf \in Buffer
      BY DEF EvtInv, EvtThreadsInv, Publishing
    <3>2. pmlan_buffer_event # None => pmlan_buffer_event \in Buffer
      BY DEF EvtInv, EvtThreadsInv
    <3>3. ~overtaken =>
            /\ Publishing => content[reader.buf] = event_cause
            /\ pmlan_buffer_event # None => content[pmlan_buffer_event] = event_cause
      BY DEF EvtInv, EvtOrderInv
    <3> QED BY <2>2, <2>6, <3>1, <3>2, <3>3
  <2>8. Len(handled) + (EvtFilled + 1) + (IF event_received THEN 1 ELSE 0)
          = raised + 1 + (IF Publishing THEN 1 ELSE 0)
    <3>1. raised \in Nat /\ EvtFilled \in Nat /\ Len(handled) \in Nat
      BY <1>1, <2>1
    <3> QED BY <2>1, <3>1
  <2>9. event_received => event_cause = Len(handled) + 1
    BY DEF EvtInv, EvtOrderInv
  <2>10. raised + 1 \in Nat
    BY <2>1
  <2> QED BY <1>2, <1>4, <1>5, <2>1, <2>2, <2>5, <2>7, <2>8, <2>9, <2>10 DEF EvtOrderInv
<1> QED BY <1>8, <1>9, <1>10, <1>11 DEF EvtInv

\* The event is done: its buffer goes back to the ring or is freed.
LEMMA CompleteEventKeeps == ASSUME EvtInv, CompleteEvent PROVE EvtInv'
<1> DEFINE b == evtmain.buf
           w == evtbd_wrptr
<1>1. /\ NEvt \in Nat \ {0} /\ EvtSpan \in Nat /\ EvtSpan > 1 /\ NEvt < EvtSpan
      /\ None \notin Buffer
      /\ EvtFilled \in 0 .. NEvt /\ EvtPosted \in 0 .. NEvt /\ EvtFilled <= EvtPosted
      /\ evtbd_rdptr \in 0 .. EvtSpan - 1 /\ w \in 0 .. EvtSpan - 1
  BY EvtFacts
<1>2. /\ UNCHANGED <<evtbd_rdptr, event_received, pcie_event_processing, reader, handled,
                     fw_evt, content, raised, overtaken>>
      /\ event_cause' = 0 /\ pmlan_buffer_event' = None /\ evtmain.pc = "handle"
      /\ evtmain' = [pc |-> "again", cause |-> 0, buf |-> None]
  BY DEF CompleteEvent, NoEvent
<1>3. /\ evtmain'.pc = "again" /\ evtmain'.buf = None
      /\ evtmain' \in [pc : {"idle", "handle", "again", "read"}, cause : Nat,
                       buf : Buffer \union {None}]
  BY <1>2
<1>4. /\ ~event_received /\ event_cause # 0 /\ b \in Buffer \union {None} /\ reader.pc # "ready"
      /\ ~overtaken => ~Publishing /\ b = pmlan_buffer_event /\ reader.buf = None
  BY <1>2 DEF EvtInv, EvtThreadsInv, Publishing
<1>5. EvtFilled' = EvtFilled /\ Publishing' = Publishing
  BY <1>2 DEF EvtFilled, Publishing
<1>6. EvtThreadsInv'
  BY <1>2, <1>3, <1>4 DEF EvtInv, EvtThreadsInv, Publishing
<1>7. CASE UNCHANGED <<evt_buf_list, evtbd_wrptr>> /\ evtlost' = IF b = None THEN evtlost ELSE evtlost \union {b}
  <2>1. EvtPosted' = EvtPosted /\ EvtRing' = EvtRing
    BY <1>2, <1>7 DEF EvtPosted, EvtRing
  <2>2. EvtPointersInv'
    BY <1>2, <1>3, <1>5, <1>7, <2>1 DEF EvtInv, EvtPointersInv
  <2>3. EvtBuffersInv'
    <3>1. evtlost' \subseteq Buffer
      <4>1. evtlost \subseteq Buffer
        BY DEF EvtInv, EvtBuffersInv
      <4> QED BY <1>4, <1>7, <4>1
    <3>2. \A i \in EvtSlots : evt_buf_list[i] # None =>
            evt_buf_list[i] \notin {reader.buf, None} \union evtlost'
      BY <1>7 DEF EvtInv, EvtBuffersInv
    <3>3. reader.buf # None => reader.buf \notin {None} \union evtlost'
      BY <1>7 DEF EvtInv, EvtBuffersInv
    <3>4. {None} \intersect evtlost' = {}
      BY <1>1, <3>1
    <3>5. ~overtaken => \A c \in Buffer : c \in {reader.buf, None} \union evtlost'
                                            \/ \E i \in EvtSlots : evt_buf_list[i] = c
      BY <1>1, <1>4, <1>7 DEF EvtInv, EvtBuffersInv
    <3> QED BY <1>2, <1>3, <1>5, <1>7, <2>1, <3>1, <3>2, <3>3, <3>4, <3>5
            DEF EvtInv, EvtBuffersInv
  <2>4. EvtOrderInv'
    BY <1>2, <1>4, <1>5, <1>7, <2>1 DEF EvtInv, EvtOrderInv
  <2> QED BY <1>6, <2>2, <2>3, <2>4 DEF EvtInv
<1>8. CASE b # None /\ PutBack(b)
  <2> DEFINE i == EvtIndex(w)
             d == EvtPosted
  <2>1. EvtPosted < NEvt /\ d \in 0 .. NEvt - 1
    <3>1. EvtPosted < NEvt
      BY <1>8 DEF EvtInv, EvtPointersInv
    <3> QED BY <1>1, <3>1
  <2>2. /\ i \in EvtSlots /\ i = EvtIndex(evtbd_rdptr + d)
        /\ EvtRing[d] = evt_buf_list[i]
        /\ \A k \in 0 .. NEvt - 1 :
             /\ EvtIndex(evtbd_rdptr + k) \in EvtSlots
             /\ EvtRing[k] = evt_buf_list[EvtIndex(evtbd_rdptr + k)]
             /\ EvtIndex(evtbd_rdptr + k) = i <=> k = d
    BY <2>1, EvtSlotFacts
  <2>3. evt_buf_list[i] = None
    <3>1. EvtRing[d] # None <=> d < EvtPosted /\ ~(d = 0 /\ Publishing)
      BY <2>1 DEF EvtInv, EvtBuffersInv
    <3> QED BY <1>1, <2>2, <3>1
  <2>4. /\ evt_buf_list' = [evt_buf_list EXCEPT ![i] = b]
        /\ evtbd_wrptr' = Turn(EvtSpan, w) /\ evtlost' = evtlost
    BY <1>8, <2>3 DEF PutBack, EvtStep, Turn
  <2>5. /\ EvtPosted' = EvtPosted + 1 /\ Turn(EvtSpan, w) \in 0 .. EvtSpan - 1
    <3>1. Ahead(EvtSpan, evtbd_rdptr, w) < EvtSpan - 1
      BY <1>1, <2>1 DEF EvtPosted
    <3>2. Ahead(EvtSpan, evtbd_rdptr, Turn(EvtSpan, w)) = Ahead(EvtSpan, evtbd_rdptr, w) + 1
      BY <1>1, <3>1, AheadFacts
    <3>3. Turn(EvtSpan, w) \in 0 .. EvtSpan - 1
      BY <1>1, AheadFacts
    <3> QED BY <1>2, <2>4, <3>2, <3>3 DEF EvtPosted
  <2> HIDE DEF i, b
  <2>6. evt_buf_list \in [EvtSlots -> Buffer \union {None}]
    BY DEF EvtInv, EvtBuffersInv
  <2>7. \A j \in EvtSlots : evt_buf_list'[j] = IF j = i THEN b ELSE evt_buf_list[j]
    BY <2>4, <2>6
  <2>8. \A k \in 0 .. NEvt - 1 : EvtRing'[k] = IF k = d THEN b ELSE EvtRing[k]
    <3>1. EvtRing' = [k \in 0 .. NEvt - 1 |-> evt_buf_list'[EvtIndex(evtbd_rdptr + k)]]
      BY <1>2 DEF EvtRing
    <3> HIDE DEF d
    <3> QED BY <2>2, <2>7, <3>1
  <2>9. EvtPointersInv'
    BY <1>1, <1>2, <1>3, <1>5, <2>1, <2>4, <2>5 DEF EvtInv, EvtPointersInv
  <2>10. EvtBuffersInv'
    <3>1. /\ b \in Buffer /\ b # None /\ b \notin evtlost /\ b # reader.buf
          /\ \A j \in EvtSlots : evt_buf_list[j] # b
      BY <1>4, <1>8 DEF EvtInv, EvtBuffersInv, b
    <3>2. evt_buf_list' \in [EvtSlots -> Buffer \union {None}]
      BY <2>4, <2>6, <3>1
    <3>3. \A k \in 0 .. NEvt - 1 :
            EvtRing'[k] # None <=> k < EvtPosted' /\ ~(k = 0 /\ Publishing')
      <4>1. Publishing => d > 0
        BY <1>1 DEF EvtInv, EvtPointersInv
      <4> QED BY <1>1, <1>5, <2>5, <2>8, <3>1, <4>1 DEF EvtInv, EvtBuffersInv
    <3>4. \A j, k \in EvtSlots :
            evt_buf_list'[j] = evt_buf_list'[k] /\ evt_buf_list'[j] # None => j = k
      BY <2>7, <3>1 DEF EvtInv, EvtBuffersInv
    <3>5. \A j \in EvtSlots : evt_buf_list'[j] # None =>
            evt_buf_list'[j] \notin {reader.buf, None} \union evtlost
      BY <2>7, <3>1 DEF EvtInv, EvtBuffersInv
    <3>6. /\ evtlost \subseteq Buffer /\ None \notin evtlost
          /\ reader.buf # None => reader.buf \notin {None} \union evtlost
      BY <1>1 DEF EvtInv, EvtBuffersInv
    <3>7. ~overtaken => \A c \in Buffer : c \in {reader.buf, None} \union evtlost
                                            \/ \E j \in EvtSlots : evt_buf_list'[j] = c
      <4> SUFFICES ASSUME ~overtaken, NEW c \in Buffer
                   PROVE  c \in {reader.buf, None} \union evtlost
                            \/ \E j \in EvtSlots : evt_buf_list'[j] = c
        OBVIOUS
      <4>1. CASE c = b
        BY <2>2, <2>7, <4>1
      <4>2. CASE \E j \in EvtSlots : evt_buf_list[j] = c
        BY <1>1, <2>3, <2>7, <4>2
      <4>3. c \in {reader.buf, b} \union evtlost \/ \E j \in EvtSlots : evt_buf_list[j] = c
        BY <1>4 DEF EvtInv, EvtBuffersInv, b
      <4> QED BY <4>1, <4>2, <4>3
    <3> QED BY <1>2, <1>3, <2>4, <3>2, <3>3, <3>4, <3>5, <3>6, <3>7 DEF EvtBuffersInv
  <2>11. EvtOrderInv'
    <3>1. \A k \in 0 .. NEvt - 1 : k < EvtFilled => EvtRing'[k] = EvtRing[k]
      BY <1>1, <2>8
    <3>2. \A k \in 0 .. NEvt - 1 : k < EvtFilled' /\ EvtRing'[k] # None =>
            content'[EvtRing'[k]] + EvtFilled' = raised' + 1 + k
      BY <1>2, <1>5, <3>1 DEF EvtInv, EvtOrderInv
    <3>3. /\ content \in [Buffer -> Nat] /\ raised \in Nat /\ handled \in Seq(Nat)
          /\ \A k \in 1 .. Len(handled) : handled[k] = k
          /\ Len(handled) + EvtFilled + (IF event_received THEN 1 ELSE 0)
               = raised + (IF Publishing THEN 1 ELSE 0)
      BY DEF EvtInv, EvtOrderInv
    <3> QED BY <1>2, <1>4, <1>5, <3>2, <3>3 DEF EvtOrderInv
  <2> QED BY <1>6, <2>9, <2>10, <2>11 DEF EvtInv
<1> QED BY <1>4, <1>7, <1>8 DEF CompleteEvent, FreeEvtBuf

\* In the beginning every slot has a buffer and the card has filled none.
LEMMA EvtInvInit == ASSUME EvtInit PROVE EvtInv
<1>1. /\ NEvt \in Nat \ {0} /\ EvtSpan = 2 * NEvt /\ None \notin Nat /\ None \notin Buffer
  BY EvtAssumption DEF EvtSpan, Buffer
<1>2. EvtSpan \in Nat /\ EvtSpan > 1 /\ 0 \in 0 .. EvtSpan - 1 /\ NEvt \in 0 .. EvtSpan - 1
  BY <1>1
<1>3. EvtFilled = 0 /\ EvtPosted = NEvt
  BY <1>1, <1>2, AheadIs DEF EvtInit, EvtFilled, EvtPosted
<1>4. /\ reader = [pc |-> "none", by |-> None, buf |-> None]
      /\ evtmain = [pc |-> "idle", cause |-> 0, buf |-> None]
  BY DEF EvtInit, NoReader, NoEvent
<1>5. \A i \in EvtSlots : evt_buf_list[i] = i + 1 /\ i + 1 \in Buffer
  BY <1>1 DEF EvtInit, EvtSlots, Buffer
<1>6. \A k \in 0 .. NEvt - 1 : EvtRing[k] # None
  <2> SUFFICES ASSUME NEW k \in 0 .. NEvt - 1 PROVE EvtRing[k] # None
    OBVIOUS
  <2>1. k % NEvt \in 0 .. NEvt - 1
    BY <1>1, Remainder
  <2>2. 0 + k = k
    OBVIOUS
  <2>3. EvtRing[k] = evt_buf_list[k % NEvt]
    BY <2>2 DEF EvtRing, EvtIndex, EvtInit
  <2>4. k % NEvt \in EvtSlots
    BY <2>1 DEF EvtSlots
  <2> QED BY <1>1, <1>5, <2>3, <2>4
<1>7. EvtPointersInv
  BY <1>1, <1>2, <1>3, <1>4 DEF EvtInit, EvtPointersInv, Publishing
<1>8. EvtThreadsInv
  <2>1. /\ reader \in [pc : {"none", "ready", "publish", "check"},
                     by : {Main, EventWork, None}, buf : Buffer \union {None}]
        /\ evtmain \in [pc : {"idle", "handle", "again", "read"}, cause : Nat,
                        buf : Buffer \union {None}]
    BY <1>4
  <2>2. reader.pc = "none" /\ reader.buf = None /\ evtmain.pc = "idle" /\ evtmain.buf = None
    BY <1>4
  <2> QED BY <2>1, <2>2 DEF EvtInit, EvtThreadsInv, Publishing
<1>9. EvtBuffersInv
  <2>1. evt_buf_list \in [EvtSlots -> Buffer \union {None}] /\ evtlost = {}
    BY <1>5 DEF EvtInit
  <2>2. \A b \in Buffer : \E i \in EvtSlots : evt_buf_list[i] = b
    <3> SUFFICES ASSUME NEW b \in Buffer
                 PROVE  \E i \in EvtSlots : evt_buf_list[i] = b
      OBVIOUS
    <3>1. b - 1 \in EvtSlots /\ (b - 1) + 1 = b
      BY <1>1 DEF Buffer, EvtSlots
    <3> QED BY <1>5, <3>1
  <2>3. \A k \in 0 .. NEvt - 1 : EvtRing[k] # None <=> k < EvtPosted /\ ~(k = 0 /\ Publishing)
    BY <1>1, <1>3, <1>4, <1>6 DEF Publishing
  <2>4. \A i, j \in EvtSlots : evt_buf_list[i] = evt_buf_list[j] => i = j
    BY <1>5, <1>1 DEF EvtSlots
  <2>5. reader.buf = None /\ evtmain.buf = None /\ pmlan_buffer_event = None
    BY <1>4 DEF EvtInit
  <2> QED BY <2>1, <2>2, <2>3, <2>4, <2>5 DEF EvtBuffersInv
<1>10. EvtOrderInv
  <2>1. content \in [Buffer -> Nat] /\ raised = 0 /\ handled = <<>> /\ ~Publishing
        /\ ~event_received /\ pmlan_buffer_event = None
    BY <1>4 DEF EvtInit, Publishing
  <2>2. handled \in Seq(Nat) /\ Len(handled) = 0
    BY <2>1
  <2> QED BY <1>1, <1>3, <2>1, <2>2 DEF EvtOrderInv
<1> QED BY <1>7, <1>8, <1>9, <1>10 DEF EvtInv

\* Every step of the event ring keeps the invariant.
LEMMA EvtStepKeeps ==
  ASSUME EvtInv,
         EventWorkRun \/ EvtReader \/ EvtMain \/ CardEvent \/ UNCHANGED evtvars
  PROVE  EvtInv'
<1>1. CASE EventWorkRun \/ EvtNone \/ EvtCheck \/ AgainEvent \/ DoneEvent
  BY <1>1, EvtQuietSteps
<1>2. CASE EvtReady
  BY <1>2, EvtReadyKeeps
<1>3. CASE EvtPublish
  BY <1>3, EvtPublishKeeps
<1>4. CASE TakeEvent
  BY <1>4, TakeEventKeeps
<1>5. CASE CompleteEvent
  BY <1>5, CompleteEventKeeps
<1>6. CASE CardEvent
  BY <1>6, CardEventKeeps
<1>7. CASE UNCHANGED evtvars
  <2>1. EvtThreadsInv'
    BY <1>7 DEF EvtInv, EvtThreadsInv, Publishing, evtvars
  <2> QED BY <1>7, <2>1, EvtKept DEF evtvars
<1> QED BY <1>1, <1>2, <1>3, <1>4, <1>5, <1>6, <1>7 DEF EvtReader, EvtMain

--------------------------------------------------------------------------------
(* What the invariant says of the events *)

\* The buffer the main process has is that of its event, and the events come in order.
LEMMA EvtMatches == ASSUME EvtInv PROVE EventMatchesBuffer /\ EventsInOrder
<1>1. EventsInOrder
  BY DEF EvtInv, EvtOrderInv, EventsInOrder
<1>2. ASSUME evtmain.pc = "handle", ~overtaken
      PROVE  evtmain.buf # None /\ content[evtmain.buf] = evtmain.cause
  <2>1. /\ event_cause = evtmain.cause /\ event_cause # 0 /\ ~event_received
        /\ evtmain.buf = pmlan_buffer_event /\ ~Publishing
    BY <1>2 DEF EvtInv, EvtThreadsInv
  <2>2. pmlan_buffer_event # None
    BY <1>2, <2>1 DEF EvtInv, EvtThreadsInv
  <2> QED BY <1>2, <2>1, <2>2 DEF EvtInv, EvtOrderInv
<1> QED BY <1>1, <1>2 DEF EventMatchesBuffer

\* The slot the driver will fill is empty, the one the card will fill is not.
LEMMA EvtSlotsAgree == ASSUME EvtInv PROVE EventSlotsAgree
<1>1. /\ NEvt \in Nat \ {0} /\ EvtFilled \in 0 .. NEvt /\ EvtPosted \in 0 .. NEvt
      /\ EvtFilled <= EvtPosted
  BY EvtFacts
<1>2. ASSUME evtmain.pc = "handle" /\ evtmain.buf # None
      PROVE  evt_buf_list[EvtIndex(evtbd_wrptr)] = None
  <2>1. EvtPosted \in 0 .. NEvt - 1
    <3>1. EvtPosted < NEvt
      BY <1>2 DEF EvtInv, EvtPointersInv
    <3> QED BY <1>1, <3>1
  <2>2. EvtRing[EvtPosted] = evt_buf_list[EvtIndex(evtbd_wrptr)]
    BY <2>1, EvtSlotFacts
  <2>3. EvtRing[EvtPosted] # None <=> EvtPosted < EvtPosted /\ ~(EvtPosted = 0 /\ Publishing)
    BY <2>1 DEF EvtInv, EvtBuffersInv
  <2> QED BY <1>1, <2>2, <2>3
<1>3. ASSUME fw_evt # evtbd_wrptr
      PROVE  evt_buf_list[EvtIndex(fw_evt)] # None
  <2>1. EvtFilled < EvtPosted
    <3>1. /\ EvtSpan \in Nat /\ EvtSpan > 1 /\ evtbd_rdptr \in 0 .. EvtSpan - 1
          /\ fw_evt \in 0 .. EvtSpan - 1 /\ evtbd_wrptr \in 0 .. EvtSpan - 1
      BY EvtFacts
    <3>2. Ahead(EvtSpan, evtbd_rdptr, fw_evt) # Ahead(EvtSpan, evtbd_rdptr, evtbd_wrptr)
      BY <1>3, <3>1, AheadInjective
    <3> QED BY <1>1, <3>2 DEF EvtFilled, EvtPosted
  <2>2. EvtFilled \in 0 .. NEvt - 1
    BY <1>1, <2>1
  <2>3. EvtRing[EvtFilled] = evt_buf_list[EvtIndex(fw_evt)]
    BY <2>2, EvtSlotFacts
  <2>4. ~(EvtFilled = 0 /\ Publishing)
    BY DEF EvtInv, EvtPointersInv
  <2> QED BY <2>1, <2>2, <2>3, <2>4 DEF EvtInv, EvtBuffersInv
<1> QED BY <1>2, <1>3 DEF EventSlotsAgree

\* Every buffer is in exactly one place.
LEMMA EvtBuffersAreKept == ASSUME EvtInv, ~overtaken PROVE EventBuffersKept
<1> DEFINE inslot(b) == {i \in EvtSlots : evt_buf_list[i] = b}
           held == {reader.buf, evtmain.buf, pmlan_buffer_event}
           out(b) == {x \in {held, evtlost} : b \in x}
<1>1. SUFFICES ASSUME NEW b \in Buffer
               PROVE  Cardinality(inslot(b)) + Cardinality(out(b)) = 1
  BY DEF EventBuffersKept
<1>2. b # None
  BY EvtFacts
<1>3. ~(b \in held /\ b \in evtlost)
  BY <1>2 DEF EvtInv, EvtBuffersInv
<1>4. CASE b \in held \union evtlost
  <2>1. inslot(b) = {}
    BY <1>2, <1>4 DEF EvtInv, EvtBuffersInv
  <2>2. \E x : out(b) = {x}
    <3>1. CASE b \in held
      <4>1. out(b) = {held}
        BY <1>3, <3>1
      <4> QED BY <4>1
    <3>2. CASE b \in evtlost
      <4>1. out(b) = {evtlost}
        BY <1>3, <3>2
      <4> QED BY <4>1
    <3> QED BY <1>4, <3>1, <3>2
  <2> HIDE DEF inslot, out
  <2>3. Cardinality(inslot(b)) = 0
    BY <2>1, FS_EmptySet
  <2>4. Cardinality(out(b)) = 1
    BY <2>2, FS_Singleton
  <2> QED BY <2>3, <2>4
<1>5. CASE b \notin held \union evtlost
  <2>1. out(b) = {}
    BY <1>5
  <2>2. \E x : inslot(b) = {x}
    <3>1. PICK i \in EvtSlots : evt_buf_list[i] = b
      BY <1>5 DEF EvtInv, EvtBuffersInv
    <3>2. \A j \in EvtSlots : evt_buf_list[j] = b => j = i
      BY <1>2, <3>1 DEF EvtInv, EvtBuffersInv
    <3>3. inslot(b) = {i}
      BY <3>1, <3>2
    <3> QED BY <3>3
  <2> HIDE DEF inslot, out
  <2>3. Cardinality(out(b)) = 0
    BY <2>1, FS_EmptySet
  <2>4. Cardinality(inslot(b)) = 1
    BY <2>2, FS_Singleton
  <2> QED BY <2>3, <2>4
<1> QED BY <1>4, <1>5

--------------------------------------------------------------------------------
(* The transmit ring: the pointers *)

\* The descriptors posted and not yet taken back.
Filled == Distance(txbd_rdptr, txbd_wrptr)

\* The pointers of a ring stand in the order in which they move: what the driver has
\* taken back, what the run in progress saw, what the card has read, what is posted.
PointersInv ==
  /\ use_adma \in BOOLEAN
  /\ {txbd_wrptr, txbd_rdptr, fw_tx} \subseteq 0 .. Span - 1
  /\ reg_tx = txbd_wrptr
  /\ Filled <= N
  /\ Distance(txbd_rdptr, fw_tx) <= Filled
  /\ pass.pc = "free" =>
       /\ pass.rdptr \in 0 .. Span - 1
       /\ Distance(txbd_rdptr, pass.rdptr) <= Distance(txbd_rdptr, fw_tx)
  /\ main.pc = "map" => Filled < N

\* Where the two threads are: one at a time takes buffers back.
ThreadsInv ==
  /\ pass \in [pc : {"none", "start", "free", "again"}, by : Workers \union {Main, None},
               rdptr : Nat, unmap_count : Nat]
  /\ pass.pc # "free" => pass.unmap_count = 0
  /\ pcie_tx_processing \in BOOLEAN /\ (pcie_tx_processing \/ pass.pc = "none")
  /\ main \in [pc : {"idle", "room", "map", "full", "sent", "end"},
               pmbuf : Packet \union {None}]

\* The packet that comes next.
Fresh == IF main.pc \in {"room", "map", "full"} THEN main.pmbuf ELSE next

\* The slots between the two pointers hold packets, each earlier than the next one
\* to be posted, and the others none.
SlotsInv ==
  /\ load \in Loads /\ next \in Nat \ {0}
  /\ main.pc \in {"room", "map", "full"} => main.pmbuf \in Packet /\ main.pmbuf < next
  /\ tx_buf_list \in [Slots -> Packet \union {None}]
  /\ \A k \in 0 .. N - 1 : tx_buf_list[Index(txbd_rdptr + k)] # None <=> k < Filled
  /\ \A i \in Slots : tx_buf_list[i] # None => tx_buf_list[i] < Fresh
  /\ completed \in Seq(Packet)
  /\ \A i \in 1 .. Len(completed) : completed[i] < Fresh

RingInv == PointersInv /\ ThreadsInv /\ SlotsInv

--------------------------------------------------------------------------------
(* Arithmetic of the pointers *)

\* A pointer runs through two laps of the ring or four.
LEMMA Spans == ASSUME use_adma \in BOOLEAN PROVE N \in Nat \ {0} /\ Span \in {2 * N, 4 * N}
  BY RingAssumption DEF Span

\* The values of a pointer.
Pointer == 0 .. Span - 1

\* A pointer of these rings is one of a ring of N slots, with span Span.
LEMMA PointersAre ==
  ASSUME use_adma \in BOOLEAN
  PROVE  /\ Span \in Nat /\ Span > 1
         /\ \A a \in Pointer : a \in 0 .. Span - 1 /\ Step(a) = Turn(Span, a)
         /\ \A a, b \in Pointer : Distance(a, b) = Ahead(Span, a, b)
  BY Spans DEF Pointer, Step, Turn, Distance, Ahead

\* The arithmetic of pointers in cases.
LEMMA StepIs ==
  ASSUME use_adma \in BOOLEAN, NEW a \in Pointer
  PROVE  Step(a) = IF a = Span - 1 THEN 0 ELSE a + 1
  BY PointersAre, TurnIs

\* How far one pointer is behind another, in cases.
LEMMA DistanceIs ==
  ASSUME use_adma \in BOOLEAN, NEW a \in Pointer, NEW b \in Pointer
  PROVE  Distance(a, b) = IF b >= a THEN b - a ELSE b + Span - a
  BY PointersAre, AheadIs

\* What the pointers may do to each other in one step.
LEMMA DistanceFacts ==
  ASSUME use_adma \in BOOLEAN, NEW a \in Pointer, NEW b \in Pointer
  PROVE  /\ Distance(a, b) \in Pointer
         /\ Distance(a, b) = 0 <=> a = b
         /\ Step(a) \in Pointer
         /\ a # b => Distance(Step(a), b) = Distance(a, b) - 1
         /\ Distance(a, b) < Span - 1 => Distance(a, Step(b)) = Distance(a, b) + 1
<1>1. /\ Span \in Nat /\ Span > 1 /\ a \in 0 .. Span - 1 /\ b \in 0 .. Span - 1
      /\ Step(a) = Turn(Span, a) /\ Step(b) = Turn(Span, b)
      /\ Distance(a, b) = Ahead(Span, a, b)
  BY PointersAre
<1>2. Turn(Span, a) \in 0 .. Span - 1 /\ Turn(Span, b) \in 0 .. Span - 1
  BY <1>1, AheadFacts
<1>3. Step(a) \in Pointer /\ Step(b) \in Pointer
  BY <1>1, <1>2 DEF Pointer
<1>4. /\ Distance(Step(a), b) = Ahead(Span, Turn(Span, a), b)
      /\ Distance(a, Step(b)) = Ahead(Span, a, Turn(Span, b))
  BY <1>1, <1>3, PointersAre
<1>5. /\ Ahead(Span, a, b) \in 0 .. Span - 1
      /\ Ahead(Span, a, b) = 0 <=> a = b
      /\ a # b => Ahead(Span, Turn(Span, a), b) = Ahead(Span, a, b) - 1
      /\ Ahead(Span, a, b) < Span - 1 =>
           Ahead(Span, a, Turn(Span, b)) = Ahead(Span, a, b) + 1
  BY <1>1, AheadFacts
<1>6. Distance(a, b) \in Pointer
  BY <1>1, <1>5 DEF Pointer
<1> QED BY <1>1, <1>3, <1>4, <1>5, <1>6

\* The slot of a pointer does not depend on its lap.
LEMMA IndexFacts ==
  ASSUME use_adma \in BOOLEAN, NEW x \in Nat
  PROVE  /\ Index(x) \in Slots
         /\ Index(x + Span) = Index(x) /\ Index(x + N) = Index(x)
         /\ \A j, k \in 0 .. N - 1 : Index(x + j) = Index(x + k) => j = k
  BY Spans, SlotFacts DEF Index, Slots

\* The slot of b, counted from a.
LEMMA IndexFrom ==
  ASSUME use_adma \in BOOLEAN, NEW a \in Pointer, NEW b \in Pointer
  PROVE  Index(b) = Index(a + Distance(a, b))
<1>1. a \in 0 .. Span - 1 /\ b \in 0 .. Span - 1 /\ Distance(a, b) = Ahead(Span, a, b)
  BY PointersAre
<1>2. b % N = (a + Ahead(Span, a, b)) % N
  BY <1>1, Spans, SlotFrom
<1> QED BY <1>1, <1>2 DEF Index

\* One slot further on.
LEMMA IndexStep ==
  ASSUME use_adma \in BOOLEAN, NEW a \in Pointer, NEW k \in Nat
  PROVE  Index(Step(a) + k) = Index(a + (k + 1))
<1>1. a \in 0 .. Span - 1 /\ Step(a) = Turn(Span, a)
  BY PointersAre
<1>2. (Turn(Span, a) + k) % N = (a + (k + 1)) % N
  BY <1>1, Spans, SlotTurn
<1> QED BY <1>1, <1>2 DEF Index

\* Two pointers as far from the same one are the same.
LEMMA DistanceInjective ==
  ASSUME use_adma \in BOOLEAN, NEW a \in Pointer, NEW b \in Pointer, NEW c \in Pointer,
         Distance(a, b) = Distance(a, c)
  PROVE  b = c
  BY PointersAre, AheadInjective

\* The test of a full ring is right as long as the ring is not overfull.
LEMMA FullIsFull ==
  ASSUME use_adma \in BOOLEAN, txbd_rdptr \in Pointer, txbd_wrptr \in Pointer,
         Filled = N
  PROVE  ~TxbdNotFull
<1> DEFINE r == txbd_rdptr
           w == txbd_wrptr
<1>1. N \in Nat \ {0} /\ Span \in {2 * N, 4 * N} /\ r \in Nat /\ w \in Nat
  BY Spans DEF Pointer
<1>2. Index(w) = Index(r)
  BY <1>1, IndexFrom, IndexFacts DEF Filled
<1>3. w = r + N \/ w + 2 * N = r + N \/ w + 4 * N = r + N
  BY <1>1, DistanceIs DEF Filled
<1> HIDE DEF r, w
<1>4. \A x \in Nat : (x + N) \div N = (x \div N) + 1 /\ x \div N \in Nat
  BY <1>1
<1>5. \A x \in Nat : (x + 2 * N) \div N = (x \div N) + 2
  <2>1. \A x \in Nat : x + 2 * N = (x + N) + N /\ x + N \in Nat
    BY <1>1
  <2> QED BY <1>4, <2>1
<1>6. \A x \in Nat : (x + 4 * N) \div N = (x \div N) + 4
  <2>1. \A x \in Nat : x + 4 * N = (x + 2 * N) + 2 * N /\ x + 2 * N \in Nat
    BY <1>1
  <2> QED BY <1>4, <1>5, <2>1
<1>7. (w \div N) % 2 # (r \div N) % 2
  <2>1. \/ w \div N = (r \div N) + 1
        \/ (w \div N) + 2 = (r \div N) + 1
        \/ (w \div N) + 4 = (r \div N) + 1
    BY <1>1, <1>3, <1>4, <1>5, <1>6
  <2>2. w \div N \in Nat /\ r \div N \in Nat
    BY <1>1, <1>4
  <2> QED BY <2>1, <2>2
<1> QED BY <1>2, <1>7 DEF TxbdNotFull, r, w

--------------------------------------------------------------------------------
(* The pointers and the threads *)

\* The family of the card never changes, so a distance is measured the same way
\* before and after a step.
LEMMA SameSpan ==
  ASSUME use_adma' = use_adma
  PROVE  /\ Span' = Span
         /\ Filled' = Distance(txbd_rdptr', txbd_wrptr')
         /\ Distance(txbd_rdptr, fw_tx)' = Distance(txbd_rdptr', fw_tx')
         /\ Distance(txbd_rdptr, pass.rdptr)' = Distance(txbd_rdptr', pass'.rdptr)
BY DEF Span, Filled, Distance

\* A thread that calls wlan_pcie_process_tx_complete starts a run or leaves a note.
LEMMA EnterKeeps ==
  ASSUME ThreadsInv, NEW t \in Workers \union {Main}, EnterTxComplete(t)
  PROVE  /\ pass' \in [pc : {"none", "start", "free", "again"},
                       by : Workers \union {Main, None}, rdptr : Nat, unmap_count : Nat]
         /\ pass'.pc # "free" => pass'.unmap_count = 0
         /\ pcie_tx_processing' \in BOOLEAN
         /\ pcie_tx_processing' \/ pass'.pc = "none"
         /\ pass'.pc = "free" => pass' = pass
         /\ pass'.unmap_count = pass.unmap_count
BY DEF ThreadsInv, EnterTxComplete, NoPass

\* Packets are numbers, the absence of one is none.
LEMMA PacketsAreNumbers == Packet \subseteq Nat \ {0} /\ None \notin Packet
BY RingAssumption DEF Packet

\* Every step keeps what is known of the two threads.
LEMMA ThreadsStep ==
  ASSUME RingInv, Next
  PROVE  ThreadsInv'
<1> USE DEF RingInv, ThreadsInv
<1>1. CASE Pass
  <2>1. CASE ReadTxRdptr
    <3>1. fw_tx \in Nat
      BY DEF PointersInv
    <3>2. pass' \in {[pass EXCEPT !.pc = "free", !.rdptr = fw_tx, !.unmap_count = 0],
                     [pass EXCEPT !.pc = "again"]}
      BY <2>1 DEF ReadTxRdptr
    <3> QED BY <2>1, <3>1, <3>2 DEF ReadTxRdptr
  <2>2. CASE FreeTxBuf
    BY <2>2 DEF FreeTxBuf
  <2>3. CASE SettleTx
    BY <2>3 DEF SettleTx
  <2>4. CASE AgainTx
    <3>1. CASE more_tx_task_flag
      BY <2>4, <3>1 DEF AgainTx
    <3>2. CASE ~more_tx_task_flag
      <4>1. NoPass \in [pc : {"none", "start", "free", "again"},
                        by : Workers \union {Main, None}, rdptr : Nat, unmap_count : Nat]
        BY DEF NoPass
      <4>2. NoPass.pc = "none" /\ NoPass.unmap_count = 0
        BY DEF NoPass
      <4> QED BY <2>4, <3>2, <4>1, <4>2 DEF AgainTx
    <3> QED BY <3>1, <3>2
  <2> QED BY <1>1, <2>1, <2>2, <2>3, <2>4 DEF Pass
<1>2. CASE Send
  <2>1. CASE SendStart
    <3>1. next \in Packet
      BY <2>1, RingAssumption DEF SendStart, SlotsInv, Packet
    <3>2. CASE use_adma /\ TxPending
      BY <2>1, <3>1, <3>2, EnterKeeps DEF SendStart
    <3>3. CASE ~(use_adma /\ TxPending)
      BY <2>1, <3>1, <3>3 DEF SendStart
    <3> QED BY <3>2, <3>3
  <2>2. CASE SendRoom
    BY <2>2 DEF SendRoom
  <2>3. CASE SendFull
    BY <2>3 DEF SendFull
  <2>4. CASE SendMapFails
    BY <2>4 DEF SendMapFails
  <2>5. CASE SendAttach
    BY <2>5 DEF SendAttach
  <2>6. CASE SendSent
    <3>1. CASE TxbdNotFull
      BY <2>6, <3>1 DEF SendSent
    <3>2. CASE ~TxbdNotFull
      BY <2>6, <3>2, EnterKeeps DEF SendSent
    <3> QED BY <3>1, <3>2
  <2>7. CASE MainEnd
    BY <2>7 DEF MainEnd
  <2> QED BY <1>2, <2>1, <2>2, <2>3, <2>4, <2>5, <2>6, <2>7 DEF Send
<1>3. CASE Receive
  BY <1>3 DEF Receive, RxStart, RxDetach, RxOops, RxAttach, RxAttachFails, RxEnd, txvars
<1>4. CASE CardTx \/ CardRx
  BY <1>4 DEF CardTx, CardRx, txvars
<1>5. ASSUME NEW w \in Workers, WorkStart(w) \/ WorkEnd(w)
      PROVE  ThreadsInv'
  <2>1. CASE WorkStart(w) /\ TxPending
    BY <2>1, EnterKeeps DEF WorkStart
  <2>2. CASE WorkStart(w) /\ ~TxPending
    BY <2>2 DEF WorkStart
  <2>3. CASE WorkEnd(w)
    BY <2>3 DEF WorkEnd
  <2> QED BY <1>5, <2>1, <2>2, <2>3
<1> QED BY <1>1, <1>2, <1>3, <1>4, <1>5 DEF Next

\* A step that moves none of the pointers of the transmit ring.
LEMMA PointersKept ==
  ASSUME PointersInv,
         UNCHANGED <<use_adma, txbd_wrptr, txbd_rdptr, fw_tx>>, reg_tx' = txbd_wrptr,
         pass'.pc = "free" => pass.pc = "free" /\ pass'.rdptr = pass.rdptr,
         main'.pc = "map" => main.pc = "map"
  PROVE  PointersInv'
<1>1. /\ Span' = Span /\ Filled' = Filled
      /\ Distance(txbd_rdptr, fw_tx)' = Distance(txbd_rdptr, fw_tx)
      /\ pass'.pc = "free" =>
           Distance(txbd_rdptr, pass.rdptr)' = Distance(txbd_rdptr, pass.rdptr)
  BY SameSpan DEF Filled
<1> QED BY <1>1 DEF PointersInv

\* Taking back moves the read pointer, and never past the card's.
LEMMA PointersFree ==
  ASSUME RingInv, FreeTxBuf PROVE PointersInv'
<1> DEFINE r == txbd_rdptr
           w == txbd_wrptr
<1>1. /\ use_adma \in BOOLEAN /\ r \in Pointer /\ w \in Pointer /\ fw_tx \in Pointer
      /\ pass.rdptr \in Pointer /\ pass.pc = "free" /\ r # pass.rdptr
  BY DEF RingInv, PointersInv, FreeTxBuf, Pointer
<1>2. /\ UNCHANGED <<use_adma, txbd_wrptr, fw_tx, reg_tx, main>>
      /\ pass'.rdptr = pass.rdptr /\ txbd_rdptr' = Step(r)
  BY DEF RingInv, ThreadsInv, FreeTxBuf
<1>3. /\ Distance(r, w) \in Nat /\ Distance(r, fw_tx) \in Nat
      /\ Distance(r, pass.rdptr) \in Nat
      /\ Distance(r, pass.rdptr) # 0 /\ Step(r) \in Pointer
  <2>1. /\ Distance(r, w) \in Pointer /\ Distance(r, fw_tx) \in Pointer
        /\ Distance(r, pass.rdptr) \in Pointer
        /\ Distance(r, pass.rdptr) # 0 /\ Step(r) \in Pointer
    BY <1>1, DistanceFacts
  <2> QED BY <2>1 DEF Pointer
<1>4. /\ Distance(r, pass.rdptr) <= Distance(r, fw_tx)
      /\ Distance(r, fw_tx) <= Distance(r, w) /\ Distance(r, w) <= N
      /\ main.pc = "map" => Distance(r, w) < N
  BY <1>1 DEF RingInv, PointersInv, Filled
<1>5. r # fw_tx /\ r # w
  BY <1>1, <1>3, <1>4, DistanceFacts
<1>6. /\ Distance(Step(r), w) = Distance(r, w) - 1
      /\ Distance(Step(r), fw_tx) = Distance(r, fw_tx) - 1
      /\ Distance(Step(r), pass.rdptr) = Distance(r, pass.rdptr) - 1
  BY <1>1, <1>5, DistanceFacts
<1>7. /\ Span' = Span /\ Filled' = Distance(Step(r), w)
      /\ Distance(txbd_rdptr, fw_tx)' = Distance(Step(r), fw_tx)
      /\ Distance(txbd_rdptr, pass.rdptr)' = Distance(Step(r), pass.rdptr)
  BY <1>2, SameSpan
<1>8. N \in Nat
  BY RingAssumption
<1>9. Step(r) \in 0 .. Span - 1 /\ reg_tx = txbd_wrptr
  BY <1>3 DEF Pointer, RingInv, PointersInv
<1> QED BY <1>1, <1>2, <1>3, <1>4, <1>6, <1>7, <1>8, <1>9 DEF PointersInv, Pointer

\* Posting moves the write pointer: there was room.
LEMMA PointersAttach ==
  ASSUME RingInv, SendAttach PROVE PointersInv'
<1> DEFINE r == txbd_rdptr
           w == txbd_wrptr
<1>1. /\ use_adma \in BOOLEAN /\ r \in Pointer /\ w \in Pointer /\ fw_tx \in Pointer
      /\ Distance(r, w) < N
  BY DEF RingInv, PointersInv, SendAttach, Pointer, Filled
<1>2. /\ UNCHANGED <<use_adma, txbd_rdptr, fw_tx, pass>>
      /\ txbd_wrptr' = Step(w) /\ reg_tx' = Step(w) /\ main'.pc = "sent"
  BY DEF SendAttach
<1>3. N \in Nat \ {0} /\ N < Span
  BY <1>1, Spans
<1>4. /\ Distance(r, w) \in Nat /\ Step(w) \in Pointer
      /\ Distance(r, Step(w)) = Distance(r, w) + 1
  <2>1. Distance(r, w) \in Pointer
    BY <1>1, DistanceFacts
  <2>2. Distance(r, w) < Span - 1
    BY <1>1, <1>3, <2>1, Spans DEF Pointer
  <2> QED BY <1>1, <2>1, <2>2, DistanceFacts DEF Pointer
<1>5. /\ Span' = Span /\ Filled' = Distance(r, Step(w))
      /\ Distance(txbd_rdptr, fw_tx)' = Distance(r, fw_tx)
      /\ Distance(txbd_rdptr, pass.rdptr)' = Distance(r, pass.rdptr)
  BY <1>2, SameSpan
<1>6. Distance(r, fw_tx) \in Nat
  BY <1>1, DistanceFacts DEF Pointer
<1> QED BY <1>1, <1>2, <1>3, <1>4, <1>5, <1>6 DEF RingInv, PointersInv, Pointer, Filled

\* The card reads no further than the last descriptor posted.
LEMMA PointersCard ==
  ASSUME RingInv, CardTx PROVE PointersInv'
<1> DEFINE r == txbd_rdptr
           w == txbd_wrptr
<1>1. /\ use_adma \in BOOLEAN /\ r \in Pointer /\ w \in Pointer /\ fw_tx \in Pointer
      /\ fw_tx # w /\ Distance(r, fw_tx) <= Distance(r, w) /\ Distance(r, w) <= N
  BY DEF RingInv, PointersInv, CardTx, Pointer, Filled
<1>2. /\ UNCHANGED <<use_adma, txbd_rdptr, txbd_wrptr, pass, reg_tx, main>>
      /\ fw_tx' = Step(fw_tx)
  BY DEF CardTx
<1>3. /\ Distance(r, w) \in Pointer /\ Distance(r, fw_tx) \in Pointer
      /\ Distance(r, fw_tx) # Distance(r, w)
  BY <1>1, DistanceFacts, DistanceInjective
<1>4. Distance(r, fw_tx) < Span - 1
  BY <1>1, <1>3, Spans DEF Pointer
<1>5. /\ Distance(r, Step(fw_tx)) = Distance(r, fw_tx) + 1
      /\ Step(fw_tx) \in Pointer
  BY <1>1, <1>4, DistanceFacts
<1>6. /\ Span' = Span /\ Filled' = Filled
      /\ Distance(txbd_rdptr, fw_tx)' = Distance(r, Step(fw_tx))
      /\ Distance(txbd_rdptr, pass.rdptr)' = Distance(r, pass.rdptr)
  BY <1>2, SameSpan DEF Filled
<1>7. pass.pc = "free" => Distance(r, pass.rdptr) \in Nat
  <2>1. pass.pc = "free" => pass.rdptr \in Pointer
    BY DEF RingInv, PointersInv, Pointer
  <2>2. pass.pc = "free" => Distance(r, pass.rdptr) \in Pointer
    BY <1>1, <2>1, DistanceFacts
  <2> QED BY <2>2 DEF Pointer
<1> QED BY <1>1, <1>2, <1>3, <1>5, <1>6, <1>7 DEF RingInv, PointersInv, Pointer, Filled

\* Every step keeps the order of the pointers.
LEMMA PointersStep ==
  ASSUME RingInv, Next PROVE PointersInv'
<1>0. /\ PointersInv /\ reg_tx = txbd_wrptr /\ use_adma \in BOOLEAN
      /\ \A t \in Workers \union {Main} : EnterTxComplete(t) =>
           (pass'.pc = "free" => pass.pc = "free" /\ pass'.rdptr = pass.rdptr)
  BY EnterKeeps DEF RingInv, PointersInv
<1>1. CASE Pass
  <2>1. CASE ReadTxRdptr
    <3>1. UNCHANGED <<use_adma, txbd_wrptr, txbd_rdptr, fw_tx, reg_tx, main>>
      BY <2>1 DEF ReadTxRdptr
    <3>2. /\ Span' = Span /\ Filled' = Filled
          /\ Distance(txbd_rdptr, fw_tx)' = Distance(txbd_rdptr, fw_tx)
          /\ Distance(txbd_rdptr, pass.rdptr)' = Distance(txbd_rdptr, pass'.rdptr)
      BY <3>1, SameSpan DEF Filled
    <3>3. pass'.pc = "free" => pass'.rdptr = fw_tx
      BY <2>1 DEF ReadTxRdptr, RingInv, ThreadsInv
    <3>4. Distance(txbd_rdptr, fw_tx) \in Nat
      <4>1. txbd_rdptr \in Pointer /\ fw_tx \in Pointer
        BY <1>0 DEF PointersInv, Pointer
      <4>2. Distance(txbd_rdptr, fw_tx) \in Pointer
        BY <1>0, <4>1, DistanceFacts
      <4> QED BY <4>2 DEF Pointer
    <3> QED BY <1>0, <3>1, <3>2, <3>3, <3>4 DEF PointersInv
  <2>2. CASE FreeTxBuf
    BY <2>2, PointersFree
  <2>3. CASE SettleTx \/ AgainTx
    <3>1. UNCHANGED <<use_adma, txbd_wrptr, txbd_rdptr, fw_tx, reg_tx, main>>
      BY <2>3 DEF SettleTx, AgainTx
    <3>2. pass'.pc # "free"
      <4>1. pass' \in {[pass EXCEPT !.pc = "again", !.unmap_count = 0],
                       [pass EXCEPT !.pc = "start"], NoPass}
        BY <2>3 DEF SettleTx, AgainTx
      <4>2. NoPass.pc = "none"
        BY DEF NoPass
      <4> QED BY <4>1, <4>2 DEF RingInv, ThreadsInv
    <3> QED BY <1>0, <3>1, <3>2, PointersKept
  <2> QED BY <1>1, <2>1, <2>2, <2>3 DEF Pass
<1>2. CASE Send
  <2>1. CASE SendRoom
    <3>1. /\ UNCHANGED <<use_adma, txbd_wrptr, txbd_rdptr, fw_tx, reg_tx, pass>>
          /\ main'.pc = "map" => TxbdNotFull
      BY <2>1 DEF SendRoom, RingInv, ThreadsInv
    <3>2. /\ Span' = Span /\ Filled' = Filled
          /\ Distance(txbd_rdptr, fw_tx)' = Distance(txbd_rdptr, fw_tx)
          /\ Distance(txbd_rdptr, pass.rdptr)' = Distance(txbd_rdptr, pass.rdptr)
      BY <3>1, SameSpan DEF Filled
    <3>3. txbd_rdptr \in Pointer /\ txbd_wrptr \in Pointer /\ Filled <= N
      BY <1>0 DEF PointersInv, Pointer
    <3>4. main'.pc = "map" => Filled # N
      BY <1>0, <3>1, <3>3, FullIsFull
    <3>5. Filled \in Nat /\ N \in Nat
      <4>1. Distance(txbd_rdptr, txbd_wrptr) \in Pointer
        BY <1>0, <3>3, DistanceFacts
      <4> QED BY <4>1, RingAssumption DEF Pointer, Filled
    <3> QED BY <1>0, <3>1, <3>2, <3>3, <3>4, <3>5 DEF PointersInv
  <2>2. CASE SendAttach
    BY <2>2, PointersAttach
  <2>3. CASE SendStart \/ SendFull \/ SendMapFails \/ SendSent \/ MainEnd
    <3>1. UNCHANGED <<use_adma, txbd_wrptr, txbd_rdptr, fw_tx, reg_tx>>
      BY <2>3 DEF SendStart, SendFull, SendMapFails, SendSent, MainEnd
    <3>2. main'.pc # "map"
      BY <2>3 DEF SendStart, SendFull, SendMapFails, SendSent, MainEnd, RingInv, ThreadsInv
    <3>3. pass' = pass \/ EnterTxComplete(Main)
      BY <2>3 DEF SendStart, SendFull, SendMapFails, SendSent, MainEnd
    <3>4. pass'.pc = "free" => pass.pc = "free" /\ pass'.rdptr = pass.rdptr
      BY <1>0, <3>3
    <3> QED BY <1>0, <3>1, <3>2, <3>4, PointersKept
  <2> QED BY <1>2, <2>1, <2>2, <2>3 DEF Send
<1>3. CASE Receive
  <2>1. UNCHANGED <<use_adma, txbd_wrptr, txbd_rdptr, fw_tx, pass, main>>
    BY <1>3 DEF Receive, RxStart, RxDetach, RxOops, RxAttach, RxAttachFails, RxEnd, txvars
  <2>2. reg_tx' = txbd_wrptr
    BY <1>0, <1>3 DEF Receive, RxStart, RxDetach, RxOops, RxAttach, RxAttachFails, RxEnd,
                      TxbdVal
  <2> QED BY <1>0, <2>1, <2>2, PointersKept
<1>4. CASE CardTx
  BY <1>4, PointersCard
<1>5. CASE CardRx
  <2>1. UNCHANGED <<use_adma, txbd_wrptr, txbd_rdptr, fw_tx, reg_tx, pass, main>>
    BY <1>5 DEF CardRx, txvars
  <2> QED BY <1>0, <2>1, PointersKept
<1>6. ASSUME NEW w \in Workers, WorkStart(w) \/ WorkEnd(w)
      PROVE  PointersInv'
  <2>1. UNCHANGED <<use_adma, txbd_wrptr, txbd_rdptr, fw_tx, reg_tx, main>>
    BY <1>6 DEF WorkStart, WorkEnd
  <2>2. pass' = pass \/ EnterTxComplete(w)
    BY <1>6 DEF WorkStart, WorkEnd
  <2>3. pass'.pc = "free" => pass.pc = "free" /\ pass'.rdptr = pass.rdptr
    BY <1>0, <2>2
  <2> QED BY <1>0, <2>1, <2>3, PointersKept
<1> QED BY <1>1, <1>2, <1>3, <1>4, <1>5, <1>6 DEF Next

--------------------------------------------------------------------------------
(* The slots *)

\* A step that neither posts nor takes back keeps the slots.
LEMMA SlotsKept ==
  ASSUME SlotsInv, Fresh \in Nat,
         UNCHANGED <<load, use_adma, txbd_wrptr, txbd_rdptr, tx_buf_list, completed>>,
         next' \in Nat \ {0}, Fresh' \in Nat, Fresh <= Fresh',
         main'.pc \in {"room", "map", "full"} => main'.pmbuf \in Packet /\ main'.pmbuf < next'
  PROVE  SlotsInv'
<1>1. /\ Filled' = Filled
      /\ \A k \in 0 .. N - 1 : Index(txbd_rdptr + k)' = Index(txbd_rdptr + k)
  BY SameSpan DEF Filled, Index
<1>2. /\ \A i \in Slots : tx_buf_list[i] # None => tx_buf_list[i] < Fresh'
      /\ \A i \in 1 .. Len(completed) : completed[i] < Fresh'
  <2>1. \A p \in Packet : p < Fresh => p < Fresh'
    BY PacketsAreNumbers
  <2>2. \A i \in Slots : tx_buf_list[i] # None => tx_buf_list[i] \in Packet
    BY DEF SlotsInv
  <2>3. \A i \in 1 .. Len(completed) : completed[i] \in Packet
    BY DEF SlotsInv
  <2> QED BY <2>1, <2>2, <2>3 DEF SlotsInv
<1> QED BY <1>1, <1>2 DEF SlotsInv

\* What is known of the ring in every step.
LEMMA RingFacts ==
  ASSUME RingInv
  PROVE  /\ N \in Nat \ {0} /\ use_adma \in BOOLEAN
         /\ txbd_rdptr \in Pointer /\ txbd_wrptr \in Pointer /\ fw_tx \in Pointer
         /\ txbd_rdptr \in Nat /\ txbd_wrptr \in Nat
         /\ Filled \in 0 .. N
         /\ Index(txbd_rdptr) \in Slots /\ Index(txbd_wrptr) \in Slots
         /\ Fresh \in Nat /\ next \in Nat \ {0}
<1>1. /\ N \in Nat \ {0} /\ use_adma \in BOOLEAN
      /\ txbd_rdptr \in Pointer /\ txbd_wrptr \in Pointer /\ fw_tx \in Pointer
      /\ txbd_rdptr \in Nat /\ txbd_wrptr \in Nat /\ Filled <= N
  BY RingAssumption DEF RingInv, PointersInv, Pointer
<1>2. Filled \in 0 .. N
  <2>1. Distance(txbd_rdptr, txbd_wrptr) \in Pointer
    BY <1>1, DistanceFacts
  <2> QED BY <1>1, <2>1 DEF Pointer, Filled
<1>3. Index(txbd_rdptr) \in Slots /\ Index(txbd_wrptr) \in Slots
  BY <1>1, IndexFacts
<1>4. Fresh \in Nat /\ next \in Nat \ {0}
  BY PacketsAreNumbers DEF RingInv, SlotsInv, Fresh
<1> QED BY <1>1, <1>2, <1>3, <1>4

\* Taking the oldest buffer back: it was there, and the slots behind it move up.
LEMMA SlotsFree ==
  ASSUME RingInv, FreeTxBuf
  PROVE  /\ SlotsInv'
         /\ tx_buf_list[Index(txbd_rdptr)] \in Packet
         /\ completed' = Append(completed, tx_buf_list[Index(txbd_rdptr)])
         /\ pass' = [pass EXCEPT !.unmap_count = @ + 1]
         /\ Filled > 0 /\ Filled' = Filled - 1
<1> DEFINE r == txbd_rdptr
           p == tx_buf_list[Index(r)]
<1>1. /\ N \in Nat \ {0} /\ use_adma \in BOOLEAN /\ r \in Pointer /\ r \in Nat
      /\ txbd_wrptr \in Pointer /\ Filled \in 0 .. N /\ Index(r) \in Slots
      /\ Fresh \in Nat
  BY RingFacts
<1>2. /\ UNCHANGED <<load, use_adma, txbd_wrptr, main, next>>
      /\ txbd_rdptr' = Step(r)
      /\ tx_buf_list' = [tx_buf_list EXCEPT ![Index(r)] = None]
      /\ IF p # None
           THEN /\ completed' = Append(completed, p)
                /\ pass' = [pass EXCEPT !.unmap_count = @ + 1]
           ELSE UNCHANGED <<completed, pass>>
  BY DEF FreeTxBuf
<1>3. Filled > 0 /\ Filled' = Filled - 1
  <2>1. /\ pass.rdptr \in Pointer /\ r # pass.rdptr
        /\ Distance(r, pass.rdptr) <= Distance(r, fw_tx)
        /\ Distance(r, fw_tx) <= Filled /\ fw_tx \in Pointer
    BY DEF RingInv, PointersInv, FreeTxBuf, Pointer
  <2>2. /\ Distance(r, pass.rdptr) \in Pointer /\ Distance(r, pass.rdptr) # 0
        /\ Distance(r, fw_tx) \in Pointer
    <3>1. use_adma \in BOOLEAN /\ r \in Pointer /\ r # pass.rdptr
          /\ pass.rdptr \in Pointer /\ fw_tx \in Pointer
      BY <1>1, <2>1
    <3> HIDE DEF r
    <3> QED BY <3>1, DistanceFacts
  <2>3. Filled > 0
    BY <1>1, <2>1, <2>2 DEF Pointer
  <2>4. r # txbd_wrptr
    BY <1>1, <2>3, DistanceFacts DEF Filled
  <2>5. Distance(Step(r), txbd_wrptr) = Distance(r, txbd_wrptr) - 1
    BY <1>1, <2>4, DistanceFacts
  <2> QED BY <1>2, <2>3, <2>5, SameSpan DEF Filled
<1>4. p \in Packet
  <2>1. tx_buf_list[Index(r + 0)] # None
    <3>1. 0 \in 0 .. N - 1 /\ 0 < Filled
      BY <1>1, <1>3
    <3> QED BY <3>1 DEF RingInv, SlotsInv
  <2>2. r + 0 = r
    BY <1>1
  <2>3. tx_buf_list \in [Slots -> Packet \union {None}]
    BY DEF RingInv, SlotsInv
  <2> QED BY <1>1, <2>1, <2>2, <2>3
<1>5. /\ completed' = Append(completed, p)
      /\ pass' = [pass EXCEPT !.unmap_count = @ + 1]
  BY <1>2, <1>4, PacketsAreNumbers
<1>6. Fresh' = Fresh
  BY <1>2 DEF Fresh
<1>7. ASSUME NEW k \in 0 .. N - 1
      PROVE  tx_buf_list'[Index(Step(r) + k)] # None <=> k < Filled'
  <2>1. Index(Step(r) + k) = Index(r + (k + 1)) /\ Index(r + (k + 1)) \in Slots
    BY <1>1, IndexStep, IndexFacts
  <2>2. tx_buf_list \in [Slots -> Packet \union {None}]
    BY DEF RingInv, SlotsInv
  <2>3. CASE k < N - 1
    <3>1. k + 1 \in 0 .. N - 1 /\ 0 \in 0 .. N - 1 /\ r + 0 = r
      BY <1>1, <2>3
    <3>2. Index(r + (k + 1)) # Index(r)
      <4>1. Index(r + (k + 1)) = Index(r + 0) => k + 1 = 0
        BY <1>1, <3>1, IndexFacts
      <4> QED BY <3>1, <4>1
    <3>3. tx_buf_list'[Index(r + (k + 1))] = tx_buf_list[Index(r + (k + 1))]
      BY <1>2, <2>1, <2>2, <3>2
    <3>4. tx_buf_list[Index(r + (k + 1))] # None <=> k + 1 < Filled
      BY <3>1 DEF RingInv, SlotsInv
    <3> QED BY <1>1, <1>3, <2>1, <3>3, <3>4
  <2>4. CASE k = N - 1
    <3>1. Index(r + (k + 1)) = Index(r)
      BY <1>1, <2>4, IndexFacts
    <3>2. tx_buf_list'[Index(r)] = None
      BY <1>1, <1>2, <2>2
    <3>3. ~(k < Filled')
      BY <1>1, <1>3, <2>4
    <3> QED BY <2>1, <3>1, <3>2, <3>3
  <2> QED BY <1>1, <2>3, <2>4
<1>8. SlotsInv'
  <2>1. /\ load' \in Loads /\ next' \in Nat \ {0}
        /\ main'.pc \in {"room", "map", "full"} => main'.pmbuf \in Packet /\ main'.pmbuf < next'
    BY <1>2 DEF RingInv, SlotsInv
  <2>2. tx_buf_list' \in [Slots -> Packet \union {None}]
    BY <1>2 DEF RingInv, SlotsInv
  <2>3. \A k \in 0 .. N - 1 : (tx_buf_list[Index(txbd_rdptr + k)])' # None <=> k < Filled'
    BY <1>2, <1>7 DEF Index
  <2>4. \A i \in Slots : tx_buf_list'[i] # None => tx_buf_list'[i] < Fresh'
    BY <1>2, <1>6 DEF RingInv, SlotsInv
  <2>5. completed' \in Seq(Packet)
    BY <1>4, <1>5 DEF RingInv, SlotsInv
  <2>6. \A i \in 1 .. Len(completed') : completed'[i] < Fresh'
    <3>1. completed \in Seq(Packet) /\ \A i \in 1 .. Len(completed) : completed[i] < Fresh
      BY DEF RingInv, SlotsInv
    <3>2. p < Fresh
      BY <1>1, <1>4, PacketsAreNumbers DEF RingInv, SlotsInv
    <3> HIDE DEF p
    <3>3. /\ Len(completed') = Len(completed) + 1
          /\ \A i \in 1 .. Len(completed) : completed'[i] = completed[i]
          /\ completed'[Len(completed) + 1] = p
      BY <1>4, <1>5, <3>1
    <3>4. ASSUME NEW i \in 1 .. Len(completed') PROVE completed'[i] < Fresh'
      <4>1. i \in 1 .. Len(completed) \/ i = Len(completed) + 1
        BY <3>1, <3>3
      <4> QED BY <1>6, <3>1, <3>2, <3>3, <4>1
    <3> QED BY <3>4
  <2> QED BY <2>1, <2>2, <2>3, <2>4, <2>5, <2>6 DEF SlotsInv
<1> QED BY <1>3, <1>4, <1>5, <1>8

\* Posting: the slot was free and comes behind the others.
LEMMA SlotsAttach ==
  ASSUME RingInv, SendAttach
  PROVE  /\ SlotsInv'
         /\ main.pmbuf \in Packet /\ main.pmbuf = Fresh
         /\ Index(txbd_wrptr) = Index(txbd_rdptr + Filled)
         /\ tx_buf_list[Index(txbd_wrptr)] = None
         /\ Filled < N /\ Filled' = Filled + 1
<1> DEFINE r == txbd_rdptr
           w == txbd_wrptr
           p == main.pmbuf
<1>1. /\ N \in Nat \ {0} /\ use_adma \in BOOLEAN /\ r \in Pointer /\ r \in Nat
      /\ w \in Pointer /\ Filled \in 0 .. N /\ Index(w) \in Slots
      /\ next \in Nat \ {0}
  BY RingFacts
<1>2. /\ UNCHANGED <<load, use_adma, txbd_rdptr, next, completed>>
      /\ txbd_wrptr' = Step(w) /\ main'.pc = "sent" /\ main.pc = "map"
      /\ tx_buf_list' = [tx_buf_list EXCEPT ![Index(w)] = p]
  BY DEF SendAttach
<1>3. p \in Packet /\ p < next /\ p = Fresh /\ Fresh' = next /\ p \in Nat /\ p # None
  BY <1>2, PacketsAreNumbers DEF RingInv, SlotsInv, Fresh
<1>4. Filled < N
  BY <1>2 DEF RingInv, PointersInv
<1>5. Filled' = Filled + 1
  <2>1. Distance(r, w) < Span - 1
    BY <1>1, <1>4, Spans DEF Filled
  <2>2. Distance(r, Step(w)) = Distance(r, w) + 1
    BY <1>1, <2>1, DistanceFacts
  <2> QED BY <1>2, <2>2, SameSpan DEF Filled
<1>6. Index(w) = Index(r + Filled)
  BY <1>1, IndexFrom DEF Filled
<1>7. tx_buf_list[Index(w)] = None
  <2>1. Filled \in 0 .. N - 1
    BY <1>1, <1>4
  <2>2. tx_buf_list[Index(r + Filled)] # None <=> Filled < Filled
    BY <2>1 DEF RingInv, SlotsInv
  <2> QED BY <1>1, <1>6, <2>2
<1>8. ASSUME NEW k \in 0 .. N - 1
      PROVE  tx_buf_list'[Index(r + k)] # None <=> k < Filled'
  <2>1. Index(r + k) \in Slots /\ tx_buf_list \in [Slots -> Packet \union {None}]
    BY <1>1, IndexFacts DEF RingInv, SlotsInv
  <2>2. CASE k = Filled
    BY <1>1, <1>2, <1>3, <1>5, <1>6, <2>1, <2>2
  <2>3. CASE k # Filled
    <3>1. Index(r + k) # Index(r + Filled)
      <4>1. Filled \in 0 .. N - 1
        BY <1>1, <1>4
      <4>2. \A j, i \in 0 .. N - 1 : Index(r + j) = Index(r + i) => j = i
        BY <1>1, IndexFacts
      <4> QED BY <2>3, <4>1, <4>2
    <3>2. tx_buf_list'[Index(r + k)] = tx_buf_list[Index(r + k)]
      BY <1>2, <1>6, <2>1, <3>1
    <3>3. tx_buf_list[Index(r + k)] # None <=> k < Filled
      BY DEF RingInv, SlotsInv
    <3> QED BY <1>1, <1>5, <2>3, <3>2, <3>3
  <2> QED BY <2>2, <2>3
<1>9. SlotsInv'
  <2>1. /\ load' \in Loads /\ next' \in Nat \ {0}
        /\ main'.pc \notin {"room", "map", "full"}
    BY <1>1, <1>2 DEF RingInv, SlotsInv
  <2>2. tx_buf_list' \in [Slots -> Packet \union {None}]
    BY <1>2, <1>3 DEF RingInv, SlotsInv
  <2>3. \A k \in 0 .. N - 1 : (tx_buf_list[Index(txbd_rdptr + k)])' # None <=> k < Filled'
    BY <1>2, <1>8 DEF Index
  <2>4. \A i \in Slots : tx_buf_list'[i] # None => tx_buf_list'[i] < Fresh'
    <3>1. \A q \in Packet : q < p => q < next
      BY <1>1, <1>3, PacketsAreNumbers
    <3>2. \A i \in Slots : tx_buf_list[i] # None => tx_buf_list[i] \in Packet /\ tx_buf_list[i] < p
      BY <1>3 DEF RingInv, SlotsInv
    <3>3. \A i \in Slots : tx_buf_list'[i] = IF i = Index(w) THEN p ELSE tx_buf_list[i]
      BY <1>2 DEF RingInv, SlotsInv
    <3> QED BY <1>3, <3>1, <3>2, <3>3
  <2>5. /\ completed' \in Seq(Packet)
        /\ \A i \in 1 .. Len(completed') : completed'[i] < Fresh'
    <3>1. \A q \in Packet : q < p => q < next
      BY <1>1, <1>3, PacketsAreNumbers
    <3>2. /\ completed \in Seq(Packet)
          /\ \A i \in 1 .. Len(completed) : completed[i] < p
      BY <1>3 DEF RingInv, SlotsInv
    <3>3. \A i \in 1 .. Len(completed) : completed[i] \in Packet
      BY <3>2
    <3> QED BY <1>2, <1>3, <3>1, <3>2, <3>3
  <2> QED BY <2>1, <2>2, <2>3, <2>4, <2>5 DEF SlotsInv
<1> QED BY <1>3, <1>4, <1>5, <1>6, <1>7, <1>9

\* Every step but these two.
LEMMA SlotsQuiet ==
  ASSUME RingInv, [Next]_vars, ~FreeTxBuf, ~SendAttach
  PROVE  /\ SlotsInv'
         /\ UNCHANGED <<use_adma, txbd_wrptr, txbd_rdptr, tx_buf_list, completed>>
<1>0. /\ SlotsInv /\ Fresh \in Nat /\ next \in Nat \ {0} /\ load \in Loads
      /\ main \in [pc : {"idle", "room", "map", "full", "sent", "end"},
                   pmbuf : Packet \union {None}]
  BY RingFacts DEF RingInv, SlotsInv, ThreadsInv
<1>1. CASE SendStart
  <2>1. UNCHANGED <<load, use_adma, txbd_wrptr, txbd_rdptr, tx_buf_list, completed>>
    BY <1>1 DEF SendStart
  <2>2. /\ main.pc = "idle" /\ main' = [pc |-> "room", pmbuf |-> next] /\ next' = next + 1
        /\ next \in Packet
    BY <1>0, <1>1, RingAssumption DEF SendStart, Packet
  <2>3. Fresh = next /\ Fresh' = next
    BY <2>2 DEF Fresh
  <2>4. SlotsInv'
    BY <1>0, <2>1, <2>2, <2>3, SlotsKept
  <2> QED BY <2>1, <2>4
<1>2. CASE SendRoom
  <2>1. UNCHANGED <<load, use_adma, txbd_wrptr, txbd_rdptr, tx_buf_list, completed, next>>
    BY <1>2 DEF SendRoom
  <2>2. main.pc = "room" /\ main'.pc \in {"map", "full"} /\ main'.pmbuf = main.pmbuf
    BY <1>0, <1>2 DEF SendRoom
  <2>3. Fresh' = Fresh
    BY <2>2 DEF Fresh
  <2>4. main'.pmbuf \in Packet /\ main'.pmbuf < next'
    BY <2>1, <2>2 DEF RingInv, SlotsInv
  <2>5. SlotsInv'
    BY <1>0, <2>1, <2>3, <2>4, SlotsKept
  <2> QED BY <2>1, <2>5
<1>3. CASE SendFull \/ SendMapFails \/ SendSent \/ MainEnd
  <2>1. UNCHANGED <<load, use_adma, txbd_wrptr, txbd_rdptr, tx_buf_list, completed, next>>
    BY <1>3 DEF SendFull, SendMapFails, SendSent, MainEnd
  <2>2. main'.pc \notin {"room", "map", "full"}
    BY <1>0, <1>3 DEF SendFull, SendMapFails, SendSent, MainEnd
  <2>3. Fresh' = next /\ Fresh <= next
    BY <1>0, <2>1, <2>2, PacketsAreNumbers DEF Fresh, RingInv, SlotsInv
  <2>4. SlotsInv'
    BY <1>0, <2>1, <2>2, <2>3, SlotsKept
  <2> QED BY <2>1, <2>4
<1>4. CASE UNCHANGED <<load, use_adma, txbd_wrptr, txbd_rdptr, tx_buf_list, completed,
                       next, main>>
  <2>1. Fresh' = Fresh
    BY <1>4 DEF Fresh
  <2>2. main'.pc \in {"room", "map", "full"} => main'.pmbuf \in Packet /\ main'.pmbuf < next'
    BY <1>4 DEF RingInv, SlotsInv
  <2>3. SlotsInv'
    BY <1>0, <1>4, <2>1, <2>2, SlotsKept
  <2> QED BY <1>4, <2>3
<1>5. CASE Pass
  BY <1>4, <1>5 DEF Pass, ReadTxRdptr, SettleTx, AgainTx
<1>6. CASE Receive
  BY <1>4, <1>6 DEF Receive, RxStart, RxDetach, RxOops, RxAttach, RxAttachFails, RxEnd, txvars
<1>7. CASE CardTx \/ CardRx
  BY <1>4, <1>7 DEF CardTx, CardRx, txvars
<1>8. ASSUME NEW w \in Workers, WorkStart(w) \/ WorkEnd(w)
      PROVE  UNCHANGED <<load, use_adma, txbd_wrptr, txbd_rdptr, tx_buf_list, completed,
                         next, main>>
  BY <1>8 DEF WorkStart, WorkEnd
<1>9. CASE UNCHANGED vars
  BY <1>4, <1>9 DEF vars, txvars
<1> QED BY <1>1, <1>2, <1>3, <1>4, <1>5, <1>6, <1>7, <1>8, <1>9 DEF Next, Send

\* The rings start empty.
LEMMA InitRing == Init => RingInv
<1> SUFFICES ASSUME Init PROVE RingInv
  OBVIOUS
<1>1. /\ N \in Nat \ {0} /\ Span \in Nat /\ Span > N /\ use_adma \in BOOLEAN
  <2>1. use_adma \in BOOLEAN
    BY DEF Init
  <2> QED BY <2>1, Spans
<1>2. 0 \in Pointer
  BY <1>1 DEF Pointer
<1>3. Distance(0, 0) = 0
  BY <1>1, <1>2, DistanceFacts
<1>4. Filled = 0
  BY <1>3 DEF Filled, Init
<1>5. PointersInv
  BY <1>1, <1>2, <1>3, <1>4 DEF PointersInv, Init, Pointer, NoPass
<1>6. ThreadsInv
  BY DEF ThreadsInv, Init, NoPass
<1>7. SlotsInv
  <2>1. \A k \in 0 .. N - 1 : Index(txbd_rdptr + k) \in Slots
    BY <1>1, IndexFacts DEF Init
  <2>2. \A k \in 0 .. N - 1 : tx_buf_list[Index(txbd_rdptr + k)] # None <=> k < Filled
    BY <1>1, <1>4, <2>1 DEF Init
  <2> QED BY <2>2, PacketsAreNumbers DEF SlotsInv, Init
<1> QED BY <1>5, <1>6, <1>7 DEF RingInv

\* RingInv is inductive.
LEMMA RingStep == RingInv /\ [Next]_vars => RingInv'
<1> SUFFICES ASSUME RingInv, [Next]_vars PROVE RingInv'
  OBVIOUS
<1>1. CASE Next
  <2>1. PointersInv' /\ ThreadsInv'
    BY <1>1, PointersStep, ThreadsStep
  <2>2. SlotsInv'
    BY <1>1, SlotsFree, SlotsAttach, SlotsQuiet
  <2> QED BY <2>1, <2>2 DEF RingInv
<1>2. CASE UNCHANGED vars
  <2>1. PointersInv'
    <3>1. UNCHANGED <<use_adma, txbd_wrptr, txbd_rdptr, fw_tx, pass, main>> /\ reg_tx' = txbd_wrptr
      BY <1>2 DEF vars, txvars, RingInv, PointersInv
    <3> QED BY <3>1, PointersKept DEF RingInv
  <2>2. ThreadsInv'
    BY <1>2 DEF vars, txvars, RingInv, ThreadsInv
  <2>3. SlotsInv'
    <3>1. UNCHANGED <<load, use_adma, txbd_wrptr, txbd_rdptr, tx_buf_list, completed, next, main>>
      BY <1>2 DEF vars, txvars
    <3>2. Fresh' = Fresh /\ Fresh \in Nat /\ next \in Nat \ {0}
      BY <3>1, RingFacts DEF Fresh
    <3>3. main'.pc \in {"room", "map", "full"} => main'.pmbuf \in Packet /\ main'.pmbuf < next'
      BY <3>1 DEF RingInv, SlotsInv
    <3> QED BY <3>1, <3>2, <3>3, SlotsKept DEF RingInv
  <2> QED BY <2>1, <2>2, <2>3 DEF RingInv
<1> QED BY <1>1, <1>2

--------------------------------------------------------------------------------
(* The count of the buffers in the ring *)

\* The slots are finitely many.
LEMMA BuffersFinite == IsFiniteSet(Buffers) /\ Cardinality(Buffers) \in Nat
<1>1. IsFiniteSet(0 .. N - 1)
  <2>1. 0 \in Int /\ N - 1 \in Int
    BY RingAssumption
  <2> QED BY <2>1, FS_Interval
<1>2. IsFiniteSet(Buffers)
  BY <1>1, FS_Subset DEF Buffers, Slots
<1> QED BY <1>2, FS_CardinalityType

\* The count follows every step.
LEMMA CountsStep ==
  ASSUME RingInv, PendingCounts, txbd_pending \in Nat, [Next]_vars
  PROVE  PendingCounts' /\ txbd_pending' \in Nat
<1>1. /\ Cardinality(Buffers) \in Nat /\ IsFiniteSet(Buffers) /\ pass.unmap_count \in Nat
      /\ txbd_pending = Cardinality(Buffers) + pass.unmap_count
      /\ pass.pc # "free" => pass.unmap_count = 0
  BY BuffersFinite DEF RingInv, ThreadsInv, PendingCounts
<1>2. tx_buf_list \in [Slots -> Packet \union {None}]
  BY DEF RingInv, SlotsInv
<1>3. CASE FreeTxBuf
  <2> DEFINE i == Index(txbd_rdptr)
  <2>1. /\ i \in Slots /\ tx_buf_list[i] # None
        /\ tx_buf_list' = [tx_buf_list EXCEPT ![i] = None]
        /\ pass' = [pass EXCEPT !.unmap_count = @ + 1] /\ txbd_pending' = txbd_pending
    BY <1>3, RingFacts, SlotsFree, PacketsAreNumbers DEF FreeTxBuf
  <2> HIDE DEF i
  <2>2. Buffers' = Buffers \ {i} /\ i \in Buffers
    BY <1>2, <2>1 DEF Buffers
  <2>3. Cardinality(Buffers') = Cardinality(Buffers) - 1
    BY <1>1, <2>2, FS_RemoveElement
  <2>4. pass'.unmap_count = pass.unmap_count + 1
    BY <2>1 DEF RingInv, ThreadsInv
  <2> QED BY <1>1, <2>1, <2>3, <2>4 DEF PendingCounts
<1>4. CASE SendAttach
  <2> DEFINE i == Index(txbd_wrptr)
  <2>1. /\ i \in Slots /\ tx_buf_list[i] = None /\ main.pmbuf # None
        /\ tx_buf_list' = [tx_buf_list EXCEPT ![i] = main.pmbuf]
        /\ pass' = pass /\ txbd_pending' = txbd_pending + 1
    BY <1>4, RingFacts, SlotsAttach, PacketsAreNumbers DEF SendAttach
  <2> HIDE DEF i
  <2>2. Buffers' = Buffers \union {i} /\ i \notin Buffers
    BY <1>2, <2>1 DEF Buffers
  <2>3. Cardinality(Buffers') = Cardinality(Buffers) + 1
    BY <1>1, <2>2, FS_AddElement
  <2> QED BY <1>1, <2>1, <2>3 DEF PendingCounts
<1>5. CASE ~FreeTxBuf /\ ~SendAttach
  <2>1. Buffers' = Buffers
    <3>1. tx_buf_list' = tx_buf_list
      BY <1>5, SlotsQuiet
    <3> QED BY <3>1 DEF Buffers
  <2>2. CASE SettleTx
    <3>1. txbd_pending' = txbd_pending - pass.unmap_count /\ pass'.unmap_count = 0
      BY <2>2 DEF SettleTx, RingInv, ThreadsInv
    <3> QED BY <1>1, <2>1, <3>1 DEF PendingCounts
  <2>3. CASE ~SettleTx
    <3>1. txbd_pending' = txbd_pending /\ pass'.unmap_count = pass.unmap_count
      <4>1. CASE ReadTxRdptr
        BY <1>1, <4>1 DEF ReadTxRdptr, RingInv, ThreadsInv
      <4>2. CASE AgainTx
        <5>1. pass.unmap_count = 0 /\ txbd_pending' = txbd_pending
          BY <1>1, <4>2 DEF AgainTx
        <5>2. pass' = [pass EXCEPT !.pc = "start"] \/ pass' = NoPass
          BY <4>2 DEF AgainTx
        <5>3. NoPass.unmap_count = 0
          BY DEF NoPass
        <5> QED BY <5>1, <5>2, <5>3 DEF RingInv, ThreadsInv
      <4>3. CASE \E t \in Workers \union {Main} :
                   (EnterTxComplete(t) \/ pass' = pass) /\ txbd_pending' = txbd_pending
        BY <4>3, EnterKeeps DEF RingInv
      <4>4. CASE Send
        BY <1>5, <4>3, <4>4 DEF Send, SendStart, SendRoom, SendFull, SendMapFails, SendSent, MainEnd
      <4>5. CASE Receive
        BY <4>5 DEF Receive, RxStart, RxDetach, RxOops, RxAttach, RxAttachFails, RxEnd, txvars
      <4>6. CASE CardTx \/ CardRx
        BY <4>6 DEF CardTx, CardRx, txvars
      <4>7. ASSUME NEW w \in Workers, WorkStart(w) \/ WorkEnd(w)
            PROVE  \E t \in Workers \union {Main} :
                     (EnterTxComplete(t) \/ pass' = pass) /\ txbd_pending' = txbd_pending
        BY <4>7 DEF WorkStart, WorkEnd
      <4>8. CASE UNCHANGED vars
        BY <4>8 DEF vars, txvars
      <4> QED BY <1>5, <2>3, <4>1, <4>2, <4>3, <4>4, <4>5, <4>6, <4>7, <4>8 DEF Next, Pass
    <3> QED BY <1>1, <2>1, <3>1 DEF PendingCounts
  <2> QED BY <2>2, <2>3
<1> QED BY <1>3, <1>4, <1>5

\* The count is right in every behaviour of the data rings.
LEMMA RingCounts == Spec => []PendingCounts
<1> DEFINE Counted == PendingCounts /\ txbd_pending \in Nat
<1>1. Init => RingInv /\ Counted
  <2> SUFFICES ASSUME Init PROVE RingInv /\ Counted
    OBVIOUS
  <2>1. Buffers = {}
    BY DEF Init, Buffers
  <2>2. Cardinality(Buffers) = 0
    BY <2>1, FS_EmptySet
  <2> QED BY <2>2, InitRing DEF Init, PendingCounts, NoPass
<1>2. (RingInv /\ Counted) /\ [Next]_vars => (RingInv /\ Counted)'
  BY RingStep, CountsStep
<1>3. Counted => PendingCounts
  OBVIOUS
<1> HIDE DEF Counted
<1> QED BY <1>1, <1>2, <1>3, PTL DEF Spec

--------------------------------------------------------------------------------
(* The ring is a bounded queue *)

\* A function on the first n numbers is a sequence.
LEMMA SequenceOf ==
  ASSUME NEW S, NEW n \in Nat, NEW f \in [1 .. n -> S]
  PROVE  f \in Seq(S) /\ Len(f) = n
<1>1. f \in Seq(S)
  BY SeqDef
<1> QED BY <1>1, LenProperties

\* What is inside, oldest first.
LEMMA InRingIs ==
  ASSUME RingInv
  PROVE  /\ InRing \in Seq(Packet) /\ Len(InRing) = Filled
         /\ \A k \in 1 .. Filled :
              InRing[k] = tx_buf_list[Index(txbd_rdptr + k - 1)] /\ InRing[k] < Fresh
<1>1. /\ N \in Nat \ {0} /\ use_adma \in BOOLEAN /\ Filled \in 0 .. N /\ txbd_rdptr \in Nat
      /\ \A x \in Nat : Index(x) \in Slots
  BY RingFacts, IndexFacts
<1>2. ASSUME NEW k \in 1 .. Filled
      PROVE  /\ tx_buf_list[Index(txbd_rdptr + k - 1)] \in Packet
             /\ tx_buf_list[Index(txbd_rdptr + k - 1)] < Fresh
  <2>1. k - 1 \in 0 .. N - 1 /\ k - 1 < Filled /\ txbd_rdptr + k - 1 = txbd_rdptr + (k - 1)
        /\ txbd_rdptr + k - 1 \in Nat
    BY <1>1
  <2>2. tx_buf_list[Index(txbd_rdptr + (k - 1))] # None
    BY <2>1 DEF RingInv, SlotsInv
  <2>3. Index(txbd_rdptr + k - 1) \in Slots
    BY <1>1, <2>1
  <2> QED BY <2>1, <2>2, <2>3 DEF RingInv, SlotsInv
<1>3. InRing = [k \in 1 .. Filled |-> tx_buf_list[Index(txbd_rdptr + k - 1)]]
  BY DEF InRing, Filled
<1>4. InRing \in Seq(Packet) /\ Len(InRing) = Filled
  <2>1. \A k \in 1 .. Filled : tx_buf_list[Index(txbd_rdptr + k - 1)] \in Packet
    BY <1>2
  <2>2. InRing \in [1 .. Filled -> Packet]
    BY <1>3, <2>1
  <2> QED BY <1>1, <2>2, SequenceOf
<1> QED BY <1>2, <1>3, <1>4

\* The same after a step.
LEMMA InRingNext ==
  ASSUME use_adma' = use_adma
  PROVE  InRing' = [k \in 1 .. Filled' |-> tx_buf_list'[Index(txbd_rdptr' + k - 1)]]
<1>1. \A x : Index(x)' = Index(x')
  BY DEF Index
<1> QED BY <1>1 DEF InRing, Filled, Index

\* wlan_pcie_send_data posts to the abstract queue.
LEMMA FifoPosts ==
  ASSUME RingInv, SendAttach
  PROVE  \E p \in Packet : Fifo!Post(p)
<1> DEFINE p == main.pmbuf
           s == InRing
<1>1. /\ N \in Nat \ {0} /\ use_adma \in BOOLEAN /\ Filled \in 0 .. N /\ txbd_rdptr \in Nat
      /\ \A x \in Nat : Index(x) \in Slots
  BY RingFacts, IndexFacts
<1>2. /\ p \in Packet /\ p = Fresh /\ Filled < N /\ Filled' = Filled + 1
      /\ Index(txbd_wrptr) = Index(txbd_rdptr + Filled)
  BY SlotsAttach
<1>3. /\ UNCHANGED <<use_adma, txbd_rdptr, completed>>
      /\ tx_buf_list' = [tx_buf_list EXCEPT ![Index(txbd_wrptr)] = p]
      /\ tx_buf_list \in [Slots -> Packet \union {None}]
      /\ completed \in Seq(Packet) /\ \A i \in 1 .. Len(completed) : completed[i] < Fresh
  BY DEF SendAttach, RingInv, SlotsInv
<1>4. /\ s \in Seq(Packet) /\ Len(s) = Filled
      /\ \A k \in 1 .. Filled : s[k] = tx_buf_list[Index(txbd_rdptr + k - 1)] /\ s[k] < Fresh
  BY InRingIs
<1>5. InRing' = [k \in 1 .. Filled + 1 |-> tx_buf_list'[Index(txbd_rdptr + k - 1)]]
  BY <1>2, <1>3, InRingNext
<1>6. ASSUME NEW k \in 1 .. Filled + 1
      PROVE  tx_buf_list'[Index(txbd_rdptr + k - 1)] = IF k <= Filled THEN s[k] ELSE p
  <2>1. /\ txbd_rdptr + k - 1 = txbd_rdptr + (k - 1) /\ k - 1 \in 0 .. N - 1
        /\ Filled \in 0 .. N - 1 /\ Index(txbd_rdptr + (k - 1)) \in Slots
    BY <1>1, <1>2
  <2>2. CASE k = Filled + 1
    <3>1. k - 1 = Filled /\ ~(k <= Filled)
      BY <1>1, <2>2
    <3> QED BY <1>2, <1>3, <2>1, <3>1
  <2>3. CASE k # Filled + 1
    <3>1. k \in 1 .. Filled /\ k - 1 # Filled
      BY <1>1, <2>3
    <3>2. \A j, i \in 0 .. N - 1 : Index(txbd_rdptr + j) = Index(txbd_rdptr + i) => j = i
      BY <1>1, IndexFacts
    <3>3. Index(txbd_rdptr + (k - 1)) # Index(txbd_rdptr + Filled)
      BY <2>1, <3>1, <3>2
    <3> QED BY <1>2, <1>3, <1>4, <2>1, <3>1, <3>3
  <2> QED BY <2>2, <2>3
<1> HIDE DEF s, p
<1>7. InRing' = Append(s, p)
  <2> DEFINE t == Append(s, p)
  <2>1. /\ t \in Seq(Packet) /\ Len(t) = Filled + 1
        /\ \A k \in 1 .. Filled + 1 : t[k] = IF k <= Filled THEN s[k] ELSE p
    BY <1>1, <1>2, <1>4
  <2>2. InRing' \in Seq(Packet) /\ Len(InRing') = Filled + 1
    <3>1. InRing' \in [1 .. Filled + 1 -> Packet]
      BY <1>2, <1>4, <1>5, <1>6
    <3> QED BY <1>1, <3>1, SequenceOf
  <2>3. \A k \in 1 .. Filled + 1 : InRing'[k] = t[k]
    BY <1>5, <1>6, <2>1
  <2> HIDE DEF t
  <2>4. InRing' = t
    BY <2>1, <2>2, <2>3, SeqEqual
  <2> QED BY <2>4 DEF t
<1>8. p \notin Fifo!ToSet(InRing) \union Fifo!ToSet(completed)
  <2>1. \A k \in DOMAIN s : s[k] \in Packet /\ s[k] < p
    BY <1>2, <1>4
  <2>2. \A k \in DOMAIN completed : completed[k] \in Packet /\ completed[k] < p
    BY <1>2, <1>3
  <2>3. p \in Nat /\ ~(p < p)
    BY <1>2, PacketsAreNumbers
  <2> QED BY <2>1, <2>2, <2>3 DEF Fifo!ToSet, s
<1>9. Fifo!Post(p)
  BY <1>2, <1>3, <1>4, <1>7, <1>8 DEF Fifo!Post, s
<1> QED BY <1>2, <1>9

\* A turn of the loop of wlan_pcie_send_data_complete takes from its head.
LEMMA FifoFinishes ==
  ASSUME RingInv, FreeTxBuf
  PROVE  Fifo!Finish
<1> DEFINE p == tx_buf_list[Index(txbd_rdptr)]
           s == InRing
<1>1. /\ N \in Nat \ {0} /\ use_adma \in BOOLEAN /\ Filled \in 0 .. N
      /\ txbd_rdptr \in Pointer /\ txbd_rdptr \in Nat
      /\ \A x \in Nat : Index(x) \in Slots
  BY RingFacts, IndexFacts
<1>2. /\ p \in Packet /\ completed' = Append(completed, p)
      /\ Filled > 0 /\ Filled' = Filled - 1
  BY SlotsFree
<1>3. /\ use_adma' = use_adma /\ txbd_rdptr' = Step(txbd_rdptr)
      /\ tx_buf_list' = [tx_buf_list EXCEPT ![Index(txbd_rdptr)] = None]
      /\ tx_buf_list \in [Slots -> Packet \union {None}]
  BY DEF FreeTxBuf, RingInv, SlotsInv
<1>4. /\ s \in Seq(Packet) /\ Len(s) = Filled
      /\ \A k \in 1 .. Filled : s[k] = tx_buf_list[Index(txbd_rdptr + k - 1)]
  BY InRingIs
<1>5. InRing' = [k \in 1 .. Filled - 1 |-> tx_buf_list'[Index(Step(txbd_rdptr) + k - 1)]]
  BY <1>2, <1>3, InRingNext
<1>6. ASSUME NEW k \in 1 .. Filled - 1
      PROVE  tx_buf_list'[Index(Step(txbd_rdptr) + k - 1)] = s[k + 1]
  <2>1. /\ k - 1 \in Nat /\ k \in 0 .. N - 1 /\ 0 \in 0 .. N - 1 /\ k # 0
        /\ k + 1 \in 1 .. Filled
        /\ txbd_rdptr + 0 = txbd_rdptr /\ (k - 1) + 1 = k
        /\ txbd_rdptr + (k + 1) - 1 = txbd_rdptr + k
    BY <1>1
  <2>2. Step(txbd_rdptr) + k - 1 = Step(txbd_rdptr) + (k - 1)
    <3>1. Step(txbd_rdptr) \in Nat
      <4>1. Step(txbd_rdptr) \in Pointer
        BY <1>1, DistanceFacts
      <4> QED BY <4>1 DEF Pointer
    <3> QED BY <3>1
  <2>3. Index(Step(txbd_rdptr) + k - 1) = Index(txbd_rdptr + k)
    BY <1>1, <2>1, <2>2, IndexStep
  <2>4. Index(txbd_rdptr + k) # Index(txbd_rdptr)
    <3>1. \A j, i \in 0 .. N - 1 : Index(txbd_rdptr + j) = Index(txbd_rdptr + i) => j = i
      BY <1>1, IndexFacts
    <3>2. Index(txbd_rdptr + k) # Index(txbd_rdptr + 0)
      BY <2>1, <3>1
    <3> QED BY <2>1, <3>2
  <2>5. Index(txbd_rdptr + k) \in Slots
    BY <1>1, <2>1
  <2> QED BY <1>3, <1>4, <2>1, <2>3, <2>4, <2>5
<1>7. s[1] = p
  <2>1. 1 \in 1 .. Filled /\ txbd_rdptr + 1 - 1 = txbd_rdptr
    BY <1>1, <1>2
  <2> QED BY <1>4, <2>1
<1> HIDE DEF s, p
<1>8. s # <<>> /\ Head(s) = p
  BY <1>1, <1>2, <1>4, <1>7
<1>9. InRing' = Tail(s)
  <2> DEFINE t == Tail(s)
  <2>1. /\ t \in Seq(Packet) /\ Len(t) = Filled - 1
        /\ \A k \in 1 .. Filled - 1 : t[k] = s[k + 1]
    BY <1>1, <1>4, <1>8, HeadTailProperties
  <2>2. InRing' \in Seq(Packet) /\ Len(InRing') = Filled - 1
    <3>1. \A k \in 1 .. Filled - 1 : s[k + 1] \in Packet
      BY <1>1, <1>4
    <3>2. InRing' \in [1 .. Filled - 1 -> Packet] /\ Filled - 1 \in Nat
      BY <1>1, <1>2, <1>5, <1>6, <3>1
    <3> QED BY <3>2, SequenceOf
  <2>3. \A k \in 1 .. Filled - 1 : InRing'[k] = t[k]
    BY <1>5, <1>6, <2>1
  <2> HIDE DEF t
  <2>4. InRing' = t
    BY <2>1, <2>2, <2>3, SeqEqual
  <2> QED BY <2>4 DEF t
<1> QED BY <1>2, <1>8, <1>9 DEF Fifo!Finish, s

\* The queue, in every behaviour of the data rings.
LEMMA RingIsQueue == Spec => Fifo!Init /\ [][Fifo!Next]_<<InRing, completed>>
<1>1. Init => Fifo!Init
  <2> SUFFICES ASSUME Init PROVE Fifo!Init
    OBVIOUS
  <2>1. RingInv
    BY InitRing
  <2>2. InRing \in Seq(Packet) /\ Len(InRing) = Filled
    BY <2>1, InRingIs
  <2>3. Filled = 0
    <3>1. use_adma \in BOOLEAN /\ txbd_rdptr \in Pointer /\ txbd_wrptr = txbd_rdptr
      BY <2>1, RingFacts DEF Init
    <3> QED BY <3>1, DistanceFacts DEF Filled
  <2>4. InRing = <<>>
    BY <2>2, <2>3, EmptySeq
  <2> QED BY <2>4 DEF Fifo!Init, Init
<1>2. Init => RingInv
  BY InitRing
<1>3. RingInv /\ [Next]_vars => RingInv'
  BY RingStep
<1>4. RingInv /\ [Next]_vars => [Fifo!Next]_<<InRing, completed>>
  <2> SUFFICES ASSUME RingInv, [Next]_vars PROVE [Fifo!Next]_<<InRing, completed>>
    OBVIOUS
  <2>1. CASE FreeTxBuf
    BY <2>1, FifoFinishes DEF Fifo!Next
  <2>2. CASE SendAttach
    BY <2>2, FifoPosts DEF Fifo!Next
  <2>3. CASE ~FreeTxBuf /\ ~SendAttach
    <3>1. UNCHANGED <<use_adma, txbd_wrptr, txbd_rdptr, tx_buf_list, completed>>
      BY <2>3, SlotsQuiet
    <3>2. Filled' = Filled
      BY <3>1, SameSpan DEF Filled
    <3>3. InRing' = InRing
      BY <3>1, <3>2, InRingNext DEF InRing, Filled
    <3> QED BY <3>1, <3>3
  <2> QED BY <2>1, <2>2, <2>3
<1> QED BY <1>1, <1>2, <1>3, <1>4, PTL DEF Spec

--------------------------------------------------------------------------------
(* The receive ring *)

\* The descriptors filled and not yet taken, and the slots from the read pointer on.
RxFilled == Distance(rxbd_rdptr, fw_rx)
RxRing == [k \in 0 .. N - 1 |-> rx_buf_list[Index(rxbd_rdptr + k)]]

\* The card is between the two pointers of the driver, which are one lap apart.
RxPointersInv ==
  /\ use_adma \in BOOLEAN
  /\ {rxbd_rdptr, rxbd_wrptr, fw_rx} \subseteq Pointer
  /\ reg_rx = rxbd_wrptr
  /\ Distance(rxbd_rdptr, rxbd_wrptr) = N
  /\ RxFilled <= N
  /\ rxwork \in [pc : {"idle", "loop", "attach", "oops"}, rdptr : Nat]
  /\ rxwork.pc = "loop" =>
       rxwork.rdptr \in Pointer /\ Distance(rxbd_rdptr, rxwork.rdptr) <= RxFilled
  /\ rxwork.pc = "attach" => RxFilled > 0

\* The first f slots of a ring hold packets in the order they came or were emptied,
\* the others empty buffers; what was handed over, q, came before them.
InOrderRing(ring, f, last_rx, q) ==
  /\ ring \in [0 .. N - 1 -> Nat \union {None}]
  /\ last_rx \in Nat /\ q \in Seq(Nat)
  /\ \A k \in 0 .. N - 1 : k >= f => ring[k] = 0
  /\ \A k \in 0 .. N - 1 : k < f /\ ring[k] # None =>
       ring[k] <= last_rx /\ \A i \in 1 .. Len(q) : q[i] < ring[k]
  /\ \A j, k \in 0 .. N - 1 :
       j < k /\ k < f /\ ring[j] # None /\ ring[k] # None => ring[j] < ring[k]
  /\ \A i \in 1 .. Len(q) : q[i] <= last_rx
  /\ \A j, k \in 1 .. Len(q) : j < k => q[j] < q[k]

RxInv ==
  /\ RxPointersInv
  /\ rx_buf_list \in [Slots -> Nat \union {None}]
  /\ InOrderRing(RxRing, RxFilled, received, rx_data_queue)

\* The three things that happen to it: a packet is taken out of the first slot,
LEMMA RingTaken ==
  ASSUME NEW ring, NEW f \in 1 .. N, NEW n, NEW q, InOrderRing(ring, f, n, q), ring[0] # None
  PROVE  /\ InOrderRing([ring EXCEPT ![0] = None], f, n, q)
         /\ InOrderRing([ring EXCEPT ![0] = None], f, n, Append(q, ring[0]))
<1> USE RingAssumption DEF InOrderRing
<1> DEFINE r == [ring EXCEPT ![0] = None]
           p == ring[0]
           t == Append(q, p)
<1>1. /\ 0 \in 0 .. N - 1 /\ 0 < f /\ ring \in [0 .. N - 1 -> Nat \union {None}] /\ n \in Nat
      /\ q \in Seq(Nat) /\ p \in Nat /\ p <= n /\ None \notin Nat
  OBVIOUS
<1>2. /\ r \in [0 .. N - 1 -> Nat \union {None}] /\ r[0] = None
      /\ \A k \in 0 .. N - 1 : k # 0 => r[k] = ring[k]
  BY <1>1
<1>3. /\ \A k \in 0 .. N - 1 : k >= f => r[k] = 0
      /\ \A j, k \in 0 .. N - 1 : j < k /\ k < f /\ r[j] # None /\ r[k] # None => r[j] < r[k]
      /\ \A k \in 0 .. N - 1 : k < f /\ r[k] # None => k # 0 /\ r[k] = ring[k]
  BY <1>1, <1>2
<1>4. InOrderRing(r, f, n, q)
  BY <1>1, <1>2, <1>3
<1>5. /\ t \in Seq(Nat) /\ Len(t) = Len(q) + 1 /\ t[Len(q) + 1] = p
      /\ \A i \in 1 .. Len(q) : t[i] = q[i]
  BY <1>1
<1>6. \A k \in 0 .. N - 1 : k < f /\ r[k] # None => p < r[k]
  BY <1>1, <1>3
<1>7. /\ \A i \in 1 .. Len(q) : q[i] < p /\ q[i] \in Nat
      /\ Len(q) \in Nat
  BY <1>1
<1> HIDE DEF r, p, t
<1>8. InOrderRing(r, f, n, t)
  <2>1. \A i \in 1 .. Len(t) : i \in 1 .. Len(q) \/ i = Len(q) + 1
    BY <1>5, <1>7
  <2>2. \A k \in 0 .. N - 1 : k < f /\ r[k] # None => \A i \in 1 .. Len(t) : t[i] < r[k]
    BY <1>3, <1>5, <1>6, <2>1
  <2>3. \A i \in 1 .. Len(t) : t[i] <= n
    BY <1>1, <1>5, <2>1
  <2>4. \A j, k \in 1 .. Len(t) : j < k => t[j] < t[k]
    <3> SUFFICES ASSUME NEW j \in 1 .. Len(t), NEW k \in 1 .. Len(t), j < k
                 PROVE  t[j] < t[k]
      OBVIOUS
    <3>0. j \in 1 .. Len(q) + 1 /\ k \in 1 .. Len(q) + 1 /\ Len(q) \in Nat
      BY <1>5, <1>7
    <3>1. j \in 1 .. Len(q) /\ t[j] = q[j]
      <4>1. j \in 1 .. Len(q)
        BY <3>0
      <4> QED BY <1>5, <4>1
    <3>2. CASE k = Len(q) + 1
      BY <1>5, <1>7, <3>1, <3>2
    <3>3. CASE k \in 1 .. Len(q)
      BY <1>5, <3>1, <3>3
    <3> QED BY <2>1, <3>2, <3>3
  <2> QED BY <1>1, <1>2, <1>3, <1>5, <2>2, <2>3, <2>4
<1> QED BY <1>4, <1>8 DEF r, p, t

\* the slot gets a new buffer and becomes the last one,
LEMMA RingTurned ==
  ASSUME NEW ring, NEW f \in 1 .. N, NEW n, NEW q, InOrderRing(ring, f, n, q)
  PROVE  InOrderRing([k \in 0 .. N - 1 |-> IF k = N - 1 THEN 0 ELSE ring[k + 1]], f - 1, n, q)
<1> USE RingAssumption DEF InOrderRing
<1> DEFINE r == [k \in 0 .. N - 1 |-> IF k = N - 1 THEN 0 ELSE ring[k + 1]]
<1>1. \A k \in 0 .. N - 1 : k # N - 1 => k + 1 \in 0 .. N - 1
  OBVIOUS
<1>2. r \in [0 .. N - 1 -> Nat \union {None}]
  BY <1>1
<1>3. /\ \A k \in 0 .. N - 1 : k < f - 1 => k + 1 \in 0 .. N - 1 /\ r[k] = ring[k + 1]
      /\ \A k \in 0 .. N - 1 : k >= f - 1 => r[k] = 0
  BY <1>1
<1> HIDE DEF r
<1>4. \A j, k \in 0 .. N - 1 : j < k /\ k < f - 1 /\ r[j] # None /\ r[k] # None => r[j] < r[k]
  <2> SUFFICES ASSUME NEW j \in 0 .. N - 1, NEW k \in 0 .. N - 1,
                      j < k, k < f - 1, r[j] # None, r[k] # None
               PROVE  r[j] < r[k]
    OBVIOUS
  <2>1. j + 1 \in 0 .. N - 1 /\ k + 1 \in 0 .. N - 1 /\ j + 1 < k + 1 /\ k + 1 < f
        /\ r[j] = ring[j + 1] /\ r[k] = ring[k + 1]
    BY <1>3
  <2> QED BY <2>1
<1>5. \A k \in 0 .. N - 1 : k < f - 1 /\ r[k] # None =>
        r[k] <= n /\ \A i \in 1 .. Len(q) : q[i] < r[k]
  <2> SUFFICES ASSUME NEW k \in 0 .. N - 1, k < f - 1, r[k] # None
               PROVE  r[k] <= n /\ \A i \in 1 .. Len(q) : q[i] < r[k]
    OBVIOUS
  <2>1. k + 1 \in 0 .. N - 1 /\ k + 1 < f /\ r[k] = ring[k + 1]
    BY <1>3
  <2> QED BY <2>1
<1>6. InOrderRing(r, f - 1, n, q)
  BY <1>2, <1>3, <1>4, <1>5
<1> QED BY <1>6 DEF r

\* and the card fills the next empty one.
LEMMA RingGrown ==
  ASSUME NEW ring, NEW f \in 0 .. N - 1, NEW n, NEW q, InOrderRing(ring, f, n, q)
  PROVE  InOrderRing([ring EXCEPT ![f] = n + 1], f + 1, n + 1, q)
<1> USE RingAssumption DEF InOrderRing
<1> DEFINE r == [ring EXCEPT ![f] = n + 1]
<1>1. /\ r \in [0 .. N - 1 -> Nat \union {None}] /\ r[f] = n + 1 /\ n \in Nat
      /\ \A k \in 0 .. N - 1 : k # f => r[k] = ring[k]
  OBVIOUS
<1> HIDE DEF r
<1>2. \A k \in 0 .. N - 1 : k >= f + 1 => r[k] = 0
  BY <1>1
<1>3. /\ q \in Seq(Nat) /\ \A i \in 1 .. Len(q) : q[i] \in Nat /\ q[i] <= n
      /\ \A i \in 1 .. Len(q) : q[i] < n + 1
  <2>1. q \in Seq(Nat) /\ \A i \in 1 .. Len(q) : q[i] \in Nat /\ q[i] <= n
    OBVIOUS
  <2> QED BY <1>1, <2>1
<1>4. \A k \in 0 .. N - 1 : k < f /\ r[k] # None =>
        /\ r[k] = ring[k] /\ r[k] \in Nat /\ r[k] <= n
        /\ \A i \in 1 .. Len(q) : q[i] < r[k]
  BY <1>1
<1>5. \A k \in 0 .. N - 1 : k < f + 1 => k = f \/ k < f
  OBVIOUS
<1>6. \A k \in 0 .. N - 1 : k < f + 1 /\ r[k] # None =>
        r[k] <= n + 1 /\ \A i \in 1 .. Len(q) : q[i] < r[k]
  BY SMTT(30), <1>1, <1>3, <1>4, <1>5
<1>7. \A j, k \in 0 .. N - 1 : j < k /\ k < f + 1 /\ r[j] # None /\ r[k] # None => r[j] < r[k]
  <2> SUFFICES ASSUME NEW j \in 0 .. N - 1, NEW k \in 0 .. N - 1,
                      j < k, k < f + 1, r[j] # None, r[k] # None
               PROVE  r[j] < r[k]
    OBVIOUS
  <2>1. CASE k = f
    <3>1. r[j] \in Nat /\ r[j] <= n
      BY <1>4, <2>1
    <3> QED BY <1>1, <2>1, <3>1
  <2>2. CASE k # f
    <3>1. j < f /\ k < f /\ j # f
      BY <2>2
    <3> QED BY <1>1, <3>1
  <2> QED BY <2>1, <2>2
<1>8. InOrderRing(r, f + 1, n + 1, q)
  BY <1>1, <1>2, <1>3, <1>6, <1>7
<1> QED BY <1>8 DEF r

\* The receive ring as seen after a step.
LEMMA RxSameSpan ==
  ASSUME use_adma' = use_adma
  PROVE  /\ Span' = Span /\ Pointer' = Pointer
         /\ RxFilled' = Distance(rxbd_rdptr', fw_rx')
         /\ Distance(rxbd_rdptr, rxbd_wrptr)' = Distance(rxbd_rdptr', rxbd_wrptr')
         /\ Distance(rxbd_rdptr, rxwork.rdptr)' = Distance(rxbd_rdptr', rxwork'.rdptr)
         /\ RxRing' = [k \in 0 .. N - 1 |-> rx_buf_list'[Index(rxbd_rdptr' + k)]]
BY DEF Span, Pointer, RxFilled, Distance, RxRing, Index

\* What is known of it.
LEMMA RxFacts ==
  ASSUME RxInv
  PROVE  /\ N \in Nat \ {0} /\ use_adma \in BOOLEAN
         /\ rxbd_rdptr \in Pointer /\ rxbd_wrptr \in Pointer /\ fw_rx \in Pointer
         /\ rxbd_rdptr \in Nat /\ RxFilled \in 0 .. N
         /\ Index(rxbd_rdptr) \in Slots /\ Index(rxbd_rdptr) = Index(rxbd_rdptr + 0)
         /\ \A k \in 0 .. N - 1 : Index(rxbd_rdptr + k) \in Slots
         /\ \A j, k \in 0 .. N - 1 :
              Index(rxbd_rdptr + j) = Index(rxbd_rdptr + k) => j = k
         /\ RxRing[0] = rx_buf_list[Index(rxbd_rdptr)]
         /\ Index(fw_rx) = Index(rxbd_rdptr + RxFilled)
<1>1. /\ N \in Nat \ {0} /\ use_adma \in BOOLEAN
      /\ rxbd_rdptr \in Pointer /\ rxbd_wrptr \in Pointer /\ fw_rx \in Pointer
      /\ RxFilled <= N
  BY RingAssumption DEF RxInv, RxPointersInv
<1>2. rxbd_rdptr \in Nat
  BY <1>1 DEF Pointer
<1>3. RxFilled \in 0 .. N
  <2>1. RxFilled \in Pointer
    BY <1>1, DistanceFacts DEF RxFilled
  <2> QED BY <1>1, <2>1 DEF Pointer
<1>4. /\ \A k \in 0 .. N - 1 : Index(rxbd_rdptr + k) \in Slots
      /\ \A j, k \in 0 .. N - 1 : Index(rxbd_rdptr + j) = Index(rxbd_rdptr + k) => j = k
  <2>1. \A k \in 0 .. N - 1 : rxbd_rdptr + k \in Nat
    BY <1>1, <1>2
  <2>2. \A k \in 0 .. N - 1 : Index(rxbd_rdptr + k) \in Slots
    BY <1>1, <2>1, IndexFacts
  <2>3. \A j, k \in 0 .. N - 1 : Index(rxbd_rdptr + j) = Index(rxbd_rdptr + k) => j = k
    BY <1>1, <1>2, IndexFacts
  <2> QED BY <2>2, <2>3
<1>5. rxbd_rdptr + 0 = rxbd_rdptr /\ 0 \in 0 .. N - 1
  BY <1>1, <1>2
<1>6. RxRing[0] = rx_buf_list[Index(rxbd_rdptr)] /\ Index(rxbd_rdptr) \in Slots
  BY <1>4, <1>5 DEF RxRing
<1>7. Index(fw_rx) = Index(rxbd_rdptr + RxFilled)
  BY <1>1, IndexFrom DEF RxFilled
<1> QED BY <1>1, <1>2, <1>3, <1>4, <1>5, <1>6, <1>7

\* A step that moves no pointer of the receive ring and no buffer.
LEMMA RxKept ==
  ASSUME RxInv,
         UNCHANGED <<use_adma, rxbd_rdptr, rxbd_wrptr, fw_rx, rx_buf_list, rx_data_queue,
                     received>>,
         reg_rx' = rxbd_wrptr,
         rxwork' \in [pc : {"idle", "loop", "attach", "oops"}, rdptr : Nat],
         rxwork'.pc = "loop" =>
           rxwork'.rdptr \in Pointer /\ Distance(rxbd_rdptr, rxwork'.rdptr) <= RxFilled,
         rxwork'.pc = "attach" => RxFilled > 0
  PROVE  RxInv'
<1>1. /\ Span' = Span /\ Pointer' = Pointer /\ RxFilled' = RxFilled
      /\ Distance(rxbd_rdptr, rxbd_wrptr)' = Distance(rxbd_rdptr, rxbd_wrptr)
      /\ Distance(rxbd_rdptr, rxwork.rdptr)' = Distance(rxbd_rdptr, rxwork'.rdptr)
      /\ RxRing' = RxRing
  BY RxSameSpan DEF RxFilled, RxRing
<1>2. RxPointersInv'
  BY <1>1 DEF RxInv, RxPointersInv
<1>3. InOrderRing(RxRing, RxFilled, received, rx_data_queue)'
  BY <1>1 DEF RxInv, InOrderRing
<1> QED BY <1>2, <1>3 DEF RxInv

\* wlan_pcie_process_recv_data takes the oldest buffer out of its slot.
LEMMA RxTakes ==
  ASSUME RxInv, RxDetach PROVE RxInv'
<1> DEFINE i == Index(rxbd_rdptr)
<1>1. /\ N \in Nat \ {0} /\ use_adma \in BOOLEAN /\ RxFilled \in 0 .. N
      /\ rxbd_rdptr \in Pointer /\ i \in Slots /\ i = Index(rxbd_rdptr + 0)
      /\ \A k \in 0 .. N - 1 : Index(rxbd_rdptr + k) \in Slots
      /\ \A j, k \in 0 .. N - 1 : Index(rxbd_rdptr + j) = Index(rxbd_rdptr + k) => j = k
      /\ RxRing[0] = rx_buf_list[i]
  BY RxFacts
<1>2. /\ UNCHANGED <<use_adma, rxbd_rdptr, rxbd_wrptr, fw_rx, reg_rx, received>>
      /\ rx_buf_list' = [rx_buf_list EXCEPT ![i] = None] /\ rx_buf_list[i] # None
      /\ rx_data_queue' \in {rx_data_queue, Append(rx_data_queue, rx_buf_list[i])}
      /\ rxwork.pc = "loop" /\ rxbd_rdptr # rxwork.rdptr
      /\ rxwork' = [rxwork EXCEPT !.pc = "attach"]
  BY DEF RxDetach, HasPacket
<1>3. rx_buf_list \in [Slots -> Nat \union {None}]
  BY DEF RxInv
<1>4. RxFilled > 0
  <2>1. rxwork.rdptr \in Pointer /\ Distance(rxbd_rdptr, rxwork.rdptr) <= RxFilled
    BY <1>2 DEF RxInv, RxPointersInv
  <2>2. Distance(rxbd_rdptr, rxwork.rdptr) \in Pointer /\ Distance(rxbd_rdptr, rxwork.rdptr) # 0
    BY <1>1, <1>2, <2>1, DistanceFacts
  <2> QED BY <1>1, <2>1, <2>2 DEF Pointer
<1>5. /\ Span' = Span /\ Pointer' = Pointer /\ RxFilled' = RxFilled
      /\ Distance(rxbd_rdptr, rxbd_wrptr)' = Distance(rxbd_rdptr, rxbd_wrptr)
      /\ RxRing' = [k \in 0 .. N - 1 |-> rx_buf_list'[Index(rxbd_rdptr + k)]]
  BY <1>2, RxSameSpan DEF RxFilled
<1>6. RxRing' = [RxRing EXCEPT ![0] = None]
  <2>1. \A k \in 0 .. N - 1 : Index(rxbd_rdptr + k) = i <=> k = 0
    BY <1>1
  <2>2. \A k \in 0 .. N - 1 : rx_buf_list'[Index(rxbd_rdptr + k)] =
          IF k = 0 THEN None ELSE rx_buf_list[Index(rxbd_rdptr + k)]
    BY <1>1, <1>2, <1>3, <2>1
  <2> QED BY <1>5, <2>2 DEF RxRing
<1>7. InOrderRing(RxRing', RxFilled, received, rx_data_queue')
  <2>1. RxFilled \in 1 .. N /\ RxRing[0] = rx_buf_list[i] /\ RxRing[0] # None
    BY <1>1, <1>2, <1>4
  <2>2. InOrderRing(RxRing, RxFilled, received, rx_data_queue)
    BY DEF RxInv
  <2>3. /\ InOrderRing([RxRing EXCEPT ![0] = None], RxFilled, received, rx_data_queue)
        /\ InOrderRing([RxRing EXCEPT ![0] = None], RxFilled, received,
                       Append(rx_data_queue, RxRing[0]))
    BY <2>1, <2>2, RingTaken
  <2> QED BY <1>2, <1>6, <2>1, <2>3
<1>8. rxwork' \in [pc : {"idle", "loop", "attach", "oops"}, rdptr : Nat] /\ rxwork'.pc = "attach"
  BY <1>2 DEF RxInv, RxPointersInv
<1>9. RxPointersInv'
  BY <1>2, <1>4, <1>5, <1>8 DEF RxInv, RxPointersInv
<1>10. InOrderRing(RxRing, RxFilled, received, rx_data_queue)'
  BY <1>2, <1>5, <1>7 DEF InOrderRing
<1>11. rx_buf_list' \in [Slots -> Nat \union {None}]
  BY <1>2, <1>3
<1> QED BY <1>9, <1>10, <1>11 DEF RxInv

\* It puts a buffer in, and both its pointers move.
LEMMA RxTurns ==
  ASSUME RxInv, RxAttach PROVE RxInv'
<1> DEFINE i == Index(rxbd_rdptr)
           r == rxbd_rdptr
           w == rxbd_wrptr
<1>1. /\ N \in Nat \ {0} /\ use_adma \in BOOLEAN /\ RxFilled \in 0 .. N
      /\ r \in Pointer /\ w \in Pointer /\ fw_rx \in Pointer /\ r \in Nat
      /\ i \in Slots /\ i = Index(r + 0)
      /\ \A k \in 0 .. N - 1 : Index(r + k) \in Slots
      /\ \A j, k \in 0 .. N - 1 : Index(r + j) = Index(r + k) => j = k
  BY RxFacts
<1>2. /\ UNCHANGED <<use_adma, fw_rx, received, rx_data_queue>>
      /\ rx_buf_list' = [rx_buf_list EXCEPT ![i] = 0] /\ rxwork.pc = "attach"
      /\ rxbd_rdptr' = Step(r) /\ rxbd_wrptr' = Step(w) /\ reg_rx' = Step(w)
      /\ rxwork' = [pc |-> "loop", rdptr |-> fw_rx]
  BY DEF RxAttach
<1>3. /\ rx_buf_list \in [Slots -> Nat \union {None}] /\ RxFilled > 0 /\ RxFilled \in 1 .. N
      /\ Distance(r, w) = N
  BY <1>1, <1>2 DEF RxInv, RxPointersInv
<1>4. Step(r) \in Pointer /\ Step(w) \in Pointer
  BY <1>1, DistanceFacts
<1>5. Distance(Step(r), fw_rx) = RxFilled - 1
  <2>1. r # fw_rx
    BY <1>1, <1>3, DistanceFacts DEF RxFilled
  <2> QED BY <1>1, <2>1, DistanceFacts DEF RxFilled
<1>6. Distance(Step(r), Step(w)) = N
  <2>1. r # w
    BY <1>1, <1>3, DistanceFacts
  <2>2. Distance(Step(r), w) = N - 1
    BY <1>1, <1>3, <2>1, DistanceFacts
  <2>3. N - 1 < Span - 1
    BY <1>1, Spans
  <2>4. Distance(Step(r), Step(w)) = (N - 1) + 1
    <3> DEFINE c == Step(r)
    <3>1. c \in Pointer /\ w \in Pointer /\ Distance(c, w) < Span - 1 /\ Distance(c, w) = N - 1
      BY <1>1, <1>4, <2>2, <2>3
    <3> HIDE DEF c, w
    <3>2. Distance(c, Step(w)) = Distance(c, w) + 1
      BY <1>1, <3>1, DistanceFacts
    <3> QED BY <3>1, <3>2 DEF c, w
  <2> QED BY <1>1, <2>4
<1>7. /\ Span' = Span /\ Pointer' = Pointer /\ RxFilled' = RxFilled - 1
      /\ Distance(rxbd_rdptr, rxbd_wrptr)' = N
      /\ Distance(rxbd_rdptr, rxwork.rdptr)' = RxFilled - 1
      /\ RxRing' = [k \in 0 .. N - 1 |-> rx_buf_list'[Index(Step(r) + k)]]
  BY <1>2, <1>5, <1>6, RxSameSpan
<1>8. RxRing' = [k \in 0 .. N - 1 |-> IF k = N - 1 THEN 0 ELSE RxRing[k + 1]]
  <2>1. ASSUME NEW k \in 0 .. N - 1
        PROVE  rx_buf_list'[Index(Step(r) + k)] = IF k = N - 1 THEN 0 ELSE RxRing[k + 1]
    <3>1. Index(Step(r) + k) = Index(r + (k + 1)) /\ k + 1 \in Nat
      BY <1>1, IndexStep
    <3>2. CASE k = N - 1
      <4>1. Index(r + N) = i /\ k + 1 = N
        BY <1>1, <3>2, IndexFacts
      <4> QED BY <1>1, <1>2, <1>3, <3>1, <3>2, <4>1
    <3>3. CASE k # N - 1
      <4>1. k + 1 \in 0 .. N - 1 /\ k + 1 # 0 /\ 0 \in 0 .. N - 1
        BY <1>1, <3>3
      <4>2. Index(r + (k + 1)) # i /\ Index(r + (k + 1)) \in Slots
        BY <1>1, <4>1
      <4>3. rx_buf_list'[Index(r + (k + 1))] = rx_buf_list[Index(r + (k + 1))]
        BY <1>2, <1>3, <4>2
      <4>4. RxRing[k + 1] = rx_buf_list[Index(r + (k + 1))]
        BY <4>1 DEF RxRing
      <4> QED BY <3>1, <3>3, <4>3, <4>4
    <3> QED BY <3>2, <3>3
  <2> HIDE DEF r
  <2> QED BY <1>7, <2>1
<1>9. InOrderRing(RxRing', RxFilled - 1, received, rx_data_queue)
  BY <1>3, <1>8, RingTurned DEF RxInv
<1>10. InOrderRing(RxRing, RxFilled, received, rx_data_queue)'
  BY <1>2, <1>7, <1>9 DEF InOrderRing
<1>11. RxPointersInv'
  <2>1. fw_rx \in Nat
    BY <1>1 DEF Pointer
  <2> QED BY <1>1, <1>2, <1>3, <1>4, <1>7, <2>1 DEF RxPointersInv
<1>12. rx_buf_list' \in [Slots -> Nat \union {None}]
  BY <1>1, <1>2, <1>3
<1> QED BY <1>10, <1>11, <1>12 DEF RxInv

\* The card writes the next packet.
LEMMA RxGrows ==
  ASSUME RxInv, CardRx PROVE RxInv'
<1> DEFINE r == rxbd_rdptr
           i == Index(fw_rx)
<1>1. /\ N \in Nat \ {0} /\ use_adma \in BOOLEAN /\ RxFilled \in 0 .. N
      /\ r \in Pointer /\ rxbd_wrptr \in Pointer /\ fw_rx \in Pointer
      /\ \A k \in 0 .. N - 1 : Index(r + k) \in Slots
      /\ \A j, k \in 0 .. N - 1 : Index(r + j) = Index(r + k) => j = k
      /\ i = Index(r + RxFilled)
  BY RxFacts
<1>2. /\ UNCHANGED <<use_adma, rxbd_rdptr, rxbd_wrptr, reg_rx, rxwork, rx_data_queue>>
      /\ fw_rx' = Step(fw_rx) /\ fw_rx # reg_rx /\ received' = received + 1
      /\ rx_buf_list' = [rx_buf_list EXCEPT ![i] = IF @ = None THEN None ELSE received + 1]
  BY DEF CardRx
<1>3. /\ rx_buf_list \in [Slots -> Nat \union {None}] /\ received \in Nat
      /\ Distance(r, rxbd_wrptr) = N /\ reg_rx = rxbd_wrptr
  BY DEF RxInv, RxPointersInv, InOrderRing
<1>4. RxFilled \in 0 .. N - 1
  <2>1. RxFilled # N
    BY <1>1, <1>2, <1>3, DistanceInjective DEF RxFilled
  <2> QED BY <1>1, <2>1
<1>5. Distance(r, Step(fw_rx)) = RxFilled + 1 /\ Step(fw_rx) \in Pointer
  <2>1. RxFilled < Span - 1
    BY <1>1, <1>4, Spans
  <2> QED BY <1>1, <2>1, DistanceFacts DEF RxFilled
<1>6. /\ Span' = Span /\ Pointer' = Pointer /\ RxFilled' = RxFilled + 1
      /\ Distance(rxbd_rdptr, rxbd_wrptr)' = N
      /\ Distance(rxbd_rdptr, rxwork.rdptr)' = Distance(r, rxwork.rdptr)
      /\ RxRing' = [k \in 0 .. N - 1 |-> rx_buf_list'[Index(r + k)]]
  BY <1>2, <1>3, <1>5, RxSameSpan
<1>7. RxRing' = [RxRing EXCEPT ![RxFilled] = received + 1]
  <2>1. RxRing[RxFilled] = 0 /\ RxRing[RxFilled] = rx_buf_list[i]
    BY <1>1, <1>4 DEF RxInv, InOrderRing, RxRing
  <2>2. 0 # None
    BY RingAssumption
  <2>3. rx_buf_list' = [rx_buf_list EXCEPT ![i] = received + 1]
    BY <1>2, <2>1, <2>2
  <2>4. \A k \in 0 .. N - 1 : Index(r + k) = i <=> k = RxFilled
    BY <1>1, <1>4
  <2>5. \A k \in 0 .. N - 1 : rx_buf_list'[Index(r + k)] =
          IF k = RxFilled THEN received + 1 ELSE rx_buf_list[Index(r + k)]
    BY <1>1, <1>3, <2>3, <2>4
  <2> QED BY <1>6, <2>5 DEF RxRing
<1>8. InOrderRing(RxRing', RxFilled + 1, received + 1, rx_data_queue)
  BY <1>4, <1>7, RingGrown DEF RxInv
<1>9. InOrderRing(RxRing, RxFilled, received, rx_data_queue)'
  BY <1>2, <1>6, <1>8 DEF InOrderRing
<1>10. RxPointersInv'
  <2>1. rxwork.pc = "loop" => Distance(r, rxwork.rdptr) \in Nat
    <3>1. rxwork.pc = "loop" => rxwork.rdptr \in Pointer
      BY DEF RxInv, RxPointersInv
    <3>2. rxwork.pc = "loop" => Distance(r, rxwork.rdptr) \in Pointer
      BY <1>1, <3>1, DistanceFacts
    <3> QED BY <3>2 DEF Pointer
  <2>2. rxwork.pc = "loop" => Distance(r, rxwork.rdptr) <= RxFilled + 1
    BY <1>1, <2>1 DEF RxInv, RxPointersInv
  <2>3. RxFilled + 1 <= N /\ RxFilled + 1 > 0
    BY <1>1, <1>4
  <2>4. /\ use_adma' \in BOOLEAN /\ {rxbd_rdptr', rxbd_wrptr', fw_rx'} \subseteq Pointer'
        /\ reg_rx' = rxbd_wrptr' /\ RxFilled' <= N /\ RxFilled' > 0
    BY <1>1, <1>2, <1>3, <1>5, <1>6, <2>3
  <2>5. /\ rxwork' \in [pc : {"idle", "loop", "attach", "oops"}, rdptr : Nat]
        /\ rxwork'.pc = "loop" => rxwork'.rdptr \in Pointer'
    BY <1>2, <1>6 DEF RxInv, RxPointersInv
  <2>6. rxwork'.pc = "loop" => Distance(rxbd_rdptr, rxwork.rdptr)' <= RxFilled'
    BY <1>2, <1>6, <2>2
  <2>7. Distance(rxbd_rdptr, rxbd_wrptr)' = N
    BY <1>6
  <2> QED BY <2>4, <2>5, <2>6, <2>7 DEF RxPointersInv
<1>11. rx_buf_list' \in [Slots -> Nat \union {None}]
  <2>1. (IF rx_buf_list[i] = None THEN None ELSE received + 1) \in Nat \union {None}
    BY <1>3
  <2> HIDE DEF i
  <2> QED BY <1>2, <1>3, <2>1
<1> QED BY <1>9, <1>10, <1>11 DEF RxInv

\* In the beginning every slot of the receive ring has an empty buffer.
LEMMA InitRx == Init => RxInv
<1> SUFFICES ASSUME Init PROVE RxInv
  OBVIOUS
<1>1. use_adma \in BOOLEAN /\ N \in Nat \ {0} /\ N < Span /\ 0 < Span /\ Span \in Nat
  <2>1. use_adma \in BOOLEAN
    BY DEF Init
  <2> QED BY <2>1, Spans
<1>2. 0 \in Pointer /\ N \in Pointer
  BY <1>1 DEF Pointer
<1>3. Distance(0, 0) = 0 /\ Distance(0, N) = N
  <2>1. Distance(0, N) = N
    BY <1>1, <1>2, DistanceIs
  <2> QED BY <1>1, <1>2, <2>1, DistanceFacts
<1>4. RxFilled = 0
  BY <1>3 DEF RxFilled, Init
<1>5. RxPointersInv
  BY <1>1, <1>2, <1>3, <1>4 DEF RxPointersInv, Init
<1>6. RxRing = [k \in 0 .. N - 1 |-> 0]
  <2>1. \A k \in 0 .. N - 1 : Index(rxbd_rdptr + k) \in Slots
    BY <1>1, IndexFacts DEF Init
  <2> QED BY <2>1 DEF RxRing, Init
<1>7. InOrderRing(RxRing, RxFilled, received, rx_data_queue)
  <2>1. received = 0 /\ rx_data_queue = <<>> /\ Len(rx_data_queue) = 0
        /\ rx_data_queue \in Seq(Nat)
    BY DEF Init
  <2> QED BY <1>1, <1>4, <1>6, <2>1 DEF InOrderRing
<1>8. rx_buf_list \in [Slots -> Nat \union {None}]
  BY DEF Init
<1> QED BY <1>5, <1>7, <1>8 DEF RxInv

\* Both rings share a register on the older cards, so the steps of one are steps of
\* the other too.
LEMMA RxStep == RxInv /\ [Next]_vars => RxInv'
<1> SUFFICES ASSUME RxInv, [Next]_vars PROVE RxInv'
  OBVIOUS
<1>0. /\ reg_rx = rxbd_wrptr
      /\ rxwork \in [pc : {"idle", "loop", "attach", "oops"}, rdptr : Nat]
      /\ rxwork.pc = "loop" =>
           rxwork.rdptr \in Pointer /\ Distance(rxbd_rdptr, rxwork.rdptr) <= RxFilled
      /\ rxwork.pc = "attach" => RxFilled > 0
      /\ fw_rx \in Pointer /\ fw_rx \in Nat
  BY DEF RxInv, RxPointersInv, Pointer
<1>1. CASE /\ UNCHANGED <<use_adma, rxbd_rdptr, rxbd_wrptr, fw_rx, rx_buf_list,
                          rx_data_queue, received, rxwork>>
           /\ reg_rx' = rxbd_wrptr
  BY <1>0, <1>1, RxKept
<1>2. CASE Pass
  BY <1>0, <1>1, <1>2 DEF Pass, ReadTxRdptr, FreeTxBuf, SettleTx, AgainTx, rxvars
<1>3. CASE Send
  BY <1>0, <1>1, <1>3 DEF Send, SendStart, SendRoom, SendFull, SendMapFails, SendAttach,
                          SendSent, MainEnd, RxbdVal, rxvars
<1>4. CASE CardTx
  BY <1>0, <1>1, <1>4 DEF CardTx, rxvars
<1>5. ASSUME NEW w \in Workers, WorkStart(w) \/ WorkEnd(w)
      PROVE  RxInv'
  BY <1>0, <1>1, <1>5 DEF WorkStart, WorkEnd, rxvars
<1>6. CASE UNCHANGED vars
  BY <1>0, <1>1, <1>6 DEF vars, rxvars
<1>7. CASE RxStart
  <2>1. /\ UNCHANGED <<use_adma, rxbd_rdptr, rxbd_wrptr, fw_rx, rx_buf_list,
                       rx_data_queue, received, reg_rx>>
        /\ rxwork' = [pc |-> "loop", rdptr |-> fw_rx]
    BY <1>7 DEF RxStart
  <2>2. Distance(rxbd_rdptr, fw_rx) <= RxFilled
    BY RxFacts DEF RxFilled
  <2> QED BY <1>0, <2>1, <2>2, RxKept
<1>8. CASE RxOops \/ RxAttachFails \/ RxEnd
  <2>1. UNCHANGED <<use_adma, rxbd_rdptr, rxbd_wrptr, fw_rx, rx_buf_list,
                    rx_data_queue, received, reg_rx>>
    BY <1>8 DEF RxOops, RxAttachFails, RxEnd
  <2>2. /\ rxwork' \in [pc : {"idle", "loop", "attach", "oops"}, rdptr : Nat]
        /\ rxwork'.pc \notin {"loop", "attach"}
    BY <1>0, <1>8 DEF RxOops, RxAttachFails, RxEnd
  <2> QED BY <1>0, <2>1, <2>2, RxKept
<1> QED BY <1>2, <1>3, <1>4, <1>5, <1>6, <1>7, <1>8, RxTakes, RxTurns, RxGrows DEF Next, Receive

\* What the invariants of the two data rings say of their slots and of the order.
LEMMA RingsAgree == RingInv /\ RxInv => CardSlotsAttached /\ RxInOrder
<1> SUFFICES ASSUME RingInv, RxInv PROVE CardSlotsAttached /\ RxInOrder
  OBVIOUS
<1>1. ASSUME fw_tx # reg_tx PROVE tx_buf_list[Index(fw_tx)] # None
  <2> DEFINE d == Distance(txbd_rdptr, fw_tx)
  <2>1. /\ N \in Nat /\ use_adma \in BOOLEAN
        /\ txbd_rdptr \in Pointer /\ txbd_wrptr \in Pointer /\ fw_tx \in Pointer
        /\ Filled \in 0 .. N
    BY RingFacts
  <2>2. d <= Filled /\ reg_tx = txbd_wrptr
    BY DEF RingInv, PointersInv
  <2>3. d # Filled
    BY <1>1, <2>1, <2>2, DistanceInjective DEF Filled
  <2>4. d \in Nat
    <3>1. d \in Pointer
      BY <2>1, DistanceFacts
    <3> QED BY <3>1 DEF Pointer
  <2>5. Index(fw_tx) = Index(txbd_rdptr + d)
    BY <2>1, IndexFrom
  <2> HIDE DEF d
  <2>6. d \in 0 .. N - 1 /\ d < Filled
    BY <2>1, <2>2, <2>3, <2>4
  <2> QED BY <2>5, <2>6 DEF RingInv, SlotsInv
<1>2. ASSUME fw_rx # reg_rx PROVE rx_buf_list[Index(fw_rx)] = 0
  <2>1. /\ N \in Nat /\ use_adma \in BOOLEAN
        /\ rxbd_rdptr \in Pointer /\ rxbd_wrptr \in Pointer /\ fw_rx \in Pointer
        /\ RxFilled \in 0 .. N /\ Index(fw_rx) = Index(rxbd_rdptr + RxFilled)
    BY RxFacts
  <2>2. Distance(rxbd_rdptr, rxbd_wrptr) = N /\ reg_rx = rxbd_wrptr
    BY DEF RxInv, RxPointersInv
  <2>3. RxFilled # N
    BY <1>2, <2>1, <2>2, DistanceInjective DEF RxFilled
  <2>4. RxFilled \in 0 .. N - 1
    BY <2>1, <2>3
  <2>5. RxRing[RxFilled] = 0
    BY <2>4 DEF RxInv, InOrderRing
  <2> QED BY <2>1, <2>4, <2>5 DEF RxRing
<1>3. RxInOrder
  BY DEF RxInv, InOrderRing, RxInOrder
<1> QED BY <1>1, <1>2, <1>3 DEF CardSlotsAttached

\* So the slots of the data rings agree with the pointers, and packets come in order.
LEMMA DataRingsAgree == Spec => [](CardSlotsAttached /\ RxInOrder)
<1>1. Init => RingInv /\ RxInv
  BY InitRing, InitRx
<1>2. RingInv /\ RxInv /\ [Next]_vars => RingInv' /\ RxInv'
  BY RingStep, RxStep
<1> QED BY <1>1, <1>2, RingsAgree, PTL DEF Spec

--------------------------------------------------------------------------------
(* The data rings beside the event ring *)

\* What the card does with its events, and the main process with them, does not disturb
\* the data rings: every behaviour of the whole is one of PcieRing.
THEOREM PcieImplementsRing == PcieSpec => Spec
<1>1. PcieInit => Init
  BY DEF PcieInit
<1>2. [PcieNext]_allvars => [Next]_vars
  BY DEF PcieNext, DataStep, MainSends, allvars, Next
<1> QED BY <1>1, <1>2, PTL DEF PcieSpec, Spec

\* The event ring keeps its invariant beside them.
LEMMA EventsInvariant == PcieSpec => []EvtInv
<1>1. PcieInit => EvtInv
  BY EvtInvInit DEF PcieInit
<1>2. EvtInv /\ [PcieNext]_allvars => EvtInv'
  <2> SUFFICES ASSUME EvtInv, [PcieNext]_allvars PROVE EvtInv'
    OBVIOUS
  <2>1. EventWorkRun \/ EvtReader \/ EvtMain \/ CardEvent \/ UNCHANGED evtvars
    BY DEF PcieNext, EventStep, MainHandles, allvars
  <2> QED BY <2>1, EvtStepKeeps
<1> QED BY <1>1, <1>2, PTL DEF PcieSpec

\* txbd_pending is the number of the buffers in the ring and of those the run in
\* progress has taken out and not yet subtracted, for every size of the ring and every
\* interleaving of the main process, the two work items and the card
\* (wlan_pcie_send_data, wlan_pcie_send_data_complete).
THEOREM PendingCountsHolds == PcieSpec => []PendingCounts
BY RingCounts, PcieImplementsRing, PTL

\* The safety half of TxIsFifo: whatever the size of the ring and the number of laps its
\* pointers make, a packet posted by wlan_pcie_send_data comes out of
\* wlan_pcie_send_data_complete once and in the order of posting, and no more than N are
\* inside.
THEOREM TransmitRingIsQueue ==
  PcieSpec => Fifo!Init /\ [][Fifo!Next]_<<InRing, completed>>
BY RingIsQueue, PcieImplementsRing, PTL

\* In the three rings, whatever their sizes, the slots the card may read or fill have a
\* buffer, and no event buffer is lost or in two places: what wlan_pcie_send_data,
\* wlan_pcie_process_recv_data, wlan_pcie_process_event_ready and
\* wlan_pcie_event_complete do to slots and pointers fits together.
THEOREM RingsAttachedHolds == PcieSpec => []RingsAttached
<1>1. EvtInv /\ CardSlotsAttached => RingsAttached
  BY EvtSlotsAgree, EvtBuffersAreKept DEF RingsAttached
<1> QED BY <1>1, DataRingsAgree, EventsInvariant, PcieImplementsRing, PTL

\* Packets and events are handed in in the order the card wrote them, each once, over
\* any number of laps of the rings; an event is handled with the buffer it came in unless
\* one was once taken before its buffer was published.
THEOREM HandedInOrderHolds == PcieSpec => []HandedInOrder
<1>1. EvtInv /\ RxInOrder => HandedInOrder
  BY EvtMatches DEF HandedInOrder
<1> QED BY <1>1, DataRingsAgree, EventsInvariant, PcieImplementsRing, PTL

--------------------------------------------------------------------------------
(* The types of the three rings *)

\* What the invariants above leave open of the types of the data rings: flags, ...
FlagsTyped ==
  /\ data_sent \in BOOLEAN /\ more_tx_task_flag \in BOOLEAN /\ rxsched \in BOOLEAN
  /\ last \in {"sent", "full", "unmapped"} /\ next \in 1 .. load.tx + 1
  /\ sched \subseteq Workers /\ running \subseteq Workers
\* ... the run that takes buffers back, which does not take more than a ring holds, ...
RunTyped ==
  /\ pass.rdptr \in Pointer /\ pass.unmap_count <= N
  /\ pass.pc = "free" => pass.unmap_count + Distance(txbd_rdptr, pass.rdptr) <= N
\* ... and what is in the receive ring.
RxTyped ==
  /\ rxwork.rdptr \in Pointer /\ received <= load.rx
  /\ rx_buf_list \in [Slots -> 0 .. load.rx \union {None}]

\* Every step of the data rings keeps the flags typed: a run is entered with the note set
\* or not, and data_sent is an outcome of a comparison.
LEMMA FlagsStep ==
  ASSUME RingInv, FlagsTyped, [Next]_vars
  PROVE  FlagsTyped'
<1>0. /\ load \in Loads /\ load.tx \in Nat /\ CompleteWork \in Workers /\ DelayedWork \in Workers
  BY RingAssumption DEF RingInv, SlotsInv, Workers
<1>1. ASSUME NEW t PROVE EnterTxComplete(t) => more_tx_task_flag' \in BOOLEAN
  BY DEF EnterTxComplete, FlagsTyped
<1>2. DelayTxComplete => sched' \subseteq Workers
  BY <1>0 DEF DelayTxComplete, FlagsTyped
<1>3. (data_sent /\ pass.unmap_count = 0) \in BOOLEAN /\ (TxbdNotFull \/ data_sent) \in BOOLEAN
  OBVIOUS
<1>4. CASE Pass
  <2>1. CASE ReadTxRdptr
    BY <2>1 DEF ReadTxRdptr, FlagsTyped, rxvars
  <2>2. CASE FreeTxBuf
    BY <2>2 DEF FreeTxBuf, FlagsTyped, rxvars
  <2>3. CASE SettleTx
    <3>1. data_sent' \in BOOLEAN
      BY <1>3, <2>3, Zenon DEF SettleTx
    <3> QED BY <2>3, <3>1 DEF SettleTx, FlagsTyped, rxvars
  <2>4. CASE AgainTx
    BY <2>4 DEF AgainTx, FlagsTyped, rxvars
  <2> QED BY <1>4, <2>1, <2>2, <2>3, <2>4 DEF Pass
<1>5. CASE Send
  <2>1. CASE SendStart
    BY <2>1, <1>0, <1>1 DEF SendStart, FlagsTyped, rxvars
  <2>2. CASE SendRoom
    <3>1. data_sent' \in BOOLEAN
      BY <1>3, <2>2, Zenon DEF SendRoom
    <3> QED BY <2>2, <3>1 DEF SendRoom, FlagsTyped, rxvars
  <2>3. CASE SendFull
    BY <2>3 DEF SendFull, FlagsTyped, rxvars
  <2>4. CASE SendMapFails
    BY <2>4 DEF SendMapFails, FlagsTyped, rxvars
  <2>5. CASE SendAttach
    BY <2>5 DEF SendAttach, FlagsTyped
  <2>6. CASE SendSent
    BY <2>6, <1>1 DEF SendSent, FlagsTyped, rxvars
  <2>7. CASE MainEnd
    BY <2>7, <1>2 DEF MainEnd, FlagsTyped, rxvars
  <2> QED BY <1>5, <2>1, <2>2, <2>3, <2>4, <2>5, <2>6, <2>7 DEF Send
<1>6. CASE Receive
  BY <1>6 DEF Receive, RxStart, RxDetach, RxOops, RxAttach, RxAttachFails, RxEnd, txvars, FlagsTyped
<1>7. CASE CardTx
  BY <1>0, <1>7 DEF CardTx, FlagsTyped, rxvars
<1>8. CASE CardRx
  BY <1>8 DEF CardRx, FlagsTyped, txvars
<1>9. ASSUME NEW w \in Workers, WorkStart(w) \/ WorkEnd(w) PROVE FlagsTyped'
  <2>1. CASE WorkStart(w)
    BY <2>1, <1>1 DEF WorkStart, FlagsTyped, rxvars
  <2>2. CASE WorkEnd(w)
    BY <2>2, <1>2 DEF WorkEnd, FlagsTyped, rxvars
  <2> QED BY <1>9, <2>1, <2>2
<1>10. CASE UNCHANGED vars
  BY <1>10 DEF vars, txvars, rxvars, FlagsTyped
<1> QED BY <1>4, <1>5, <1>6, <1>7, <1>8, <1>9, <1>10 DEF Next

\* ... and the run within the ring: what it has taken back and what it has still to take
\* back are together what lay between the two pointers when it read that of the card.
LEMMA RunStep ==
  ASSUME RingInv, RunTyped, [Next]_vars
  PROVE  RunTyped'
<1>0. /\ use_adma \in BOOLEAN /\ txbd_rdptr \in Pointer /\ fw_tx \in Pointer /\ 0 \in Pointer
      /\ Filled <= N /\ Distance(txbd_rdptr, fw_tx) <= Filled /\ N \in Nat /\ Filled \in Nat
      /\ Distance(txbd_rdptr, fw_tx) \in Nat
      /\ pass \in [pc : {"none", "start", "free", "again"}, by : Workers \union {Main, None},
                   rdptr : Nat, unmap_count : Nat]
      /\ pass.pc # "free" => pass.unmap_count = 0
  <2>1. /\ use_adma \in BOOLEAN /\ txbd_rdptr \in Pointer /\ fw_tx \in Pointer
        /\ txbd_wrptr \in Pointer
        /\ Filled <= N /\ Distance(txbd_rdptr, fw_tx) <= Filled
    BY DEF RingInv, PointersInv, Pointer
  <2>2. Span \in Nat /\ Span > 1 /\ Pointer \subseteq Nat /\ 0 \in Pointer
    BY <2>1, PointersAre DEF Pointer
  <2>3. Filled \in Nat /\ Distance(txbd_rdptr, fw_tx) \in Nat
    BY <2>1, <2>2, DistanceFacts DEF Filled
  <2> QED BY <2>1, <2>2, <2>3, RingAssumption DEF RingInv, ThreadsInv
<1>a. ASSUME use_adma' = use_adma PROVE Pointer' = Pointer
  BY <1>a DEF Pointer, Span
<1>b. ASSUME UNCHANGED <<use_adma, txbd_rdptr>>, pass' = pass PROVE RunTyped'
  BY <1>b DEF RunTyped, Pointer, Span, Distance
<1>c. ASSUME NEW t, EnterTxComplete(t), UNCHANGED <<use_adma, txbd_rdptr>> PROVE RunTyped'
  <2>1. CASE pcie_tx_processing
    BY <2>1, <1>b, <1>c DEF EnterTxComplete
  <2>2. CASE ~pcie_tx_processing
    <3>1. pass'.rdptr = 0 /\ pass'.unmap_count = 0 /\ pass'.pc = "start"
      BY <2>2, <1>c DEF EnterTxComplete, NoPass
    <3> QED BY <3>1, <1>0, <1>a, <1>c DEF RunTyped
  <2> QED BY <2>1, <2>2
<1>1. CASE ReadTxRdptr
  <2>1. UNCHANGED <<use_adma, txbd_rdptr>>
    BY <1>1 DEF ReadTxRdptr
  <2>2. CASE TxPending
    <3>1. pass'.pc = "free" /\ pass'.rdptr = fw_tx /\ pass'.unmap_count = 0
      BY <2>2, <1>0, <1>1 DEF ReadTxRdptr
    <3>2. Distance(txbd_rdptr, fw_tx)' = Distance(txbd_rdptr, fw_tx)'
      OBVIOUS
    <3>3. Distance(txbd_rdptr, pass.rdptr)' = Distance(txbd_rdptr, fw_tx)
      BY <2>1, <3>1 DEF Distance, Span
    <3> QED BY <1>0, <1>a, <2>1, <3>1, <3>3 DEF RunTyped
  <2>3. CASE ~TxPending
    <3>1. pass'.pc = "again" /\ pass'.rdptr = pass.rdptr /\ pass'.unmap_count = pass.unmap_count
      BY <2>3, <1>0, <1>1 DEF ReadTxRdptr
    <3> QED BY <1>a, <2>1, <3>1 DEF RunTyped
  <2> QED BY <2>2, <2>3
<1>2. CASE FreeTxBuf
  <2>1. /\ pass.pc = "free" /\ txbd_rdptr # pass.rdptr /\ txbd_rdptr' = Step(txbd_rdptr)
        /\ use_adma' = use_adma
    BY <1>2 DEF FreeTxBuf
  <2>2. /\ pass'.rdptr = pass.rdptr /\ pass'.unmap_count \in Nat
        /\ pass'.unmap_count <= pass.unmap_count + 1
    BY <1>0, <1>2 DEF FreeTxBuf
  <2>3. /\ pass.rdptr \in Pointer
        /\ Distance(Step(txbd_rdptr), pass.rdptr) = Distance(txbd_rdptr, pass.rdptr) - 1
        /\ Distance(txbd_rdptr, pass.rdptr) # 0
        /\ Distance(txbd_rdptr, pass.rdptr) \in Nat
    <3>1. pass.rdptr \in Pointer
      BY DEF RunTyped
    <3>2. Pointer \subseteq Nat
      BY <1>0, PointersAre DEF Pointer
    <3>3. Distance(txbd_rdptr, pass.rdptr) \in Nat
      BY <1>0, <3>1, <3>2, DistanceFacts
    <3>4. txbd_rdptr # pass.rdptr
      BY <2>1
    <3>5. Distance(txbd_rdptr, pass.rdptr) # 0
      BY <1>0, <3>1, <3>4, DistanceFacts
    <3> QED BY <1>0, <3>1, <3>3, <3>4, <3>5, DistanceFacts
  <2>4. Distance(txbd_rdptr, pass.rdptr)' = Distance(Step(txbd_rdptr), pass.rdptr)
    BY <2>1, <2>2 DEF Distance, Span
  <2>5. pass.unmap_count \in Nat /\ pass.unmap_count + Distance(txbd_rdptr, pass.rdptr) <= N
    BY <1>0, <2>1 DEF RunTyped
  <2>6. /\ pass'.unmap_count + Distance(txbd_rdptr, pass.rdptr)' <= N
        /\ pass'.unmap_count <= N
    BY <1>0, <2>2, <2>3, <2>4, <2>5
  <2> QED BY <1>a, <2>1, <2>2, <2>3, <2>6 DEF RunTyped
<1>3. CASE SettleTx
  <2>1. pass'.pc = "again" /\ pass'.rdptr = pass.rdptr /\ pass'.unmap_count = 0
        /\ use_adma' = use_adma
    BY <1>0, <1>3 DEF SettleTx
  <2> QED BY <1>0, <1>a, <2>1 DEF RunTyped
<1>4. CASE AgainTx
  <2>1. use_adma' = use_adma /\ pass.pc = "again"
    BY <1>4 DEF AgainTx
  <2>2. CASE more_tx_task_flag
    <3>1. pass'.pc = "start" /\ pass'.rdptr = pass.rdptr /\ pass'.unmap_count = pass.unmap_count
      BY <1>0, <1>4, <2>2 DEF AgainTx
    <3> QED BY <1>a, <2>1, <3>1 DEF RunTyped
  <2>3. CASE ~more_tx_task_flag
    <3>1. pass'.pc = "none" /\ pass'.rdptr = 0 /\ pass'.unmap_count = 0
      BY <1>4, <2>3 DEF AgainTx, NoPass
    <3> QED BY <1>0, <1>a, <2>1, <3>1 DEF RunTyped
  <2> QED BY <2>2, <2>3
<1>5. CASE Send
  <2>1. UNCHANGED <<use_adma, txbd_rdptr>>
    BY <1>5 DEF Send, SendStart, SendRoom, SendFull, SendMapFails, SendAttach, SendSent, MainEnd
  <2>2. EnterTxComplete(Main) \/ pass' = pass
    BY <1>5 DEF Send, SendStart, SendRoom, SendFull, SendMapFails, SendAttach, SendSent, MainEnd
  <2> QED BY <2>1, <2>2, <1>b, <1>c
<1>6. CASE Receive \/ CardRx
  <2>1. UNCHANGED <<use_adma, txvars>>
    BY <1>6 DEF Receive, RxStart, RxDetach, RxOops, RxAttach, RxAttachFails, RxEnd, CardRx
  <2> QED BY <2>1, <1>b DEF txvars
<1>7. CASE CardTx
  BY <1>7, <1>b DEF CardTx
<1>8. ASSUME NEW w \in Workers, WorkStart(w) \/ WorkEnd(w) PROVE RunTyped'
  <2>1. UNCHANGED <<use_adma, txbd_rdptr>> /\ (EnterTxComplete(w) \/ pass' = pass)
    BY <1>8 DEF WorkStart, WorkEnd
  <2> QED BY <2>1, <1>b, <1>c
<1>9. CASE UNCHANGED vars
  BY <1>9, <1>b DEF vars, txvars
<1> QED BY <1>1, <1>2, <1>3, <1>4, <1>5, <1>6, <1>7, <1>8, <1>9 DEF Next, Pass

\* ... and the receive ring, whose slots hold packets the card has written.
LEMMA RxTypedStep ==
  ASSUME RingInv, RxInv, RxTyped, [Next]_vars
  PROVE  RxTyped'
<1>0. /\ load \in Loads /\ load.rx \in Nat /\ received \in Nat /\ fw_rx \in Pointer
      /\ rxwork \in [pc : {"idle", "loop", "attach", "oops"}, rdptr : Nat]
  BY RingAssumption DEF RingInv, SlotsInv, RxInv, RxPointersInv, InOrderRing
<1>a. ASSUME UNCHANGED <<load, use_adma, rx_buf_list, received>>,
             rxwork'.rdptr = rxwork.rdptr \/ rxwork'.rdptr = fw_rx
      PROVE  RxTyped'
  BY <1>0, <1>a DEF RxTyped, Pointer, Span
<1>1. CASE RxStart \/ RxOops \/ RxAttachFails \/ RxEnd
  BY <1>0, <1>1, <1>a DEF RxStart, RxOops, RxAttachFails, RxEnd
<1>2. CASE RxDetach
  <2>1. /\ UNCHANGED <<load, use_adma, received>> /\ rxwork'.rdptr = rxwork.rdptr
        /\ rx_buf_list' = [rx_buf_list EXCEPT ![Index(rxbd_rdptr)] = None]
    BY <1>0, <1>2 DEF RxDetach
  <2> QED BY <2>1 DEF RxTyped, Pointer, Span
<1>3. CASE RxAttach
  <2>1. /\ UNCHANGED <<load, use_adma, received>> /\ rxwork'.rdptr = fw_rx
        /\ rx_buf_list' = [rx_buf_list EXCEPT ![Index(rxbd_rdptr)] = 0]
    BY <1>3 DEF RxAttach
  <2>2. Pointer' = Pointer /\ 0 \in 0 .. load.rx
    BY <1>0, <2>1 DEF Pointer, Span
  <2>3. rx_buf_list' \in [Slots -> 0 .. load.rx \union {None}]
    BY <2>1, <2>2 DEF RxTyped
  <2> QED BY <1>0, <2>1, <2>2, <2>3 DEF RxTyped
<1>4. CASE CardRx
  <2>1. /\ UNCHANGED <<load, use_adma, rxwork>> /\ received' = received + 1 /\ received < load.rx
        /\ rx_buf_list' = [rx_buf_list EXCEPT ![Index(fw_rx)] = IF @ = None THEN None ELSE received']
    BY <1>4 DEF CardRx
  <2>2. received' \in 0 .. load.rx
    BY <1>0, <2>1
  <2>3. rx_buf_list' \in [Slots -> 0 .. load.rx \union {None}]
    BY <2>1, <2>2 DEF RxTyped
  <2> QED BY <1>0, <2>1, <2>2, <2>3 DEF RxTyped, Pointer, Span
<1>5. CASE Pass \/ Send \/ CardTx \/ UNCHANGED vars \/ \E w \in Workers : WorkStart(w) \/ WorkEnd(w)
  <2>1. UNCHANGED <<load, use_adma, rx_buf_list, received, rxwork>>
    BY <1>5 DEF Pass, ReadTxRdptr, FreeTxBuf, SettleTx, AgainTx, Send, SendStart, SendRoom, SendFull,
                SendMapFails, SendAttach, SendSent, MainEnd, CardTx, vars, WorkStart, WorkEnd, rxvars
  <2> QED BY <2>1, <1>a
<1> QED BY <1>1, <1>2, <1>3, <1>4, <1>5 DEF Next, Receive

\* What holds initially.
LEMMA InitTyped ==
  ASSUME Init
  PROVE  FlagsTyped /\ RunTyped /\ RxTyped
<1>1. load.tx \in Nat /\ load.rx \in Nat
  BY RingAssumption DEF Init
<1>2. 0 \in Pointer /\ N \in Nat
  BY PointersAre, RingAssumption DEF Init, Pointer
<1>3. FlagsTyped
  <2>1. data_sent \in BOOLEAN /\ more_tx_task_flag \in BOOLEAN /\ rxsched \in BOOLEAN
    BY DEF Init
  <2>2. last \in {"sent", "full", "unmapped"} /\ sched \subseteq Workers /\ running \subseteq Workers
    BY DEF Init
  <2>3. next \in 1 .. load.tx + 1
    <3>1. next = 1
      BY DEF Init
    <3> QED BY <1>1, <3>1
  <2> QED BY <2>1, <2>2, <2>3 DEF FlagsTyped
<1>4. RunTyped
  BY <1>2 DEF Init, RunTyped, NoPass
<1>5. RxTyped
  BY <1>1, <1>2 DEF Init, RxTyped
<1> QED BY <1>3, <1>4, <1>5

\* The count of what is pending has two parts, each at most N.
LEMMA PendingBounded ==
  ASSUME RingInv, PendingCounts, RunTyped
  PROVE  txbd_pending \in 0 .. 2 * N /\ pass.unmap_count \in 0 .. N
<1>1. N \in Nat /\ N \in Nat \ {0}
  BY RingAssumption
<1>2. IsFiniteSet(0 .. N - 1) /\ Cardinality(0 .. N - 1) = N
  <2>1. 0 \in Int /\ N - 1 \in Int /\ N - 1 >= 0
    BY <1>1
  <2>2. Cardinality(0 .. N - 1) = N - 1 - 0 + 1
    BY <2>1, FS_Interval
  <2> QED BY <1>1, <2>1, <2>2, FS_Interval
<1>3. Cardinality(Buffers) \in Nat /\ Cardinality(Buffers) <= N
  <2>1. Buffers \subseteq 0 .. N - 1
    BY DEF Buffers, Slots
  <2> QED BY <1>2, <2>1, FS_Subset, BuffersFinite
<1>4. pass.unmap_count \in Nat /\ pass.unmap_count <= N
  BY DEF RingInv, ThreadsInv, RunTyped
<1> QED BY <1>1, <1>3, <1>4 DEF PendingCounts

\* The types of the data rings.
LEMMA DataTyped ==
  ASSUME RingInv, RxInv, PendingCounts, FlagsTyped, RunTyped, RxTyped
  PROVE  TypeOK
<1>1. load \in Loads /\ use_adma \in BOOLEAN
  BY DEF RingInv, SlotsInv, PointersInv
<1>2. {txbd_wrptr, txbd_rdptr, reg_tx, fw_tx, rxbd_rdptr, rxbd_wrptr, reg_rx,
       fw_rx, pass.rdptr, rxwork.rdptr} \subseteq 0 .. Span - 1
  BY DEF RingInv, PointersInv, RxInv, RxPointersInv, RunTyped, RxTyped, Pointer
<1>3. tx_buf_list \in [Slots -> Packet \union {None}] /\ main.pmbuf \in Packet \union {None}
      /\ main.pc \in {"idle", "room", "map", "full", "sent", "end"}
      /\ pass.pc \in {"none", "start", "free", "again"} /\ pass.by \in Workers \union {Main, None}
      /\ pcie_tx_processing \in BOOLEAN
  BY DEF RingInv, SlotsInv, ThreadsInv
<1>4. rxwork.pc \in {"idle", "loop", "attach", "oops"}
  BY DEF RxInv, RxPointersInv
<1>5. {data_sent, pcie_tx_processing, more_tx_task_flag, rxsched} \subseteq BOOLEAN
  BY <1>3, Zenon DEF FlagsTyped
<1> QED BY <1>1, <1>2, <1>3, <1>4, <1>5, PendingBounded DEF TypeOK, FlagsTyped, RxTyped

\* They hold in every state of the rings.
LEMMA DataTypes == Spec => []TypeOK
<1> DEFINE Typed == RingInv /\ RxInv /\ FlagsTyped /\ RunTyped /\ RxTyped
<1>1. Init => Typed
  BY InitRing, InitRx, InitTyped
<1>2. Typed /\ [Next]_vars => Typed'
  BY RingStep, RxStep, FlagsStep, RunStep, RxTypedStep
<1>3. Typed /\ PendingCounts => TypeOK
  BY DataTyped
<1> HIDE DEF Typed
<1> QED BY <1>1, <1>2, <1>3, RingCounts, PTL DEF Spec

\* The causes of events are among those raised.
CausesTyped ==
  /\ content \in [Buffer -> 0 .. raised] /\ event_cause \in 0 .. raised
  /\ evtmain.cause \in 0 .. raised /\ handled \in Seq(1 .. raised)
  /\ more_event_flag \in BOOLEAN /\ evtsched \in BOOLEAN

\* The causes are kept typed by every step of the event ring.
LEMMA CausesStep ==
  ASSUME EvtInv, CausesTyped,
         EventWorkRun \/ EvtReader \/ EvtMain \/ CardEvent \/ UNCHANGED evtvars
  PROVE  CausesTyped'
<1>0. raised \in Nat /\ 0 \in 0 .. raised
  BY DEF EvtInv, EvtOrderInv
<1>a. ASSUME UNCHANGED <<content, event_cause, handled, raised, evtsched>>,
             evtmain'.cause = evtmain.cause \/ evtmain'.cause = 0, more_event_flag' \in BOOLEAN
      PROVE  CausesTyped'
  BY <1>0, <1>a DEF CausesTyped
<1>b. ASSUME NEW t, EnterEvent(t) PROVE more_event_flag' \in BOOLEAN
  BY <1>b DEF EnterEvent
<1>c. evtmain \in [pc : {"idle", "handle", "again", "read"}, cause : Nat, buf : Buffer \union {None}]
  BY DEF EvtInv, EvtThreadsInv
<1>1. CASE EventWorkRun
  BY <1>1, <1>b DEF EventWorkRun, CausesTyped
<1>2. CASE EvtReady
  <2> DEFINE b == evt_buf_list[EvtIndex(evtbd_rdptr)]
  <2>1. /\ evtbd_rdptr # fw_evt /\ event_cause' = content[b] /\ reader.pc = "ready"
        /\ UNCHANGED <<content, handled, raised, evtsched, evtmain, more_event_flag>>
    BY <1>2 DEF EvtReady
  <2>2. b \in Buffer
    <3>1. EvtFilled # 0 /\ EvtPosted > 0
      <4>1. /\ EvtSpan \in Nat /\ EvtSpan > 1 /\ EvtFilled \in Nat /\ EvtPosted \in Nat
            /\ evtbd_rdptr \in 0 .. EvtSpan - 1 /\ fw_evt \in 0 .. EvtSpan - 1
            /\ EvtFilled <= EvtPosted
        BY EvtFacts
      <4>2. Ahead(EvtSpan, evtbd_rdptr, fw_evt) # 0
        BY <2>1, <4>1, AheadFacts
      <4> QED BY <4>1, <4>2 DEF EvtFilled
    <3>2. EvtRing[0] # None
      BY <2>1, <3>1, EvtFacts DEF EvtInv, EvtBuffersInv, Publishing
    <3>3. EvtRing[0] = b /\ EvtIndex(evtbd_rdptr) \in EvtSlots
      BY EvtFacts, EvtSlotFacts DEF EvtRing
    <3> QED BY <3>2, <3>3 DEF EvtInv, EvtBuffersInv
  <2>3. event_cause' \in 0 .. raised
    BY <2>1, <2>2 DEF CausesTyped
  <2> QED BY <2>1, <2>3 DEF CausesTyped
<1>3. CASE EvtPublish \/ EvtNone
  BY <1>3, <1>a DEF EvtPublish, EvtNone, CausesTyped
<1>4. CASE EvtCheck
  BY <1>4, <1>a DEF EvtCheck, CausesTyped
<1>5. CASE TakeEvent
  <2>1. event_cause \in 1 .. raised
    BY <1>5 DEF TakeEvent, CausesTyped, EvtInv, EvtThreadsInv
  <2>2. handled' \in Seq(1 .. raised)
    BY <1>5, <2>1 DEF TakeEvent, CausesTyped
  <2> QED BY <1>5, <2>2 DEF TakeEvent, CausesTyped
<1>6. CASE CompleteEvent
  <2>1. event_cause' = 0 /\ evtmain'.cause = 0
        /\ UNCHANGED <<content, handled, raised, evtsched, more_event_flag>>
    BY <1>6 DEF CompleteEvent, NoEvent
  <2> QED BY <1>0, <2>1 DEF CausesTyped
<1>7. CASE AgainEvent
  <2>1. evtmain'.cause = evtmain.cause
    BY <1>7, <1>c DEF AgainEvent
  <2> QED BY <1>7, <1>a, <1>b, <2>1 DEF AgainEvent
<1>8. CASE DoneEvent
  BY <1>8, <1>a DEF DoneEvent, NoEvent, CausesTyped
<1>9. CASE CardEvent
  <2>1. /\ raised' = raised + 1 /\ evtsched' = TRUE
        /\ UNCHANGED <<event_cause, handled, evtmain, more_event_flag>>
        /\ \E b : content' = IF b = None THEN content ELSE [content EXCEPT ![b] = raised + 1]
    BY <1>9 DEF CardEvent
  <2>2. 0 .. raised \subseteq 0 .. raised' /\ 1 .. raised \subseteq 1 .. raised'
        /\ raised + 1 \in 0 .. raised'
    BY <1>0, <2>1
  <2>3. content' \in [Buffer -> 0 .. raised']
    BY <2>1, <2>2 DEF CausesTyped
  <2>4. handled' \in Seq(1 .. raised')
    <3>1. handled \in Seq(1 .. raised) /\ handled' = handled
      BY <2>1 DEF CausesTyped
    <3>2. 1 .. raised \subseteq 1 .. raised'
      BY <2>2
    <3> QED BY <3>1, <3>2, SeqMonotonic
  <2> QED BY <2>1, <2>2, <2>3, <2>4 DEF CausesTyped
<1>10. CASE UNCHANGED evtvars
  BY <1>10, <1>a DEF evtvars, CausesTyped
<1> QED BY <1>1, <1>2, <1>3, <1>4, <1>5, <1>6, <1>7, <1>8, <1>9, <1>10 DEF EvtReader, EvtMain

\* The types of the event ring.
LEMMA EventTyped == ASSUME EvtInv, CausesTyped PROVE EvtTypeOK
<1>1. {event_received, pcie_event_processing, more_event_flag, evtsched, overtaken} \subseteq BOOLEAN
  BY DEF EvtInv, EvtThreadsInv, CausesTyped
<1>2. {pmlan_buffer_event, reader.buf, evtmain.buf} \subseteq Buffer \union {None}
      /\ reader.pc \in {"none", "ready", "publish", "check"} /\ reader.by \in {Main, EventWork, None}
      /\ evtmain.pc \in {"idle", "handle", "again", "read"}
  BY DEF EvtInv, EvtThreadsInv
<1>3. {evtbd_rdptr, evtbd_wrptr, fw_evt} \subseteq 0 .. EvtSpan - 1
      /\ evt_buf_list \in [EvtSlots -> Buffer \union {None}] /\ evtlost \subseteq Buffer
  BY DEF EvtInv, EvtPointersInv, EvtBuffersInv
<1> QED BY <1>1, <1>2, <1>3 DEF EvtTypeOK, CausesTyped

\* txbd_pending, which wlan_pcie_send_data_complete lowers by the buffers it took back,
\* is never negative nor more than two rings, no run takes back more than a ring, and
\* every pointer, slot, flag and cause of the three rings has its type.
THEOREM PcieTyped == PcieSpec => []PcieTypeOK
<1>1. PcieInit => CausesTyped
  <2> SUFFICES ASSUME PcieInit PROVE CausesTyped
    OBVIOUS
  <2>1. content \in [Buffer -> 0 .. raised]
    BY DEF PcieInit, EvtInit
  <2>2. event_cause \in 0 .. raised /\ evtmain.cause \in 0 .. raised
    BY DEF PcieInit, EvtInit, NoEvent
  <2>3. handled \in Seq(1 .. raised)
    BY DEF PcieInit, EvtInit
  <2>4. more_event_flag \in BOOLEAN /\ evtsched \in BOOLEAN
    BY DEF PcieInit, EvtInit
  <2> QED BY <2>1, <2>2, <2>3, <2>4 DEF CausesTyped
<1>2. EvtInv /\ CausesTyped /\ [PcieNext]_allvars => CausesTyped'
  <2> SUFFICES ASSUME EvtInv, CausesTyped, [PcieNext]_allvars PROVE CausesTyped'
    OBVIOUS
  <2>1. EventWorkRun \/ EvtReader \/ EvtMain \/ CardEvent \/ UNCHANGED evtvars
    BY DEF PcieNext, EventStep, MainHandles, allvars
  <2> QED BY <2>1, CausesStep
<1>3. EvtInv /\ CausesTyped /\ TypeOK => PcieTypeOK
  BY EventTyped DEF PcieTypeOK
<1> QED BY <1>1, <1>2, <1>3, DataTypes, EventsInvariant, PcieImplementsRing, PTL DEF PcieSpec

================================================================================
